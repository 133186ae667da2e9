------------------------- MODULE LineSession_proofs -------------------------
(***************************************************************************)
(* Proofs about TaggedSession and StepwiseSession, for every table that    *)
(* meets their assumptions, every number of messages and every way TCP may *)
(* cut them.                                                               *)
(***************************************************************************)
EXTENDS StepwiseSession, SequenceTheorems, TLAPS

\* Some atom of the sequence s is in K.
Has(s, K) == \E i \in 1..Len(s) : s[i] \in K

(***************************************************************************)
(* recv() takes the atoms of the stream in order: what is left comes after *)
(* what was returned, and only Text is new.                                *)
(***************************************************************************)
LEMMA SegmentParts ==
  ASSUME NEW stream \in Seq(STRING), NEW s \in Segments(stream)
  PROVE  \E k \in 1..Len(stream) :
           /\ s.got \in Seq(STRING) /\ Len(s.got) = k
           /\ s.left \in Seq(STRING)
           /\ \A i \in 1..k : s.got[i] = stream[i] \/ s.got[i] = Text
           /\ \A j \in 1..Len(s.left) :
                s.left[j] = Text \/ \E m \in (k + 1)..Len(stream) : s.left[j] = stream[m]
<1>1. CASE \E k \in 1..Len(stream) :
             s = [got  |-> SubSeq(stream, 1, k),
                  left |-> SubSeq(stream, k + 1, Len(stream))]
  <2>1. PICK k \in 1..Len(stream) :
             s = [got  |-> SubSeq(stream, 1, k),
                  left |-> SubSeq(stream, k + 1, Len(stream))]
    BY <1>1
  <2>2. /\ s.got \in Seq(STRING) /\ Len(s.got) = k
        /\ \A i \in 1..k : s.got[i] = stream[i]
    BY <2>1
  <2>3. /\ s.left \in Seq(STRING) /\ Len(s.left) = Len(stream) - k
        /\ \A i \in 1..Len(s.left) : s.left[i] = stream[k + i] /\ k + i \in (k + 1)..Len(stream)
    BY <2>1
  <2> QED BY <2>2, <2>3
<1>2. CASE \E k \in {i \in 1..Len(stream) : stream[i] \notin Byte} :
             s = [got  |-> Append(SubSeq(stream, 1, k - 1), Text),
                  left |-> <<Text>> \o SubSeq(stream, k + 1, Len(stream))]
  <2>1. PICK k \in 1..Len(stream) :
             s = [got  |-> Append(SubSeq(stream, 1, k - 1), Text),
                  left |-> <<Text>> \o SubSeq(stream, k + 1, Len(stream))]
    BY <1>2
  <2> DEFINE front == SubSeq(stream, 1, k - 1)
             rest  == SubSeq(stream, k + 1, Len(stream))
  <2>2. /\ front \in Seq(STRING) /\ Len(front) = k - 1
        /\ \A i \in 1..(k - 1) : front[i] = stream[i]
    OBVIOUS
  <2>3. /\ rest \in Seq(STRING) /\ Len(rest) = Len(stream) - k
        /\ \A i \in 1..Len(rest) : rest[i] = stream[k + i]
    OBVIOUS
  <2>4. /\ s.got \in Seq(STRING) /\ Len(s.got) = k /\ s.got[k] = Text
        /\ \A i \in 1..(k - 1) : s.got[i] = stream[i]
    BY <2>1, <2>2, TextAssumption
  <2>5. /\ s.left \in Seq(STRING) /\ Len(s.left) = Len(rest) + 1 /\ s.left[1] = Text
        /\ \A i \in 2..Len(s.left) : s.left[i] = rest[i - 1]
    BY <2>1, <2>3, TextAssumption
  <2>6. \A i \in 1..k : s.got[i] = stream[i] \/ s.got[i] = Text
    BY <2>4
  <2>7. ASSUME NEW j \in 1..Len(s.left), s.left[j] # Text
        PROVE  \E m \in (k + 1)..Len(stream) : s.left[j] = stream[m]
    <3>1. j \in 2..Len(s.left)
      BY <2>5, <2>7
    <3>2. s.left[j] = rest[j - 1]
      BY <3>1, <2>5
    <3>3. j - 1 \in 1..Len(rest)
      BY <3>1, <2>3, <2>5
    <3>4. s.left[j] = stream[k + (j - 1)] /\ k + (j - 1) \in (k + 1)..Len(stream)
      BY <3>2, <3>3, <2>3
    <3> QED BY <3>4
  <2> QED BY <2>4, <2>5, <2>6, <2>7
<1> QED BY <1>1, <1>2 DEF Segments

(***************************************************************************)
(* So cutting a message in two never makes a key.                          *)
(***************************************************************************)
LEMMA SegmentKeys ==
  ASSUME NEW stream \in Seq(STRING), NEW s \in Segments(stream),
         NEW K, Text \notin K
  PROVE  /\ s.got \in Seq(STRING)
         /\ s.left \in Seq(STRING)
         /\ Has(s.got, K) => Has(stream, K)
         /\ Has(s.left, K) => Has(stream, K)
<1>1. PICK k \in 1..Len(stream) :
           /\ s.got \in Seq(STRING) /\ Len(s.got) = k
           /\ s.left \in Seq(STRING)
           /\ \A i \in 1..k : s.got[i] = stream[i] \/ s.got[i] = Text
           /\ \A j \in 1..Len(s.left) :
                s.left[j] = Text \/ \E m \in (k + 1)..Len(stream) : s.left[j] = stream[m]
  BY SegmentParts
<1>2. ASSUME NEW i \in 1..Len(s.got), s.got[i] \in K
      PROVE  Has(stream, K)
  <2>1. i \in 1..k /\ i \in 1..Len(stream) /\ s.got[i] # Text
    BY <1>1, <1>2
  <2>2. stream[i] \in K
    BY <1>1, <1>2, <2>1
  <2> QED BY <2>1, <2>2 DEF Has
<1>3. ASSUME NEW j \in 1..Len(s.left), s.left[j] \in K
      PROVE  Has(stream, K)
  <2>1. PICK m \in (k + 1)..Len(stream) : s.left[j] = stream[m]
    BY <1>1, <1>3
  <2>2. m \in 1..Len(stream) /\ stream[m] \in K
    BY <2>1, <1>3
  <2> QED BY <2>2 DEF Has
<1> QED BY <1>1, <1>2, <1>3 DEF Has

(***************************************************************************)
(* The server's messages: writing one to the stream keeps the stream a     *)
(* sequence, and a key in it comes from the old stream or the new message. *)
(***************************************************************************)
LEMMA WriteKeys ==
  ASSUME NEW old \in Seq(STRING), NEW text \in Seq(STRING), NEW K
  PROVE  /\ old \o text \in Seq(STRING)
         /\ Has(old \o text, K) => Has(old, K) \/ Has(text, K)
<1>1. /\ Len(old \o text) = Len(old) + Len(text)
      /\ \A i \in 1..Len(old \o text) :
           (old \o text)[i] = IF i <= Len(old) THEN old[i] ELSE text[i - Len(old)]
  OBVIOUS
<1>2. ASSUME NEW i \in 1..Len(old \o text), (old \o text)[i] \in K
      PROVE  Has(old, K) \/ Has(text, K)
  <2>1. CASE i <= Len(old)
    BY <1>1, <1>2, <2>1 DEF Has
  <2>2. CASE i > Len(old)
    <3>1. i - Len(old) \in 1..Len(text) /\ text[i - Len(old)] \in K
      BY <1>1, <1>2, <2>2
    <3> QED BY <3>1 DEF Has
  <2> QED BY <2>1, <2>2
<1> QED BY <1>2 DEF Has

(***************************************************************************)
(* The client's judgement of a response: from a stage before the gate it   *)
(* goes on before the gate or to a bad end, unless the response shows a    *)
(* key; it only ever sees the atoms of the response.                       *)
(***************************************************************************)
LEMMA JudgedUndecided ==
  ASSUME check \in Tagged, NEW response \in Seq(STRING),
         At("recv"), NEW to \in Judged(check, pc, response)
  PROVE  \/ to \in Undecided(check)
         \/ pc \notin Undecided(check)
         \/ Has(response, Key[check])
<1> SUFFICES ASSUME pc \in Undecided(check)
             PROVE  to \in Undecided(check) \/ Has(response, Key[check])
  OBVIOUS
<1>1. pc \in Before[check] /\ Step.op = "recv"
  BY TaggedAssumption, StageAssumption DEF Undecided, At, BadEnd
<1>2. /\ Step.otherwise \in Before[check] \cup BadEnd
      /\ \A o \in Step.on : \/ o.to \in Before[check] \cup BadEnd
                            \/ o.shows \cap Key[check] # {}
  BY <1>1, GateAssumption, Zenon DEF Step
<1>3. CASE to = Step.otherwise
  BY <1>2, <1>3 DEF Undecided
<1>4. CASE \E o \in Step.on : o.shows \subseteq Shown(check, response) /\ to = o.to
  <2>1. PICK o \in Step.on : o.shows \subseteq Shown(check, response) /\ to = o.to
    BY <1>4
  <2>2. CASE o.to \in Before[check] \cup BadEnd
    BY <2>1, <2>2 DEF Undecided
  <2>3. CASE o.shows \cap Key[check] # {}
    <3>1. \E a \in Shown(check, response) : a \in Key[check]
      BY <2>1, <2>3
    <3>2. Shown(check, response) \subseteq {response[i] : i \in 1..Len(response)}
      BY DEF Shown
    <3> QED BY <3>1, <3>2 DEF Has
  <2> QED BY <1>2, <2>2, <2>3
<1> QED BY <1>3, <1>4 DEF Judged, Step

-----------------------------------------------------------------------------
LEMMA InitIInv == Init => IInv
<1> SUFFICES ASSUME Init PROVE IInv
  OBVIOUS
<1>1. inbox = <<>> /\ cmds = <<>> /\ pc = "dial" /\ granted = FALSE
  BY DEF Init
<1>2. inbox \in Seq(STRING) /\ Len(inbox) = 0
  BY <1>1
<1>3. cmds \in Seq(DOMAIN Answer[check])
  BY <1>1
<1>4. TypeOK
  BY <1>2, <1>3 DEF Init, TypeOK
<1>5. KeyMeansGranted
  BY <1>1, <1>2 DEF KeyMeansGranted, Undecided
<1> QED BY <1>4, <1>5 DEF IInv

(***************************************************************************)
(* Every step keeps the invariant.  Only a message of the server puts a    *)
(* key on its way, and only a response that shows one leaves the gate.     *)
(***************************************************************************)
LEMMA NextIInv == IInv /\ [Next]_vars => IInv'
<1> SUFFICES ASSUME IInv, [Next]_vars
             PROVE  IInv'
  OBVIOUS
<1> USE DEF IInv, TypeOK, KeyMeansGranted
<1>1. CASE Dial
  <2>1. check \in Tagged => pc' \in Undecided(check)
    BY <1>1, ScriptAssumption DEF Dial, Undecided, BadEnd, Done, ExitCode, peer
  <2> QED BY <1>1, <2>1 DEF Dial, peer, Undecided
<1>2. CASE Send
  <2>1. pc \in DOMAIN Script[check] /\ Step.op = "send"
    BY <1>2 DEF Send, At
  <2>2. cmds' \in Seq(DOMAIN Answer[check])
    <3>1. Step.cmd \in DOMAIN Answer[check]
      BY <2>1, CommandAssumption, Zenon DEF Step
    <3>2. cmds' = Append(cmds, Step.cmd) \/ cmds' = cmds
      BY <1>2 DEF Send, Sent
    <3> QED BY <3>1, <3>2, AppendProperties, SMTT(60)
  <2>3. pc' = Step.next \/ pc' \in {"CRITICAL", "SIGPIPE"}
    BY <1>2 DEF Send
  <2>4. check \in Tagged /\ pc \in Undecided(check) => pc' \in Undecided(check)
    <3> SUFFICES ASSUME check \in Tagged, pc \in Undecided(check)
                 PROVE  pc' \in Undecided(check)
      OBVIOUS
    <3>1. CASE pc \in Before[check]
      <4>1. Step.next \in Before[check] \cup BadEnd
        BY <2>1, <3>1, GateAssumption, Zenon DEF Step
      <4> QED BY <4>1, <2>3 DEF Undecided, BadEnd, Done, ExitCode
    <3>2. CASE pc \notin Before[check]
      BY <2>1, <3>2, StageAssumption DEF Undecided, BadEnd
    <3> QED BY <3>1, <3>2
  <2> QED BY <1>2, <2>2, <2>4 DEF Send, peer, Undecided
<1>3. CASE Recv
  <2>1. PICK s \in Segments(inbox) : pc' \in Judged(check, pc, s.got) /\ inbox' = s.left
    BY <1>3 DEF Recv
  <2>2. s.got \in Seq(STRING) /\ s.left \in Seq(STRING)
    <3>1. Text \notin {}
      OBVIOUS
    <3> QED BY <3>1, SegmentKeys
  <2>3. ASSUME check \in Tagged
        PROVE  /\ Has(s.got, Key[check]) => Has(inbox, Key[check])
               /\ Has(s.left, Key[check]) => Has(inbox, Key[check])
    <3>1. Text \notin Key[check]
      BY <2>3, KeyAssumption
    <3> QED BY <3>1, SegmentKeys
  <2>4. \/ check \notin Tagged
        \/ pc' \in Undecided(check)
        \/ pc \notin Undecided(check)
        \/ Has(s.got, Key[check])
    BY <1>3, <2>1, <2>2, JudgedUndecided DEF Recv
  <2>5. check \in Tagged /\ pc' \notin Undecided(check) => granted
    BY <2>3, <2>4 DEF Has
  <2>6. check \in Tagged /\ (\E i \in 1..Len(inbox') : inbox'[i] \in Key[check]) => granted
    BY <2>1, <2>3 DEF Has
  <2> QED BY <1>3, <2>1, <2>2, <2>5, <2>6 DEF Recv, peer, Undecided
<1>4. CASE Timeout \/ Hangup
  <2>1. At("recv") /\ pc' \in Judged(check, pc, <<>>)
    BY <1>4 DEF Timeout, Hangup, EmptyResponse
  <2>2. check \in Tagged => pc' \in Undecided(check) \/ pc \notin Undecided(check)
    <3>1. <<>> \in Seq(STRING) /\ ~Has(<<>>, Key[check])
      BY DEF Has
    <3> QED BY <2>1, <3>1, JudgedUndecided
  <2> QED BY <1>4, <2>2 DEF Timeout, Hangup, peer, Undecided
<1>5. CASE Greet
  <2>1. PICK r \in Greeting[check][healthy] : Write(r)
    BY <1>5 DEF Greet
  <2>2. /\ r.text \in Seq(STRING) /\ r.grants \in BOOLEAN
        /\ check \in Tagged /\ Has(r.text, Key[check]) => r.grants
    BY <2>1, KeyAssumption DEF Has
  <2>3. /\ inbox' \in Seq(STRING)
        /\ Has(inbox', Key[check]) => Has(inbox, Key[check]) \/ Has(r.text, Key[check])
    BY <2>1, <2>2, WriteKeys DEF Write
  <2>4. granted' = (granted \/ r.grants)
    BY <2>1 DEF Write
  <2> QED BY <1>5, <2>2, <2>3, <2>4 DEF Greet, Undecided, Has
<1>6. CASE Reply
  <2>1. PICK r \in Answer[check][Head(cmds)][healthy] : Write(r)
    BY <1>6 DEF Reply
  <2>2. Head(cmds) \in DOMAIN Answer[check] /\ Tail(cmds) \in Seq(DOMAIN Answer[check])
    BY <1>6 DEF Reply
  <2>3. /\ r.text \in Seq(STRING) /\ r.grants \in BOOLEAN
        /\ check \in Tagged /\ Has(r.text, Key[check]) => r.grants
    BY <2>1, <2>2, KeyAssumption DEF Has
  <2>4. /\ inbox' \in Seq(STRING)
        /\ Has(inbox', Key[check]) => Has(inbox, Key[check]) \/ Has(r.text, Key[check])
    BY <2>1, <2>3, WriteKeys DEF Write
  <2>5. granted' = (granted \/ r.grants)
    BY <2>1 DEF Write
  <2> QED BY <1>6, <2>2, <2>3, <2>4, <2>5 DEF Reply, Undecided, Has
<1>7. CASE Reset
  <2>1. PICK k \in 0..Len(inbox) : inbox' = SubSeq(inbox, 1, k)
    BY <1>7 DEF Reset
  <2>2. /\ inbox' \in Seq(STRING) /\ Len(inbox') = k
        /\ \A i \in 1..k : inbox'[i] = inbox[i]
    BY <2>1
  <2>3. Has(inbox', Key[check]) => Has(inbox, Key[check])
    BY <2>2 DEF Has
  <2> QED BY <1>7, <2>2, <2>3 DEF Reset, peer, Undecided, Has
<1>8. CASE Close \/ ResetBack
  BY <1>8 DEF Close, ResetBack, peer, Undecided
<1>9. CASE Exited \/ UNCHANGED vars
  BY <1>9 DEF Exited, vars, Undecided
<1> QED
  BY <1>1, <1>2, <1>3, <1>4, <1>5, <1>6, <1>7, <1>8, <1>9
     DEF Next, Client, Environment

(***************************************************************************)
(* The invariant holds of every behaviour.                                 *)
(***************************************************************************)
THEOREM KeyMeansGrantedHolds == Spec => []IInv
<1> QED BY InitIInv, NextIInv, PTL DEF Spec

(***************************************************************************)
(* No false OK, whatever TCP does to the replies (checkImap, checkSmtp,    *)
(* checkSsh, checkIrcd, check_jabber's check, checkTelnet with -e).        *)
(***************************************************************************)
THEOREM NoFalseOk == Spec => []TaggedOkGranted
<1>1. IInv => TaggedOkGranted
  BY ScriptAssumption DEF IInv, KeyMeansGranted, TaggedOkGranted, Done, ExitCode, Undecided, BadEnd
<1> QED BY <1>1, KeyMeansGrantedHolds, PTL

(***************************************************************************)
(* The session implements the abstract check: it ends at most once, and    *)
(* with OK only when the server has granted.                               *)
(***************************************************************************)
THEOREM SessionImplementsVerdict == Spec => ImplementsSafely
<1>0. \A x \in Done : x # "running"
  BY DEF Done, ExitCode
<1>1. Init => Verdict!Init
  BY DEF Init, Verdict!Init, Done, ExitCode
<1>2. IInv /\ IInv' /\ [Next]_vars => [Verdict!Next]_(Verdict!vars)
  <2> SUFFICES ASSUME IInv, IInv', [Next]_vars
               PROVE  [Verdict!Next]_(Verdict!vars)
    OBVIOUS
  <2>1. CASE Client
    <3>1. pc \notin Done /\ UNCHANGED granted
      BY <2>1, StageAssumption
         DEF Client, Dial, Send, Recv, Timeout, Hangup, At, Done, ExitCode, peer, IInv, TypeOK
    <3>2. UNCHANGED check
      BY <2>1 DEF Client, Dial, Send, Recv, Timeout, Hangup, peer
    <3>3. check \in Tagged /\ pc' = "OK" => granted
      BY <3>1, <3>2, ScriptAssumption
         DEF IInv, KeyMeansGranted, Undecided, BadEnd, Done, ExitCode
    <3>4. CASE pc' \in Done /\ check \in Tagged
      BY <3>1, <3>2, <3>3, <3>4 DEF Verdict!Next, Verdict!Report, Verdict!vars
    <3>5. CASE ~(pc' \in Done /\ check \in Tagged)
      BY <3>1, <3>2, <3>5 DEF Verdict!vars
    <3> QED BY <3>4, <3>5
  <2>2. CASE Greet \/ Reply
    <3>1. pc \notin Done /\ UNCHANGED <<pc, check>> /\ (granted => granted')
          /\ granted \in BOOLEAN /\ granted' \in BOOLEAN
      BY <2>2 DEF Greet, Reply, Live, Write, IInv, TypeOK
    <3>2. CASE granted' = TRUE
      BY <3>1, <3>2 DEF Verdict!Next, Verdict!Serve, Verdict!vars
    <3>3. CASE granted' = FALSE
      BY <3>1, <3>3 DEF Verdict!vars
    <3> QED BY <3>1, <3>2, <3>3
  <2>3. CASE Close \/ Reset \/ ResetBack \/ Exited \/ UNCHANGED vars
    BY <2>3 DEF Close, Reset, ResetBack, Exited, vars, peer, Verdict!vars
  <2> QED BY <2>1, <2>2, <2>3 DEF Next, Environment
<1> QED BY <1>1, <1>2, KeyMeansGrantedHolds, PTL DEF Spec, Verdict!Spec, ImplementsSafely
-----------------------------------------------------------------------------
(* StepwiseSession: one mark, and one message, at a time. *)

(***************************************************************************)
(* The scripts: a step reads or sends, never both, and is no way to end.   *)
(***************************************************************************)
LEMMA Turns ==
  ASSUME NEW c \in Stepwise \cup Answerable, NEW s \in DOMAIN Script[c]
  PROVE  /\ Sends(c, s) \/ Reads(c, s)
         /\ ~(Sends(c, s) /\ Reads(c, s))
         /\ Sends(c, s) => Reads(c, Script[c][s].next)
         /\ s \notin Done \cup {"dial"}
<1>1. c \in Check /\ (Reads(c, s) \/ Sends(c, s))
      /\ (Sends(c, s) => Reads(c, Script[c][s].next))
  BY AlternationAssumption
<1>2. s \notin Done \cup {"dial"}
  BY <1>1, StageAssumption
<1> QED BY <1>1, <1>2 DEF Sends, Reads

\* An empty response passes no test.
LEMMA JudgedEmpty ==
  ASSUME NEW c \in Check, NEW s \in DOMAIN Script[c], NEW to \in Judged(c, s, <<>>)
  PROVE  to = Script[c][s].otherwise
BY DEF Judged

(***************************************************************************)
(* What a server may say in a reading step has the types of its messages.  *)
(***************************************************************************)
LEMMA HeardTypes ==
  ASSUME NEW c \in Check, NEW s \in DOMAIN Script[c], NEW h \in BOOLEAN,
         NEW r \in Heard(c, s, h)
  PROVE  r.text \in Seq(STRING) /\ r.grants \in BOOLEAN
<1>1. CASE r \in Greeting[c][h]
  BY <1>1, KeyAssumption
<1>2. CASE \E u \in DOMAIN Script[c] : Sends(c, u) /\ r \in Answer[c][Script[c][u].cmd][h]
  <2>1. PICK u \in DOMAIN Script[c] : Sends(c, u) /\ r \in Answer[c][Script[c][u].cmd][h]
    BY <1>2
  <2>2. Script[c][u].cmd \in DOMAIN Answer[c]
    BY <2>1, CommandAssumption DEF Sends
  <2> QED BY <2>1, <2>2, KeyAssumption
<1> QED BY <1>1, <1>2 DEF Heard

(***************************************************************************)
(* When one mark is on its way and a response shows it, none is left.      *)
(***************************************************************************)
LEMMA SegmentMarks ==
  ASSUME NEW c \in Stepwise, NEW stream \in Seq(STRING), NEW s \in Segments(stream)
  PROVE  /\ s.got \in Seq(STRING) /\ s.left \in Seq(STRING)
         /\ \A i \in 1..Len(s.got) : s.got[i] \in Mark[c] =>
              \E j \in 1..Len(stream) : stream[j] = s.got[i]
         /\ OneMark(c, stream) /\ Marked(c, s.got) => ~Marked(c, s.left)
<1>0. Text \notin Mark[c]
  BY MarkAssumption
<1>1. PICK k \in 1..Len(stream) :
           /\ s.got \in Seq(STRING) /\ Len(s.got) = k
           /\ s.left \in Seq(STRING)
           /\ \A i \in 1..k : s.got[i] = stream[i] \/ s.got[i] = Text
           /\ \A j \in 1..Len(s.left) :
                s.left[j] = Text \/ \E m \in (k + 1)..Len(stream) : s.left[j] = stream[m]
  BY SegmentParts
<1>2. ASSUME NEW i \in 1..Len(s.got), s.got[i] \in Mark[c]
      PROVE  i \in 1..k /\ i \in 1..Len(stream) /\ stream[i] = s.got[i]
  <2>1. i \in 1..k /\ i \in 1..Len(stream)
    BY <1>1
  <2>2. s.got[i] # Text
    BY <1>0, <1>2
  <2> QED BY <1>1, <2>1, <2>2
<1>3. ASSUME OneMark(c, stream),
             NEW i \in 1..Len(s.got), s.got[i] \in Mark[c],
             NEW j \in 1..Len(s.left), s.left[j] \in Mark[c]
      PROVE  FALSE
  <2>1. i \in 1..k /\ i \in 1..Len(stream) /\ stream[i] \in Mark[c]
    BY <1>2, <1>3
  <2>2. s.left[j] # Text
    BY <1>0, <1>3
  <2>3. PICK m \in (k + 1)..Len(stream) : s.left[j] = stream[m]
    BY <1>1, <2>2
  <2>4. m \in 1..Len(stream) /\ stream[m] \in Mark[c] /\ m # i
    BY <2>1, <2>3, <1>3
  <2> QED BY <2>1, <2>4, <1>3 DEF OneMark
<1> QED BY <1>1, <1>2, <1>3 DEF Marked

(***************************************************************************)
(* A response that ends where a message ends is the whole message, when no *)
(* other is on its way.                                                    *)
(***************************************************************************)
LEMMA WholeSegment ==
  ASSUME NEW text \in Seq(STRING), NEW s \in Segments(text), Whole(s.got), Text # End,
         \A i \in 1..Len(text) : text[i] = End <=> i = Len(text)
  PROVE  s.got = text /\ s.left = <<>>
<1>1. CASE \E k \in 1..Len(text) :
             s = [got  |-> SubSeq(text, 1, k),
                  left |-> SubSeq(text, k + 1, Len(text))]
  <2>1. PICK k \in 1..Len(text) :
             s = [got  |-> SubSeq(text, 1, k),
                  left |-> SubSeq(text, k + 1, Len(text))]
    BY <1>1
  <2>2. Len(s.got) = k /\ s.got[k] = text[k]
    BY <2>1
  <2>3. k = Len(text)
    BY <2>2 DEF Whole
  <2>4. s.got = SubSeq(text, 1, Len(text)) /\ s.left = SubSeq(text, Len(text) + 1, Len(text))
    BY <2>1, <2>3
  <2>5. SubSeq(text, 1, Len(text)) = text
    OBVIOUS
  <2>6. SubSeq(text, Len(text) + 1, Len(text)) = <<>>
    OBVIOUS
  <2> QED BY <2>4, <2>5, <2>6, Zenon
<1>2. CASE \E k \in {i \in 1..Len(text) : text[i] \notin Byte} :
             s = [got  |-> Append(SubSeq(text, 1, k - 1), Text),
                  left |-> <<Text>> \o SubSeq(text, k + 1, Len(text))]
  <2>1. PICK k \in 1..Len(text) :
             s.got = Append(SubSeq(text, 1, k - 1), Text)
    BY <1>2, SMTT(60)
  <2>2. SubSeq(text, 1, k - 1) \in Seq(STRING) /\ Len(SubSeq(text, 1, k - 1)) = k - 1
    OBVIOUS
  <2>3. Len(s.got) = k /\ s.got[k] = Text
    BY <2>1, <2>2, TextAssumption
  <2> QED BY <2>3 DEF Whole
<1> QED BY <1>1, <1>2 DEF Segments

(***************************************************************************)
(* Writing a message behind atoms none of which is a mark, and losing the  *)
(* end of the stream: the marks that are then on their way.                *)
(***************************************************************************)
LEMMA WriteMarks ==
  ASSUME NEW c \in Stepwise, NEW old \in Seq(STRING), NEW text \in Seq(STRING),
         ~Marked(c, old), OneMark(c, text)
  PROVE  /\ OneMark(c, old \o text)
         /\ \A i \in 1..Len(old \o text) : (old \o text)[i] \in Mark[c] =>
              \E j \in 1..Len(text) : text[j] = (old \o text)[i]
<1>1. /\ Len(old \o text) = Len(old) + Len(text)
      /\ \A i \in 1..Len(old \o text) :
           (old \o text)[i] = IF i <= Len(old) THEN old[i] ELSE text[i - Len(old)]
  OBVIOUS
<1>2. ASSUME NEW i \in 1..Len(old \o text), (old \o text)[i] \in Mark[c]
      PROVE  /\ i > Len(old) /\ i - Len(old) \in 1..Len(text)
             /\ text[i - Len(old)] = (old \o text)[i]
  <2>1. i > Len(old)
    <3>1. CASE i <= Len(old)
      <4>1. i \in 1..Len(old) /\ old[i] \in Mark[c]
        BY <1>1, <1>2, <3>1
      <4> QED BY <4>1 DEF Marked
    <3> QED BY <3>1
  <2> QED BY <2>1, <1>1
<1>3. ASSUME NEW i \in 1..Len(old \o text), (old \o text)[i] \in Mark[c],
             NEW j \in 1..Len(old \o text), (old \o text)[j] \in Mark[c]
      PROVE  i = j
  <2>1. /\ i - Len(old) \in 1..Len(text) /\ text[i - Len(old)] \in Mark[c]
        /\ j - Len(old) \in 1..Len(text) /\ text[j - Len(old)] \in Mark[c]
    BY <1>2, <1>3
  <2>2. i - Len(old) = j - Len(old)
    BY <2>1 DEF OneMark
  <2> QED BY <2>2
<1> QED BY <1>2, <1>3 DEF OneMark

LEMMA PrefixMarks ==
  ASSUME NEW c \in Stepwise, NEW old \in Seq(STRING), NEW k \in 0..Len(old)
  PROVE  LET short == SubSeq(old, 1, k) IN
         /\ OneMark(c, old) => OneMark(c, short)
         /\ Len(short) = k
         /\ \A i \in 1..k : i \in 1..Len(old) /\ short[i] = old[i]
<1> DEFINE short == SubSeq(old, 1, k)
<1>1. Len(short) = k /\ \A i \in 1..k : i \in 1..Len(old) /\ short[i] = old[i]
  OBVIOUS
<1>2. OneMark(c, old) => OneMark(c, short)
  BY <1>1 DEF OneMark
<1> QED BY <1>1, <1>2
(***************************************************************************)
(* No step changes which check runs, or what its service is like.          *)
(***************************************************************************)
LEMMA SameCheck ==
  ASSUME IInv, [Next]_vars
  PROVE  /\ check' = check /\ healthy' = healthy
         /\ check \in Check /\ healthy \in BOOLEAN
         /\ inbox \in Seq(STRING) /\ cmds \in Seq(DOMAIN Answer[check])
<1>1. check' = check /\ healthy' = healthy
  BY DEF Next, Client, Environment, Dial, Send, Recv, Timeout, Hangup, Greet, Reply,
         Close, Reset, ResetBack, Exited, peer, vars
<1> QED BY <1>1 DEF IInv, TypeOK

(***************************************************************************)
(* Each part of StepInv, after a step that ends a stepwise check, and      *)
(* after a message that a test waits for.                                  *)
(***************************************************************************)
LEMMA StepEnds ==
  ASSUME check \in Stepwise, check \in Check, check' = check, pc' \in ExitCode,
         check \in Login /\ pc' \notin BadEnd => granted'
  PROVE  StepInv'
<1>1. pc' \notin DOMAIN Script[check]
  BY StageAssumption DEF Done
<1>2. ~Sends(check, pc') /\ ~Asks(check, pc')
  BY <1>1 DEF Sends, Asks, Reads
<1>3. pc' # "SIGPIPE"
  BY DEF ExitCode
<1>4. check \in Login /\ pc' \notin Undecided(check) => granted'
  BY DEF Undecided
<1> QED BY <1>2, <1>3, <1>4, Zenon DEF StepInv

LEMMA MarkArrives ==
  ASSUME check \in Stepwise, check \in Check, healthy \in BOOLEAN, inbox \in Seq(STRING),
         check' = check, healthy' = healthy, pc' = pc,
         Asks(check, pc), ~Marked(check, inbox),
         NEW r \in Heard(check, pc, healthy), Write(r), cmds' = <<>>, Greeted'
  PROVE  MarkHeard'
<1>1. pc \in DOMAIN Script[check]
  BY DEF Asks, Reads
<1>2. r.text \in Seq(STRING)
  BY <1>1, HeardTypes
<1>3. OneMark(check, r.text)
  BY <1>1, MarkAssumption
<1>4. inbox' = inbox \o r.text /\ granted' = (granted \/ r.grants)
  BY DEF Write
<1>5. /\ OneMark(check, inbox')
      /\ \A i \in 1..Len(inbox') : inbox'[i] \in Mark[check] =>
           \E j \in 1..Len(r.text) : r.text[j] = inbox'[i]
  BY <1>2, <1>3, <1>4, WriteMarks
<1>6. r.grants => granted'
  BY <1>4
<1> QED BY <1>5, <1>6, Zenon DEF MarkHeard

(***************************************************************************)
(* A step that changes neither the stage nor what is on its way.           *)
(***************************************************************************)
LEMMA StepFrame ==
  ASSUME check' = check, healthy' = healthy, pc' = pc, inbox' = inbox, cmds' = cmds,
         greeted => greeted', granted => granted'
  PROVE  /\ Quiet => Quiet'
         /\ MarkHeard => MarkHeard'
         /\ greeted' = greeted => (Owed => Owed')
<1>1. Greeted => Greeted'
  BY DEF Greeted
<1>2. Quiet => Quiet'
  BY <1>1 DEF Quiet
<1>3. ASSUME MarkHeard PROVE MarkHeard'
  <2>1. cmds' = <<>> /\ Greeted' /\ OneMark(check, inbox)
    BY <1>1, <1>3 DEF MarkHeard
  <2>2. CASE ~Marked(check, inbox)
    BY <2>1, <2>2 DEF MarkHeard
  <2>3. CASE Marked(check, inbox)
    <3>1. PICK r \in Heard(check, pc, healthy) :
            /\ r.grants => granted
            /\ \A j \in 1..Len(inbox) : inbox[j] \in Mark[check] =>
                 \E k \in 1..Len(r.text) : r.text[k] = inbox[j]
      BY <1>3, <2>3 DEF MarkHeard
    <3>2. r.grants => granted'
      BY <3>1
    <3> QED BY <2>1, <3>1, <3>2 DEF MarkHeard
  <2> QED BY <2>2, <2>3
<1>4. ASSUME greeted' = greeted, Owed
      PROVE  Owed'
  <2>1. CASE /\ Len(cmds) = 1 /\ Greeted
             /\ Answer[check][Head(cmds)][healthy] \subseteq Heard(check, pc, healthy)
    BY <1>1, <2>1, Zenon DEF Owed
  <2>2. CASE cmds = <<>> /\ ~greeted /\ pc = First[check]
    BY <1>4, <2>2, Zenon DEF Owed
  <2> QED BY <1>4, <2>1, <2>2, Zenon DEF Owed
<1> QED BY <1>2, <1>3, <1>4

(***************************************************************************)
(* StepInv, one action at a time.  The client sends only at a stage it     *)
(* reached on a mark, and the mark on its way was the only one; the server *)
(* writes only a reply that a reading step waits for.                      *)
(***************************************************************************)
LEMMA StepKept ==
  ASSUME IInv, DialInv, StepInv, [Next]_vars, check \in Stepwise
  PROVE  StepInv'
<1>0. /\ check' = check /\ healthy' = healthy
      /\ check \in Check /\ healthy \in BOOLEAN
      /\ inbox \in Seq(STRING) /\ cmds \in Seq(DOMAIN Answer[check])
  BY SameCheck
<1> USE <1>0
<1>a. ASSUME NEW s \in DOMAIN Script[check]
      PROVE  /\ Sends(check, s) \/ Reads(check, s)
             /\ ~(Sends(check, s) /\ Reads(check, s))
             /\ Sends(check, s) => Reads(check, Script[check][s].next)
             /\ s \notin Done \cup {"dial"}
  BY Turns
<1>b. /\ Sends(check, pc) => Quiet /\ link \notin {"poked", "dead"}
      /\ Asks(check, pc) =>
           /\ MarkHeard \/ (Owed /\ ~Marked(check, inbox))
           /\ link \in {"poked", "dead"} => ~Marked(check, inbox)
      /\ pc # "SIGPIPE"
      /\ check \in Login /\ pc \notin Undecided(check) => granted
  BY Zenon DEF StepInv
<1>c. check \in Login /\ pc \in DOMAIN Script[check] /\ pc \notin Before[check] => granted
  BY <1>a, <1>b DEF Undecided, BadEnd
<1>1. CASE Dial
  <2>1. pc = "dial" /\ pc' \in {First[check], "CRITICAL"}
        /\ inbox' = inbox /\ cmds' = cmds /\ greeted' = greeted /\ link' = link
    BY <1>1 DEF Dial, peer
  <2>2. inbox = <<>> /\ cmds = <<>> /\ ~greeted /\ link = "up"
    BY <2>1 DEF DialInv
  <2>3. CASE pc' = "CRITICAL"
    <3>1. pc' \in ExitCode /\ pc' \in BadEnd
      BY <2>3 DEF ExitCode, BadEnd, Done
    <3> QED BY <3>1, StepEnds
  <2>4. CASE pc' = First[check]
    <3>1. pc' \in DOMAIN Script[check] \cup {"OK"} /\ (Sends(check, pc') => Silent(check))
      BY <2>4, AlternationAssumption
    <3>2. ~Marked(check, inbox')
      BY <2>1, <2>2 DEF Marked
    <3>3. Sends(check, pc') => Quiet'
      <4>1. Silent(check) => Greeted'
        BY DEF Greeted, Silent
      <4>2. cmds' = <<>>
        BY <2>1, <2>2
      <4> QED BY <3>1, <3>2, <4>1, <4>2 DEF Quiet
    <3>4. Owed'
      <4>1. cmds' = <<>> /\ ~greeted' /\ pc' = First[check']
        BY <2>1, <2>2, <2>4
      <4> QED BY <4>1, Zenon DEF Owed
    <3>5. link' = "up"
      BY <2>1, <2>2
    <3>6. pc' # "SIGPIPE"
      BY <3>1, StageAssumption DEF Done
    <3>7. check \in Login => pc' \in Undecided(check)
      BY <2>4, LoginAssumption DEF Undecided
    <3>8. link' \notin {"poked", "dead"}
      BY <3>5
    <3> QED BY <3>2, <3>3, <3>4, <3>6, <3>7, <3>8, Zenon DEF StepInv
  <2> QED BY <2>1, <2>3, <2>4
<1>2. CASE Send
  <2>1. pc \in DOMAIN Script[check] /\ Sends(check, pc) /\ Step = Script[check][pc]
    BY <1>2 DEF Send, At, Step, Sends
  <2>2. Quiet /\ link \notin {"poked", "dead"}
    BY <1>b, <2>1
  <2>3. inbox' = inbox /\ greeted' = greeted /\ granted' = granted
    BY <1>2 DEF Send, peer
  <2>4. cmds = <<>> /\ Greeted /\ ~Marked(check, inbox')
    BY <2>2, <2>3 DEF Quiet
  <2>5. Greeted'
    BY <2>3, <2>4 DEF Greeted
  <2>6. CASE pc' = Step.next
    <3>1. Reads(check, pc') /\ pc' \in DOMAIN Script[check] /\ ~Sends(check, pc') /\ pc' \notin Done
      <4>1. Reads(check, pc')
        BY <1>a, <2>1, <2>6
      <4>2. pc' \in DOMAIN Script[check]
        BY <4>1 DEF Reads
      <4> QED BY <1>a, <4>1, <4>2
    <3>2. pc' # "SIGPIPE"
      BY <3>1 DEF Done
    <3>3. MarkHeard' \/ Owed'
      <4>1. CASE cmds' = <<>>
        <5>1. OneMark(check, inbox')
          BY <2>4 DEF Marked, OneMark
        <5> QED BY <2>4, <2>5, <4>1, <5>1, Zenon DEF MarkHeard
      <4>2. CASE cmds' = Append(cmds, Step.cmd)
        <5>1. Len(cmds') = 1 /\ Head(cmds') = Script[check][pc].cmd
          BY <2>1, <2>4, <4>2
        <5>2. Answer[check][Script[check][pc].cmd][healthy] \subseteq Heard(check, pc', healthy)
          BY <2>1, <2>6 DEF Heard
        <5> QED BY <2>5, <5>1, <5>2, Zenon DEF Owed
      <4> QED BY <1>2, <4>1, <4>2, <2>4 DEF Send, Sent
    <3>4. check \in Login /\ pc' \notin Undecided(check) => granted'
      BY <1>c, <2>1, <2>3, <2>6, LoginAssumption DEF Undecided
    <3> QED BY <2>4, <3>1, <3>2, <3>3, <3>4, Zenon DEF StepInv
  <2>7. CASE pc' = "CRITICAL"
    <3>1. pc' \in ExitCode /\ pc' \in BadEnd
      BY <2>7 DEF ExitCode, BadEnd, Done
    <3> QED BY <3>1, StepEnds
  <2> QED BY <1>2, <2>2, <2>6, <2>7 DEF Send
<1>3. CASE Recv
  <2>1. PICK s \in Segments(inbox) : pc' \in Judged(check, pc, s.got) /\ inbox' = s.left
    BY <1>3 DEF Recv
  <2>2. pc \in DOMAIN Script[check] /\ Reads(check, pc)
    BY <1>3 DEF Recv, At, Step, Reads
  <2>3. cmds' = cmds /\ link' = link /\ greeted' = greeted /\ granted' = granted
    BY <1>3 DEF Recv, peer
  <2>4. /\ s.got \in Seq(STRING)
        /\ \A i \in 1..Len(s.got) : s.got[i] \in Mark[check] =>
             \E j \in 1..Len(inbox) : inbox[j] = s.got[i]
        /\ OneMark(check, inbox) /\ Marked(check, s.got) => ~Marked(check, s.left)
    BY SegmentMarks
  <2>5. CASE pc' = Script[check][pc].otherwise
    <3>1. pc' \in ExitCode
      BY <2>2, <2>5, MarkAssumption
    <3>2. check \in Login /\ pc' \notin BadEnd => granted'
      BY <1>c, <2>2, <2>3, <2>5, LoginAssumption
    <3> QED BY <3>1, <3>2, StepEnds
  <2>6. CASE pc' # Script[check][pc].otherwise
    <3>1. PICK o \in Script[check][pc].on :
               /\ pc' = o.to
               /\ s.got # <<>>
               /\ \A a \in o.shows : \E i \in 1..Len(s.got) : s.got[i] = a
      <4>1. pc' \in Judged(check, pc, s.got) /\ pc' # Script[check][pc].otherwise
        BY <2>1, <2>6
      <4>2. PICK o \in Script[check][pc].on :
                 pc' = o.to /\ s.got # <<>> /\ o.shows \subseteq Shown(check, s.got)
        BY <4>1 DEF Judged
      <4>3. Shown(check, s.got) \subseteq {s.got[i] : i \in 1..Len(s.got)}
        BY SMTT(60) DEF Shown
      <4> QED BY ONLY <4>2, <4>3
    <3>2. o.to \in ExitCode \/ Sends(check, o.to)
      BY <2>2, AlternationAssumption
    <3>3. ASSUME o.to \notin BadEnd
          PROVE  /\ Asks(check, pc) /\ Marked(check, s.got) /\ Marked(check, inbox)
                 /\ MarkHeard /\ link \notin {"poked", "dead"}
      <4>1. Asks(check, pc)
        BY <2>2, <3>3 DEF Asks
      <4>2. PICK a \in o.shows : a \in Mark[check]
        BY <2>2, <3>3, <4>1, MarkAssumption
      <4>3. Marked(check, s.got)
        BY <3>1, <4>2 DEF Marked
      <4>4. Marked(check, inbox)
        BY <2>4, <4>3 DEF Marked
      <4> QED BY <1>b, <4>1, <4>3, <4>4
    <3>4. check \in Login /\ pc' \notin Undecided(check) => granted'
      <4> SUFFICES ASSUME check \in Login, pc' \notin Undecided(check), pc \in Before[check]
                   PROVE  granted'
        BY <1>c, <2>2, <2>3
      <4>1. o.to \notin Before[check] \cup BadEnd
        BY <3>1 DEF Undecided
      <4>2. PICK a \in o.shows \cap Mark[check] :
                 \A h \in BOOLEAN : \A r \in Heard(check, pc, h) :
                   (\E i \in 1..Len(r.text) : r.text[i] = a) => r.grants
        BY <2>2, <4>1, LoginAssumption
      <4>3. PICK i \in 1..Len(s.got) : s.got[i] = a
        BY <3>1, <4>2
      <4>4. PICK j \in 1..Len(inbox) : inbox[j] = a
        BY <2>4, <4>2, <4>3
      <4>5. PICK r \in Heard(check, pc, healthy) :
                 /\ r.grants => granted
                 /\ \A n \in 1..Len(inbox) :
                      inbox[n] \in Mark[check] => \E m \in 1..Len(r.text) : r.text[m] = inbox[n]
        BY <3>3, <4>1 DEF MarkHeard
      <4>6. \E m \in 1..Len(r.text) : r.text[m] = a
        BY <4>2, <4>4, <4>5
      <4> QED BY <2>3, <4>2, <4>5, <4>6
    <3>5. CASE o.to \in ExitCode
      <4>1. check \in Login /\ pc' \notin BadEnd => granted'
        <5>2. CASE check \in Login /\ pc' \in Before[check]
          <6>1. pc' \in DOMAIN Script[check]
            BY <5>2, LoginAssumption
          <6> QED BY <3>1, <3>5, <6>1, StageAssumption DEF Done
        <5>3. pc' # "dial"
          BY <3>1, <3>5 DEF ExitCode
        <5> QED BY <3>4, <5>2, <5>3 DEF Undecided
      <4> QED BY <3>1, <3>5, <4>1, StepEnds
    <3>6. CASE Sends(check, o.to)
      <4>1. o.to \in DOMAIN Script[check]
        BY <3>6 DEF Sends
      <4>2. o.to \notin BadEnd /\ o.to # "SIGPIPE" /\ ~Asks(check, o.to)
        BY <1>a, <3>6, <4>1 DEF BadEnd, Done, Asks
      <4>3. cmds = <<>> /\ Greeted /\ OneMark(check, inbox) /\ link \notin {"poked", "dead"}
        BY <3>3, <4>2 DEF MarkHeard
      <4>4. Greeted'
        BY <2>3, <4>3 DEF Greeted
      <4>5. ~Marked(check, inbox')
        BY <2>1, <2>4, <3>3, <4>2, <4>3
      <4>6. Quiet'
        BY <2>3, <4>3, <4>4, <4>5 DEF Quiet
      <4>7. link' \notin {"poked", "dead"}
        BY <2>3, <4>3
      <4> QED BY <3>1, <3>4, <4>2, <4>6, <4>7, Zenon DEF StepInv
    <3> QED BY <3>2, <3>5, <3>6
  <2> QED BY <2>5, <2>6
<1>4. CASE Timeout \/ Hangup
  <2>1. At("recv") /\ pc' \in Judged(check, pc, <<>>) /\ granted' = granted
    BY <1>4 DEF Timeout, Hangup, EmptyResponse, peer
  <2>2. pc \in DOMAIN Script[check] /\ Reads(check, pc)
    BY <2>1 DEF At, Step, Reads
  <2>3. pc' = Script[check][pc].otherwise
    BY <2>1, <2>2, JudgedEmpty
  <2>4. pc' \in ExitCode
    BY <2>2, <2>3, MarkAssumption
  <2>5. check \in Login /\ pc' \notin BadEnd => granted'
    BY <1>c, <2>1, <2>2, <2>3, LoginAssumption
  <2> QED BY <2>4, <2>5, StepEnds
<1>5. CASE Greet
  <2>1. PICK r \in Greeting[check][healthy] : Write(r)
    BY <1>5 DEF Greet
  <2>2. /\ link = "up" /\ link' = link /\ pc' = pc /\ cmds' = cmds /\ ~greeted /\ greeted'
    BY <1>5 DEF Greet, Live
  <2>3. granted => granted'
    BY <2>1 DEF Write
  <2>4. ASSUME Silent(check)
        PROVE  inbox' = inbox
    BY <2>1, <2>4 DEF Silent, Write
  <2>5. Greeted'
    BY <2>2 DEF Greeted
  <2>6. Quiet => Quiet'
    BY <2>2, <2>3, <2>4, StepFrame DEF Quiet, Greeted
  <2>7. MarkHeard => MarkHeard'
    BY <2>2, <2>3, <2>4, StepFrame DEF MarkHeard, Greeted
  <2>8. Asks(check, pc) /\ Owed /\ ~Marked(check, inbox) =>
          MarkHeard' \/ (Owed' /\ ~Marked(check, inbox'))
    <3> SUFFICES ASSUME Asks(check, pc), Owed, ~Marked(check, inbox)
                 PROVE  MarkHeard' \/ (Owed' /\ ~Marked(check, inbox'))
      OBVIOUS
    <3>1. CASE /\ Len(cmds) = 1 /\ Greeted
               /\ Answer[check][Head(cmds)][healthy] \subseteq Heard(check, pc, healthy)
      <4>1. inbox' = inbox
        BY <2>2, <2>4, <3>1 DEF Greeted
      <4>2. Owed'
        BY <2>2, <2>5, <3>1, Zenon DEF Owed
      <4> QED BY <4>1, <4>2
    <3>2. CASE cmds = <<>> /\ pc = First[check]
      <4>1. r \in Heard(check, pc, healthy)
        BY <3>2 DEF Heard
      <4>2. cmds' = <<>>
        BY <2>2, <3>2
      <4> QED BY <2>1, <2>2, <2>5, <4>1, <4>2, MarkArrives
    <3> QED BY <3>1, <3>2 DEF Owed
  <2>9. link' \notin {"poked", "dead"}
    BY <2>2
  <2> QED BY <1>b, <2>2, <2>3, <2>6, <2>7, <2>8, <2>9, Zenon DEF StepInv
<1>6. CASE Reply
  <2>1. PICK r \in Answer[check][Head(cmds)][healthy] : Write(r)
    BY <1>6 DEF Reply
  <2>2. /\ link = "up" /\ link' = link /\ pc' = pc /\ cmds # <<>> /\ cmds' = Tail(cmds)
        /\ greeted' = greeted
    BY <1>6 DEF Reply, Live
  <2>3. granted => granted'
    BY <2>1 DEF Write
  <2>4. ~Sends(check, pc)
    BY <1>b, <2>2 DEF Quiet
  <2>5. ASSUME Asks(check, pc)
        PROVE  MarkHeard'
    <3>1. Owed /\ ~Marked(check, inbox)
      BY <1>b, <2>2, <2>5 DEF MarkHeard
    <3>2. /\ Len(cmds) = 1 /\ Greeted
          /\ Answer[check][Head(cmds)][healthy] \subseteq Heard(check, pc, healthy)
      BY <2>2, <3>1 DEF Owed
    <3>3. cmds' = <<>>
      BY <2>2, <3>2
    <3>4. Greeted'
      BY <2>2, <3>2 DEF Greeted
    <3>5. r \in Heard(check, pc, healthy)
      BY <2>1, <3>2
    <3> QED BY <2>1, <2>2, <2>5, <3>1, <3>3, <3>4, <3>5, MarkArrives
  <2>6. link' \notin {"poked", "dead"}
    BY <2>2
  <2> QED BY <1>b, <2>2, <2>3, <2>4, <2>5, <2>6, Zenon DEF StepInv
<1>7. CASE Reset
  <2>1. PICK k \in 0..Len(inbox) : inbox' = SubSeq(inbox, 1, k)
    BY <1>7 DEF Reset
  <2>2. pc' = pc /\ cmds' = cmds /\ greeted' = greeted /\ granted' = granted /\ link' = "reset"
    BY <1>7 DEF Reset, peer
  <2>3. /\ OneMark(check, inbox) => OneMark(check, inbox')
        /\ Len(inbox') = k /\ \A i \in 1..k : i \in 1..Len(inbox) /\ inbox'[i] = inbox[i]
    BY <2>1, PrefixMarks
  <2>4. Marked(check, inbox') => Marked(check, inbox)
    BY <2>3 DEF Marked
  <2>5. Greeted => Greeted'
    BY <2>2 DEF Greeted
  <2>6. Quiet => Quiet'
    BY <2>2, <2>4, <2>5 DEF Quiet
  <2>7. Owed => Owed'
    BY <2>2, <2>5, Zenon DEF Owed
  <2>8. MarkHeard => MarkHeard'
    <3> SUFFICES ASSUME MarkHeard PROVE MarkHeard'
      OBVIOUS
    <3>1. CASE ~Marked(check, inbox')
      BY <2>2, <2>3, <2>5, <3>1, Zenon DEF MarkHeard
    <3>2. CASE Marked(check, inbox')
      <4>1. PICK r \in Heard(check, pc, healthy) :
                 /\ r.grants => granted
                 /\ \A n \in 1..Len(inbox) :
                      inbox[n] \in Mark[check] => \E m \in 1..Len(r.text) : r.text[m] = inbox[n]
        BY <2>4, <3>2 DEF MarkHeard
      <4>2. \A n \in 1..Len(inbox') :
              inbox'[n] \in Mark[check] => \E m \in 1..Len(r.text) : r.text[m] = inbox'[n]
        BY <2>3, <4>1
      <4>3. r.grants => granted'
        BY <2>2, <4>1
      <4> QED BY <2>2, <2>3, <2>5, <4>2, <4>3, Zenon DEF MarkHeard
    <3> QED BY <3>1, <3>2
  <2>9. link' \notin {"poked", "dead"}
    BY <2>2
  <2> QED BY <1>b, <2>2, <2>4, <2>6, <2>7, <2>8, <2>9, Zenon DEF StepInv
<1>8. CASE Close \/ ResetBack \/ Exited \/ UNCHANGED vars
  <2>1. /\ pc' = pc /\ inbox' = inbox /\ cmds' = cmds /\ greeted' = greeted /\ granted' = granted
        /\ link' = link \/ link' \notin {"poked", "dead"} \/ link = "poked"
    BY <1>8 DEF Close, ResetBack, Exited, vars, peer
  <2>2. (Quiet => Quiet') /\ (MarkHeard => MarkHeard') /\ (Owed => Owed')
    BY <2>1, StepFrame
  <2>3. link' \in {"poked", "dead"} => link \in {"poked", "dead"}
    BY <2>1
  <2> QED BY <1>b, <2>1, <2>2, <2>3, Zenon DEF StepInv
<1> QED
  BY <1>1, <1>2, <1>3, <1>4, <1>5, <1>6, <1>7, <1>8
     DEF Next, Client, Environment
(***************************************************************************)
(* No step leads back to the dialling, and nothing moves before it ends.   *)
(***************************************************************************)
LEMMA DialKept ==
  ASSUME IInv, DialInv, [Next]_vars, check \in Stepwise \cup Answerable
  PROVE  DialInv'
<1>0. check' = check /\ check \in Check
  BY SameCheck
<1>1. \A s \in DOMAIN Script[check] : s # "dial"
  BY <1>0, StageAssumption
<1>2. \A s \in ExitCode : s # "dial"
  BY DEF ExitCode
<1>3. CASE Dial
  BY <1>0, <1>1, <1>3, AlternationAssumption DEF Dial, DialInv
<1>4. CASE Send
  <2>1. pc \in DOMAIN Script[check] /\ Sends(check, pc) /\ Step = Script[check][pc]
    BY <1>4 DEF Send, At, Step, Sends
  <2>2. Step.next # "dial"
    BY <1>1, <2>1, Turns DEF Reads
  <2>3. pc' # "dial"
    BY <1>4, <2>2 DEF Send
  <2> QED BY <2>3 DEF DialInv
<1>5. ASSUME Recv \/ Timeout \/ Hangup
      PROVE  pc' # "dial"
  <2>1. At("recv") /\ \E response \in Seq(STRING) : pc' \in Judged(check, pc, response)
    <3>1. CASE Recv
      <4>1. PICK s \in Segments(inbox) : pc' \in Judged(check, pc, s.got)
        BY <3>1 DEF Recv
      <4>2. s.got \in Seq(STRING)
        BY SameCheck, SegmentParts
      <4> QED BY <3>1, <4>1, <4>2 DEF Recv
    <3>2. CASE Timeout \/ Hangup
      <4>1. <<>> \in Seq(STRING)
        OBVIOUS
      <4> QED BY <3>2, <4>1 DEF Timeout, Hangup, EmptyResponse
    <3> QED BY <1>5, <3>1, <3>2
  <2>2. PICK response \in Seq(STRING) : pc' \in Judged(check, pc, response)
    BY <2>1
  <2>3. pc \in DOMAIN Script[check] /\ Reads(check, pc)
    BY <2>1 DEF At, Step, Reads
  <2>4. CASE pc' = Script[check][pc].otherwise
    <3>1. pc' \in ExitCode \/ Sends(check, pc')
      BY <2>3, <2>4, AlternationAssumption
    <3> QED BY <1>1, <1>2, <3>1 DEF Sends
  <2>5. CASE pc' # Script[check][pc].otherwise
    <3>1. \E o \in Script[check][pc].on : pc' = o.to
      BY <2>2, <2>5 DEF Judged
    <3>2. pc' \in ExitCode \/ Sends(check, pc')
      BY <2>3, <3>1, AlternationAssumption
    <3> QED BY <1>1, <1>2, <3>2 DEF Sends
  <2> QED BY <2>4, <2>5
<1>6. CASE Recv \/ Timeout \/ Hangup
  BY <1>5, <1>6 DEF DialInv
<1>7. CASE Greet \/ Reply \/ Close \/ Reset
  BY <1>7 DEF Greet, Reply, Close, Reset, Live, DialInv
<1>8. CASE ResetBack \/ Exited \/ UNCHANGED vars
  BY <1>0, <1>8 DEF ResetBack, Exited, vars, peer, DialInv, Done, ExitCode
<1> QED
  BY <1>3, <1>4, <1>6, <1>7, <1>8 DEF Next, Client, Environment

(***************************************************************************)
(* A reading step of a check that gets one message at a time: the messages *)
(* it may be sent, each with its end as its last atom.                     *)
(***************************************************************************)
LEMMA HeardWhole ==
  ASSUME NEW c \in Answerable, NEW s \in DOMAIN Script[c], Reads(c, s),
         NEW h \in BOOLEAN, NEW r \in Heard(c, s, h)
  PROVE  /\ r.text \in Seq(STRING) /\ r.text # <<>>
         /\ \A i \in 1..Len(r.text) : r.text[i] = End <=> i = Len(r.text)
         /\ h => Judged(c, s, r.text) \cap Done \subseteq {"OK"}
<1>1. c \in Check
  BY AlternationAssumption
<1> QED BY <1>1, HeardTypes, AnswerableAssumption, Zenon

(***************************************************************************)
(* MessageInv, one action at a time: while nothing fails, one message is   *)
(* on its way or owed, and each response is a whole message.               *)
(***************************************************************************)
LEMMA MessageKept ==
  ASSUME IInv, DialInv, MessageInv, [Next]_vars, check \in Answerable, ~fault'
  PROVE  MessageInv'
<1>0. /\ check' = check /\ healthy' = healthy
      /\ check \in Check /\ healthy \in BOOLEAN
      /\ inbox \in Seq(STRING) /\ cmds \in Seq(DOMAIN Answer[check])
  BY SameCheck
<1> USE <1>0
<1>a. ASSUME NEW s \in DOMAIN Script[check]
      PROVE  /\ Sends(check, s) \/ Reads(check, s)
             /\ ~(Sends(check, s) /\ Reads(check, s))
             /\ Sends(check, s) => Reads(check, Script[check][s].next)
             /\ s \notin Done \cup {"dial"}
  BY Turns
<1>f. ~fault /\ fault' # TRUE
  <2>1. fault' # TRUE
    OBVIOUS
  <2>2. CASE Recv
    BY <2>2, Zenon DEF Recv
  <2>3. CASE Timeout
    BY <2>3, Zenon DEF Timeout
  <2>4. CASE ~(Recv \/ Timeout)
    <3>1. fault' = fault
      BY <2>1, <2>4
         DEF Next, Client, Environment, Dial, Send, Hangup, Greet, Reply,
             Close, Reset, ResetBack, Exited, peer, vars
    <3> QED BY <3>1
  <2> QED BY <2>1, <2>2, <2>3, <2>4
<1>b. /\ link = "up"
      /\ Sends(check, pc) => inbox = <<>> /\ cmds = <<>> /\ Greeted
      /\ Reads(check, pc) =>
           \/ inbox = <<>> /\ Owed
           \/ /\ cmds = <<>> /\ Greeted
              /\ \E r \in Heard(check, pc, healthy) : inbox = r.text /\ (r.grants => granted)
      /\ healthy /\ pc \in Done => pc = "OK"
      /\ check \in InPieces /\ pc \notin Undecided(check) => granted
  BY <1>f, Zenon DEF MessageInv
<1>c. check \in InPieces /\ pc \in DOMAIN Script[check] /\ pc \notin Before[check] => granted
  BY <1>a, <1>b DEF Undecided, BadEnd
<1>1. CASE Dial
  <2>1. /\ pc = "dial" /\ pc' = First[check]
        /\ inbox' = inbox /\ cmds' = cmds /\ greeted' = greeted /\ link' = link
    BY <1>1, <1>f DEF Dial, peer
  <2>2. inbox' = <<>> /\ cmds' = <<>> /\ ~greeted'
    BY <2>1 DEF DialInv
  <2>3. pc' \in DOMAIN Script[check] \cup {"OK"} /\ (Sends(check, pc') => Silent(check))
    BY <2>1, AlternationAssumption
  <2>4. Silent(check) => Greeted'
    BY DEF Greeted, Silent
  <2>5. Owed'
    BY <2>1, <2>2, Zenon DEF Owed
  <2>6. pc' \in Done => pc' = "OK"
    BY <1>a, <2>3
  <2>7. check \in InPieces => pc' \in Undecided(check)
    BY <2>1, InPiecesAssumption DEF Undecided
  <2>8. link' = "up"
    BY <1>b, <2>1
  <2> QED BY <2>2, <2>3, <2>4, <2>5, <2>6, <2>7, <2>8, Zenon DEF MessageInv
<1>2. CASE Send
  <2>1. pc \in DOMAIN Script[check] /\ Sends(check, pc) /\ Step = Script[check][pc]
    BY <1>2 DEF Send, At, Step, Sends
  <2>2. inbox = <<>> /\ cmds = <<>> /\ Greeted /\ link = "up"
    BY <1>b, <2>1
  <2>3. /\ cmds' = Append(cmds, Step.cmd) /\ pc' = Step.next /\ link' = link
        /\ inbox' = inbox /\ greeted' = greeted /\ granted' = granted
    BY <1>2, <2>2 DEF Send, Sent, peer
  <2>4. Reads(check, pc') /\ pc' \in DOMAIN Script[check]
    <3>1. Reads(check, pc')
      BY <1>a, <2>1, <2>3
    <3> QED BY <3>1 DEF Reads
  <2>5. ~Sends(check, pc') /\ pc' \notin Done
    BY <1>a, <2>4
  <2>6. Owed'
    <3>1. Len(cmds') = 1 /\ Head(cmds') = Script[check][pc].cmd
      BY <2>1, <2>2, <2>3
    <3>2. Answer[check][Script[check][pc].cmd][healthy] \subseteq Heard(check, pc', healthy)
      BY <2>1, <2>3 DEF Heard
    <3>3. Greeted'
      BY <2>2, <2>3 DEF Greeted
    <3> QED BY <3>1, <3>2, <3>3, Zenon DEF Owed
  <2>7. check \in InPieces /\ pc' \notin Undecided(check) => granted'
    BY <1>c, <2>1, <2>3, InPiecesAssumption DEF Undecided
  <2>8. inbox' = <<>> /\ link' = "up"
    BY <2>2, <2>3
  <2> QED BY <2>5, <2>6, <2>7, <2>8, Zenon DEF MessageInv
<1>3. CASE Recv
  <2>1. PICK s \in Segments(inbox) :
             pc' \in Judged(check, pc, s.got) /\ inbox' = s.left /\ fault' = (fault \/ ~Whole(s.got))
    BY <1>3 DEF Recv
  <2>2. pc \in DOMAIN Script[check] /\ Reads(check, pc)
    BY <1>3 DEF Recv, At, Step, Reads
  <2>3. cmds' = cmds /\ link' = link /\ greeted' = greeted /\ granted' = granted
    BY <1>3 DEF Recv, peer
  <2>4. inbox # <<>>
    BY SegmentParts
  <2>5. PICK r \in Heard(check, pc, healthy) : inbox = r.text /\ (r.grants => granted)
    BY <1>b, <2>2, <2>4
  <2>6. cmds' = <<>> /\ Greeted
    BY <1>b, <2>2, <2>3, <2>4
  <2>7. Greeted'
    BY <2>3, <2>6 DEF Greeted
  <2>8. /\ \A i \in 1..Len(inbox) : inbox[i] = End <=> i = Len(inbox)
        /\ healthy => Judged(check, pc, inbox) \cap Done \subseteq {"OK"}
    BY <2>2, <2>5, HeardWhole
  <2>9. Whole(s.got)
    BY <2>1, <1>f
  <2>10. s.got = inbox /\ s.left = <<>>
    <3>1. Text # End
      BY AnswerableAssumption
    <3> QED BY <2>8, <2>9, <3>1, WholeSegment
  <2>11. pc' \in Judged(check, pc, inbox) /\ inbox' = <<>>
    BY <2>1, <2>10
  <2>12. pc' \in ExitCode \/ Sends(check, pc')
    <3>1. CASE pc' = Script[check][pc].otherwise
      BY <2>2, <3>1, AlternationAssumption
    <3>2. CASE pc' # Script[check][pc].otherwise
      <4>1. \E o \in Script[check][pc].on : pc' = o.to
        BY <2>11, <3>2 DEF Judged
      <4> QED BY <2>2, <4>1, AlternationAssumption
    <3> QED BY <3>1, <3>2
  <2>13. ~Reads(check, pc')
    <3>1. pc' \in DOMAIN Script[check] => pc' \notin ExitCode
      BY <1>a DEF Done
    <3>2. pc' \in DOMAIN Script[check] => ~Reads(check, pc')
      BY <1>a, <2>12, <3>1
    <3> QED BY <3>2 DEF Reads
  <2>14. healthy /\ pc' \in Done => pc' = "OK"
    BY <2>8, <2>11
  <2>15. check \in InPieces /\ pc' \notin Undecided(check) => granted'
    <3> SUFFICES ASSUME check \in InPieces, pc' \notin Undecided(check), pc \in Before[check]
                 PROVE  granted'
      BY <1>c, <2>2, <2>3
    <3>1. Judged(check, pc, r.text) \subseteq Before[check] \cup BadEnd \/ r.grants
      BY <2>2, InPiecesAssumption
    <3> QED BY <2>3, <2>5, <2>11, <3>1 DEF Undecided
  <2>16. link' = "up"
    BY <1>b, <2>3
  <2> QED BY <2>6, <2>7, <2>11, <2>13, <2>14, <2>15, <2>16, Zenon DEF MessageInv
<1>4. CASE Timeout
  <2>1. pc \in DOMAIN Script[check] /\ Reads(check, pc)
    BY <1>4 DEF Timeout, At, Step, Reads
  <2>2. inbox = <<>> /\ cmds = <<>> /\ greeted
    BY <1>4, <1>f DEF Timeout
  <2>3. Owed
    <3>1. ASSUME NEW r \in Heard(check, pc, healthy), inbox = r.text
          PROVE  FALSE
      BY <2>1, <2>2, <3>1, HeardWhole
    <3> QED BY <1>b, <2>1, <3>1
  <2> QED BY <2>2, <2>3 DEF Owed
<1>5. CASE Hangup \/ Close \/ Reset \/ ResetBack
  BY <1>5, <1>b, <1>f DEF Hangup, Close, Reset, ResetBack
<1>6. CASE Greet
  <2>1. PICK r \in Greeting[check][healthy] : Write(r)
    BY <1>6 DEF Greet
  <2>2. /\ link' = link /\ pc' = pc /\ cmds' = cmds /\ ~greeted /\ greeted' /\ pc \notin Done
    BY <1>6 DEF Greet, Live
  <2>3. inbox' = inbox \o r.text /\ granted' = (granted \/ r.grants)
    BY <2>1 DEF Write
  <2>4. ASSUME Silent(check)
        PROVE  inbox' = inbox
    BY <2>3, <2>4 DEF Silent
  <2>5. Greeted' /\ (granted => granted')
    BY <2>2, <2>3 DEF Greeted
  <2>6. Sends(check, pc) => inbox' = <<>> /\ cmds' = <<>>
    BY <1>b, <2>2, <2>4 DEF Greeted
  <2>7. Reads(check, pc) =>
          \/ inbox' = <<>> /\ Owed'
          \/ /\ cmds' = <<>>
             /\ \E q \in Heard(check, pc, healthy) : inbox' = q.text /\ (q.grants => granted')
    <3> SUFFICES ASSUME Reads(check, pc)
                 PROVE  \/ inbox' = <<>> /\ Owed'
                        \/ /\ cmds' = <<>>
                           /\ \E q \in Heard(check, pc, healthy) :
                                inbox' = q.text /\ (q.grants => granted')
      OBVIOUS
    <3>0. pc \in DOMAIN Script[check]
      BY DEF Reads
    <3>1. CASE /\ inbox = <<>> /\ Len(cmds) = 1 /\ Greeted
               /\ Answer[check][Head(cmds)][healthy] \subseteq Heard(check, pc, healthy)
      <4>1. inbox' = <<>>
        BY <2>2, <2>4, <3>1 DEF Greeted
      <4>2. Owed'
        BY <2>2, <2>5, <3>1, Zenon DEF Owed
      <4> QED BY <4>1, <4>2
    <3>2. CASE inbox = <<>> /\ cmds = <<>> /\ pc = First[check]
      <4>1. r \in Heard(check, pc, healthy)
        BY <3>2 DEF Heard
      <4>2. r.text \in Seq(STRING)
        BY <3>0, <4>1, HeardTypes
      <4>3. inbox' = r.text
        BY <2>3, <3>2, <4>2
      <4>4. r.grants => granted'
        BY <2>3
      <4> QED BY <2>2, <3>2, <4>1, <4>3, <4>4
    <3>3. CASE /\ cmds = <<>> /\ Greeted
               /\ \E q \in Heard(check, pc, healthy) : inbox = q.text /\ (q.grants => granted)
      <4>1. inbox' = inbox
        BY <2>2, <2>4, <3>3 DEF Greeted
      <4> QED BY <2>2, <2>5, <3>3, <4>1
    <3> QED BY <1>b, <3>1, <3>2, <3>3 DEF Owed
  <2>8. check \in InPieces /\ pc' \notin Undecided(check) => granted'
    BY <1>b, <2>2, <2>5
  <2>9. link' = "up"
    BY <1>b, <2>2
  <2> QED BY <2>2, <2>5, <2>6, <2>7, <2>8, <2>9, Zenon DEF MessageInv
<1>7. CASE Reply
  <2>1. PICK r \in Answer[check][Head(cmds)][healthy] : Write(r)
    BY <1>7 DEF Reply
  <2>2. /\ link' = link /\ pc' = pc /\ cmds # <<>> /\ cmds' = Tail(cmds)
        /\ greeted' = greeted /\ pc \notin Done
    BY <1>7 DEF Reply, Live
  <2>3. inbox' = inbox \o r.text /\ granted' = (granted \/ r.grants)
    BY <2>1 DEF Write
  <2>4. ~Sends(check, pc)
    BY <1>b, <2>2
  <2>5. ASSUME Reads(check, pc)
        PROVE  /\ cmds' = <<>> /\ Greeted'
               /\ \E q \in Heard(check, pc, healthy) : inbox' = q.text /\ (q.grants => granted')
    <3>1. /\ inbox = <<>> /\ Len(cmds) = 1 /\ Greeted
          /\ Answer[check][Head(cmds)][healthy] \subseteq Heard(check, pc, healthy)
      BY <1>b, <2>2, <2>5 DEF Owed
    <3>2. cmds' = <<>>
      BY <2>2, <3>1
    <3>3. Greeted'
      BY <2>2, <3>1 DEF Greeted
    <3>4. r \in Heard(check, pc, healthy) /\ pc \in DOMAIN Script[check]
      BY <2>1, <2>5, <3>1 DEF Reads
    <3>5. r.text \in Seq(STRING)
      BY <3>4, HeardTypes
    <3>6. inbox' = r.text
      BY <2>3, <3>1, <3>5
    <3>7. r.grants => granted'
      BY <2>3
    <3> QED BY <3>2, <3>3, <3>4, <3>6, <3>7
  <2>6. check \in InPieces /\ pc' \notin Undecided(check) => granted'
    BY <1>b, <2>2, <2>3
  <2>7. link' = "up"
    BY <1>b, <2>2
  <2> QED BY <2>2, <2>4, <2>5, <2>6, <2>7, Zenon DEF MessageInv
<1>8. CASE Exited \/ UNCHANGED vars
  <2>1. /\ pc' = pc /\ inbox' = inbox /\ cmds' = cmds /\ greeted' = greeted
        /\ granted' = granted /\ link' = link
    BY <1>8 DEF Exited, vars
  <2>2. (Owed => Owed') /\ (Greeted => Greeted')
    BY <2>1, StepFrame DEF Greeted
  <2> QED BY <1>b, <2>1, <2>2, Zenon DEF MessageInv
<1> QED
  BY <1>1, <1>2, <1>3, <1>4, <1>5, <1>6, <1>7, <1>8
     DEF Next, Client, Environment

-----------------------------------------------------------------------------
(***************************************************************************)
(* The invariant holds of every behaviour.                                 *)
(***************************************************************************)
LEMMA InitLine == Init => LineInv
<1> SUFFICES ASSUME Init PROVE LineInv
  OBVIOUS
<1>1. IInv
  BY InitIInv
<1>2. pc = "dial" /\ check \in Check /\ link = "up" /\ cmds = <<>> /\ inbox = <<>> /\ ~greeted
  BY DEF Init
<1>3. ~Sends(check, pc) /\ ~Asks(check, pc) /\ ~Reads(check, pc)
  BY <1>2, StageAssumption DEF Sends, Asks, Reads
<1>4. pc \notin Done /\ pc \in Undecided(check)
  BY <1>2 DEF Done, ExitCode, Undecided
<1>5. DialInv
  BY <1>2 DEF DialInv
<1>6. StepInv
  BY <1>2, <1>3, <1>4 DEF StepInv
<1>7. MessageInv
  BY <1>2, <1>3, <1>4 DEF MessageInv
<1> QED BY <1>1, <1>5, <1>6, <1>7 DEF LineInv

LEMMA NextLine == LineInv /\ [Next]_vars => LineInv'
<1> SUFFICES ASSUME LineInv, [Next]_vars
             PROVE  LineInv'
  OBVIOUS
<1>0. IInv /\ DialInv /\ StepInv /\ MessageInv
  BY DEF LineInv
<1>1. check' = check /\ IInv'
  BY <1>0, SameCheck, NextIInv
<1>2. DialInv'
  BY <1>0, <1>1, DialKept, Zenon DEF DialInv
<1>3. StepInv'
  BY <1>0, <1>1, StepKept, Zenon DEF StepInv
<1>4. MessageInv'
  BY <1>0, <1>1, MessageKept, Zenon DEF MessageInv
<1> QED BY <1>1, <1>2, <1>3, <1>4 DEF LineInv

THEOREM LineInvHolds == Spec => []LineInv
<1> QED BY InitLine, NextLine, PTL DEF Spec

(***************************************************************************)
(* No false OK, of a tagged check or a login over replies that TCP splits, *)
(* joins or cuts, and of check_ftp over whole replies.                     *)
(***************************************************************************)
THEOREM NoLineFalselyOk == Spec => []OkMeansGranted
<1>1. LineInv => OkMeansGranted
  <2> SUFFICES ASSUME LineInv, pc = "OK",
                      check \in Tagged \cup Login \cup InPieces, check \in InPieces => ~fault
               PROVE  granted
    BY DEF OkMeansGranted
  <2>0. check \in Check
    BY DEF LineInv, IInv, TypeOK
  <2>1. pc \notin BadEnd \cup {"dial"} /\ pc \notin DOMAIN Script[check]
    BY <2>0, StageAssumption DEF BadEnd, Done, ExitCode
  <2>2. CASE check \in Tagged
    <3>1. pc \notin Undecided(check)
      BY <2>1, <2>2, ScriptAssumption DEF Undecided
    <3> QED BY <2>2, <3>1 DEF LineInv, IInv, KeyMeansGranted
  <2>3. CASE check \in Login
    <3>1. pc \notin Undecided(check) /\ check \in Stepwise
      BY <2>1, <2>3, LoginAssumption DEF Undecided
    <3> QED BY <2>3, <3>1 DEF LineInv, StepInv
  <2>4. CASE check \in InPieces
    <3>1. pc \notin Undecided(check) /\ check \in Answerable
      BY <2>1, <2>4, InPiecesAssumption DEF Undecided
    <3> QED BY <2>4, <3>1 DEF LineInv, MessageInv
  <2> QED BY <2>2, <2>3, <2>4
<1> QED BY <1>1, LineInvHolds, PTL

(***************************************************************************)
(* No false alarm: with no fault, a healthy service gets OK.               *)
(***************************************************************************)
THEOREM NoFalseAlarm == Spec => []HealthyIsOk
<1>1. LineInv => HealthyIsOk
  BY DEF LineInv, MessageInv, HealthyIsOk
<1> QED BY <1>1, LineInvHolds, PTL

(***************************************************************************)
(* A stepwise check never dies of a SIGPIPE.                               *)
(***************************************************************************)
THEOREM NoSignal == Spec => []ExitsWithStatus
<1>1. LineInv => ExitsWithStatus
  BY DEF LineInv, StepInv, ExitsWithStatus
<1> QED BY <1>1, LineInvHolds, PTL

(***************************************************************************)
(* The check stays in step with the server, whatever the network does; and *)
(* check_ftp while nothing fails.                                          *)
(***************************************************************************)
THEOREM StaysInStep == Spec => InStep
<1> DEFINE InTurn == Len(cmds') > Len(cmds)
                       /\ (check \in Stepwise \/ (check \in InPieces /\ ~fault))
                     => cmds = <<>>
<1>1. LineInv /\ [Next]_vars => [InTurn]_vars
  <2> SUFFICES ASSUME LineInv, [Next]_vars, Len(cmds') > Len(cmds),
                      check \in Stepwise \/ (check \in InPieces /\ ~fault)
               PROVE  cmds = <<>>
    OBVIOUS
  <2>0. /\ check \in Check /\ cmds \in Seq(DOMAIN Answer[check])
        /\ Len(cmds) \in Nat
    BY DEF LineInv, IInv, TypeOK
  <2>1. CASE Send
    <3>1. Sends(check, pc)
      BY <2>1 DEF Send, At, Step, Sends
    <3>2. CASE check \in Stepwise
      BY <3>1, <3>2 DEF LineInv, StepInv, Quiet
    <3>3. CASE check \in InPieces /\ ~fault
      BY <3>1, <3>3, InPiecesAssumption DEF LineInv, MessageInv
    <3> QED BY <3>2, <3>3
  <2>2. CASE Reply
    <3>1. cmds # <<>> /\ cmds' = Tail(cmds)
      BY <2>2 DEF Reply
    <3>2. Len(cmds') = Len(cmds) - 1
      BY <2>0, <3>1
    <3> QED BY <2>0, <3>2
  <2>3. CASE ~(Send \/ Reply)
    <3>1. cmds' = cmds
      BY <2>3 DEF Next, Client, Environment, Dial, Recv, Timeout, Hangup, Greet,
                  Close, Reset, ResetBack, Exited, peer, vars
    <3> QED BY <2>0, <3>1
  <2> QED BY <2>1, <2>2, <2>3
<1> QED BY <1>1, LineInvHolds, PTL DEF Spec, InStep
=============================================================================
