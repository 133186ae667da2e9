-------------------------- MODULE ReplyLoop_proofs --------------------------
(***************************************************************************)
(* Proofs about KeyedLoop and WholeLoop, for every table that meets their  *)
(* assumptions, every server, and every way the network may deliver the    *)
(* answers.                                                                *)
(***************************************************************************)
EXTENDS WholeLoop, SequenceTheorems, WellFoundedInduction, TLAPS

\* A set of numbers that is not empty has a least one.
LEMMA LeastNumber ==
  ASSUME NEW S \in SUBSET Nat, S # {}
  PROVE  \E k \in S : \A m \in S : k <= m
<1>1. \E k \in S : \A m \in S : ~(<<m, k>> \in OpToRel(<, Nat))
  BY NatLessThanWellFounded, WFMin, Zenon
<1>2. PICK k \in S : \A m \in S : ~(<<m, k>> \in OpToRel(<, Nat))
  BY <1>1
<1>3. \A m \in S : ~(m < k)
  BY <1>2, Zenon DEF OpToRel
<1> QED
  BY <1>3

\* The atoms of a segment, and those that are left, are atoms of the stream.
LEMMA CutKeys ==
  ASSUME NEW s \in Seq(STRING), NEW k \in 0..Len(s)
  PROVE  /\ SubSeq(s, 1, k) \in Seq(STRING) /\ SubSeq(s, k + 1, Len(s)) \in Seq(STRING)
         /\ HasKey(SubSeq(s, 1, k)) => HasKey(s)
         /\ HasKey(SubSeq(s, k + 1, Len(s))) => HasKey(s)
<1> DEFINE front == SubSeq(s, 1, k)
           rest  == SubSeq(s, k + 1, Len(s))
<1>1. /\ front \in Seq(STRING) /\ DOMAIN front = 1..k
      /\ \A i \in 1..k : front[i] = s[i]
  OBVIOUS
<1>2. /\ rest \in Seq(STRING) /\ DOMAIN rest = 1..(Len(s) - k)
      /\ \A i \in 1..(Len(s) - k) : rest[i] = s[k + i]
  OBVIOUS
<1>3. DOMAIN s = 1..Len(s) /\ \A i \in 1..(Len(s) - k) : k + i \in 1..Len(s)
  OBVIOUS
<1> HIDE DEF front, rest
<1>4. HasKey(front) => HasKey(s)
  BY <1>1, <1>3 DEF HasKey
<1>5. HasKey(rest) => HasKey(s)
  BY <1>2, <1>3 DEF HasKey
<1> QED
  BY <1>1, <1>2, <1>4, <1>5 DEF front, rest

\* Joining two streams makes no new key.
LEMMA JoinKeys ==
  ASSUME NEW s \in Seq(STRING), NEW t \in Seq(STRING)
  PROVE  s \o t \in Seq(STRING) /\ (HasKey(s \o t) => HasKey(s) \/ HasKey(t))
<1>1. /\ DOMAIN s = 1..Len(s) /\ DOMAIN t = 1..Len(t) /\ DOMAIN (s \o t) = 1..(Len(s) + Len(t))
      /\ \A i \in 1..(Len(s) + Len(t)) :
           (s \o t)[i] = IF i <= Len(s) THEN s[i] ELSE t[i - Len(s)]
  OBVIOUS
<1>2. ASSUME NEW i \in DOMAIN (s \o t), (s \o t)[i] \in Key[check]
      PROVE  HasKey(s) \/ HasKey(t)
  <2>1. CASE i <= Len(s)
    BY <1>1, <1>2, <2>1 DEF HasKey
  <2>2. CASE i > Len(s)
    <3>1. i - Len(s) \in DOMAIN t /\ t[i - Len(s)] \in Key[check]
      BY <1>1, <1>2, <2>2
    <3> QED
      BY <3>1 DEF HasKey
  <2> QED
    BY <1>1, <2>1, <2>2
<1> QED
  BY <1>2 DEF HasKey

\* One of the tests that hold decides, or none does.
LEMMA JudgedBy ==
  ASSUME NEW c \in Check, NEW s \in DOMAIN Script[c], NEW got \in Seq(STRING), NEW cut \in BOOLEAN
  PROVE  \/ Judged(Script[c][s], got, cut) = Script[c][s].otherwise
         \/ \E k \in DOMAIN Script[c][s].tests :
              /\ Script[c][s].tests[k].shows \subseteq {got[i] : i \in DOMAIN got}
              /\ Judged(Script[c][s], got, cut) = Script[c][s].tests[k].to
<1> DEFINE e == Script[c][s]
           shown == {got[i] : i \in DOMAIN got}
           holds == {k \in DOMAIN e.tests : e.tests[k].shows \subseteq shown}
<1>1. DOMAIN e.tests \subseteq Nat
  BY ScriptAssumption, Zenon
<1>2. Judged(e, got, cut) = e.otherwise \/ \E k \in holds : Judged(e, got, cut) = e.tests[k].to
  <2> HIDE DEF e
  <2>1. CASE holds = {}
    BY <2>1 DEF Judged
  <2>2. CASE holds # {}
    <3>1. \E k \in holds : \A m \in holds : k <= m
      BY <1>1, <2>2, LeastNumber
    <3>2. (CHOOSE k \in holds : \A m \in holds : k <= m) \in holds
      BY <3>1
    <3> QED
      BY <2>2, <3>2 DEF Judged
  <2> QED
    BY <2>1, <2>2
<1> QED
  BY <1>2

\* Where the tests lead: to an exchange or an end, and to a verdict, or an
\* exchange that follows one, only from one or for a key.
LEMMA JudgedDecided ==
  ASSUME TypeOK, Running, NEW got \in Seq(STRING), NEW cut \in BOOLEAN
  PROVE  /\ Judged(Exchange, got, cut) \in DOMAIN Script[check] \cup Done
         /\ check \in Keyed /\ Judged(Exchange, got, cut) \in Decided(check)
              => pc \in Decided(check) \/ HasKey(got)
<1> DEFINE shown == {got[i] : i \in DOMAIN got}
           holds == {k \in DOMAIN Exchange.tests : Exchange.tests[k].shows \subseteq shown}
<1>1. pc \in DOMAIN Script[check] /\ check \in Check
  BY DEF TypeOK, Running
<1>2. /\ Exchange.otherwise \in DOMAIN Script[check] \cup Done
      /\ DOMAIN Exchange.tests \subseteq Nat
      /\ \A k \in DOMAIN Exchange.tests : Exchange.tests[k].to \in DOMAIN Script[check] \cup Done
  BY <1>1, ScriptAssumption, Zenon DEF Exchange
<1>3. ASSUME check \in Keyed, pc \notin Decided(check)
      PROVE  /\ Exchange.otherwise \notin Decided(check)
             /\ \A k \in DOMAIN Exchange.tests :
                  Exchange.tests[k].to \in Decided(check) =>
                    Exchange.tests[k].shows \cap Key[check] # {}
  <2>1. pc \in DOMAIN Script[check] \ Sure[check]
    BY <1>1, <1>3 DEF Decided
  <2> QED
    BY <1>3, <2>1, KeyedAssumption, Zenon DEF Exchange
<1>4. CASE Judged(Exchange, got, cut) = Exchange.otherwise
  BY <1>2, <1>3, <1>4
<1>5. ASSUME NEW k \in holds, Judged(Exchange, got, cut) = Exchange.tests[k].to
      PROVE  /\ Judged(Exchange, got, cut) \in DOMAIN Script[check] \cup Done
             /\ check \in Keyed /\ Judged(Exchange, got, cut) \in Decided(check)
                  => pc \in Decided(check) \/ HasKey(got)
  <2>1. Judged(Exchange, got, cut) \in DOMAIN Script[check] \cup Done
    BY <1>2, <1>5
  <2>2. ASSUME check \in Keyed, Judged(Exchange, got, cut) \in Decided(check), pc \notin Decided(check)
        PROVE  HasKey(got)
    <3>1. PICK a \in Exchange.tests[k].shows : a \in Key[check]
      BY <1>3, <1>5, <2>2
    <3>2. a \in shown
      BY <3>1
    <3> QED
      BY <3>1, <3>2 DEF HasKey
  <2> QED
    BY <2>1, <2>2
<1>6. Judged(Exchange, got, cut) = Exchange.otherwise
      \/ \E k \in holds : Judged(Exchange, got, cut) = Exchange.tests[k].to
  <2>1. \/ Judged(Exchange, got, cut) = Exchange.otherwise
        \/ \E k \in DOMAIN Exchange.tests :
             /\ Exchange.tests[k].shows \subseteq {got[i] : i \in DOMAIN got}
             /\ Judged(Exchange, got, cut) = Exchange.tests[k].to
    BY <1>1, JudgedBy, Zenon DEF Exchange
  <2> QED
    BY <2>1
<1> QED
  BY <1>4, <1>5, <1>6

-----------------------------------------------------------------------------
LEMMA InitImplies == Init => IInv
<1> SUFFICES ASSUME Init PROVE IInv
  OBVIOUS
<1>1. /\ check \in Check /\ healthy \in BOOLEAN /\ pc = First[check]
      /\ response = <<>> /\ half = FALSE /\ due = <<>> /\ inbox = <<>> /\ owed = {} /\ granted = FALSE
  BY DEF Init, None
<1>2. TypeOK
  <2>1. <<>> \in Seq(STRING)
    OBVIOUS
  <2>2. First[check] \in DOMAIN Script[check]
    BY <1>1, ScriptAssumption, Zenon
  <2> QED
    BY <1>1, <2>1, <2>2 DEF TypeOK
<1>3. check \in Keyed => pc \notin Decided(check)
  BY <1>1, ScriptAssumption, KeyedAssumption DEF Decided, Done, ExitCode
<1>4. ~HasKey(<<>>)
  BY DEF HasKey
<1> QED
  BY <1>1, <1>2, <1>3, <1>4 DEF IInv, KeyMeansGranted

\* A step of the client keeps it, if what it goes on to is where the tests of a
\* response lead, and the response and the stream have no more than they had.
LEMMA ClientPreserves ==
  ASSUME IInv, UNCHANGED <<check, healthy, granted>>,
         pc' \in DOMAIN Script[check] \cup Done,
         check \in Keyed /\ pc' \in Decided(check) =>
           pc \in Decided(check) \/ HasKey(response) \/ HasKey(inbox),
         response' \in Seq(STRING), half' \in BOOLEAN, due' \in Seq(STRING), inbox' \in Seq(STRING), owed' \subseteq DOMAIN Answer[check],
         HasKey(response') \/ HasKey(inbox') => HasKey(response) \/ HasKey(inbox)
  PROVE  IInv'
<1>1. TypeOK'
  BY DEF IInv, TypeOK
<1>2. KeyMeansGranted'
  BY DEF IInv, KeyMeansGranted, HasKey, Decided
<1> QED
  BY <1>1, <1>2 DEF IInv

\* An empty response leads to no verdict that rests on a key.
LEMMA NothingRead == <<>> \in Seq(STRING) /\ ~HasKey(<<>>)
BY DEF HasKey

LEMMA DialPreserves == ASSUME IInv, Dial \/ Handshake PROVE IInv'
<1>1. TypeOK /\ Running
  BY DEF IInv, Dial, Handshake, At
<1>2. UNCHANGED <<check, healthy, granted, response, half, due>> /\ pc' \in {pc, Judged(Exchange, <<>>, FALSE)}
  BY DEF Dial, Handshake, Go, who, peer
<1>3. inbox' \in {inbox, <<>>} /\ owed' \in {owed, {}}
  BY DEF Dial, Handshake, None, peer
<1>4. /\ pc' \in DOMAIN Script[check] \cup Done
      /\ check \in Keyed /\ pc' \in Decided(check) => pc \in Decided(check)
  BY <1>1, <1>2, NothingRead, JudgedDecided DEF TypeOK
<1> QED
  BY <1>1, <1>2, <1>3, <1>4, NothingRead, ClientPreserves DEF TypeOK

LEMMA SendPreserves == ASSUME IInv, Send PROVE IInv'
<1>1. TypeOK /\ Running
  BY DEF IInv, Send, At
<1>2. /\ UNCHANGED <<check, healthy, granted, inbox>> /\ response' = <<>> /\ half' = FALSE /\ due' = <<>>
      /\ pc' \in {pc, Judged(Exchange, <<>>, FALSE), "SIGPIPE"}
  BY DEF Send, EmptyBuffer, Go, who
<1>3. owed' \subseteq DOMAIN Answer[check]
  <2>1. pc \in DOMAIN Script[check] /\ check \in Check
    BY <1>1 DEF TypeOK, Running
  <2>2. Exchange.cmd \in DOMAIN Answer[check]
    BY <2>1, ScriptAssumption, Zenon DEF Exchange
  <2> QED
    BY <1>1, <2>2 DEF Send, TypeOK
<1>4. /\ pc' \in DOMAIN Script[check] \cup Done
      /\ check \in Keyed /\ pc' \in Decided(check) => pc \in Decided(check)
  <2>1. "SIGPIPE" \in Done /\ (check \in Keyed => "SIGPIPE" \notin Decided(check))
    BY KeyedAssumption DEF Done, Decided
  <2> QED
    BY <1>1, <1>2, <2>1, NothingRead, JudgedDecided DEF TypeOK
<1> QED
  BY <1>1, <1>2, <1>3, <1>4, NothingRead, ClientPreserves DEF TypeOK

\* What a segment adds to the response was on its way before.
LEMMA RecvPreserves == ASSUME IInv, Recv PROVE IInv'
<1>1. TypeOK /\ Running /\ response \in Seq(STRING) /\ inbox \in Seq(STRING)
  BY DEF IInv, Recv, At, TypeOK
<1>2. PICK k \in 0..Len(inbox), cut \in BOOLEAN :
        /\ Gather(SubSeq(inbox, 1, k), cut)
        /\ inbox' = SubSeq(inbox, k + 1, Len(inbox))
  BY DEF Recv
<1> DEFINE segment == SubSeq(inbox, 1, k)
           got == response \o segment
<1>3. /\ segment \in Seq(STRING) /\ inbox' \in Seq(STRING)
      /\ HasKey(segment) => HasKey(inbox)
      /\ HasKey(inbox') => HasKey(inbox)
  BY <1>1, <1>2, CutKeys
<1>4. got \in Seq(STRING) /\ (HasKey(got) => HasKey(response) \/ HasKey(inbox))
  BY <1>1, <1>3, JoinKeys, ZenonT(60)
<1>5. response' = got /\ half' = cut /\ pc' \in {pc, Judged(Exchange, got, cut)}
  BY <1>2 DEF Gather, Go
<1> HIDE DEF got, segment
<1>6. /\ pc' \in DOMAIN Script[check] \cup Done
      /\ check \in Keyed /\ pc' \in Decided(check) => pc \in Decided(check) \/ HasKey(got)
  BY <1>1, <1>4, <1>5, JudgedDecided DEF TypeOK
<1>7. UNCHANGED <<check, healthy, granted, due, owed>>
  BY DEF Recv, who, peer
<1> QED
  BY <1>1, <1>3, <1>4, <1>5, <1>6, <1>7, ClientPreserves DEF TypeOK

LEMMA EndPreserves == ASSUME IInv, Timeout \/ Hangup PROVE IInv'
<1>1. TypeOK /\ Running /\ response \in Seq(STRING) /\ half \in BOOLEAN
  BY DEF IInv, Timeout, Hangup, At, TypeOK
<1>2. /\ UNCHANGED <<check, healthy, granted, response, half, due, inbox, owed>>
      /\ pc' = Judged(Exchange, response, half)
  BY DEF Timeout, Hangup, Go, who, peer
<1>3. /\ pc' \in DOMAIN Script[check] \cup Done
      /\ check \in Keyed /\ pc' \in Decided(check) => pc \in Decided(check) \/ HasKey(response)
  BY <1>1, <1>2, JudgedDecided
<1> QED
  BY <1>1, <1>2, <1>3, ClientPreserves DEF TypeOK

\* Only a granting answer puts a key on its way.
LEMMA ReplyPreserves == ASSUME IInv, Reply PROVE IInv'
<1>1. TypeOK /\ inbox \in Seq(STRING) /\ check \in Check /\ healthy \in BOOLEAN
  BY DEF IInv, TypeOK
<1>2. PICK cmd \in owed : \E r \in Answer[check][cmd][healthy] :
        due' = r.text /\ inbox' = inbox \o r.text /\ granted' = (granted \/ r.grants)
  BY DEF Reply
<1>3. PICK r \in Answer[check][cmd][healthy] :
        due' = r.text /\ inbox' = inbox \o r.text /\ granted' = (granted \/ r.grants)
  BY <1>2
<1>4. cmd \in DOMAIN Answer[check]
  BY <1>1 DEF TypeOK
<1>5. /\ r.text \in Seq(STRING) /\ r.grants \in BOOLEAN
      /\ check \in Keyed /\ HasKey(r.text) => r.grants
  BY <1>1, <1>4, AnswerAssumption DEF HasKey
<1>6. inbox' \in Seq(STRING) /\ (HasKey(inbox') => HasKey(inbox) \/ HasKey(r.text))
  BY <1>1, <1>3, <1>5, JoinKeys
<1>7. UNCHANGED <<check, healthy, pc, response, half>> /\ owed' = {}
  BY DEF Reply, who, None
<1>8. TypeOK'
  BY <1>1, <1>3, <1>5, <1>6, <1>7 DEF TypeOK
<1>9. KeyMeansGranted'
  BY <1>3, <1>5, <1>6, <1>7 DEF IInv, KeyMeansGranted, HasKey, Decided
<1> QED
  BY <1>8, <1>9 DEF IInv

LEMMA NetworkPreserves == ASSUME IInv, Close \/ Reset \/ ResetBack PROVE IInv'
<1>1. TypeOK /\ inbox \in Seq(STRING)
  BY DEF IInv, TypeOK
<1>2. UNCHANGED <<check, healthy, granted, pc, response, half, due>> /\ owed' \in {owed, {}}
  BY DEF Close, Reset, ResetBack, who, peer, None
<1>3. inbox' \in Seq(STRING) /\ (HasKey(inbox') => HasKey(inbox))
  <2>1. CASE Reset
    BY <1>1, <2>1, CutKeys DEF Reset
  <2>2. CASE Close \/ ResetBack
    BY <1>1, <2>2 DEF Close, ResetBack
  <2> QED
    BY <2>1, <2>2
<1> QED
  BY <1>1, <1>2, <1>3, ClientPreserves DEF TypeOK

LEMMA StepPreserves == IInv /\ [Next]_vars => IInv'
<1> SUFFICES ASSUME IInv, [Next]_vars PROVE IInv'
  OBVIOUS
<1>1. CASE Client
  BY <1>1, DialPreserves, SendPreserves, RecvPreserves, EndPreserves DEF Client
<1>2. CASE Environment
  BY <1>2, ReplyPreserves, NetworkPreserves DEF Environment
<1>3. CASE Exited \/ UNCHANGED vars
  BY <1>3 DEF Exited, vars, IInv, TypeOK, KeyMeansGranted, HasKey
<1> QED
  BY <1>1, <1>2, <1>3 DEF Next

-----------------------------------------------------------------------------
\* A key that was received or is on its way, or a verdict that rests on one,
\* means that the server has granted.
THEOREM KeyMeansGrantedHolds == Spec => []IInv
<1> QED
  BY InitImplies, StepPreserves, PTL DEF Spec

\* No false OK of httpGet() and the other receive loops, whatever the network
\* does to the answer.
THEOREM NoFalseOk == Spec => []KeyedOkGranted
<1>1. IInv => KeyedOkGranted
  BY DEF IInv, KeyMeansGranted, KeyedOkGranted, Decided
<1> QED
  BY <1>1, KeyMeansGrantedHolds, PTL

\* The check ends at most once, and with OK only for a service that granted.
THEOREM LoopImplementsVerdict == Spec => ImplementsSafely
<1>1. Init => Verdict!Init
  <2>1. Init => pc \notin Done
    BY ScriptAssumption DEF Init
  <2> QED
    BY <2>1 DEF Init, Verdict!Init
<1>2. IInv /\ IInv' /\ [Next]_vars => [Verdict!Next]_(Verdict!vars)
  <2> SUFFICES ASSUME IInv, IInv', [Next]_vars PROVE [Verdict!Next]_(Verdict!vars)
    OBVIOUS
  <2>1. CASE Client
    <3>1. pc \notin Done /\ UNCHANGED <<check, granted>>
      BY <2>1 DEF Client, Dial, Handshake, Send, Recv, Timeout, Hangup, At, Running, who, peer
    <3>2. check \in Keyed /\ pc' = "OK" => granted
      BY <3>1 DEF IInv, KeyMeansGranted, Decided
    <3>3. CASE pc' \in Done /\ check \in Keyed
      BY <3>1, <3>2, <3>3 DEF Verdict!Next, Verdict!Report, Verdict!vars
    <3>4. CASE ~(pc' \in Done /\ check \in Keyed)
      BY <3>1, <3>4 DEF Verdict!vars
    <3> QED
      BY <3>3, <3>4
  <2>2. CASE Reply
    <3>1. /\ pc \notin Done /\ UNCHANGED <<pc, check>> /\ (granted => granted')
          /\ granted \in BOOLEAN /\ granted' \in BOOLEAN
      BY <2>2 DEF Reply, Running, who, IInv, TypeOK
    <3>2. CASE granted' = TRUE
      BY <3>1, <3>2 DEF Verdict!Next, Verdict!Serve, Verdict!vars
    <3>3. CASE granted' = FALSE
      BY <3>1, <3>3 DEF Verdict!vars
    <3> QED
      BY <3>1, <3>2, <3>3
  <2>3. CASE Close \/ Reset \/ ResetBack \/ Exited \/ UNCHANGED vars
    BY <2>3 DEF Close, Reset, ResetBack, Exited, vars, who, peer, Verdict!vars
  <2> QED
    BY <2>1, <2>2, <2>3 DEF Next, Environment
<1> QED
  BY <1>1, <1>2, KeyMeansGrantedHolds, PTL DEF Spec, Verdict!Spec, ImplementsSafely

-----------------------------------------------------------------------------
(* Whole replies. *)

LEMMA SameSeq ==
  ASSUME NEW s \in Seq(STRING), NEW t \in Seq(STRING), Len(s) = Len(t),
         \A i \in 1..Len(s) : s[i] = t[i]
  PROVE  s = t
BY SeqEqual, Zenon

\* A segment moves the border between what was collected and what is on its
\* way, and no atom.
LEMMA MovedBorder ==
  ASSUME NEW s \in Seq(STRING), NEW t \in Seq(STRING), NEW k \in 0..Len(t)
  PROVE  /\ s \o SubSeq(t, 1, k) = SubSeq(s \o t, 1, Len(s) + k)
         /\ (s \o SubSeq(t, 1, k)) \o SubSeq(t, k + 1, Len(t)) = s \o t
         /\ Len(s \o SubSeq(t, 1, k)) = Len(s) + k
         /\ Len(s \o t) = Len(s) + Len(t)
         /\ k > 0 => (s \o t)[Len(s) + k] = t[k]
<1> DEFINE all == s \o t
           front == SubSeq(t, 1, k)
           rest == SubSeq(t, k + 1, Len(t))
           got == s \o front
<1>1. /\ all \in Seq(STRING) /\ Len(all) = Len(s) + Len(t)
      /\ \A i \in 1..Len(all) : all[i] = IF i <= Len(s) THEN s[i] ELSE t[i - Len(s)]
  OBVIOUS
<1>2. /\ front \in Seq(STRING) /\ Len(front) = k
      /\ \A i \in 1..k : front[i] = t[i]
  OBVIOUS
<1>3. /\ rest \in Seq(STRING) /\ Len(rest) = Len(t) - k
      /\ \A i \in 1..(Len(t) - k) : rest[i] = t[k + i]
  OBVIOUS
<1> HIDE DEF all, front, rest
<1>4. /\ got \in Seq(STRING) /\ Len(got) = Len(s) + k
      /\ \A i \in 1..Len(got) : got[i] = IF i <= Len(s) THEN s[i] ELSE front[i - Len(s)]
  BY <1>2
<1> HIDE DEF got
<1>5. Len(s) \in Nat /\ Len(t) \in Nat /\ k \in Nat /\ k <= Len(t)
  OBVIOUS
<1>6. \A i \in 1..(Len(s) + k) : got[i] = all[i]
  <2> SUFFICES ASSUME NEW i \in 1..(Len(s) + k) PROVE got[i] = all[i]
    OBVIOUS
  <2>1. CASE i <= Len(s)
    BY <1>5, <1>1, <1>4, <2>1
  <2>2. CASE i > Len(s)
    <3>1. i - Len(s) \in 1..k /\ i \in 1..Len(all)
      BY <1>5, <1>1, <2>2
    <3>2. got[i] = front[i - Len(s)] /\ all[i] = t[i - Len(s)]
      BY <1>5, <1>1, <1>4, <2>2, <3>1
    <3> QED
      BY <1>2, <3>1, <3>2
  <2> QED
    BY <1>5, <2>1, <2>2
<1>7. got = SubSeq(all, 1, Len(s) + k)
  <2> DEFINE part == SubSeq(all, 1, Len(s) + k)
  <2>1. /\ part \in Seq(STRING) /\ Len(part) = Len(s) + k
        /\ \A i \in 1..(Len(s) + k) : part[i] = all[i]
    BY <1>1
  <2> HIDE DEF part
  <2>2. \A i \in 1..(Len(s) + k) : got[i] = part[i]
    BY <1>6, <2>1
  <2>3. got = part
    BY <1>4, <2>1, <2>2, SameSeq
  <2> QED
    BY <2>3 DEF part
<1>8. got \o rest = all
  <2> DEFINE joined == got \o rest
  <2>1. /\ joined \in Seq(STRING) /\ Len(joined) = Len(s) + Len(t)
        /\ \A i \in 1..(Len(s) + Len(t)) :
             joined[i] = IF i <= Len(s) + k THEN got[i] ELSE rest[i - (Len(s) + k)]
    <3>1. /\ joined \in Seq(STRING) /\ Len(joined) = Len(got) + Len(rest)
          /\ \A i \in 1..Len(got) + Len(rest) :
               joined[i] = IF i <= Len(got) THEN got[i] ELSE rest[i - Len(got)]
      BY <1>3, <1>4, ConcatProperties, Zenon
    <3> QED
      BY <1>5, <1>3, <1>4, <3>1, SMTT(60)
  <2> HIDE DEF joined
  <2>2. ASSUME NEW i \in 1..(Len(s) + Len(t)) PROVE joined[i] = all[i]
    <3>1. CASE i <= Len(s) + k
      BY <1>5, <1>6, <2>1, <3>1
    <3>2. CASE i > Len(s) + k
      <4>1. joined[i] = rest[i - (Len(s) + k)] /\ i - (Len(s) + k) \in 1..(Len(t) - k)
        BY <1>5, <2>1, <3>2
      <4>2. rest[i - (Len(s) + k)] = t[k + (i - (Len(s) + k))]
        BY <1>3, <4>1
      <4>3. k + (i - (Len(s) + k)) = i - Len(s)
        BY ONLY <1>5, i \in Int
      <4> QED
        BY <1>5, <1>1, <3>2, <4>1, <4>2, <4>3
    <3> QED
      BY <3>1, <3>2
  <2>3. joined = all
    BY <1>1, <2>1, <2>2, SameSeq
  <2> QED
    BY <2>3 DEF joined
<1>9. k > 0 => all[Len(s) + k] = t[k]
  BY <1>1, SMTT(60)
<1> QED
  BY <1>1, <1>4, <1>7, <1>8, <1>9 DEF all, front, rest, got

\* The exchange of a running process is one of its table, and the tests lead
\* where the table says.
LEMMA StageKnown ==
  ASSUME IInv, Running
  PROVE  /\ check \in Check /\ healthy \in BOOLEAN /\ pc \in DOMAIN Script[check]
         /\ Exchange = Script[check][pc] /\ Exchange.cmd \in DOMAIN Answer[check]
<1>1. check \in Check /\ healthy \in BOOLEAN /\ pc \in DOMAIN Script[check]
  BY DEF IInv, TypeOK, Running
<1> QED
  BY <1>1, ScriptAssumption, Zenon DEF Exchange

LEMMA JudgedTargets ==
  ASSUME IInv, Running, NEW got \in Seq(STRING), NEW cut \in BOOLEAN
  PROVE  Judged(Exchange, got, cut) \in Targets(Exchange)
<1>1. \/ Judged(Exchange, got, cut) = Exchange.otherwise
      \/ \E k \in DOMAIN Exchange.tests :
           /\ Exchange.tests[k].shows \subseteq {got[i] : i \in DOMAIN got}
           /\ Judged(Exchange, got, cut) = Exchange.tests[k].to
  BY StageKnown, JudgedBy, Zenon DEF Exchange
<1> QED
  BY <1>1, Zenon DEF Targets

\* Where a part of a reply that ends the loop, or the whole of it, leads.
LEMMA JudgedPart ==
  ASSUME IInv, Running, Reading, NEW n \in 0..Len(due), NEW cut \in BOOLEAN,
         Arrives(check, due, n), cut => n < Len(due),
         n = Len(due) \/ Complete(Exchange, SubSeq(due, 1, n), cut)
  PROVE  LET to == Judged(Exchange, SubSeq(due, 1, n), cut) IN
         /\ to = "OK" /\ check \in Whole => n = Len(due)
         /\ to = "OK" /\ check \in Absence => granted
         /\ healthy /\ check \in Answerable =>
              to \in DOMAIN Script[check] \cup {"OK"} \/ (check \in Hasty /\ n < Len(due))
         /\ to \in DOMAIN Script[check] /\ ~Script[check][to].dials =>
              n = Len(due) /\ check \notin Closing
<1> DEFINE to == Judged(Exchange, SubSeq(due, 1, n), cut)
<1>1. /\ check \in Check /\ healthy \in BOOLEAN /\ pc \in DOMAIN Script[check]
      /\ Exchange = Script[check][pc]
      /\ due \in Seq(STRING) /\ Len(due) \in Nat /\ SubSeq(due, 1, n) \in Seq(STRING)
  BY StageKnown DEF IInv, TypeOK
<1>2. PICK r \in Answer[check][Exchange.cmd][healthy] : due = r.text /\ (r.grants => granted)
  BY DEF Reading
<1>3. to \in Targets(Exchange)
  BY <1>1, JudgedTargets
<1>4. ReadsWhole(check, pc) => n = Len(due)
  <2> SUFFICES ASSUME ReadsWhole(check, pc), n < Len(due) PROVE FALSE
    BY <1>1
  <2>1. ~Complete(Exchange, SubSeq(due, 1, n), cut)
    BY <1>1, <1>2, Zenon DEF ReadsWhole
  <2> QED
    BY <1>1, <2>1
<1> HIDE DEF to
<1>5. to = "OK" /\ check \in Whole => n = Len(due)
  BY <1>1, <1>3, <1>4, WholeAssumption, Zenon
<1>6. ASSUME to = "OK", check \in Absence PROVE granted
  <2>1. n = Len(due)
    BY <1>5, <1>6, WholeAssumption
  <2>2. SubSeq(due, 1, n) = due /\ cut = FALSE
    BY <1>1, <2>1, SubSeqFull
  <2>3. Judged(Exchange, r.text, FALSE) = "OK"
    BY <1>2, <1>6, <2>2 DEF to
  <2>4. r.grants
    BY <1>1, <1>2, <1>6, <2>3, WholeAssumption, AbsenceAssumption, Zenon
  <2> QED
    BY <1>2, <2>4
<1>7. ASSUME healthy, check \in Answerable
      PROVE  to \in DOMAIN Script[check] \cup {"OK"} \/ (check \in Hasty /\ n < Len(due))
  <2>1. r \in Answer[check][Exchange.cmd][TRUE]
    BY <1>1, <1>2, <1>7
  <2> QED
    BY <1>1, <1>2, <1>7, <2>1, AnswerableAssumption, Zenon DEF to
<1>8. ASSUME to \in DOMAIN Script[check], ~Script[check][to].dials
      PROVE  n = Len(due) /\ check \notin Closing
  BY <1>1, <1>3, <1>4, <1>8, ConnectionAssumption, Zenon
<1> QED
  BY <1>5, <1>6, <1>7, <1>8 DEF to

-----------------------------------------------------------------------------
\* After a failure the keyed checks alone promise something.
LEMMA FailedKeeps == ASSUME IInv', fault' PROVE LoopInv'
BY DEF LoopInv, IInv, KeyMeansGranted, Decided, Unbroken, OkMeansGranted, WholeReply, HealthyIsOk

\* A process that goes on has promised nothing yet.
LEMMA GoesOn == ASSUME IInv', Running', Unbroken' PROVE LoopInv'
BY DEF LoopInv, Running, Done, ExitCode, OkMeansGranted, WholeReply, HealthyIsOk

\* The loop has ended, with the whole reply or a part of it that ends the loop.
LEMMA JudgedKeeps ==
  ASSUME LoopInv, IInv', At("read"), ~fault, Reading,
         NEW n \in 0..Len(due), NEW cut \in BOOLEAN,
         Arrives(check, due, n), cut => n < Len(due),
         n = Len(due) \/ Complete(Exchange, SubSeq(due, 1, n), cut),
         Go(Judged(Exchange, SubSeq(due, 1, n), cut)),
         response' = SubSeq(due, 1, n), n = Len(due) => inbox' = <<>>,
         UNCHANGED <<who, due, granted, owed, link>>
  PROVE  LoopInv'
<1> DEFINE to == Judged(Exchange, SubSeq(due, 1, n), cut)
<1>1. IInv /\ Running /\ phase = "read"
  BY DEF LoopInv, At
<1>2. /\ to = "OK" /\ check \in Whole => n = Len(due)
      /\ to = "OK" /\ check \in Absence => granted
      /\ healthy /\ check \in Answerable =>
           to \in DOMAIN Script[check] \cup {"OK"} \/ (check \in Hasty /\ n < Len(due))
      /\ to \in DOMAIN Script[check] /\ ~Script[check][to].dials =>
           n = Len(due) /\ check \notin Closing
  BY <1>1, JudgedPart
<1>3. /\ pc' = to /\ UNCHANGED <<check, healthy, due, granted, owed, link>>
      /\ phase' = IF to \in DOMAIN Script[check] /\ Script[check][to].dials THEN "dial" ELSE "send"
  BY DEF Go, who
<1> HIDE DEF to
<1>4. /\ due \in Seq(STRING) /\ Len(due) \in Nat /\ Len(response') = n
      /\ n = Len(due) => response' = due
  <2>1. due \in Seq(STRING) /\ Len(due) \in Nat
    BY <1>1 DEF IInv, TypeOK
  <2>2. Len(response') = n
    BY <2>1
  <2> QED
    BY <2>1, <2>2, SubSeqFull
<1>5. OkMeansGranted'
  BY <1>2, <1>3 DEF OkMeansGranted, IInv, KeyMeansGranted, Decided
<1>6. WholeReply'
  BY <1>2, <1>3, <1>4 DEF WholeReply
<1>7. HealthyIsOk'
  <2>1. check \in Check
    BY <1>1 DEF IInv, TypeOK
  <2>2. to \in Done => to \notin DOMAIN Script[check]
    BY <2>1, ScriptAssumption
  <2> QED
    BY <1>2, <1>3, <1>4, <2>2 DEF HealthyIsOk
<1>8. Unbroken'
  <2> SUFFICES ASSUME Running', ~fault', phase' = "send"
               PROVE  link' = "up" /\ inbox' = <<>> /\ owed' = None
    BY <1>3, Zenon DEF Unbroken
  <2>1. to \in DOMAIN Script[check]
    BY <1>3 DEF Running, IInv, TypeOK
  <2>2. n = Len(due) /\ check \notin Closing
    BY <1>2, <1>3, <2>1
  <2>3. link = "up" /\ owed = None
    BY <1>1, <2>2 DEF LoopInv, Unbroken, Reading
  <2> QED
    BY <1>3, <2>2, <2>3
<1> QED
  BY <1>5, <1>6, <1>7, <1>8 DEF LoopInv

LEMMA DialWhole == ASSUME LoopInv, IInv', Dial \/ Handshake PROVE LoopInv'
<1>1. CASE fault'
  BY <1>1, FailedKeeps
<1>2. CASE ~fault'
  <2>1. /\ Running /\ pc' = pc /\ check' = check
        /\ phase' \in {"handshake", "send"} /\ link' = "up"
        /\ inbox' = <<>> /\ owed' = None
    <3>1. CASE Dial
      BY <1>2, <3>1 DEF Dial, At, who
    <3>2. CASE Handshake
      <4>1. ~fault /\ link = "up" /\ phase' = "send" /\ UNCHANGED <<who, peer, pc, inbox, link>>
        <5>1. fault' # TRUE
          BY <1>2
        <5>2. link = "up" /\ phase' = "send" /\ UNCHANGED <<pc, fault>> /\ UNCHANGED <<who, peer, inbox, link>>
          BY <3>2, <5>1 DEF Handshake
        <5>3. fault' = fault
          BY <5>2
        <5> QED
          BY <1>2, <5>2, <5>3
      <4>2. Running /\ phase = "handshake"
        BY <3>2 DEF Handshake, At
      <4>3. inbox = <<>> /\ owed = None
        BY <4>1, <4>2 DEF LoopInv, Unbroken
      <4> QED
        BY <4>1, <4>2, <4>3 DEF who, peer
    <3> QED
      BY <3>1, <3>2
  <2>2. Unbroken'
    BY <2>1 DEF Unbroken
  <2> QED
    BY <2>1, <2>2, GoesOn DEF Running
<1> QED
  BY <1>1, <1>2

LEMMA SendWhole == ASSUME LoopInv, IInv', Send PROVE LoopInv'
<1>1. CASE fault'
  BY <1>1, FailedKeeps
<1>2. CASE ~fault'
  <2>1. Running /\ phase = "send" /\ link = "up" /\ inbox = <<>>
    BY <1>2 DEF Send, At, LoopInv, Unbroken
  <2>2. /\ UNCHANGED <<check, pc, link, inbox>> /\ phase' = "read" /\ owed' = {Exchange.cmd}
        /\ response' = <<>> /\ due' = <<>> /\ half' = FALSE
    BY <2>1 DEF Send, EmptyBuffer, who
  <2>3. Awaiting'
    BY <2>1, <2>2 DEF Awaiting, Exchange
  <2>4. Unbroken'
    BY <2>1, <2>2, <2>3 DEF Unbroken
  <2> QED
    BY <2>1, <2>2, <2>4, GoesOn DEF Running
<1> QED
  BY <1>1, <1>2

LEMMA RecvWhole == ASSUME LoopInv, IInv', Recv PROVE LoopInv'
<1>1. CASE fault'
  BY <1>1, FailedKeeps
<1>2. CASE ~fault'
  <2>1. PICK k \in 0..Len(inbox), cut \in BOOLEAN :
          /\ cut => k < Len(inbox) /\ inbox[k + 1] \notin Byte
          /\ k = 0 => cut /\ ~half
          /\ Records(k)
          /\ check \in Secure => ~cut
          /\ Gather(SubSeq(inbox, 1, k), cut)
          /\ inbox' = SubSeq(inbox, k + 1, Len(inbox))
    BY DEF Recv
  <2>2. /\ IInv /\ Running /\ phase = "read" /\ ~fault /\ At("read")
        /\ response \in Seq(STRING) /\ inbox \in Seq(STRING) /\ due \in Seq(STRING)
        /\ UNCHANGED <<who, due, granted, owed, link>>
    BY <1>2 DEF Recv, At, LoopInv, IInv, TypeOK, peer
  <2>3. /\ Len(inbox) \in Nat /\ Len(response) \in Nat /\ Len(due) \in Nat
        /\ k \in Nat /\ k <= Len(inbox)
    BY <2>2
  <2>4. Reading
    <3>1. Awaiting => inbox = <<>>
      BY DEF Awaiting
    <3>2. inbox # <<>>
      BY <2>1, <2>3
    <3> QED
      BY <2>2, <3>1, <3>2 DEF LoopInv, Unbroken
  <2> DEFINE n == Len(response) + k
  <2>5. /\ due = response \o inbox
        /\ response \o SubSeq(inbox, 1, k) = SubSeq(due, 1, n)
        /\ (response \o SubSeq(inbox, 1, k)) \o inbox' = due
        /\ Len(response \o SubSeq(inbox, 1, k)) = n
        /\ Len(due) = Len(response) + Len(inbox)
        /\ k > 0 => due[n] = inbox[k]
    BY <2>1, <2>2, <2>4, MovedBorder, ZenonT(60) DEF Reading
  <2>6. n \in 0..Len(due) /\ (cut => n < Len(due))
    BY <2>1, <2>3, <2>5
  <2>7. Arrives(check, due, n)
    <3> SUFFICES ASSUME check \in Secure, n # 0, n # Len(due) PROVE due[n] \in RecordEnd
      BY <2>6 DEF Arrives
    <3>1. k # 0 /\ k # Len(inbox)
      BY <2>1, <2>3, <2>5
    <3>2. k \in DOMAIN inbox /\ inbox[k] \in RecordEnd
      BY <2>1, <3>1 DEF Records
    <3> QED
      BY <2>3, <2>5, <3>1, <3>2, SMTT(60)
  <2>8. n = Len(due) => inbox' = <<>>
    BY <2>1, <2>2, <2>3, <2>5
  <2> HIDE DEF n
  <2>9. response' = SubSeq(due, 1, n) /\ half' = cut
    BY <2>1, <2>5 DEF Gather
  <2>10. CASE Complete(Exchange, SubSeq(due, 1, n), cut)
    <3>1. Go(Judged(Exchange, SubSeq(due, 1, n), cut))
      BY <2>1, <2>5, <2>10 DEF Gather
    <3> QED
      BY <2>2, <2>4, <2>6, <2>7, <2>8, <2>9, <2>10, <3>1, JudgedKeeps
  <2>11. CASE ~Complete(Exchange, SubSeq(due, 1, n), cut)
    <3>1. UNCHANGED <<check, healthy, pc, phase, due, granted, owed, link>>
      BY <2>1, <2>2, <2>5, <2>11 DEF Gather, who
    <3>2. Reading'
      <4>1. half' => inbox' # <<>>
        <5>1. Len(inbox') = Len(inbox) - k
          BY <2>1, <2>2, <2>3
        <5>2. cut => Len(inbox') # 0
          BY <2>1, <2>3, <5>1
        <5> QED
          BY <2>9, <5>2
      <4>2. due' = response' \o inbox' /\ Arrives(check', due', Len(response'))
        BY <2>5, <2>7, <2>9, <3>1 DEF Arrives
      <4> QED
        BY <2>4, <3>1, <4>1, <4>2 DEF Reading, Exchange
    <3>3. Unbroken'
      BY <2>2, <3>1, <3>2 DEF LoopInv, Unbroken, Running
    <3> QED
      BY <2>2, <3>1, <3>3, GoesOn DEF Running
  <2> QED
    BY <2>10, <2>11
<1> QED
  BY <1>1, <1>2

\* Whoever has the whole reply judges it.
LEMMA WholeJudged ==
  ASSUME LoopInv, IInv', At("read"), ~fault, Reading, inbox = <<>>,
         Go(Judged(Exchange, response, half)),
         UNCHANGED <<who, due, granted, response, inbox, owed, link>>
  PROVE  LoopInv'
<1>1. /\ response \in Seq(STRING) /\ due = response \o inbox /\ due \in Seq(STRING)
      /\ Len(due) \in Nat /\ half \in BOOLEAN /\ ~half
  BY DEF Reading, LoopInv, IInv, TypeOK
<1>2. due = response /\ SubSeq(due, 1, Len(due)) = due /\ Len(due) \in 0..Len(due)
  BY <1>1, ConcatEmptySeq, SubSeqFull
<1>3. Arrives(check, due, Len(due))
  BY <1>2 DEF Arrives
<1>4. Go(Judged(Exchange, SubSeq(due, 1, Len(due)), half))
  BY <1>2
<1> QED
  BY <1>1, <1>2, <1>3, <1>4, JudgedKeeps, Zenon

LEMMA EndWhole == ASSUME LoopInv, IInv', Timeout \/ Hangup PROVE LoopInv'
<1>1. CASE fault'
  BY <1>1, FailedKeeps
<1>2. CASE ~fault'
  <2>1. /\ At("read") /\ ~fault /\ Running /\ phase = "read"
        /\ Go(Judged(Exchange, response, half))
        /\ UNCHANGED <<who, due, granted, response, inbox, owed>>
    <3>1. ~fault
      BY <1>2, Zenon DEF Timeout, Hangup
    <3> QED
      BY <3>1 DEF Timeout, Hangup, At, peer
  <2>2. /\ link = "up" \/ (link = "closed" /\ due # <<>>)
        /\ Awaiting \/ Reading
    BY <2>1 DEF LoopInv, Unbroken
  <2>3. inbox = <<>> /\ (owed = None \/ due # <<>>) /\ link' = link
    <3>1. CASE Timeout
      BY <1>2, <3>1 DEF Timeout
    <3>2. CASE Hangup
      BY <2>2, <3>2 DEF Hangup
    <3> QED
      BY <3>1, <3>2
  <2>4. Reading
    BY <2>2, <2>3 DEF Awaiting, None
  <2> QED
    BY <2>1, <2>3, <2>4, WholeJudged
<1> QED
  BY <1>1, <1>2

LEMMA ReplyWhole == ASSUME LoopInv, IInv', Reply PROVE LoopInv'
<1>1. CASE fault'
  BY <1>1, FailedKeeps
<1>2. CASE ~fault'
  <2>1. /\ Running /\ ~fault /\ link = "up" /\ inbox \in Seq(STRING) /\ response \in Seq(STRING)
        /\ UNCHANGED <<check, healthy, pc, phase, response, half, link>> /\ owed' = None
    BY <1>2 DEF Reply, who, LoopInv, IInv, TypeOK
  <2>2. PICK cmd \in owed : \E r \in Answer[check][cmd][healthy] :
          inbox' = inbox \o r.text /\ due' = r.text /\ granted' = (granted \/ r.grants)
    BY DEF Reply
  <2>3. PICK r \in Answer[check][cmd][healthy] :
          inbox' = inbox \o r.text /\ due' = r.text /\ granted' = (granted \/ r.grants)
    BY <2>2
  <2>4. CASE phase = "read"
    <3>1. Awaiting
      <4>1. Awaiting \/ Reading
        BY <2>1, <2>4 DEF LoopInv, Unbroken
      <4>2. owed # None
        BY <2>2 DEF None
      <4> QED
        BY <4>1, <4>2 DEF Reading
    <3>2. cmd = Exchange.cmd /\ response = <<>> /\ inbox = <<>> /\ ~half
      BY <2>2, <3>1 DEF Awaiting
    <3>3. r.text \in Seq(STRING)
      <4>1. check \in Check /\ healthy \in BOOLEAN /\ cmd \in DOMAIN Answer[check]
        BY <2>1, <3>2, StageKnown DEF LoopInv
      <4> QED
        BY <2>3, <4>1, AnswerAssumption, Zenon
    <3>4. inbox' = due' /\ due' = response' \o inbox' /\ Len(response') = 0
      BY <2>1, <2>3, <3>2, <3>3, ConcatEmptySeq
    <3>5. Arrives(check', due', Len(response'))
      BY <2>3, <3>3, <3>4 DEF Arrives
    <3>6. \E q \in Answer[check'][Exchange'.cmd][healthy'] : due' = q.text /\ (q.grants => granted')
      BY <2>1, <2>3, <3>2 DEF Exchange
    <3>7. Reading'
      BY <2>1, <3>2, <3>4, <3>5, <3>6 DEF Reading
    <3>8. Unbroken'
      BY <2>1, <2>4, <3>7 DEF Unbroken
    <3> QED
      BY <2>1, <3>8, GoesOn DEF Running
  <2>5. CASE phase # "read"
    <3>1. phase = "dial"
      BY <2>1, <2>2, <2>5 DEF LoopInv, Unbroken, None
    <3>2. Unbroken'
      BY <2>1, <3>1 DEF Unbroken
    <3> QED
      BY <2>1, <3>2, GoesOn DEF Running
  <2> QED
    BY <2>4, <2>5
<1> QED
  BY <1>1, <1>2

LEMMA NetworkWhole == ASSUME LoopInv, IInv', Close \/ Reset \/ ResetBack PROVE LoopInv'
<1>1. CASE fault'
  BY <1>1, FailedKeeps
<1>2. CASE ~fault'
  <2>1. /\ Running /\ ~fault /\ ~Reset
        /\ UNCHANGED <<check, healthy, pc, phase, response, half, inbox, due, granted>>
    <3>1. fault' # TRUE
      BY <1>2
    <3>2. ~Reset
      BY <3>1 DEF Reset
    <3>3. CASE Close
      <4>1. ~fault
        BY <1>2, <3>3 DEF Close
      <4> QED
        BY <3>2, <3>3, <4>1 DEF Close, who
    <3>4. CASE ResetBack
      BY <1>2, <3>2, <3>4 DEF ResetBack, who, peer
    <3> QED
      BY <3>2, <3>3, <3>4
  <2>2. CASE Close
    <3>1. /\ phase = "read" /\ check \in Closing /\ due # <<>> /\ link' = "closed" /\ owed' = None
      BY <1>2, <2>2 DEF Close
    <3>2. Reading
      BY <2>1, <3>1 DEF LoopInv, Unbroken, Awaiting
    <3>3. Reading'
      BY <2>1, <3>1, <3>2 DEF Reading, Exchange, Arrives
    <3>4. Unbroken'
      BY <2>1, <3>1, <3>3 DEF Unbroken
    <3> QED
      BY <2>1, <3>4, GoesOn DEF Running
  <2>3. CASE ResetBack
    <3>1. phase = "dial"
      BY <2>1, <2>3 DEF ResetBack, LoopInv, Unbroken
    <3>2. Unbroken'
      BY <2>1, <3>1 DEF Unbroken
    <3> QED
      BY <2>1, <3>2, GoesOn DEF Running
  <2> QED
    BY <2>1, <2>2, <2>3
<1> QED
  BY <1>1, <1>2

LEMMA WholePreserved == LoopInv /\ [Next]_vars => LoopInv'
<1> SUFFICES ASSUME LoopInv, [Next]_vars PROVE LoopInv'
  OBVIOUS
<1>1. IInv'
  BY StepPreserves DEF LoopInv
<1>2. CASE Client
  BY <1>1, <1>2, DialWhole, SendWhole, RecvWhole, EndWhole DEF Client
<1>3. CASE Environment
  BY <1>1, <1>3, ReplyWhole, NetworkWhole DEF Environment
<1>4. CASE Exited \/ UNCHANGED vars
  <2>1. UNCHANGED vars
    BY <1>4 DEF Exited
  <2>2. Awaiting' = Awaiting /\ Reading' = Reading
    BY <2>1 DEF vars, Awaiting, Reading, Exchange, Arrives
  <2>3. Unbroken'
    BY <2>1, <2>2 DEF vars, LoopInv, Unbroken, Running
  <2> QED
    BY <1>1, <2>1, <2>3 DEF vars, LoopInv, OkMeansGranted, WholeReply, HealthyIsOk
<1> QED
  BY <1>2, <1>3, <1>4 DEF Next

LEMMA WholeInitially == Init => LoopInv
<1> SUFFICES ASSUME Init PROVE LoopInv
  OBVIOUS
<1>1. check \in Check /\ pc = First[check] /\ phase = "dial"
  BY DEF Init
<1>2. pc \notin Done
  BY <1>1, ScriptAssumption
<1> QED
  BY <1>1, <1>2, InitImplies
     DEF LoopInv, Unbroken, OkMeansGranted, WholeReply, HealthyIsOk, Done, ExitCode

\* While the network fails nothing, the loop has collected a part of the one
\* reply that the server wrote to its last command, and the rest is on its way.
THEOREM LoopInvHolds == Spec => []LoopInv
<1> QED
  BY WholeInitially, WholePreserved, PTL DEF Spec

\* No receive loop is OK before the server wrote what the verdict stands for,
\* check_consul's absence of "critical" included when nothing was lost.
THEOREM NoLoopFalselyOk == Spec => []OkMeansGranted
<1>1. LoopInv => OkMeansGranted
  BY DEF LoopInv
<1> QED
  BY <1>1, LoopInvHolds, PTL

\* An OK is judged on the reply the server sent, all of it.
THEOREM OkOnWholeReply == Spec => []WholeReply
<1>1. LoopInv => WholeReply
  BY DEF LoopInv
<1> QED
  BY <1>1, LoopInvHolds, PTL

\* A healthy service gets OK from every table that knows its answers.
THEOREM NoFalseAlarm == Spec => []HealthyIsOk
<1>1. LoopInv => HealthyIsOk
  BY DEF LoopInv
<1> QED
  BY <1>1, LoopInvHolds, PTL
=============================================================================
