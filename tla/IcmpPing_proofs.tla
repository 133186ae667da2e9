---------------------------- MODULE IcmpPing_proofs ----------------------------
(***************************************************************************)
(* What pingHost() may believe although it matches no reply with its       *)
(* request: for a ping that is alone on its machine, with any options, and *)
(* any number of packets, losses and delays.                               *)
(***************************************************************************)
EXTENDS IcmpPing, FiniteSetTheorems, SequenceTheorems, TLAPS

\* No other ICMP traffic reaches the machine.
Alone == \A p, q \in Proc : p = q

Messages == [kind : {"reply", "error"}, proc : Proc, number : Nat]

Stages == {"open", "send", "wait", "judge"} \cup Done

TypeOK ==
  /\ options \in [Proc -> Options]
  /\ pc \in [Proc -> Stages]
  /\ seq \in [Proc -> Nat]
  /\ counted \in [Proc -> Seq([at : Nat, msg : Messages])]
  /\ queue \in [Proc -> Seq(Messages)]
  /\ requests \subseteq [proc : Proc, number : Nat]
  /\ replies \subseteq Messages
  /\ answered \in [Proc -> SUBSET Nat]
  /\ late \subseteq Proc
  /\ lossy \subseteq Proc

\* pingHost() sends the packets 0 to count - 1 in order.
InOrder(p) ==
  /\ pc[p] = "open" => seq[p] = 0 /\ counted[p] = <<>>
  /\ pc[p] \in {"send", "wait"} => seq[p] < options[p].count
  /\ pc[p] = "judge" => seq[p] = options[p].count

\* Every message has the number of a packet that was sent,
Sent(p) == seq[p] + IF pc[p] = "wait" THEN 1 ELSE 0
Below(p) ==
  /\ \A q \in requests : q.number < Sent(p)
  /\ \A r \in replies : r.number < Sent(p)
  /\ \A i \in DOMAIN queue[p] : queue[p][i].number < Sent(p)
  /\ \A i \in DOMAIN counted[p] : counted[p][i].msg.number < Sent(p)
  /\ \A n \in answered[p] : n < Sent(p)

\* is in one place only,
Apart(p) ==
  /\ \A q \in requests :
       /\ \A r \in replies : q.number # r.number
       /\ \A i \in DOMAIN queue[p] : q.number # queue[p][i].number
       /\ \A i \in DOMAIN counted[p] : q.number # counted[p][i].msg.number
  /\ \A r \in replies :
       /\ \A s \in replies : r.number = s.number => r = s
       /\ \A i \in DOMAIN queue[p] : r.number # queue[p][i].number
       /\ \A i \in DOMAIN counted[p] : r.number # counted[p][i].msg.number
  /\ \A i \in DOMAIN queue[p] :
       /\ \A j \in DOMAIN queue[p] : queue[p][i].number = queue[p][j].number => i = j
       /\ \A j \in DOMAIN counted[p] : queue[p][i].number # counted[p][j].msg.number
  /\ \A i, j \in DOMAIN counted[p] :
       counted[p][i].msg.number = counted[p][j].msg.number => i = j

\* and is a reply only if the host has answered.
Genuine(p) ==
  /\ \A r \in replies : r.kind = "reply" => r.number \in answered[p]
  /\ \A i \in DOMAIN queue[p] : queue[p][i].kind = "reply" => queue[p][i].number \in answered[p]
  /\ \A i \in DOMAIN counted[p] :
       counted[p][i].msg.kind = "reply" => counted[p][i].msg.number \in answered[p]

\* While no message was late, all that is on its way belongs to the packet
\* pingHost() waits for.
OnTime(p) ==
  p \notin late =>
    /\ \A q \in requests : q.number = seq[p]
    /\ \A r \in replies : r.number = seq[p]
    /\ \A i \in DOMAIN queue[p] : queue[p][i].number = seq[p]
    /\ \A i \in DOMAIN counted[p] : counted[p][i].msg.number = counted[p][i].at
    /\ pc[p] # "wait" => requests = {} /\ replies = {} /\ queue[p] = <<>>

\* While none was lost either, each packet has been counted or is on its way.
Complete(p) ==
  p \notin late \cup lossy =>
    /\ pc[p] = "wait" => requests # {} \/ replies # {} \/ queue[p] # <<>>
    /\ pc[p] \in {"open", "send", "wait", "judge"} => Len(counted[p]) = seq[p]
    /\ pc[p] \in Done \ {"UNKNOWN"} => pc[p] = "OK"

\* check() has compared the loss with the limit.
Compared(p) ==
  LET o == options[p] IN
  pc[p] \in {"OK", "WARNING"} /\ o.criticalPL > 0 /\ o.count > 0 =>
    (o.count - Len(counted[p])) * 100 < o.criticalPL * o.count

IInv ==
  /\ TypeOK
  /\ \A p \in Proc :
       /\ InOrder(p) /\ Below(p) /\ Apart(p) /\ Genuine(p)
       /\ OnTime(p) /\ Complete(p) /\ Compared(p)

-----------------------------------------------------------------------------
\* What holds of the one process holds of all.
LEMMA OfOne ==
  ASSUME Alone, NEW p \in Proc, TypeOK',
         InOrder(p)', Below(p)', Apart(p)', Genuine(p)', OnTime(p)', Complete(p)', Compared(p)'
  PROVE  IInv'
<1>1. \A q \in Proc : q = p
  BY DEF Alone
<1> QED
  BY <1>1 DEF IInv

LEMMA PositiveProduct == ASSUME NEW a \in Nat, NEW b \in Nat, a > 0, b > 0 PROVE a * b > 0
OBVIOUS

LEMMA PingInit == Alone /\ Init => IInv
<1> SUFFICES ASSUME Init PROVE IInv
  OBVIOUS
<1>1. TypeOK
  <2>1. /\ options \in [Proc -> Options] /\ pc \in [Proc -> Stages] /\ seq \in [Proc -> Nat]
        /\ requests = {} /\ replies = {} /\ late = {} /\ lossy = {}
    BY DEF Init, Stages
  <2>2. counted \in [Proc -> Seq([at : Nat, msg : Messages])]
    BY DEF Init
  <2>3. queue \in [Proc -> Seq(Messages)]
    BY DEF Init
  <2>4. answered \in [Proc -> SUBSET Nat]
    BY DEF Init
  <2> QED
    BY <2>1, <2>2, <2>3, <2>4 DEF TypeOK
<1>2. ASSUME NEW p \in Proc
      PROVE  /\ pc[p] = "open" /\ seq[p] = 0 /\ counted[p] = <<>> /\ queue[p] = <<>>
             /\ requests = {} /\ replies = {} /\ answered[p] = {}
  BY DEF Init
<1>3. ASSUME NEW p \in Proc
      PROVE  /\ InOrder(p) /\ Below(p) /\ Apart(p) /\ Genuine(p)
             /\ OnTime(p) /\ Complete(p) /\ Compared(p)
  BY <1>2 DEF InOrder, Below, Apart, Genuine, OnTime, Complete, Compared, Done
<1> QED
  BY <1>1, <1>3 DEF IInv

\* pingHost() goes on with packet i, or has sent them all.
LEMMA GoesOn ==
  ASSUME TypeOK, NEW p \in Proc, NEW i \in Nat, i <= options[p].count, GoOn(p, i)
  PROVE  /\ seq' \in [Proc -> Nat] /\ pc' \in [Proc -> Stages]
         /\ seq'[p] = i /\ pc'[p] \in {"send", "judge"} /\ options[p].count \in Nat
         /\ pc'[p] = "send" => i < options[p].count
         /\ pc'[p] = "judge" => i = options[p].count
<1>1. options[p].count \in Nat
  BY OptionsAssumption DEF TypeOK
<1>2. seq' \in [Proc -> Nat] /\ seq'[p] = i
  BY DEF GoOn, TypeOK
<1>3. pc' \in [Proc -> Stages] /\ pc'[p] = IF i < options[p].count THEN "send" ELSE "judge"
  BY DEF GoOn, TypeOK, Stages
<1> QED
  BY <1>1, <1>2, <1>3

\* The numbers are numbers.
LEMMA Numbered ==
  ASSUME TypeOK, NEW p \in Proc
  PROVE  /\ \A q \in requests : q.number \in Nat
         /\ \A r \in replies : r.number \in Nat
         /\ \A i \in DOMAIN queue[p] : queue[p][i] \in Messages /\ queue[p][i].number \in Nat
         /\ \A i \in DOMAIN counted[p] :
              counted[p][i].msg \in Messages /\ counted[p][i].msg.number \in Nat
         /\ \A n \in answered[p] : n \in Nat
<1>1. \A m \in Messages : m.number \in Nat
  BY DEF Messages
<1>2. \A i \in DOMAIN queue[p] : queue[p][i] \in Messages
  <2>1. queue[p] \in Seq(Messages)
    BY DEF TypeOK
  <2> QED
    BY <2>1
<1>3. \A i \in DOMAIN counted[p] : counted[p][i].msg \in Messages
  <2> DEFINE Taken == [at : Nat, msg : Messages]
  <2>1. counted[p] \in Seq(Taken)
    BY DEF TypeOK
  <2>2. \A c \in Taken : c.msg \in Messages
    OBVIOUS
  <2> HIDE DEF Taken
  <2>3. \A i \in DOMAIN counted[p] : counted[p][i] \in Taken
    BY <2>1
  <2> QED
    BY <2>2, <2>3
<1> QED
  BY <1>1, <1>2, <1>3 DEF TypeOK

\* When the packets go on, the numbers of the messages stay below.
LEMMA LaterBelow ==
  ASSUME TypeOK, NEW p \in Proc, Below(p), TypeOK', Sent(p) <= Sent(p)',
         UNCHANGED <<counted, queue, requests, replies, answered>>
  PROVE  Below(p)'
<1>1. Sent(p) \in Nat /\ Sent(p)' \in Nat
  BY DEF Sent, TypeOK
<1> QED
  BY <1>1, Numbered DEF Below

LEMMA OpenPreserves == ASSUME Alone, IInv, NEW p \in Proc, OpenSocket(p) PROVE IInv'
<1>1. TypeOK
  BY DEF IInv
<1>2. options[p].count \in Nat /\ pc[p] = "open" /\ seq[p] = 0 /\ counted[p] = <<>>
  BY <1>1, OptionsAssumption DEF OpenSocket, TypeOK, IInv, InOrder
<1>3. UNCHANGED <<options, counted, queue, requests, replies, answered, late, lossy>>
  BY DEF OpenSocket, setup, net
<1>4. /\ pc' \in [Proc -> Stages] /\ seq' \in [Proc -> Nat]
      /\ pc'[p] \in {"send", "judge", "UNKNOWN"} /\ seq'[p] = 0
      /\ pc'[p] = "send" => 0 < options[p].count
      /\ pc'[p] = "judge" => 0 = options[p].count
  <2>1. CASE GoOn(p, 0)
    BY <1>1, <1>2, <2>1, GoesOn
  <2>2. CASE pc' = [pc EXCEPT ![p] = "UNKNOWN"] /\ UNCHANGED seq
    BY <1>1, <1>2, <2>2 DEF TypeOK, Stages, Done
  <2> QED
    BY <2>1, <2>2 DEF OpenSocket
<1>5. TypeOK'
  BY <1>1, <1>3, <1>4 DEF TypeOK
<1>6. InOrder(p)'
  BY <1>2, <1>3, <1>4 DEF InOrder
<1>7. Below(p)' /\ Apart(p)' /\ Genuine(p)' /\ OnTime(p)'
  BY <1>2, <1>3, <1>4 DEF IInv, Below, Sent, Apart, Genuine, OnTime
<1>8. Complete(p)' /\ Compared(p)'
  BY <1>2, <1>3, <1>4 DEF Complete, Compared, Done
<1> QED
  BY <1>5, <1>6, <1>7, <1>8, OfOne

LEMMA SendPreserves == ASSUME Alone, IInv, NEW p \in Proc, SendEcho(p) PROVE IInv'
<1> DEFINE q == [proc |-> p, number |-> seq[p]]
<1>1. TypeOK
  BY DEF IInv
<1>2. options[p].count \in Nat /\ seq[p] \in Nat /\ pc[p] = "send" /\ seq[p] < options[p].count
  BY <1>1, OptionsAssumption DEF SendEcho, TypeOK, IInv, InOrder
<1>3. UNCHANGED <<options, counted, queue, replies, answered, late>>
  BY DEF SendEcho, setup
<1>4. CASE /\ requests' = requests \cup {q}
           /\ pc' = [pc EXCEPT ![p] = "wait"]
           /\ UNCHANGED <<seq, lossy>>
  <2>1. pc' \in [Proc -> Stages] /\ pc'[p] = "wait" /\ seq'[p] = seq[p] /\ q.number = seq[p]
    BY <1>1, <1>4 DEF TypeOK, Stages
  <2>2. q \in [proc : Proc, number : Nat]
    BY <1>2
  <2> HIDE DEF q
  <2>3. TypeOK'
    BY <1>1, <1>3, <1>4, <2>1, <2>2 DEF TypeOK
  <2>4. InOrder(p)' /\ Compared(p)'
    BY <1>2, <1>3, <2>1 DEF InOrder, Compared
  <2>5. /\ Below(p) /\ \A r \in replies : r.number < seq[p] /\ r.number \in Nat
        /\ \A i \in DOMAIN queue[p] : queue[p][i].number < seq[p] /\ queue[p][i].number \in Nat
        /\ \A i \in DOMAIN counted[p] :
             counted[p][i].msg.number < seq[p] /\ counted[p][i].msg.number \in Nat
    BY <1>1, <1>2, Numbered DEF IInv, Below, Sent
  <2>6. Sent(p) = seq[p] /\ Sent(p)' = seq[p] + 1
    BY <1>2, <2>1 DEF Sent
  <2>7. Below(p)'
    <3>1. \A x \in requests : x.number < seq[p] /\ x.number \in Nat
      BY <1>1, <1>2, <2>5, <2>6 DEF Below, TypeOK
    <3>2. \A n \in answered[p] : n < seq[p] /\ n \in Nat
      BY <1>1, <1>2, <2>5, <2>6 DEF Below, TypeOK
    <3> QED
      BY <1>2, <1>3, <1>4, <2>1, <2>5, <2>6, <3>1, <3>2 DEF Below
  <2>8. Apart(p)'
    BY <1>2, <1>3, <1>4, <2>1, <2>5 DEF IInv, Apart
  <2>9. Genuine(p)' /\ OnTime(p)'
    BY <1>2, <1>3, <1>4, <2>1 DEF IInv, Genuine, OnTime
  <2>10. Complete(p)'
    BY <1>2, <1>3, <1>4, <2>1 DEF IInv, Complete, Done
  <2> QED
    BY <2>3, <2>4, <2>7, <2>8, <2>9, <2>10, OfOne
<1>5. CASE GoOn(p, seq[p] + 1) /\ lossy' = lossy \cup {p} /\ UNCHANGED requests
  <2>1. /\ seq' \in [Proc -> Nat] /\ pc' \in [Proc -> Stages]
        /\ seq'[p] = seq[p] + 1 /\ pc'[p] \in {"send", "judge"}
        /\ pc'[p] = "send" => seq[p] + 1 < options[p].count
        /\ pc'[p] = "judge" => seq[p] + 1 = options[p].count
    BY <1>1, <1>2, <1>5, GoesOn
  <2>2. TypeOK'
    BY <1>1, <1>3, <1>5, <2>1 DEF TypeOK
  <2>3. InOrder(p)' /\ Compared(p)' /\ Complete(p)'
    BY <1>2, <1>3, <1>5, <2>1 DEF InOrder, Compared, Complete, Done
  <2>4. Below(p)'
    <3>1. Sent(p) <= Sent(p)'
      BY <1>2, <2>1 DEF Sent
    <3> QED
      BY <1>1, <1>3, <1>5, <2>2, <3>1, LaterBelow DEF IInv
  <2>5. Apart(p)' /\ Genuine(p)'
    BY <1>3, <1>5 DEF IInv, Apart, Genuine
  <2>6. OnTime(p)'
    BY <1>2, <1>3, <1>5, <2>1 DEF IInv, OnTime
  <2> QED
    BY <2>2, <2>3, <2>4, <2>5, <2>6, OfOne
<1> QED
  BY <1>4, <1>5 DEF SendEcho

\* The datagram moves from the queue to the counted ones.
LEMMA RecvPreserves == ASSUME Alone, IInv, NEW p \in Proc, RecvEcho(p) PROVE IInv'
<1> DEFINE m == Head(queue[p])
           c == [at |-> seq[p], msg |-> m]
           n == Len(counted[p])
<1>1. TypeOK
  BY DEF IInv
<1>2. options[p].count \in Nat /\ seq[p] \in Nat /\ pc[p] = "wait" /\ seq[p] < options[p].count
  BY <1>1, OptionsAssumption DEF RecvEcho, TypeOK, IInv, InOrder
<1>3. UNCHANGED <<options, requests, replies, answered, late, lossy>>
  BY DEF RecvEcho, setup, net
<1>4. /\ seq' \in [Proc -> Nat] /\ pc' \in [Proc -> Stages]
      /\ seq'[p] = seq[p] + 1 /\ pc'[p] \in {"send", "judge"}
      /\ pc'[p] = "send" => seq[p] + 1 < options[p].count
      /\ pc'[p] = "judge" => seq[p] + 1 = options[p].count
  BY <1>1, <1>2, GoesOn DEF RecvEcho
<1>5. /\ queue[p] \in Seq(Messages) /\ queue[p] # <<>> /\ m = queue[p][1] /\ m \in Messages
      /\ 1 \in DOMAIN queue[p] /\ Len(queue[p]) \in Nat /\ DOMAIN queue[p] = 1..Len(queue[p])
  BY <1>1 DEF RecvEcho, TypeOK
<1>6. /\ queue'[p] \in Seq(Messages) /\ DOMAIN queue'[p] = 1..(Len(queue[p]) - 1)
      /\ \A i \in DOMAIN queue'[p] :
           /\ i \in Nat \ {0} /\ i + 1 \in DOMAIN queue[p]
           /\ queue'[p][i] = queue[p][i + 1]
  <2>1. queue'[p] = Tail(queue[p])
    BY <1>1 DEF RecvEcho, TypeOK
  <2>2. Tail(queue[p]) \in Seq(Messages) /\ Len(Tail(queue[p])) = Len(queue[p]) - 1
    BY <1>5
  <2>3. DOMAIN queue'[p] = 1..(Len(queue[p]) - 1)
    BY <2>1, <2>2
  <2>4. \A i \in 1..(Len(queue[p]) - 1) : Tail(queue[p])[i] = queue[p][i + 1]
    BY <1>5
  <2> QED
    BY <1>5, <2>1, <2>2, <2>3, <2>4
<1>7. c \in [at : Nat, msg : Messages] /\ c.msg = m /\ c.at = seq[p]
  BY <1>2, <1>5
<1>8. counted[p] \in Seq([at : Nat, msg : Messages]) /\ counted'[p] = Append(counted[p], c)
  BY <1>1 DEF RecvEcho, TypeOK
<1> HIDE DEF m, c
<1>9. /\ counted'[p] \in Seq([at : Nat, msg : Messages])
      /\ n \in Nat /\ DOMAIN counted[p] = 1..n
      /\ Len(counted'[p]) = n + 1 /\ DOMAIN counted'[p] = 1..(n + 1) /\ counted'[p][n + 1] = c
      /\ \A i \in 1..n : counted'[p][i] = counted[p][i]
  BY <1>7, <1>8
<1> DEFINE old == DOMAIN counted[p]
<1>17. /\ \A i \in DOMAIN counted'[p] : i \in old \/ i = n + 1
       /\ \A i \in old : counted'[p][i].msg = counted[p][i].msg
       /\ counted'[p][n + 1].msg = m
  BY <1>7, <1>9, SMTT(60)
<1>10. TypeOK'
  <2>1. queue' \in [Proc -> Seq(Messages)]
    BY <1>1, <1>6 DEF Alone, TypeOK, RecvEcho
  <2>2. counted' \in [Proc -> Seq([at : Nat, msg : Messages])]
    BY <1>1, <1>9 DEF Alone, TypeOK, RecvEcho
  <2> QED
    BY <1>1, <1>3, <1>4, <2>1, <2>2 DEF TypeOK
<1> HIDE DEF n
<1>11. InOrder(p)' /\ Compared(p)'
  BY <1>2, <1>3, <1>4 DEF InOrder, Compared
<1>12. Below(p)'
  <2>1. Sent(p) = seq[p] + 1 /\ Sent(p)' = seq[p] + 1
    BY <1>2, <1>4 DEF Sent
  <2>2. \A i \in DOMAIN counted'[p] : counted'[p][i].msg.number < Sent(p)
    <3>1. m.number < Sent(p)
      BY <1>5 DEF IInv, Below
    <3>2. \A i \in 1..n : counted'[p][i].msg.number < Sent(p)
      BY <1>9 DEF IInv, Below
    <3> QED
      BY <1>7, <1>9, <3>1, <3>2, SMTT(60)
  <2>3. \A i \in DOMAIN queue'[p] : queue'[p][i].number < Sent(p)
    BY <1>6 DEF IInv, Below
  <2>4. Below(p)
    BY DEF IInv
  <2> QED
    BY <1>3, <2>1, <2>2, <2>3, <2>4 DEF Below
<1>13. Apart(p)'
  <2>1. Apart(p)
    BY DEF IInv
  <2>2. \A i \in DOMAIN queue'[p] : queue'[p][i].number # m.number
    BY <1>5, <1>6, <2>1, SMTT(60) DEF Apart
  <2>3. \A i \in old : counted[p][i].msg.number # m.number
    BY <1>5, <2>1 DEF Apart
  <2>4. ASSUME NEW q \in requests
        PROVE  /\ \A r \in replies : q.number # r.number
               /\ \A i \in DOMAIN queue'[p] : q.number # queue'[p][i].number
               /\ \A i \in DOMAIN counted'[p] : q.number # counted'[p][i].msg.number
    <3>1. \A r \in replies : q.number # r.number
      BY <2>1 DEF Apart
    <3>2. \A i \in DOMAIN queue'[p] : q.number # queue'[p][i].number
      BY <1>6, <2>1 DEF Apart
    <3>3. q.number # m.number /\ \A i \in old : q.number # counted[p][i].msg.number
      BY <1>5, <2>1 DEF Apart
    <3> QED
      BY <1>17, <3>1, <3>2, <3>3
  <2>5. ASSUME NEW r \in replies
        PROVE  /\ \A x \in replies : r.number = x.number => r = x
               /\ \A i \in DOMAIN queue'[p] : r.number # queue'[p][i].number
               /\ \A i \in DOMAIN counted'[p] : r.number # counted'[p][i].msg.number
    <3>1. \A x \in replies : r.number = x.number => r = x
      BY <2>1 DEF Apart
    <3>2. \A i \in DOMAIN queue'[p] : r.number # queue'[p][i].number
      BY <1>6, <2>1 DEF Apart
    <3>3. r.number # m.number /\ \A i \in old : r.number # counted[p][i].msg.number
      BY <1>5, <2>1 DEF Apart
    <3> QED
      BY <1>17, <3>1, <3>2, <3>3
  <2>6. ASSUME NEW i \in DOMAIN queue'[p]
        PROVE  /\ \A j \in DOMAIN queue'[p] : queue'[p][i].number = queue'[p][j].number => i = j
               /\ \A j \in DOMAIN counted'[p] : queue'[p][i].number # counted'[p][j].msg.number
    <3>1. ASSUME NEW j \in DOMAIN queue'[p], queue'[p][i].number = queue'[p][j].number
          PROVE  i = j
      <4>1. /\ i \in Nat /\ j \in Nat /\ i + 1 \in DOMAIN queue[p] /\ j + 1 \in DOMAIN queue[p]
            /\ queue[p][i + 1].number = queue[p][j + 1].number
        BY <1>6, <3>1
      <4>2. i + 1 = j + 1
        BY <2>1, <4>1 DEF Apart
      <4> QED
        BY <4>1, <4>2
    <3>2. \A j \in old : queue'[p][i].number # counted[p][j].msg.number
      BY <1>6, <2>1 DEF Apart
    <3> QED
      BY <1>17, <2>2, <3>1, <3>2
  <2>7. \A i, j \in DOMAIN counted'[p] :
          counted'[p][i].msg.number = counted'[p][j].msg.number => i = j
    <3>1. \A i, j \in old : counted[p][i].msg.number = counted[p][j].msg.number => i = j
      BY <2>1 DEF Apart
    <3> QED
      BY <1>17, <2>3, <3>1
  <2> QED
    BY <1>3, <2>4, <2>5, <2>6, <2>7 DEF Apart
<1>14. Genuine(p)'
  <2>1. Genuine(p)
    BY DEF IInv
  <2>2. \A i \in DOMAIN queue'[p] :
          queue'[p][i].kind = "reply" => queue'[p][i].number \in answered[p]
    BY <1>6, <2>1 DEF Genuine
  <2>3. \A i \in DOMAIN counted'[p] :
          counted'[p][i].msg.kind = "reply" => counted'[p][i].msg.number \in answered[p]
    <3>1. m.kind = "reply" => m.number \in answered[p]
      BY <1>5, <2>1 DEF Genuine
    <3>2. \A i \in old : counted[p][i].msg.kind = "reply" => counted[p][i].msg.number \in answered[p]
      BY <2>1 DEF Genuine
    <3> QED
      BY <1>17, <3>1, <3>2
  <2> QED
    BY <1>3, <2>1, <2>2, <2>3 DEF Genuine
<1>15. OnTime(p)'
  <2> SUFFICES ASSUME p \notin late
               PROVE  /\ requests = {} /\ replies = {} /\ queue'[p] = <<>>
                      /\ \A i \in DOMAIN counted'[p] : counted'[p][i].msg.number = counted'[p][i].at
    BY <1>3 DEF OnTime
  <2>1. m.number = seq[p]
    BY <1>5 DEF IInv, OnTime
  <2>2. requests = {} /\ replies = {}
    BY <1>5, <2>1 DEF IInv, OnTime, Apart
  <2>3. DOMAIN queue'[p] = {}
    <3>1. \A i \in DOMAIN queue[p] : i = 1
      BY <1>5, <2>1 DEF IInv, OnTime, Apart
    <3> QED
      BY <1>5, <1>6, <3>1
  <2>4. queue'[p] = <<>>
    BY <1>6, <2>3
  <2> QED
    BY <1>7, <1>9, <2>1, <2>2, <2>4, SMTT(60) DEF IInv, OnTime
<1>16. Complete(p)'
  BY <1>2, <1>3, <1>4, <1>9 DEF IInv, Complete, Done, n
<1> QED
  BY <1>10, <1>11, <1>12, <1>13, <1>14, <1>15, <1>16, OfOne

LEMMA TimeoutPreserves == ASSUME Alone, IInv, NEW p \in Proc, Timeout(p) PROVE IInv'
<1>1. TypeOK
  BY DEF IInv
<1>2. options[p].count \in Nat /\ seq[p] \in Nat /\ pc[p] = "wait" /\ seq[p] < options[p].count
  BY <1>1, OptionsAssumption DEF Timeout, TypeOK, IInv, InOrder
<1>3. /\ UNCHANGED <<options, counted, queue, requests, replies, answered, lossy>>
      /\ late \subseteq late' /\ late' \subseteq Proc
  BY <1>1 DEF Timeout, setup, net, TypeOK
<1>4. /\ seq' \in [Proc -> Nat] /\ pc' \in [Proc -> Stages]
      /\ seq'[p] = seq[p] + 1 /\ pc'[p] \in {"send", "judge"}
      /\ pc'[p] = "send" => seq[p] + 1 < options[p].count
      /\ pc'[p] = "judge" => seq[p] + 1 = options[p].count
  BY <1>1, <1>2, GoesOn DEF Timeout
<1>5. p \notin late' => p \notin late /\ queue[p] = <<>> /\ requests = {} /\ replies = {}
  <2> SUFFICES ASSUME p \notin late' PROVE requests = {} /\ replies = {} /\ p \notin late /\ queue[p] = <<>>
    OBVIOUS
  <2>1. \A q \in requests : q.proc = p
    BY <1>1 DEF Alone, TypeOK
  <2>2. \A r \in replies : r.proc = p
    BY <1>1 DEF Alone, TypeOK, Messages
  <2>3. Outstanding(p) = {} /\ p \notin late /\ queue[p] = <<>>
    BY DEF Timeout
  <2> QED
    BY <2>1, <2>2, <2>3 DEF Outstanding
<1>6. TypeOK'
  BY <1>1, <1>3, <1>4 DEF TypeOK
<1>7. InOrder(p)' /\ Compared(p)'
  BY <1>2, <1>3, <1>4 DEF InOrder, Compared
<1>8. Below(p)'
  BY <1>2, <1>3, <1>4 DEF IInv, Below, Sent
<1>9. Apart(p)' /\ Genuine(p)'
  BY <1>3 DEF IInv, Apart, Genuine
<1>10. OnTime(p)'
  BY <1>3, <1>5 DEF IInv, OnTime
<1>11. Complete(p)'
  BY <1>2, <1>3, <1>5 DEF IInv, Complete
<1> QED
  BY <1>6, <1>7, <1>8, <1>9, <1>10, <1>11, OfOne

\* Only thresholds that are exceeded give WARNING or CRITICAL.
LEMMA JudgePreserves == ASSUME Alone, IInv, NEW p \in Proc, Judge(p) PROVE IInv'
<1>1. TypeOK
  BY DEF IInv
<1>2. PICK slowCritical \in BOOLEAN, slowWarning \in BOOLEAN :
        /\ pc' = [pc EXCEPT ![p] = Verdict(p, slowCritical, slowWarning)]
        /\ lossy' = IF slowCritical \/ slowWarning THEN lossy \cup {p} ELSE lossy
  BY DEF Judge
<1>3. /\ UNCHANGED <<options, seq, counted, queue, requests, replies, answered, late>>
      /\ pc[p] = "judge"
  BY DEF Judge, setup, net
<1>4. /\ options[p].count \in Nat /\ options[p].criticalPL \in Int /\ options[p].warningPL \in Int
      /\ seq[p] = options[p].count
  BY <1>1, <1>3, OptionsAssumption DEF TypeOK, IInv, InOrder
<1>5. pc' \in [Proc -> Stages] /\ pc'[p] = Verdict(p, slowCritical, slowWarning)
      /\ pc'[p] \in {"OK", "WARNING", "CRITICAL"}
  BY <1>1, <1>2 DEF TypeOK, Verdict, Stages, Done
<1>6. TypeOK'
  BY <1>1, <1>2, <1>3, <1>5 DEF TypeOK
<1>7. InOrder(p)'
  BY <1>5 DEF InOrder
<1>8. Below(p)'
  <2>1. Sent(p) <= Sent(p)'
    BY <1>3, <1>4, <1>5 DEF Sent
  <2> QED
    BY <1>1, <1>3, <1>6, <2>1, LaterBelow DEF IInv
<1>9. Apart(p)' /\ Genuine(p)' /\ OnTime(p)'
  BY <1>3, <1>5 DEF IInv, Apart, Genuine, OnTime
<1>10. Complete(p)'
  <2> SUFFICES ASSUME p \notin late \cup lossy, ~slowCritical, ~slowWarning
               PROVE  pc'[p] = "OK"
    BY <1>2, <1>3, <1>5 DEF Complete
  <2>1. Len(counted[p]) = options[p].count
    BY <1>3, <1>4 DEF IInv, Complete
  <2>2. ASSUME NEW limit \in Int, LossOver(p, limit) PROVE FALSE
    <3>1. limit > 0 /\ options[p].count > 0 /\ 0 >= limit * options[p].count
      BY <1>4, <2>1, <2>2 DEF LossOver
    <3> QED
      BY <1>4, <3>1, PositiveProduct
  <2> QED
    BY <1>4, <1>5, <2>2 DEF Verdict
<1>11. Compared(p)'
  <2> SUFFICES ASSUME pc'[p] \in {"OK", "WARNING"}, options[p].criticalPL > 0, options[p].count > 0
               PROVE  (options[p].count - Len(counted[p])) * 100
                        < options[p].criticalPL * options[p].count
    BY <1>3 DEF Compared
  <2>1. ~LossOver(p, options[p].criticalPL)
    BY <1>5 DEF Verdict
  <2>2. ~((options[p].count - Len(counted[p])) * 100 >= options[p].criticalPL * options[p].count)
    BY <2>1, <1>4 DEF LossOver
  <2>3. Len(counted[p]) \in Nat /\ options[p].criticalPL * options[p].count \in Int
    <3>1. counted[p] \in Seq([at : Nat, msg : Messages])
      BY <1>1 DEF TypeOK
    <3> QED
      BY <1>4, <3>1
  <2> DEFINE limit == options[p].criticalPL * options[p].count
  <2> HIDE DEF limit
  <2> QED
    BY <1>4, <2>2, <2>3 DEF limit
<1> QED
  BY <1>6, <1>7, <1>8, <1>9, <1>10, <1>11, OfOne

\* The host or a router takes a request and sends a message with its number.
LEMMA AnswerPreserves ==
  ASSUME Alone, IInv, NEW p \in Proc, NEW q \in requests, Answer(q) PROVE IInv'
<1>1. TypeOK /\ q \in [proc : Proc, number : Nat] /\ q.proc = p /\ q.number \in Nat
  BY DEF IInv, TypeOK, Alone
<1>2. /\ UNCHANGED <<options, pc, seq, counted, queue, late, lossy>>
      /\ requests' = requests \ {q}
  BY DEF Answer, setup
<1>3. PICK m \in Messages :
        /\ replies' = replies \cup {m} /\ m.number = q.number
        /\ answered'[p] \in SUBSET Nat /\ answered' \in [Proc -> SUBSET Nat]
        /\ answered[p] \subseteq answered'[p] /\ answered'[p] \subseteq answered[p] \cup {q.number}
        /\ m.kind = "reply" => q.number \in answered'[p]
  <2>1. CASE /\ replies' = replies \cup {Echo(q.proc, q.number)}
             /\ answered' = [answered EXCEPT ![q.proc] = @ \cup {q.number}]
    <3>1. /\ Echo(p, q.number) \in Messages /\ Echo(p, q.number).number = q.number
          /\ Echo(p, q.number).kind = "reply"
      BY <1>1 DEF Echo, Messages
    <3>2. answered' \in [Proc -> SUBSET Nat] /\ answered'[p] = answered[p] \cup {q.number}
      BY <1>1, <2>1 DEF TypeOK
    <3> QED
      BY <1>1, <2>1, <3>1, <3>2
  <2>2. CASE replies' = replies \cup {Error(q.proc, q.number)} /\ UNCHANGED answered
    <3>1. /\ Error(p, q.number) \in Messages /\ Error(p, q.number).number = q.number
          /\ Error(p, q.number).kind # "reply"
      BY <1>1 DEF Error, Messages
    <3> QED
      BY <1>1, <2>2, <3>1 DEF TypeOK
  <2> QED
    BY <2>1, <2>2 DEF Answer
<1>4. TypeOK'
  BY <1>1, <1>2, <1>3 DEF TypeOK
<1>5. InOrder(p)' /\ Compared(p)'
  BY <1>2 DEF IInv, InOrder, Compared
<1>6. Below(p)'
  BY <1>2, <1>3 DEF IInv, Below, Sent
<1>7. Apart(p)'
  <2>1. \A x \in requests' : x \in requests /\ x.number # q.number
    <3>1. \A x \in requests : x.proc = q.proc /\ (x.number = q.number => x = q)
      BY <1>1 DEF TypeOK, Alone
    <3> QED
      BY <1>2, <3>1
  <2>2. Apart(p)
    BY DEF IInv
  <2>3. /\ \A r \in replies : r.number # m.number
        /\ \A i \in DOMAIN queue[p] : queue[p][i].number # m.number
        /\ \A i \in DOMAIN counted[p] : counted[p][i].msg.number # m.number
    BY <1>3, <2>2 DEF Apart
  <2> QED
    BY <1>2, <1>3, <2>1, <2>2, <2>3 DEF Apart
<1>8. Genuine(p)'
  BY <1>2, <1>3 DEF IInv, Genuine
<1>9. OnTime(p)' /\ Complete(p)'
  BY <1>2, <1>3 DEF IInv, OnTime, Complete
<1> QED
  BY <1>4, <1>5, <1>6, <1>7, <1>8, <1>9, OfOne

LEMMA LosePreserves == ASSUME Alone, IInv, NEW p \in Proc, Lose PROVE IInv'
<1>1. TypeOK
  BY DEF IInv
<1>2. /\ UNCHANGED <<options, pc, seq, counted, queue, answered, late>>
      /\ requests' \subseteq requests /\ replies' \subseteq replies
      /\ lossy' = lossy \cup {p}
  <2>1. \A q \in requests \cup replies : q.proc = p
    BY <1>1 DEF TypeOK, Messages, Alone
  <2> QED
    BY <2>1 DEF Lose, setup
<1>3. TypeOK'
  BY <1>1, <1>2 DEF TypeOK
<1>4. InOrder(p)' /\ Compared(p)' /\ Complete(p)'
  BY <1>2 DEF IInv, InOrder, Compared, Complete
<1>5. Below(p)' /\ Genuine(p)'
  BY <1>2 DEF IInv, Below, Sent, Genuine
<1>6. Apart(p)'
  BY <1>2 DEF IInv, Apart
<1>7. OnTime(p)'
  BY <1>2 DEF IInv, OnTime
<1> QED
  BY <1>3, <1>4, <1>5, <1>6, <1>7, OfOne

\* A message moves from the network to the end of the queue, or to a socket
\* that is not open any more.
LEMMA DeliverPreserves ==
  ASSUME Alone, IInv, NEW p \in Proc, NEW r \in replies, Deliver(r) PROVE IInv'
<1> DEFINE n == Len(queue[p])
<1>1. TypeOK /\ r \in Messages /\ queue[p] \in Seq(Messages)
  BY DEF IInv, TypeOK
<1>2. /\ UNCHANGED <<options, pc, seq, counted, requests, answered, late, lossy>>
      /\ replies' = replies \ {r}
      /\ queue' \in [Proc -> Seq(Messages)]
      /\ queue'[p] = IF Open(p) THEN Append(queue[p], r) ELSE queue[p]
  <2>1. \A x \in Proc : Append(queue[x], r) \in Seq(Messages) /\ queue[x] \in Seq(Messages)
    BY <1>1 DEF TypeOK
  <2> QED
    BY <2>1 DEF Deliver, setup
<1>3. TypeOK'
  BY <1>1, <1>2 DEF TypeOK
<1>4. InOrder(p)' /\ Compared(p)'
  BY <1>2 DEF IInv, InOrder, Compared
<1>5. CASE ~Open(p)
  <2>1. queue'[p] = queue[p] /\ replies' \subseteq replies
    BY <1>2, <1>5
  <2>2. Below(p)' /\ Genuine(p)'
    BY <1>2, <2>1 DEF IInv, Below, Sent, Genuine
  <2>3. Apart(p)'
    BY <1>2, <2>1 DEF IInv, Apart
  <2>4. OnTime(p)' /\ Complete(p)'
    BY <1>2, <1>5, <2>1 DEF IInv, OnTime, Complete, Open
  <2> QED
    BY <1>3, <1>4, <2>2, <2>3, <2>4, OfOne
<1>6. CASE Open(p)
  <2>1. queue'[p] = Append(queue[p], r) /\ n \in Nat /\ DOMAIN queue[p] = 1..n
    BY <1>1, <1>2, <1>6
  <2>2. /\ DOMAIN queue'[p] = 1..(n + 1) /\ queue'[p][n + 1] = r
        /\ \A i \in 1..n : queue'[p][i] = queue[p][i]
    BY <1>1, <2>1
  <2> DEFINE old == DOMAIN queue[p]
  <2>3. /\ \A i \in DOMAIN queue'[p] : i \in old \/ i = n + 1
        /\ \A i \in old : queue'[p][i] = queue[p][i]
        /\ n + 1 \in DOMAIN queue'[p] /\ queue'[p] # <<>>
    BY <2>1, <2>2
  <2> HIDE DEF n
  <2>4. Below(p)'
    <3>1. Sent(p)' = Sent(p) /\ Below(p)
      BY <1>2 DEF IInv, Sent
    <3>2. \A i \in DOMAIN queue'[p] : queue'[p][i].number < Sent(p)
      BY <2>2, <2>3, <3>1 DEF Below
    <3> QED
      BY <1>2, <3>1, <3>2 DEF Below
  <2>5. Genuine(p)'
    <3>1. Genuine(p)
      BY DEF IInv
    <3>2. \A i \in DOMAIN queue'[p] :
            queue'[p][i].kind = "reply" => queue'[p][i].number \in answered[p]
      BY <2>2, <2>3, <3>1 DEF Genuine
    <3> QED
      BY <1>2, <3>1, <3>2 DEF Genuine
  <2>6. Apart(p)'
    <3>1. Apart(p)
      BY DEF IInv
    <3>2. \A x \in replies' : x \in replies /\ x.number # r.number
      BY <1>2, <3>1 DEF Apart
    <3>3. /\ \A q \in requests : q.number # r.number
          /\ \A i \in old : queue[p][i].number # r.number
          /\ \A i \in DOMAIN counted[p] : counted[p][i].msg.number # r.number
      BY <3>1 DEF Apart
    <3>4. ASSUME NEW q \in requests
          PROVE  /\ \A x \in replies' : q.number # x.number
                 /\ \A i \in DOMAIN queue'[p] : q.number # queue'[p][i].number
                 /\ \A i \in DOMAIN counted[p] : q.number # counted[p][i].msg.number
      <4>1. /\ \A x \in replies' : q.number # x.number
            /\ \A i \in old : q.number # queue[p][i].number
            /\ \A i \in DOMAIN counted[p] : q.number # counted[p][i].msg.number
        BY <3>1, <3>2 DEF Apart
      <4> QED
        BY <4>1, <2>2, <2>3, <3>3
    <3>5. ASSUME NEW x \in replies'
          PROVE  /\ \A y \in replies' : x.number = y.number => x = y
                 /\ \A i \in DOMAIN queue'[p] : x.number # queue'[p][i].number
                 /\ \A i \in DOMAIN counted[p] : x.number # counted[p][i].msg.number
      <4>1. /\ \A y \in replies' : x.number = y.number => x = y
            /\ \A i \in old : x.number # queue[p][i].number
            /\ \A i \in DOMAIN counted[p] : x.number # counted[p][i].msg.number
        BY <3>1, <3>2 DEF Apart
      <4> QED
        BY <4>1, <2>2, <2>3, <3>2
    <3>6. \A i, j \in DOMAIN queue'[p] : queue'[p][i].number = queue'[p][j].number => i = j
      <4>1. \A i, j \in old : queue[p][i].number = queue[p][j].number => i = j
        BY <3>1 DEF Apart
      <4> QED
        BY <2>2, <2>3, <3>3, <4>1
    <3>7. \A i \in DOMAIN queue'[p], j \in DOMAIN counted[p] :
            queue'[p][i].number # counted[p][j].msg.number
      <4>1. \A i \in old, j \in DOMAIN counted[p] : queue[p][i].number # counted[p][j].msg.number
        BY <3>1 DEF Apart
      <4> QED
        BY <2>2, <2>3, <3>3, <4>1
    <3>8. \A i, j \in DOMAIN counted[p] :
            counted[p][i].msg.number = counted[p][j].msg.number => i = j
      BY <3>1 DEF Apart
    <3> QED
      BY <1>2, <3>4, <3>5, <3>6, <3>7, <3>8 DEF Apart
  <2>7. OnTime(p)'
    <3> SUFFICES ASSUME p \notin late PROVE OnTime(p)'
      BY <1>2 DEF OnTime
    <3>1. pc[p] = "wait" /\ r.number = seq[p]
      BY <1>6 DEF IInv, OnTime, Open
    <3>2. \A i \in DOMAIN queue'[p] : queue'[p][i].number = seq[p]
      BY <2>2, <2>3, <3>1 DEF IInv, OnTime
    <3> QED
      BY <1>2, <3>1, <3>2 DEF IInv, OnTime
  <2>8. Complete(p)'
    BY <1>2, <2>3 DEF IInv, Complete
  <2> QED
    BY <1>3, <1>4, <2>4, <2>5, <2>6, <2>7, <2>8, OfOne
<1> QED
  BY <1>5, <1>6

LEMMA PingStep == Alone /\ IInv /\ [Next]_vars => IInv'
<1> SUFFICES ASSUME Alone, IInv, [Next]_vars PROVE IInv'
  OBVIOUS
<1>1. ASSUME NEW p \in Proc, Process(p) PROVE IInv'
  BY <1>1, OpenPreserves, SendPreserves, RecvPreserves, TimeoutPreserves, JudgePreserves
     DEF Process
<1>2. ASSUME Network PROVE IInv'
  <2>1. \A q \in requests \cup replies : q.proc \in Proc
    BY DEF IInv, TypeOK, Messages
  <2>2. \E p \in Proc : TRUE
    BY <1>2, <2>1 DEF Network, Lose
  <2> QED
    BY <1>2, <2>2, AnswerPreserves, DeliverPreserves, LosePreserves DEF Network
<1>3. CASE Exited \/ UNCHANGED vars
  <2> USE <1>3 DEF Exited, vars, setup, net
  <2>1. TypeOK'
    BY DEF IInv, TypeOK
  <2>2. ASSUME NEW p \in Proc
        PROVE  /\ InOrder(p)' /\ Below(p)' /\ Apart(p)' /\ Genuine(p)'
               /\ OnTime(p)' /\ Complete(p)' /\ Compared(p)'
    BY DEF IInv, InOrder, Below, Sent, Apart, Genuine, OnTime, Complete, Compared
  <2> QED
    BY <2>1, <2>2 DEF IInv
<1> QED
  BY <1>1, <1>2, <1>3 DEF Next

LEMMA PingInvariant == ASSUME Alone PROVE Spec => []IInv
<1>1. Init => IInv
  BY PingInit
<1>2. IInv /\ [Next]_vars => IInv'
  BY PingStep
<1> QED
  BY <1>1, <1>2, PTL DEF Spec

-----------------------------------------------------------------------------
\* The loss a ping reports is never less than that of the packets its host did
\* not answer, for any count and limit, and any losses and delays: datagrams
\* that are taken for the reply to another packet are still counted once.
THEOREM LossNotUnderstatedHolds == ASSUME Alone PROVE Spec => []LossNotUnderstated
<1>1. IInv => LossNotUnderstated
  <2> SUFFICES ASSUME IInv, NEW p \in Proc,
                      pc[p] \in {"OK", "WARNING"}, options[p].criticalPL > 0,
                      options[p].count > 0, ~Misled(p)
               PROVE  (options[p].count - Cardinality(answered[p])) * 100
                        < options[p].criticalPL * options[p].count
    BY DEF LossNotUnderstated
  <2> DEFINE n == Len(counted[p])
             limit == options[p].criticalPL * options[p].count
             number == [i \in 1..n |-> counted[p][i].msg.number]
  <2>1. /\ TypeOK /\ options[p].count \in Nat /\ options[p].criticalPL \in Int
        /\ seq[p] \in Nat /\ n \in Nat /\ DOMAIN counted[p] = 1..n
    <3>1. TypeOK /\ options[p] \in Options /\ seq[p] \in Nat
      BY DEF IInv, TypeOK
    <3>2. counted[p] \in Seq([at : Nat, msg : Messages])
      BY <3>1 DEF TypeOK
    <3> QED
      BY <3>1, <3>2, OptionsAssumption
  <2>2. IsFiniteSet(answered[p])
    <3>1. \A k \in answered[p] : k \in Nat /\ k < Sent(p)
      BY <2>1, Numbered DEF IInv, Below
    <3>2. Sent(p) <= seq[p] + 1 /\ Sent(p) \in Nat
      BY <2>1 DEF Sent
    <3>3. answered[p] \in SUBSET Nat /\ (\A k \in answered[p] : k <= seq[p] + 1)
      BY <2>1, <3>1, <3>2
    <3>4. seq[p] + 1 \in Nat
      BY <2>1
    <3> QED
      BY <3>3, <3>4, FS_BoundedSetOfNaturals
  <2>3. \A i \in 1..n : counted[p][i].msg.kind = "reply"
    <3>1. \A m \in Messages : m.kind # "error" => m.kind = "reply"
      BY DEF Messages
    <3>2. \A i \in 1..n : counted[p][i].msg \in Messages
      BY <2>1, Numbered
    <3> QED
      BY <2>1, <3>1, <3>2 DEF Misled
  <2>4. number \in [1..n -> answered[p]]
    BY <2>1, <2>3 DEF IInv, Genuine
  <2>5. \A i, j \in 1..n : number[i] = number[j] => i = j
    BY <2>1 DEF IInv, Apart
  <2>6. IsFiniteSet(1..n) /\ Cardinality(1..n) = n /\ Cardinality(answered[p]) \in Nat
    <3>1. n \in Nat /\ n \in Int /\ 1 \in Int
      BY <2>1
    <3> HIDE DEF n
    <3>2. IsFiniteSet(1..n) /\ Cardinality(1..n) = IF 1 > n THEN 0 ELSE n - 1 + 1
      BY <3>1, FS_Interval
    <3>3. Cardinality(1..n) = n
      BY <3>1, <3>2
    <3>4. Cardinality(answered[p]) \in Nat
      BY <2>2, FS_CardinalityType
    <3> QED
      BY <3>2, <3>3, <3>4
  <2> HIDE DEF number
  <2>7. n <= Cardinality(answered[p])
    BY <2>1, <2>2, <2>4, <2>5, <2>6, FS_PigeonHole, SMTT(60)
  <2>8. (options[p].count - n) * 100 < limit /\ limit \in Int
    BY <2>1 DEF IInv, Compared
  <2> HIDE DEF n, limit
  <2>9. (options[p].count - Cardinality(answered[p])) * 100 < limit
    BY <2>1, <2>6, <2>7, <2>8
  <2> QED
    BY <2>9 DEF limit
<1> QED
  BY PingInvariant, <1>1, PTL

\* A ping that met no loss and no delay is OK, whatever its options.
THEOREM PromptIsOkHolds == ASSUME Alone PROVE Spec => []PromptIsOk
<1>1. IInv => PromptIsOk
  BY DEF IInv, Complete, PromptIsOk
<1> QED
  BY PingInvariant, <1>1, PTL

\* Until a message is late, the round trip counted for a packet is its own.
THEOREM RttIsOwnHolds == ASSUME Alone PROVE Spec => []RttIsOwn
<1>1. IInv => RttIsOwn
  <2> SUFFICES ASSUME IInv, NEW p \in Proc, p \notin late, NEW i \in DOMAIN counted[p]
               PROVE  counted[p][i].msg \in {Echo(p, counted[p][i].at), Error(p, counted[p][i].at)}
    BY DEF RttIsOwn
  <2>1. counted[p][i].msg \in Messages /\ counted[p][i].msg.number = counted[p][i].at
    BY Numbered DEF IInv, OnTime
  <2> QED
    <3>1. p = counted[p][i].msg.proc /\ counted[p][i].msg.kind \in {"reply", "error"}
      BY <2>1 DEF Alone, Messages
    <3>2. counted[p][i].msg = [kind |-> counted[p][i].msg.kind, proc |-> counted[p][i].msg.proc,
                               number |-> counted[p][i].msg.number]
      BY <2>1 DEF Messages
    <3> QED
      BY <2>1, <3>1, <3>2 DEF Echo, Error
<1> QED
  BY PingInvariant, <1>1, PTL

-----------------------------------------------------------------------------
\* Every command line sends packets and limits their loss.
Limited ==
  \A o \in Options : o.count > 0 /\ (o.criticalPL \in 1..100 \/ o.warningPL \in 1..100)

\* Without another process all messages are about its packets.
LEMMA AllServe ==
  ASSUME Alone, NEW p \in Proc, NEW c \in Seq([at : Nat, msg : Messages])
  PROVE  c # <<>> <=> \E i \in DOMAIN c : c[i].msg.proc = p
<1> DEFINE Taken == [at : Nat, msg : Messages]
<1>1. \A t \in Taken : t.msg.proc = p
  BY DEF Alone, Messages
<1> HIDE DEF Taken
<1>2. c \in Seq(Taken)
  BY DEF Taken
<1>3. \A i \in DOMAIN c : c[i] \in Taken
  BY <1>2
<1>4. c # <<>> <=> \E i \in DOMAIN c : TRUE
  <2>1. DOMAIN c = 1..Len(c) /\ Len(c) \in Nat /\ (c = <<>> <=> Len(c) = 0)
    BY <1>2
  <2>2. Len(c) > 0 => 1 \in DOMAIN c
    BY <2>1
  <2> QED
    BY <2>1, <2>2
<1> QED
  BY <1>1, <1>3, <1>4

\* Of no reply at all the loss is 100 percent, which is over every limit.
LEMMA NoneIsOver ==
  ASSUME NEW n \in Nat, NEW limit \in 1..100, n > 0
  PROVE  limit > 0 /\ n # 0 /\ (n - 0) * 100 >= limit * n
<1>1. 100 - limit \in Nat /\ limit \in Nat
  OBVIOUS
<1>2. (100 - limit) * n >= 0
  <2>1. \A k \in Nat : k * n >= 0
    OBVIOUS
  <2> QED
    BY <1>1, <2>1
<1>3. (100 - limit) * n = 100 * n - limit * n
  BY <1>1
<1> QED
  BY <1>1, <1>2, <1>3

LEMMA NoneIsNotOk ==
  ASSUME Limited, TypeOK, NEW p \in Proc, counted[p] = <<>>,
         NEW slowCritical \in BOOLEAN, NEW slowWarning \in BOOLEAN
  PROVE  Verdict(p, slowCritical, slowWarning) # "OK"
<1>1. /\ options[p] \in Options /\ options[p].count \in Nat /\ options[p].count > 0
      /\ options[p].criticalPL \in 1..100 \/ options[p].warningPL \in 1..100
  BY OptionsAssumption DEF TypeOK, Limited
<1>2. Len(counted[p]) = 0
  OBVIOUS
<1>3. LossOver(p, options[p].criticalPL) \/ LossOver(p, options[p].warningPL)
  BY <1>1, <1>2, NoneIsOver DEF LossOver
<1> QED
  BY <1>3 DEF Verdict

\* A ping alone on its machine, with a limit on the loss, is a check: it ends once,
\* with one status, and is OK only for a message that came back (pingHost()).
THEOREM PingImplementsVerdict ==
  ASSUME Alone, Limited, Proc # {} PROVE Spec => Checked!Spec
<1> PICK p \in Proc : TRUE
  OBVIOUS
<1>1. Only = p
  BY DEF Alone, Only
<1>2. TypeOK => (Served <=> counted[p] # <<>>) /\ Served \in BOOLEAN
  BY <1>1, AllServe DEF TypeOK, Served
<1>3. TypeOK' => (Served' <=> counted'[p] # <<>>) /\ Served' \in BOOLEAN
  BY <1>1, AllServe DEF TypeOK, Served
<1>4. Init => Checked!Init
  <2> SUFFICES ASSUME Init PROVE Checked!Init
    OBVIOUS
  <2>1. TypeOK /\ pc[p] = "open" /\ counted[p] = <<>>
    BY PingInit DEF IInv, Init
  <2> QED
    BY <1>1, <1>2, <2>1 DEF Checked!Init, Done
<1>5. IInv /\ IInv' /\ [Next]_vars => [Checked!Next]_(Checked!vars)
  <2> SUFFICES ASSUME IInv, IInv', [Next]_vars PROVE [Checked!Next]_(Checked!vars)
    OBVIOUS
  <2>1. TypeOK /\ TypeOK'
    BY DEF IInv
  <2>2. \A q \in Proc : q = p
    BY DEF Alone
  <2>3. CASE OpenSocket(p)
    <3>1. pc[p] \notin Done /\ UNCHANGED counted /\ (pc'[p] \in Done => pc'[p] = "UNKNOWN")
      BY <2>1, <2>3 DEF OpenSocket, GoOn, TypeOK, Done
    <3>2. CASE pc'[p] \in Done
      BY <1>1, <1>2, <1>3, <2>1, <3>1, <3>2
      DEF Checked!Next, Checked!Report, Checked!vars, Done, Served
    <3>3. CASE pc'[p] \notin Done
      BY <1>1, <3>1, <3>3 DEF Checked!vars, Served
    <3> QED
      BY <3>2, <3>3
  <2>4. CASE SendEcho(p) \/ Timeout(p)
    <3>1. pc[p] \notin Done /\ pc'[p] \notin Done /\ UNCHANGED counted
      BY <2>1, <2>4 DEF SendEcho, Timeout, GoOn, TypeOK, Done
    <3> QED
      BY <1>1, <3>1 DEF Checked!vars, Served
  <2>5. CASE RecvEcho(p)
    <3>1. pc[p] \notin Done /\ pc'[p] \notin Done
      BY <2>1, <2>5 DEF RecvEcho, GoOn, TypeOK, Done
    <3>2. counted'[p] # <<>>
      <4>1. counted[p] \in Seq([at : Nat, msg : Messages])
        BY <2>1 DEF TypeOK
      <4>2. PICK c : counted'[p] = Append(counted[p], c)
        BY <2>1, <2>5 DEF RecvEcho, TypeOK
      <4> QED
        BY <4>1, <4>2
    <3>3. Served' = TRUE
      BY <1>3, <2>1, <3>2
    <3> QED
      BY <1>1, <3>1, <3>3 DEF Checked!Next, Checked!Serve, Checked!vars
  <2>6. CASE Judge(p)
    <3>1. PICK slowCritical, slowWarning \in BOOLEAN :
            pc'[p] = Verdict(p, slowCritical, slowWarning)
      BY <2>1, <2>6 DEF Judge, TypeOK
    <3>2. pc[p] \notin Done /\ pc'[p] \in Done /\ UNCHANGED counted
      BY <2>6, <3>1 DEF Judge, Verdict, Done
    <3>3. pc'[p] = "OK" => Served = TRUE
      BY <1>2, <2>1, <3>1, NoneIsNotOk
    <3>4. UNCHANGED Served
      BY <3>2 DEF Served
    <3> QED
      BY <1>1, <3>2, <3>3, <3>4 DEF Checked!Next, Checked!Report, Checked!vars
  <2>7. CASE Network \/ Exited \/ UNCHANGED vars
    <3>1. UNCHANGED <<pc, counted>>
      BY <2>7 DEF Network, Answer, Deliver, Lose, Exited, vars, net
    <3> QED
      BY <3>1 DEF Checked!vars, Served
  <2> QED
    BY <2>2, <2>3, <2>4, <2>5, <2>6, <2>7 DEF Next, Process
<1> QED
  BY <1>4, <1>5, PingInvariant, PTL DEF Spec, Checked!Spec
=============================================================================
