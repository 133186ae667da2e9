------------------------ MODULE DatagramCheck_proofs ------------------------
(***************************************************************************)
(* No false OK and no false alarm of the one-datagram checks, for every    *)
(* table of queries and answers and every network: what a service that has *)
(* not granted can put into the socket is not judged OK, silence is not    *)
(* either, and the answer of a healthy one stays on its way until it is    *)
(* received, unless it is lost.                                            *)
(***************************************************************************)
EXTENDS DatagramCheck, WellFoundedInduction, TLAPS

(***************************************************************************)
(* The judgement of a datagram is an exit code: among the tests that hold  *)
(* there is a first one.                                                   *)
(***************************************************************************)
LEMMA FirstOf ==
  ASSUME NEW T \in SUBSET Nat, T # {}
  PROVE  \E k \in T : \A m \in T : k <= m
<1>1. PICK k \in T : \A m \in T : ~ (<<m, k>> \in OpToRel(<, Nat))
  BY NatLessThanWellFounded, WFMin
<1>2. \A m \in T : ~ (m < k)
  BY <1>1 DEF OpToRel
<1> QED BY <1>2

LEMMA JudgedType ==
  ASSUME NEW c \in Check, NEW text
  PROVE  Judged(Query[c], text) \in ExitCode
<1> DEFINE tests == Query[c].tests
           holds == {k \in DOMAIN tests : tests[k].shows \subseteq Seen(text)}
           first == CHOOSE k \in holds : \A m \in holds : k <= m
<1>1. holds # {} => first \in DOMAIN tests
  <2>1. holds \in SUBSET Nat
    BY QueryAssumption
  <2>2. holds # {} => first \in holds
    <3> HIDE DEF holds
    <3> QED BY <2>1, FirstOf
  <2> QED BY <2>2
<1>2. holds # {} => tests[first].to \in ExitCode
  BY <1>1, QueryAssumption
<1>3. Query[c].silent \in ExitCode /\ Query[c].otherwise \in ExitCode
  BY QueryAssumption
<1>4. Judged(Query[c], text) \in {Query[c].silent, Query[c].otherwise}
      \/ (holds # {} /\ Judged(Query[c], text) = tests[first].to)
  BY DEF Judged
<1> QED BY <1>2, <1>3, <1>4

LEMMA ConcludedType ==
  ASSUME NEW q, NEW wasSent, NEW code \in ExitCode
  PROVE  Concluded(q, wasSent, code) \in ExitCode
BY DEF Concluded, ExitCode

-----------------------------------------------------------------------------
LEMMA InitImplies == Init => IInv
<1> SUFFICES ASSUME Init PROVE IInv
  OBVIOUS
<1>1. TypeOK
  BY DEF Init, TypeOK
<1>2. InboxGranted /\ OkMeansAnswered /\ AnswerComes /\ HealthyIsOk
  BY DEF Init, InboxGranted, OkMeansAnswered, AnswerComes, HealthyIsOk, ExitCode
<1> QED BY <1>1, <1>2 DEF IInv

(***************************************************************************)
(* The types: a query on its way was sent, which gave the socket its port. *)
(***************************************************************************)
LEMMA StepTypes == ASSUME IInv, [Next]_vars PROVE TypeOK'
<1> USE DEF TypeOK
<1>0. TypeOK
  BY DEF IInv
<1>1. CASE Open
  BY <1>0, <1>1 DEF Open, setup, ExitCode
<1>2. CASE SendTo
  <2>1. UNCHANGED <<check, healthy, inbox, granted, alien>> /\ pc' = "wait" /\ bound'
    BY <1>2 DEF SendTo, setup
  <2>2. fault' \in BOOLEAN /\ (query' => sent')
    <3>1. CASE sent' = TRUE /\ fault' = fault
      BY <1>0, <3>1
    <3>2. CASE fault' = TRUE /\ sent' = sent /\ query' = query
      <4>1. query' => sent'
        BY <1>0, <3>2, Zenon
      <4> QED BY <3>2, <4>1
    <3> QED BY <1>2, <3>1, <3>2 DEF SendTo
  <2> QED BY <1>0, <2>1, <2>2
<1>3. CASE Receive
  <2>1. PICK text \in inbox :
          /\ pc' = Concluded(Query[check], sent, Judged(Query[check], text))
          /\ inbox' = inbox \ {text}
    BY <1>3 DEF Receive
  <2>2. pc' \in ExitCode
    BY <1>0, <2>1, JudgedType, ConcludedType
  <2> QED BY <1>0, <1>3, <2>1, <2>2 DEF Receive, setup
<1>4. CASE Timeout
  <2>1. pc' \in ExitCode
    BY <1>0, <1>4, QueryAssumption, ConcludedType DEF Timeout
  <2>2. fault' \in BOOLEAN
    BY <1>0, <1>4 DEF Timeout
  <2> QED BY <1>0, <1>4, <2>1, <2>2 DEF Timeout, setup
<1>5. CASE Serve
  <2>1. PICK a \in Answer[check][healthy] :
          /\ granted' = (granted \/ a.grants)
          /\ inbox' = IF Query[check].port = "own" THEN inbox \cup {a.text} ELSE inbox
    BY <1>5 DEF Serve
  <2>2. query /\ UNCHANGED <<setup, pc, bound, sent, alien, fault>>
    BY <1>5 DEF Serve
  <2>3. granted' \in BOOLEAN
    BY <2>1
  <2>4. sent /\ bound
    BY <1>0, <2>2
  <2> QED BY <1>0, <2>2, <2>3, <2>4 DEF setup
<1>6. CASE Lose
  BY <1>0, <1>6 DEF Lose, setup
<1>7. CASE Stray
  BY <1>0, <1>7 DEF Stray, setup
<1>8. CASE Exited \/ UNCHANGED vars
  BY <1>0, <1>8 DEF Exited, vars, setup
<1> QED
  BY <1>1, <1>2, <1>3, <1>4, <1>5, <1>6, <1>7, <1>8 DEF Next, Client, Network

(***************************************************************************)
(* What can be judged OK: Serve by LooksAssumption, and Stray sets alien.  *)
(***************************************************************************)
LEMMA StepGranted ==
  ASSUME IInv, [Next]_vars
  PROVE  InboxGranted' /\ OkMeansAnswered'
<1> USE DEF IInv, TypeOK, InboxGranted, OkMeansAnswered
<1>1. CASE Open
  BY <1>1 DEF Open, setup
<1>2. CASE SendTo
  BY <1>2 DEF SendTo, setup
<1>3. CASE Receive
  <2>1. PICK text \in inbox :
          /\ pc' = Concluded(Query[check], sent, Judged(Query[check], text))
          /\ inbox' = inbox \ {text}
    BY <1>3 DEF Receive
  <2>2. UNCHANGED <<setup, bound, sent, query, granted, alien, fault>>
    BY <1>3 DEF Receive
  <2>3. pc' = "OK" => Judged(Query[check], text) = "OK"
    BY <2>1 DEF Concluded
  <2> QED
    BY <2>1, <2>2, <2>3 DEF setup
<1>4. CASE Timeout
  <2>1. pc' = "OK" => Query[check].silent = "OK"
    BY <1>4 DEF Timeout, Concluded
  <2> QED
    BY <1>4, <2>1, LooksAssumption DEF Timeout, setup
<1>5. CASE Serve
  <2>1. PICK a \in Answer[check][healthy] :
          /\ granted' = (granted \/ a.grants)
          /\ inbox' = IF Query[check].port = "own" THEN inbox \cup {a.text} ELSE inbox
    BY <1>5 DEF Serve
  <2>2. UNCHANGED <<setup, pc, bound, sent, alien, fault>>
    BY <1>5 DEF Serve
  <2>3. check \notin Blind /\ Judged(Query[check], a.text) = "OK" => a.grants
    BY <2>1, LooksAssumption
  <2> QED
    BY <2>1, <2>2, <2>3 DEF setup
<1>6. CASE Lose
  BY <1>6 DEF Lose, setup
<1>7. CASE Stray
  BY <1>7 DEF Stray, setup, Running, ExitCode
<1>8. CASE Exited \/ UNCHANGED vars
  BY <1>8 DEF Exited, vars, setup
<1> QED
  BY <1>1, <1>2, <1>3, <1>4, <1>5, <1>6, <1>7, <1>8 DEF Next, Client, Network

(***************************************************************************)
(* The answer of a healthy service: the query brings it, nothing takes it  *)
(* away but Lose, which is a fault, and a timeout before it is one too.    *)
(***************************************************************************)
LEMMA StepComes ==
  ASSUME IInv, [Next]_vars
  PROVE  AnswerComes' /\ HealthyIsOk'
<1> USE DEF IInv
<1>0. /\ check' = check /\ healthy' = healthy /\ check \in Check /\ healthy \in BOOLEAN
      /\ fault \in BOOLEAN /\ alien \in BOOLEAN
  BY DEF Next, Client, Network, Open, SendTo, Receive, Timeout, Serve, Lose, Stray, Exited,
         vars, setup, TypeOK
<1> SUFFICES ASSUME check \in Answerable, healthy, ~fault', ~alien'
             PROVE  /\ pc' = "open" => ~query' /\ inbox' = {}
                    /\ pc' = "send" => ~query' /\ inbox' = {}
                    /\ pc' = "wait" =>
                         /\ sent'
                         /\ IF Query[check].port = "own"
                            THEN /\ query' \/ inbox' # {}
                                 /\ \A text \in inbox' : Judged(Query[check], text) = "OK"
                            ELSE inbox' = {}
                    /\ pc' \in ExitCode => pc' = "OK"
  BY <1>0 DEF AnswerComes, HealthyIsOk
<1>f. ~fault /\ ~alien /\ fault' # TRUE /\ alien' # TRUE
  <2>1. fault' # TRUE /\ alien' # TRUE
    OBVIOUS
  <2>2. CASE Timeout
    BY <1>0, <2>1, <2>2 DEF Timeout
  <2>3. CASE ~Timeout
    BY <1>0, <2>1, <2>3
       DEF Next, Client, Network, Open, SendTo, Receive, Serve, Lose, Stray, Exited, vars, setup
  <2> QED BY <2>1, <2>2, <2>3
<1>h. healthy = TRUE
  BY <1>0
<1>a. /\ Query[check].sends
      /\ Query[check].port = "own" =>
           \A a \in Answer[check][healthy] : Judged(Query[check], a.text) = "OK"
      /\ Query[check].port # "own" => Query[check].silent = "OK"
  BY <1>h, AnswerableAssumption
<1>b. /\ pc = "open" => ~query /\ inbox = {}
      /\ pc = "send" => ~query /\ inbox = {}
      /\ pc = "wait" =>
           /\ sent
           /\ IF Query[check].port = "own"
              THEN /\ query \/ inbox # {}
                   /\ \A text \in inbox : Judged(Query[check], text) = "OK"
              ELSE inbox = {}
      /\ pc \in ExitCode => pc = "OK"
  BY <1>f DEF AnswerComes, HealthyIsOk
<1>1. CASE Open
  BY <1>1, <1>a, <1>b, <1>f DEF Open, ExitCode
<1>2. CASE SendTo
  BY <1>2, <1>b, <1>f DEF SendTo, ExitCode
<1>3. CASE Receive
  <2>1. PICK text \in inbox : pc' = Concluded(Query[check], sent, Judged(Query[check], text))
    BY <1>3 DEF Receive
  <2>2. Query[check].port = "own" /\ sent /\ Judged(Query[check], text) = "OK"
    BY <1>3, <1>b, <2>1 DEF Receive
  <2> QED BY <2>1, <2>2 DEF Concluded
<1>4. CASE Timeout
  <2>1. ~query /\ inbox = {}
    BY <1>4, <1>f DEF Timeout
  <2>2. sent /\ Query[check].silent = "OK"
    BY <1>4, <1>a, <1>b, <2>1 DEF Timeout
  <2> QED BY <1>4, <2>2 DEF Timeout, Concluded
<1>5. CASE Serve
  <2>1. PICK a \in Answer[check][healthy] :
          inbox' = IF Query[check].port = "own" THEN inbox \cup {a.text} ELSE inbox
    BY <1>5 DEF Serve
  <2>2. query /\ UNCHANGED <<pc, sent>>
    BY <1>5 DEF Serve
  <2> QED BY <2>1, <2>2, <1>a, <1>b
<1>6. CASE Lose \/ Stray
  BY <1>6, <1>f DEF Lose, Stray
<1>7. CASE Exited \/ UNCHANGED vars
  <2>1. pc' = pc /\ query' = query /\ inbox' = inbox /\ sent' = sent
    BY <1>7 DEF Exited, vars
  <2> QED BY <1>b, <2>1, Zenon
<1> QED
  BY <1>1, <1>2, <1>3, <1>4, <1>5, <1>6, <1>7 DEF Next, Client, Network

\* The inductive invariant holds of every behaviour.
THEOREM InvariantHolds == Spec => []IInv
<1>1. IInv /\ [Next]_vars => IInv'
  BY StepTypes, StepGranted, StepComes DEF IInv
<1> QED BY InitImplies, <1>1, PTL DEF Spec

\* No plugin that sends one datagram and looks at the answer returns OK unless
\* the service granted it or a stranger wrote to its port.
THEOREM NoFalseOk == Spec => []OkMeansAnswered
<1>1. IInv => OkMeansAnswered
  BY DEF IInv
<1> QED BY <1>1, InvariantHolds, PTL

\* No plugin that sends one datagram, and can see what the answer says, raises
\* an alarm for a healthy service, unless something is lost or late.
THEOREM NoFalseAlarm == Spec => []HealthyIsOk
<1>1. IInv => HealthyIsOk
  BY DEF IInv
<1> QED BY <1>1, InvariantHolds, PTL
=============================================================================
