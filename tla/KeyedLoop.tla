------------------------------ MODULE KeyedLoop ------------------------------
(***************************************************************************)
(* The receive loops whose OK rests on a key: every exchange that leads to *)
(* OK, or to an exchange that is only asked after the service has shown    *)
(* itself, does so for a key in the response, and the server writes the    *)
(* key in no answer but the granting one.  For example check_etcd looks    *)
(* for "health": "true" after the empty line of a page with status 200.    *)
(***************************************************************************)
EXTENDS ReplyLoop

CONSTANTS
  Keyed,  \* the keyed checks
  Key,    \* [Keyed -> set of atoms]: what their tests look for
  Sure    \* [Keyed -> set of stages]: those that follow a granting answer

\* Where a check goes only when it has seen a key.
Decided(c) == Sure[c] \cup {"OK"}

ASSUME ScriptAssumption ==
  \A c \in Check :
    /\ First[c] \in DOMAIN Script[c]
    /\ DOMAIN Script[c] \cap Done = {}
    /\ \A s \in DOMAIN Script[c] :
         LET e == Script[c][s] IN
         /\ e.cmd \in DOMAIN Answer[c]
         /\ e.otherwise \in DOMAIN Script[c] \cup Done
         /\ DOMAIN e.tests \subseteq Nat
         /\ \A k \in DOMAIN e.tests : e.tests[k].to \in DOMAIN Script[c] \cup Done

ASSUME KeyedAssumption ==
  /\ Keyed \subseteq Check
  /\ \A c \in Keyed :
       /\ First[c] \notin Sure[c]
       /\ Sure[c] \cap Done = {}
       /\ \A s \in DOMAIN Script[c] \ Sure[c] :
            LET e == Script[c][s] IN
            /\ e.otherwise \notin Decided(c)
            /\ \A k \in DOMAIN e.tests :
                 e.tests[k].to \in Decided(c) => e.tests[k].shows \cap Key[c] # {}

ASSUME AnswerAssumption ==
  \A c \in Check : \A m \in DOMAIN Answer[c] : \A h \in BOOLEAN : \A r \in Answer[c][m][h] :
    /\ r.text \in Seq(STRING) /\ r.grants \in BOOLEAN
    /\ c \in Keyed /\ (\E i \in DOMAIN r.text : r.text[i] \in Key[c]) => r.grants

-----------------------------------------------------------------------------
HasKey(s) == \E i \in DOMAIN s : s[i] \in Key[check]

\* The invariant behind OkMeansGranted: a key that was received or is on its
\* way, or a verdict that rests on one, means that the server has granted.
KeyMeansGranted ==
  check \in Keyed =>
    /\ HasKey(response) \/ HasKey(inbox) => granted
    /\ pc \in Decided(check) => granted

TypeOK ==
  /\ check \in Check
  /\ healthy \in BOOLEAN
  /\ pc \in DOMAIN Script[check] \cup Done
  /\ response \in Seq(STRING) /\ half \in BOOLEAN
  /\ due \in Seq(STRING)
  /\ inbox \in Seq(STRING)
  /\ owed \subseteq DOMAIN Answer[check]
  /\ granted \in BOOLEAN

\* Inductive for every table and every server: no segment, timeout or reset
\* makes a key of an answer that has none (httpGet(), check_redis, ...).
IInv == TypeOK /\ KeyMeansGranted

\* No false OK: whatever the network does to the answer of a keyed check.
KeyedOkGranted == pc = "OK" /\ check \in Keyed => granted

\* A keyed check implements the abstract one: it ends with one status, and with
\* OK only for a service that has granted.  (Of another check the abstract
\* process runs on.)
Verdict == INSTANCE CheckVerdict WITH
  Running <- "running", Statuses <- Done,
  status <- IF pc \in Done /\ check \in Keyed THEN pc ELSE "running", served <- granted
ImplementsSafely == Verdict!Spec
=============================================================================
