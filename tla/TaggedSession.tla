---------------------------- MODULE TaggedSession ----------------------------
(***************************************************************************)
(* The tagged checks, whose verdict cannot be forged by the network: every *)
(* way to OK passes one reading step (the gate) that looks for a key, and  *)
(* the server writes the key in no message but the granting one.  For      *)
(* example check_imap looks for the tag it put on its LOGIN ("A1 OK").     *)
(***************************************************************************)
EXTENDS LineSession

CONSTANTS
  Tagged,  \* the tagged checks
  Gate,    \* [Tagged -> stage]: the reading step that decides
  Key,     \* [Tagged -> set of atoms]: what it looks for
  Before   \* [Tagged -> set of stages]: the dialogue up to the gate

ASSUME TaggedAssumption == Tagged \subseteq Check

BadEnd == Done \ {"OK"}

\* The stages of a check that are still undecided, with the bad ends.
Undecided(c) == Before[c] \cup BadEnd \cup {"dial"}

ASSUME StageAssumption ==
  \A c \in Check : DOMAIN Script[c] \cap (Done \cup {"dial"}) = {}

ASSUME ScriptAssumption ==
  \A c \in Tagged :
    /\ Before[c] \cap (Done \cup {"dial"}) = {}
    /\ Before[c] \subseteq DOMAIN Script[c]
    /\ First[c] \in Before[c]

ASSUME GateAssumption ==
  \A c \in Tagged : \A s \in Before[c] :
    LET step == Script[c][s] IN
    /\ step.op \in {"send", "recv"}
    /\ step.op = "send" => step.next \in Before[c] \cup BadEnd
    /\ step.op = "recv" =>
         /\ step.otherwise \in Before[c] \cup BadEnd
         /\ \A o \in step.on :
              \/ o.to \in Before[c] \cup BadEnd
              \/ s = Gate[c] /\ o.shows \cap Key[c] # {}

ASSUME TextAssumption == Text \in STRING

ASSUME KeyAssumption ==
  \A c \in Check :
    /\ c \in Tagged => Text \notin Key[c]
    /\ \A h \in BOOLEAN : \A r \in Greeting[c][h] :
         /\ r.text \in Seq(STRING) /\ r.grants \in BOOLEAN
         /\ c \in Tagged /\ (\E i \in 1..Len(r.text) : r.text[i] \in Key[c]) => r.grants
    /\ \A m \in DOMAIN Answer[c] : \A h \in BOOLEAN : \A r \in Answer[c][m][h] :
         /\ r.text \in Seq(STRING) /\ r.grants \in BOOLEAN
         /\ c \in Tagged /\ (\E i \in 1..Len(r.text) : r.text[i] \in Key[c]) => r.grants

\* Only commands that the server knows are sent.
ASSUME CommandAssumption ==
  \A c \in Check : \A s \in DOMAIN Script[c] :
    Script[c][s].op = "send" => Script[c][s].cmd \in DOMAIN Answer[c]

-----------------------------------------------------------------------------
\* No false OK: the network may split, join, cut, delay or reset as it likes,
\* a tagged check returns OK only after the server wrote the granting message.
TaggedOkGranted == pc = "OK" /\ check \in Tagged => granted

\* The invariant behind it: a key on its way, or a dialogue past its gate,
\* means that the server has granted.
KeyMeansGranted == check \in Tagged =>
  /\ (\E i \in 1..Len(inbox) : inbox[i] \in Key[check]) => granted
  /\ pc \notin Undecided(check) => granted

\* The types the proof needs.
TypeOK ==
  /\ check \in Check
  /\ healthy \in BOOLEAN
  /\ inbox \in Seq(STRING)
  /\ cmds \in Seq(DOMAIN Answer[check])
  /\ granted \in BOOLEAN

IInv == TypeOK /\ KeyMeansGranted

\* The abstract check (safety): one verdict, and OK only for a granted service.
\* (For a check that is not tagged the abstract process runs on.)
Verdict == INSTANCE CheckVerdict WITH
  Running <- "running", Statuses <- Done,
  status <- IF pc \in Done /\ check \in Tagged THEN pc ELSE "running", served <- granted
ImplementsSafely == Verdict!Spec
=============================================================================
