--------------------------- MODULE MetricsExporter ---------------------------
(***************************************************************************)
(* deployment/prometheus/netmon-exporter.sh, started by cron every minute  *)
(* whether or not the run before has ended: it prepares a temporary file   *)
(* with the two header lines, runs the checks one after the other, appends *)
(* a sample of each to the metrics file that the node exporter reads, and  *)
(* moves the temporary file over the metrics file.                         *)
(***************************************************************************)
EXTENDS Naturals, Sequences, FiniteSets

CONSTANTS
  Runs,      \* the runs of the script cron starts
  Checks     \* <<disk, load, uptime>>: the order in which they are run

\* The script has each check once.
ASSUME ChecksAssumption ==
  /\ Checks \in Seq(STRING)
  /\ \A i, j \in DOMAIN Checks : Checks[i] = Checks[j] => i = j

VARIABLES
  pc,        \* [Runs -> where the run is]
  next,      \* [Runs -> the index of its current check]
  code,      \* [Runs -> the exit code of the plugin it ran last]
  temp,      \* [Runs -> lines of its temporary file, or NoFile]
  metrics,   \* the lines of the metrics file, or NoFile
  sameDisk,  \* mktemp's directory and the metrics file share a file system
  disturbed  \* a run failed, was killed, or started while another went on

vars == <<pc, next, code, temp, metrics, sameDisk, disturbed>>

Header       == [kind |-> "header", check |-> "", value |-> 0, code |-> 0, run |-> 0]
Sample(r, v) == [kind |-> "sample", check |-> Checks[next[r]], value |-> v,
                 code |-> code[r], run |-> r]
NoFile       == <<>>   \* no step leaves a file empty
Over         == {"done", "failed", "killed"}
Alive(r)     == pc[r] \notin Over \cup {"idle"}

Init ==
  /\ pc = [r \in Runs |-> "idle"]
  /\ next = [r \in Runs |-> 1]
  /\ code = [r \in Runs |-> 0]
  /\ temp = [r \in Runs |-> NoFile]
  /\ metrics = NoFile
  /\ sameDisk \in BOOLEAN
  /\ disturbed = FALSE

Goes(r, stage) == pc' = [pc EXCEPT ![r] = stage]
At(r, stage)   == pc[r] = stage

\* mkdir -p, mktemp, the trap, and the two header lines.
Start(r) ==
  /\ At(r, "idle")
  /\ disturbed' = (disturbed \/ \E q \in Runs : Alive(q))
  /\ temp' = [temp EXCEPT ![r] = <<Header>>]
  /\ Goes(r, "check")
  /\ UNCHANGED <<next, code, metrics, sameDisk>>

\* The plugin runs, "|| true" so that its exit code does not end the script;
\* or it is not installed and its metric is left out.
Check(r) ==
  /\ At(r, "check")
  /\ IF next[r] > Len(Checks)
     THEN Goes(r, "move") /\ UNCHANGED <<next, code>>
     ELSE \/ /\ \E c \in 0..3 : code' = [code EXCEPT ![r] = c]
             /\ Goes(r, "write")
             /\ UNCHANGED next
          \/ /\ next' = [next EXCEPT ![r] = @ + 1]
             /\ UNCHANGED <<pc, code>>
  /\ UNCHANGED <<temp, metrics, sameDisk, disturbed>>

\* mutant: each sample comes with its header
WriteWithHeader(r) ==
  /\ At(r, "write")
  /\ metrics' = metrics \o <<Sample(r, 0), Header>>
  /\ next' = [next EXCEPT ![r] = @ + 1]
  /\ Goes(r, "check")
  /\ UNCHANGED <<code, temp, sameDisk, disturbed>>

\* write_metric appends "$?", which after "|| true" is 0, to the metrics file.
Write(r) ==
  /\ At(r, "write")
  /\ metrics' = Append(metrics, Sample(r, 0))
  /\ next' = [next EXCEPT ![r] = @ + 1]
  /\ Goes(r, "check")
  /\ UNCHANGED <<code, temp, sameDisk, disturbed>>

\* mutant: the temporary file is appended instead of moved
MoveAppends(r) ==
  /\ At(r, "move")
  /\ sameDisk
  /\ metrics' = metrics \o temp[r]
  /\ temp' = [temp EXCEPT ![r] = NoFile]
  /\ Goes(r, "done")
  /\ UNCHANGED <<next, code, sameDisk, disturbed>>

\* mv within a file system: one rename().
Move(r) ==
  /\ At(r, "move")
  /\ sameDisk
  /\ metrics' = temp[r]
  /\ temp' = [temp EXCEPT ![r] = NoFile]
  /\ Goes(r, "done")
  /\ UNCHANGED <<next, code, sameDisk, disturbed>>

\* mv between file systems removes the target,
Unlink(r) ==
  /\ At(r, "move")
  /\ ~sameDisk
  /\ metrics' = NoFile
  /\ Goes(r, "copy")
  /\ UNCHANGED <<next, code, temp, sameDisk, disturbed>>

\* mutant: what is left behind when the target exists again
CopyFailsDirty(r) ==
  /\ At(r, "copy")
  /\ IF metrics = NoFile
     THEN metrics' = temp[r] /\ Goes(r, "done") /\ temp' = [temp EXCEPT ![r] = NoFile]
          /\ UNCHANGED disturbed
     ELSE UNCHANGED <<metrics, temp>> /\ Goes(r, "failed") /\ disturbed' = TRUE
  /\ UNCHANGED <<next, code, sameDisk>>

\* creates it anew and copies; it fails when another run has created it since.
Copy(r) ==
  /\ At(r, "copy")
  /\ temp' = [temp EXCEPT ![r] = NoFile]
  /\ IF metrics = NoFile
     THEN metrics' = temp[r] /\ Goes(r, "done") /\ UNCHANGED disturbed
     ELSE UNCHANGED metrics /\ Goes(r, "failed") /\ disturbed' = TRUE
  /\ UNCHANGED <<next, code, sameDisk>>

\* set -e: a write or the mv fails, the trap removes the temporary file.
Fail(r) ==
  /\ pc[r] \in {"write", "move", "copy"}
  /\ temp' = [temp EXCEPT ![r] = NoFile]
  /\ Goes(r, "failed")
  /\ disturbed' = TRUE
  /\ UNCHANGED <<next, code, metrics, sameDisk>>

\* SIGKILL or a power failure: no trap runs.
Kill(r) ==
  /\ Alive(r)
  /\ Goes(r, "killed")
  /\ disturbed' = TRUE
  /\ UNCHANGED <<next, code, temp, metrics, sameDisk>>

Exited == (\A r \in Runs : pc[r] \in Over) /\ UNCHANGED vars

Next ==
  \/ \E r \in Runs : \/ Start(r) \/ Check(r) \/ Write(r) \/ Move(r) \/ Unlink(r)
                     \/ Copy(r) \/ Fail(r) \/ Kill(r)
  \/ Exited

Spec == Init /\ [][Next]_vars

-----------------------------------------------------------------------------
IsSample(i) == metrics[i].kind = "sample"

\* A scrape finds the headers first or not at all, also when runs overlap and
\* when the move takes two steps.
HeaderFirst == \A i \in DOMAIN metrics : metrics[i] = Header => i = 1

\* No run leaves its temporary file behind, unless it is killed.
TempRemoved == \A r \in Runs : pc[r] \in {"done", "failed"} => temp[r] = NoFile

\* A scrape never finds two samples of one check (which the node exporter
\* refuses) while runs do not overlap and none fails or is killed.
NoDuplicates ==
  ~disturbed => \A i, j \in DOMAIN metrics :
    IsSample(i) /\ IsSample(j) /\ metrics[i].check = metrics[j].check => i = j
=============================================================================
