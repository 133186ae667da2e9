---------------------------- MODULE CheckVerdict ----------------------------
(***************************************************************************)
(* What every check of this repository promises, with no protocol in it:   *)
(* while the plugin process runs, the monitored service may or may not     *)
(* give the evidence the check looks for; the process then ends once, with *)
(* one status, and the status OK is only ever given for evidence that      *)
(* exists.  The detailed modules are shown to implement this module.       *)
(***************************************************************************)
CONSTANTS
  Running,  \* the value of status before the process has ended
  Statuses  \* how the process can end: the four exit codes, or by a signal

VARIABLES
  status,   \* Running, then one of Statuses
  served    \* the service has given the evidence that OK stands for

vars == <<status, served>>

Init ==
  /\ status = Running
  /\ served = FALSE

Serve ==
  /\ status = Running
  /\ served' = TRUE
  /\ UNCHANGED status

Report(s) ==
  /\ status = Running
  /\ s = "OK" => served
  /\ status' = s
  /\ UNCHANGED served

Next == Serve \/ \E s \in Statuses : Report(s)

Spec == Init /\ [][Next]_vars

FairSpec == Spec /\ WF_vars(\E s \in Statuses : Report(s))
=============================================================================
