---------------------------- MODULE MCNtpClient ----------------------------
(***************************************************************************)
(* NtpClient for the four clock checks.  "time" is check_time with the     *)
(* RFC 868 protocol: its answers count whole seconds, here of 2 ticks.     *)
(***************************************************************************)
EXTENDS NtpClient, TLC

AllChecks   == {"ntp", "ntp_peer", "ntp_time", "time"}
PeerChecks  == {"ntp_peer"}

Resolutions == "time" :> 2 @@ [c \in AllChecks |-> 1]
Warnings    == "ntp" :> 1 @@ "ntp_peer" :> 3 @@ "ntp_time" :> 0 @@ "time" :> 2
Criticals   == "ntp" :> 2 @@ "ntp_peer" :> 4 @@ "ntp_time" :> 2 @@ "time" :> 1

LocalSkews  == {-3, -1, 0, 2, 3}
AnyStratum  == {0, 3, 4}
Earlier     == {1}
Begin       == {2}
=============================================================================
