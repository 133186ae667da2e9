-------------------------- MODULE MCDatagramCheck --------------------------
(***************************************************************************)
(* DatagramCheck for TLC: the configurations of check_udp, check_sip and   *)
(* check_dhcp, and their services.                                         *)
(***************************************************************************)
EXTENDS DatagramCheck, TLC

Queries ==
  "udp" :> UdpQuery(FALSE, FALSE) @@ "udp-expect" :> UdpQuery(FALSE, TRUE) @@
  "udp-send" :> UdpQuery(TRUE, FALSE) @@ "udp-send-expect" :> UdpQuery(TRUE, TRUE) @@
  "udp-binary" :> UdpQuery(TRUE, TRUE) @@
  "sip" :> SipQuery @@ "dhcp" :> DhcpQuery

AllChecks == DOMAIN Queries

\* Without -s there is no query; a text after a zero byte is not seen; and
\* check_dhcp does not look at what it receives.
NoQuery  == {"udp", "udp-expect"}
Binary   == {"udp-binary"}
NoLook   == {"dhcp"}
Answered == AllChecks \ (NoQuery \cup Binary)

-----------------------------------------------------------------------------
Msg(text)   == [text |-> text, grants |-> FALSE]
Grant(text) == [text |-> text, grants |-> TRUE]
Both(good, bad) == TRUE :> good @@ FALSE :> bad

Echo   == Both({Grant(<<"expected">>), Grant(<<"other", "expected">>)},
               {Msg(<<>>), Msg(<<"other">>), Msg(<<"other", "far", "other">>)})
AnyText == Both({Grant(<<"other">>), Grant(<<>>)}, {})
Coded  == Both({Grant(<<"nul", "expected">>)}, {Msg(<<"nul", "other">>)})
Status == Both({Grant(<<c, "SIP/2.0">>) : c \in {"SIP/2.0 200", "SIP/2.0 405", "SIP/2.0 501"}},
               {Msg(<<"SIP/2.0 503", "SIP/2.0">>), Msg(<<"other">>)})
Offer  == Both({Grant(<<"offer">>)}, {})

Services ==
  "udp" :> AnyText @@ "udp-expect" :> Echo @@ "udp-send" :> AnyText @@
  "udp-send-expect" :> Echo @@ "udp-binary" :> Coded @@ "sip" :> Status @@ "dhcp" :> Offer

Strangers == {<<"expected">>, <<"SIP/2.0 200">>, <<"SIP/2.0">>, <<>>}

-----------------------------------------------------------------------------
\* Every check ends, also when nothing ever comes.
Terminates == <>(pc \in ExitCode)
=============================================================================
