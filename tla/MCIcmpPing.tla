---------------------------- MODULE MCIcmpPing ----------------------------
(***************************************************************************)
(* IcmpPing for TLC.                                                       *)
(***************************************************************************)
EXTENDS IcmpPing

CONSTANTS p1, h1

OneProcess  == {p1}
OneHost     == {h1}
ToOne       == [p \in {p1} |-> h1]

Line(n, critical, warning, rta) ==
  [count |-> n, criticalPL |-> critical, warningPL |-> warning,
   criticalRTA |-> rta, warningRTA |-> rta]
WithLimits == {Line(3, 60, 30, TRUE), Line(2, 100, 0, FALSE), Line(1, 50, 80, TRUE)}

=============================================================================
