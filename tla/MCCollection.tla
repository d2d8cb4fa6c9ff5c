----------------------------- MODULE MCCollection -----------------------------
(* Two connectors, so that one can stand in the other's way, the scheduler   *)
(* and another caller.                                                       *)
EXTENDS Collection

CONSTANTS k1, k2, sched, c1

MCConnectors == {k1, k2}
MCOrder      == <<k1, k2>>
OneCaller    == {sched, c1}
=============================================================================
