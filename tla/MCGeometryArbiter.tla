-------------------------- MODULE MCGeometryArbiter --------------------------
(***************************************************************************)
(* The instance of GeometryArbiter for TLC: two viewers take part, either  *)
(* two command line programs or one of them and the app.                   *)
(***************************************************************************)
EXTENDS GeometryArbiter

CONSTANTS c1, c2, a1
MCSizes == {1, 2}

TwoViewers == client[c2] = "new" \/ client[a1] = "new"

MCSpec == Init /\ [][Next /\ TwoViewers']_vars
=============================================================================
