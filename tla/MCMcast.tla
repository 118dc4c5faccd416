------------------------------ MODULE MCMcast ------------------------------
(* Two members of one group; m2 asks for a second type and may let the SA  *)
(* choose the MGID.                                                        *)
EXTENDS Mcast
CONSTANTS m1, m2, g1, full, send, A, B
MCJoinState == (m1 :> {full}) @@ (m2 :> {full, send})
MCMgid == (m1 :> {A}) @@ (m2 :> {A, Zero})
=============================================================================
