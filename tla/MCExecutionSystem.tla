--------------------------- MODULE MCExecutionSystem ---------------------------
(***************************************************************************)
(* Instances of ExecutionSystem for TLC: a parent order of a few lots,     *)
(* child orders of half or all of the residual.                            *)
(***************************************************************************)
EXTENDS ExecutionSystem

HalfOrAll == {<<1, 2>>, <<1, 1>>}
All       == {<<1, 1>>}
=============================================================================
