-------------------------- MODULE MCMatchingEngine --------------------------
(***************************************************************************)
(* Instances of MatchingEngine for TLC.  Client ids are interchangeable:   *)
(* the engine only compares them for equality, so permuting them is a      *)
(* symmetry of the safety runs.                                            *)
(***************************************************************************)
EXTENDS MatchingEngine, TLC

\* A command whose quantity and terms the engine accepts.
WellTermed(cmd) ==
  /\ cmd.wellFormed
  /\ validate_quantity(cmd.quantity) = "Accepted"
  /\ validate_terms(cmd) = "Accepted"

\* Every command that is accepted, the ill-formed ones and every refused
\* combination of terms at one quantity, and every quantity of one plain limit order.
TermSubmits ==
  {cmd \in SubmitCommand :
     \/ WellTermed(cmd)
     \/ /\ cmd.side = "Sell" /\ cmd.type = "Limit" /\ cmd.tif = "GTC"
        /\ cmd.wellFormed /\ ~cmd.postOnly
     \/ cmd.quantity = MaxQuantity /\ ~(cmd.wellFormed /\ validate_terms(cmd) = "Accepted")}

\* Plain limit orders only, so that four of them fit a run.
LimitSubmits ==
  {cmd \in SubmitCommand :
     WellTermed(cmd) /\ cmd.type = "Limit" /\ cmd.tif = "GTC" /\ ~cmd.postOnly}

ClientSymmetry == Permutations(ClientIds)
=============================================================================
