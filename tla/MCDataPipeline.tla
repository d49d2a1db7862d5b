----------------------------- MODULE MCDataPipeline -----------------------------
(***************************************************************************)
(* An instance of DataPipeline for TLC.  Quantities are multiples of the   *)
(* increment, two, except after update 4.                                  *)
(***************************************************************************)
EXTENDS DataPipeline

\* A bid at 1, asks at 2 and 3.
Quote(bid, nearAsk, farAsk) ==
  [l \in Level |-> CASE l = <<"bid", 1>> -> bid
                      [] l = <<"ask", 2>> -> nearAsk
                      [] l = <<"ask", 3>> -> farAsk
                      [] OTHER            -> 0]

FiveUpdates ==
  (0 :> Quote(2, 2, 2)) @@ (1 :> Quote(2, 2, 4)) @@ (2 :> Quote(4, 2, 4)) @@
  (3 :> Quote(4, 4, 4)) @@ (4 :> Quote(3, 4, 4)) @@ (5 :> Quote(6, 4, 4))

ThreeEvents ==
  {[first |-> 2, final |-> 3, bookable |-> TRUE], [first |-> 4, final |-> 4, bookable |-> TRUE],
   [first |-> 3, final |-> 5, bookable |-> TRUE]}

LiveAndFixture == {<<"live", "complete">>, <<"fixture", "complete">>}
=============================================================================
