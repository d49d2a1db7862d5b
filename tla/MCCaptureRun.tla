------------------------------ MODULE MCCaptureRun ------------------------------
(***************************************************************************)
(* An instance of CaptureRun for TLC.  Each update of the exchange changes *)
(* another level, so that a book that has missed one is wrong.             *)
(***************************************************************************)
EXTENDS CaptureRun, TLC

\* One bid at 1, asks at 2 and 3.
Quote(bid, nearAsk, farAsk) ==
  [l \in Level |-> CASE l = <<"bid", 1>> -> bid
                      [] l = <<"ask", 2>> -> nearAsk
                      [] l = <<"ask", 3>> -> farAsk
                      [] OTHER            -> 0]

FourUpdates ==
  (0 :> Quote(1, 1, 1)) @@ (1 :> Quote(1, 0, 1)) @@ (2 :> Quote(2, 0, 1)) @@
  (3 :> Quote(2, 0, 2)) @@ (4 :> Quote(2, 1, 2))

\* Events that follow each other, overlap a snapshot, leave a gap, or are refused.
ThreeEvents ==
  {[first |-> 1, final |-> 2, bookable |-> TRUE], [first |-> 3, final |-> 4, bookable |-> TRUE],
   [first |-> 2, final |-> 3, bookable |-> FALSE]}
=============================================================================
