-------------------------- MODULE PriceTimeMarket --------------------------
(***************************************************************************)
(* What the matching engine promises, without its data structures: a set   *)
(* of resting orders, at most one aggressor at a time, and the rule of     *)
(* price-time priority.  Orders arrive with increasing ids, so the smaller *)
(* id is the earlier order.  A price of 0 stands for "at any price".       *)
(***************************************************************************)
EXTENDS Integers

CONSTANTS Nobody,         \* the absent aggressor
          QuantityLimit,  \* the largest quantity
          IdLimit,        \* the largest order id
          Prices          \* the limit prices

VARIABLES resting,    \* the orders in the market
          aggressor   \* the order that is trading now, or Nobody

marketVars == <<resting, aggressor>>

Arrival == [id : 1..IdLimit, side : {"Buy", "Sell"}, price : Prices \cup {0},
            leaves : 1..QuantityLimit, mayRest : BOOLEAN]

\* The aggressor a accepts the price of the resting order o.
Agree(a, o) ==
  /\ a.side # o.side
  /\ \/ a.price = 0
     \/ a.side = "Buy" /\ o.price <= a.price
     \/ a.side = "Sell" /\ o.price >= a.price

\* Order o trades before order r: a better price, or the same and earlier.
Precedes(o, r) ==
  \/ o.side = "Buy" /\ o.price > r.price
  \/ o.side = "Sell" /\ o.price < r.price
  \/ o.price = r.price /\ o.id < r.id

\* A new aggressor is younger than everything that rests.  The orders gone
\* with it are none, or the one it replaces.
Arrive(gone) ==
  /\ aggressor = Nobody
  /\ aggressor' \in Arrival
  /\ aggressor'.mayRest => aggressor'.price # 0
  /\ \A o \in resting : o.id < aggressor'.id
  /\ resting' = resting \ gone

Trade ==
  /\ aggressor # Nobody
  /\ \E o \in resting :
       /\ Agree(aggressor, o)
       /\ \A r \in resting : r.side = o.side /\ r # o => Precedes(o, r)
       /\ LET q == IF aggressor.leaves < o.leaves THEN aggressor.leaves
                   ELSE o.leaves
          IN  /\ q > 0
              /\ aggressor' = [aggressor EXCEPT !.leaves = @ - q]
              /\ resting' = (resting \ {o}) \cup
                   {r \in {[o EXCEPT !.leaves = @ - q]} : r.leaves > 0}

\* An aggressor leaves the stage when it is done or nobody agrees with it.
Settle ==
  /\ aggressor # Nobody
  /\ aggressor.leaves > 0 => \A o \in resting : ~Agree(aggressor, o)
  /\ aggressor' = Nobody
  /\ resting' = resting \cup
       {[id |-> a.id, side |-> a.side, price |-> a.price, leaves |-> a.leaves] :
          a \in {b \in {aggressor} : b.mayRest /\ b.leaves > 0}}

Withdraw(o) ==
  /\ aggressor = Nobody
  /\ resting' = resting \ {o}
  /\ UNCHANGED aggressor

MarketInit == resting = {} /\ aggressor = Nobody

MarketNext ==
  \/ Arrive({})
  \/ \E o \in resting : Arrive({o})
  \/ Trade
  \/ Settle
  \/ \E o \in resting : Withdraw(o)

Spec == MarketInit /\ [][MarketNext]_marketVars
=============================================================================
