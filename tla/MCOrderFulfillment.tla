-------------------------- MODULE MCOrderFulfillment --------------------------
(* Values for the constants of OrderFulfillment. *)
EXTENDS OrderFulfillment, TLC

CONSTANTS f1, f2

\* The offers differ in price: a liability that mixes them up shows.
OneOffer == {f1}
TwoOffers == {f1, f2}
Prices == [f \in Offer |-> IF f = f1 THEN 2 ELSE 1]

\* Every request is one customer's, for any of the orders; or each customer has one order, and
\* one request at a time.
Anyone == [r \in Request |-> Order]
OneEach == CHOOSE f \in [Request -> {{o} : o \in Order}] :
             \A r, q \in Request : f[r] = f[q] => r = q

Symmetry == Permutations(Request) \cup Permutations(Order)
===============================================================================
