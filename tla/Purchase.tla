-------------------------------- MODULE Purchase --------------------------------
(***************************************************************************)
(* What the order service promises of a purchase, whoever confirms,        *)
(* retries or fails: an order is paid for at the payment provider before   *)
(* it is delivered, delivered before it is booked, the sale is booked      *)
(* before its cost, and each happens once and is never taken back.         *)
(*                                                                         *)
(* Implemented by OrderFulfillment (PurchaseSpec there).                   *)
(***************************************************************************)
CONSTANT Order

VARIABLES
  paid,       \* orders with a payment that succeeded at the provider
  delivered,  \* orders with an eSIM
  sold,       \* orders whose customer payment is in the ledger
  bought      \* orders whose wholesale cost is in the ledger

vars == <<paid, delivered, sold, bought>>

Init == paid = {} /\ delivered = {} /\ sold = {} /\ bought = {}

Pay(o) ==
  /\ paid' = paid \cup {o}
  /\ UNCHANGED <<delivered, sold, bought>>

Deliver(o) ==
  /\ o \in paid \ delivered
  /\ delivered' = delivered \cup {o}
  /\ UNCHANGED <<paid, sold, bought>>

Sell(o) ==
  /\ o \in delivered \ sold
  /\ sold' = sold \cup {o}
  /\ UNCHANGED <<paid, delivered, bought>>

Buy(o) ==
  /\ o \in sold \ bought
  /\ bought' = bought \cup {o}
  /\ UNCHANGED <<paid, delivered, sold>>

Next == \E o \in Order : Pay(o) \/ Deliver(o) \/ Sell(o) \/ Buy(o)

Spec == Init /\ [][Next]_vars
================================================================================
