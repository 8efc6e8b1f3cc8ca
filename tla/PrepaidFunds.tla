------------------------------ MODULE PrepaidFunds ------------------------------
(***************************************************************************)
(* What a reseller's prepaid balance promises, with no processes, failures *)
(* or workers in sight (the header of src/src/lib/tenant/balance.ts): a    *)
(* deposit is credited once; funds are held for an order only when they    *)
(* are available; held funds are spent or returned, once, and never both.  *)
(***************************************************************************)
EXTENDS Integers, Functions

CONSTANTS Order, Deposit, Price, Value, Opening

VARIABLES available, credited, hold

funds == <<available, credited, hold>>

Init ==
  /\ available = Opening
  /\ credited = {}
  /\ hold = [o \in Order |-> "none"]

Credit(d) ==
  /\ d \notin credited
  /\ credited' = credited \cup {d}
  /\ available' = available + Value[d]
  /\ UNCHANGED hold

Hold(o) ==
  /\ hold[o] = "none" /\ available >= Price[o]
  /\ hold' = [hold EXCEPT ![o] = "held"]
  /\ available' = available - Price[o]
  /\ UNCHANGED credited

Spend(o) ==
  /\ hold[o] = "held"
  /\ hold' = [hold EXCEPT ![o] = "spent"]
  /\ UNCHANGED <<available, credited>>

Return(o) ==
  /\ hold[o] = "held"
  /\ hold' = [hold EXCEPT ![o] = "returned"]
  /\ available' = available + Price[o]
  /\ UNCHANGED credited

Next ==
  \/ \E d \in Deposit : Credit(d)
  \/ \E o \in Order : Hold(o) \/ Spend(o) \/ Return(o)

Spec == Init /\ [][Next]_funds

-----------------------------------------------------------------------------
\* Every unit ever credited is available, held, or spent.
Conserved ==
  available = Opening + SumFunctionOnSet(Value, credited)
                      - SumFunctionOnSet(Price, {o \in Order : hold[o] \in {"held", "spent"}})
===============================================================================
