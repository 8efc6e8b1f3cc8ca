------------------------------- MODULE MCRepairs -------------------------------
(***************************************************************************)
(* What is repaired in the end: a provisioning claim whose owner died, and *)
(* an order whose settlement of the prepaid balance was left half done.    *)
(* The two share no row; a behaviour runs the one that `part` names.       *)
(***************************************************************************)
EXTENDS Provisioning, TLC

CONSTANTS o1, q1, w1

VARIABLES part, balance, history, resv, fulfil, dep, pay, sent, ledger, at, faults

fundsVars == <<balance, history, resv, fulfil, dep, pay, sent, ledger, at, faults>>
repairVars == <<part, vars, fundsVars>>

NoMoves == {}

\* The prepaid balance: one order of 2 against 2, with two deaths or failures, so that
\* the repair itself may fail once.
Funds == INSTANCE ResellerBalance WITH
  Order <- {o1}, Deposit <- {}, Request <- {q1}, Worker <- {w1},
  Price <- [o \in {o1} |-> 2], Value <- << >>, Opening <- 2, MaxFaults <- 2,
  Moves <- {<<"pending", "provisioning">>, <<"provisioning", "success">>,
            <<"provisioning", "failed">>, <<"failed", "provisioning">>}

RepairInit == part \in {"claim", "funds"} /\ Init /\ Funds!Init

Claims(A) == part = "claim" /\ A /\ UNCHANGED <<part, fundsVars>>
Pays(A) == part = "funds" /\ A /\ UNCHANGED <<part, vars>>

RepairNext == Claims(Next) \/ Pays(Funds!Next)

\* Those of Provisioning and of ResellerBalance: a handler that lives runs on, a posting
\* that is tried again and again gets through, every run of the worker visits every row
\* that is due, and time passes.
RepairFairness ==
  /\ \A w \in Worker : /\ WF_repairVars(Claims(Claiming(w)))
                       /\ WF_repairVars(Claims(Calling(w)))
                       /\ WF_repairVars(Claims(Waiting(w)))
  /\ <>(part = "funds" \/ clock = MaxClock)
  /\ \A p \in {q1, w1} : /\ WF_repairVars(Pays(Funds!OrderStep(p) \/ Funds!DepositStep(p)))
                         /\ SF_repairVars(Pays(Funds!PostPurchase(p)))
  /\ SF_repairVars(Pays(Funds!PickReservation(w1, o1)))
  /\ SF_repairVars(Pays(Funds!PickProjection(w1, o1)))

RepairSpec == RepairInit /\ [][RepairNext]_repairVars /\ RepairFairness

\* The worker leaves neither of two things undone: a reservation whose service is active is
\* settled, and a settled one gets its purchase row, wherever the settling caller died.
OrdersSettle == Funds!OrdersSettle
===============================================================================
