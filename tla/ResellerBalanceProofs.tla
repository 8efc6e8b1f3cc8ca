------------------------- MODULE ResellerBalanceProofs -------------------------
(***************************************************************************)
(* Theorems about ResellerBalance, for every set of orders, deposits,      *)
(* requests and workers, every amount and every bound on failures.         *)
(***************************************************************************)
EXTENDS ResellerBalance, SumLaws, TLAPS

-----------------------------------------------------------------------------
(* The inductive invariant.                                                *)

OrderPc == {"reserve", "confirm", "settle", "post", "recon", "mark", "row", "flag",
            "release", "return", "inspect", "repair", "repairrow"}
DepositPc == {"verify", "apply", "webhook", "credit", "creditTx", "creditFailed",
              "postDeposit", "finish"}

\* What a caller has at hand, by where it is.
Shape(l) ==
  /\ l.pc \in OrderPc => l.item \in Order
  /\ l.pc \in DepositPc => l.item \in Deposit
  /\ l.pc = "apply" => l.verdict \in {"pending", "failed", "succeeded"}
  /\ l.pc = "webhook" => l.verdict \in {"failed", "succeeded"}
  /\ l.pc = "finish" => l.verdict \in {"COMPLETED", "RECONCILIATION_REQUIRED"}

Shapes == \A p \in Process : Shape(at[p])

-----------------------------------------------------------------------------
(* Callers.                                                                *)

LEMMA IdleShape == Idle \in Local /\ Shape(Idle)
BY DEF Idle, Caller, Local, Pc, Item, DepositStatus, Shape, OrderPc, DepositPc

\* A step of one caller keeps the callers' shapes if its new local has one.
LEMMA CallerStep ==
  ASSUME at \in [Process -> Local], Shapes, NEW p \in Process,
         NEW l \in Local, Shape(l), at' = [at EXCEPT ![p] = l]
  PROVE  at' \in [Process -> Local] /\ Shapes'
BY DEF Shapes

LEMMA DoneStep ==
  ASSUME at \in [Process -> Local], Shapes, NEW p \in Process, Done(p)
  PROVE  at' \in [Process -> Local] /\ Shapes'
BY IdleShape, CallerStep DEF Done

\* Moving on to a place where the caller needs nothing more at hand.
LEMMA GoStep ==
  ASSUME at \in [Process -> Local], Shapes, NEW p \in Process, NEW pc \in Pc, Go(p, pc),
         pc \notin {"apply", "webhook", "finish"},
         at[p].pc \in OrderPc => pc \in OrderPc,
         at[p].pc \in DepositPc => pc \in DepositPc,
         at[p].pc # "idle"
  PROVE  at' \in [Process -> Local] /\ Shapes'
<1> DEFINE l == [at[p] EXCEPT !.pc = pc]
<1>1. at[p] \in Local /\ Shape(at[p]) BY DEF Shapes
<1>2. l \in Local /\ Shape(l) BY <1>1 DEF Local, Pc, OrderPc, DepositPc, Shape
<1>3. at' = [at EXCEPT ![p] = l] BY DEF Go
<1> QED BY <1>2, <1>3, CallerStep

LEMMA BeginOrder ==
  ASSUME at \in [Process -> Local], Shapes, NEW p \in Process, NEW o \in Order,
         NEW pc \in {"reserve", "inspect", "repair"}, NEW role \in {"route", "worker"},
         Begin(p, pc, role, o)
  PROVE  at' \in [Process -> Local] /\ Shapes'
<1> DEFINE l == Caller(pc, role, o, "NONE")
<1>1. l \in Local /\ Shape(l)
  BY DEF Idle, Caller, Local, Pc, Item, DepositStatus, Shape, OrderPc, DepositPc
<1> QED BY <1>1, CallerStep DEF Begin

LEMMA BeginDeposit ==
  ASSUME at \in [Process -> Local], Shapes, NEW p \in Process, NEW d \in Deposit,
         NEW pc \in {"verify", "postDeposit"}, NEW role \in {"confirm", "worker"},
         Begin(p, pc, role, d)
  PROVE  at' \in [Process -> Local] /\ Shapes'
<1> DEFINE l == Caller(pc, role, d, "NONE")
<1>1. l \in Local /\ Shape(l)
  BY DEF Idle, Caller, Local, Pc, Item, DepositStatus, Shape, OrderPc, DepositPc
<1> QED BY <1>1, CallerStep DEF Begin

LEMMA RecordType ==
  ASSUME history \in Seq(Row), NEW type \in {"deposit", "reservation", "release", "purchase"},
         NEW item \in Order \cup Deposit, NEW amount \in Int, NEW after \in Int,
         Record(type, item, amount, after)
  PROVE  history' \in Seq(Row)
BY DEF Record, Row

LEMMA SetStateType ==
  ASSUME resv \in [Order -> [state : ReservationState, projection : BOOLEAN]],
         NEW o \in Order, NEW s \in ReservationState, SetState(o, s)
  PROVE  resv' \in [Order -> [state : ReservationState, projection : BOOLEAN]]
BY DEF SetState

LEMMA FaultType ==
  ASSUME faults \in 0..MaxFaults, Fault \/ UNCHANGED faults
  PROVE  faults' \in 0..MaxFaults
BY BoundAssumption DEF Fault

LEMMA RepairLocal ==
  ASSUME NEW l \in Local, NEW n \in Int
  PROVE  [l EXCEPT !.pc = "repairrow", !.after = n] \in Local
BY DEF Local, Pc

\* The balance a repair starts from is one that some row carries.
LEMMA BalanceBeforeInt ==
  ASSUME history \in Seq(Row), NEW o \in Order
  PROVE  BalanceBefore(o) \in Int
<1> DEFINE j == ReservationRow(o)
<1>1. CASE ~Recorded("reservation", o) \/ j = 1
  BY <1>1, AmountAssumption DEF BalanceBefore
<1>2. CASE Recorded("reservation", o) /\ j # 1
  <2>1. j \in DOMAIN history BY <1>2 DEF Recorded, ReservationRow
  <2>2. j - 1 \in 1..Len(history) BY <1>2, <2>1
  <2>3. history[j - 1] \in Row BY <2>2
  <2> QED BY <1>2, <2>3 DEF BalanceBefore, Row
<1> QED BY <1>1, <1>2

\* What an order's caller does keeps every type and every shape.
LEMMA OrderStepType ==
  ASSUME TypeOK, Shapes, NEW p \in Process, OrderStep(p)
  PROVE  TypeOK' /\ Shapes'
<1> USE DEF TypeOK
<1> DEFINE o == at[p].item
<1>0. at[p] \in Local /\ Shape(at[p]) BY DEF Shapes
<1>1. at[p].pc \in OrderPc => o \in Order BY <1>0 DEF Shape
<1>3. CASE ReserveReplay(p) \/ ReserveInsufficient(p)
  BY GoStep, DoneStep, <1>3 DEF ReserveReplay, OrderPc, DepositPc, Pc, money, orders, deposits,
     ReserveInsufficient
<1>4. CASE ReserveResellerBalance(p)
  <2>1. at' \in [Process -> Local] /\ Shapes'
    BY <1>4, GoStep DEF ReserveResellerBalance, OrderPc, DepositPc, Pc
  <2>2. o \in Order BY <1>4, <1>1 DEF ReserveResellerBalance, OrderPc
  <2>3. balance' \in Int /\ -Price[o] \in Int
    BY <1>4, <2>2, AmountAssumption DEF ReserveResellerBalance
  <2>4. history' \in Seq(Row)
    BY <1>4, <2>2, <2>3, RecordType DEF ReserveResellerBalance
  <2>5. resv' \in [Order -> [state : ReservationState, projection : BOOLEAN]]
    BY <1>4, <2>2, SetStateType DEF ReserveResellerBalance, ReservationState
  <2> QED BY <1>4, <2>1, <2>3, <2>4, <2>5 DEF ReserveResellerBalance, deposits
<1>5. CASE ConfirmAndProvision(p)
  BY <1>5, GoStep DEF ConfirmAndProvision, OrderPc, DepositPc, Pc, money, orders, deposits
<1>6. CASE SettleRead(p) \/ ReleaseRead(p)
  BY <1>6, GoStep, DoneStep DEF SettleRead, ReleaseRead, OrderPc, DepositPc, Pc, money, orders,
     deposits
<1>7. CASE PostPurchase(p)
  BY <1>7, GoStep, <1>1 DEF PostPurchase, OrderPc, DepositPc, Pc, money, orders, deposits
<1>8. CASE PostPurchaseFails(p)
  BY <1>8, GoStep, DoneStep, FaultType DEF PostPurchaseFails, OrderPc, DepositPc, Pc, money, orders,
     deposits
<1>9. CASE MarkReconciliation(p)
  BY <1>9, DoneStep, <1>1, SetStateType DEF MarkReconciliation, OrderPc, ReservationState, money,
     deposits
<1>10. CASE MarkSettled(p)
  BY <1>10, GoStep, DoneStep, <1>1, SetStateType DEF MarkSettled, OrderPc, DepositPc, Pc,
     ReservationState, money, deposits
<1>11. CASE RecordPurchase(p)
  <2>1. at' \in [Process -> Local] /\ Shapes'
    BY <1>11, GoStep DEF RecordPurchase, OrderPc, DepositPc, Pc
  <2>2. o \in Order BY <1>11, <1>1 DEF RecordPurchase, OrderPc
  <2>3. -Price[o] \in Int BY <2>2, AmountAssumption
  <2>4. history' \in Seq(Row) BY <1>11, <2>2, <2>3, RecordType DEF RecordPurchase
  <2> QED BY <1>11, <2>1, <2>4 DEF RecordPurchase, orders, deposits
<1>12. CASE MarkProjection(p)
  <2>1. at' \in [Process -> Local] /\ Shapes' BY <1>12, DoneStep DEF MarkProjection
  <2>2. o \in Order BY <1>12, <1>1 DEF MarkProjection, OrderPc
  <2>3. resv' \in [Order -> [state : ReservationState, projection : BOOLEAN]]
    <3>1. [resv[o] EXCEPT !.projection = TRUE] \in [state : ReservationState, projection : BOOLEAN]
      BY <2>2
    <3>2. resv' = [resv EXCEPT ![o] = [resv[o] EXCEPT !.projection = TRUE]]
      BY <1>12, <2>2 DEF MarkProjection
    <3> QED BY <3>1, <3>2
  <2> QED BY <1>12, <2>1, <2>3 DEF MarkProjection, money, deposits
<1>13. CASE ReturnFunds(p)
  BY <1>13, DoneStep, <1>1, AmountAssumption, RecordType, SetStateType DEF ReturnFunds, OrderPc,
     money, ReservationState, deposits
<1>14. CASE Classify(p)
  BY <1>14, GoStep, DoneStep DEF Classify, OrderPc, DepositPc, Pc, money, orders, deposits
<1>15. CASE RepairRead(p)
  <2>1. CASE Recorded("purchase", o)
    BY <1>15, <2>1, GoStep DEF RepairRead, OrderPc, DepositPc, Pc, money, orders, deposits
  <2>2. CASE ~Recorded("purchase", o)
    <3> DEFINE l == [at[p] EXCEPT !.pc = "repairrow", !.after = BalanceBefore(o) - Price[o]]
    <3>1. o \in Order BY <1>15, <1>1 DEF RepairRead, OrderPc
    <3>2. BalanceBefore(o) \in Int BY <3>1, BalanceBeforeInt
    <3>3. l \in Local
      <4>1. BalanceBefore(o) - Price[o] \in Int BY <3>1, <3>2, AmountAssumption
      <4> QED BY <1>0, <4>1, RepairLocal
    <3>4. Shape(l) BY <1>0, <3>1 DEF Shape, OrderPc, DepositPc, Local
    <3>5. at' = [at EXCEPT ![p] = l] BY <1>15, <2>2, <1>0 DEF RepairRead
    <3>6. at' \in [Process -> Local] /\ Shapes' BY <3>3, <3>4, <3>5, CallerStep
    <3> QED BY <1>15, <3>6 DEF RepairRead, money, orders, deposits
  <2> QED BY <2>1, <2>2
<1>16. CASE RepairRow(p)
  <2>1. at' \in [Process -> Local] /\ Shapes'
    BY <1>16, GoStep DEF RepairRow, OrderPc, DepositPc, Pc
  <2>2. o \in Order BY <1>16, <1>1 DEF RepairRow, OrderPc
  <2>3. -Price[o] \in Int /\ at[p].after \in Int BY <1>0, <2>2, AmountAssumption DEF Local
  <2>4. history' \in Seq(Row) BY <1>16, <2>2, <2>3, RecordType DEF RepairRow
  <2> QED BY <1>16, <2>1, <2>4 DEF RepairRow, orders, deposits
<1> QED BY <1>3, <1>4, <1>5, <1>6, <1>7, <1>8, <1>9, <1>10, <1>11, <1>12, <1>13, <1>14,
           <1>15, <1>16 DEF OrderStep

\* What a deposit's caller does keeps every type and every shape.
LEMMA DepositStepType ==
  ASSUME TypeOK, Shapes, NEW p \in Process, DepositStep(p)
  PROVE  TypeOK' /\ Shapes'
<1> USE DEF TypeOK
<1> DEFINE d == at[p].item
<1>0. at[p] \in Local /\ Shape(at[p]) BY DEF Shapes
<1>1. at[p].pc \in DepositPc => d \in Deposit BY <1>0 DEF Shape
<1>2. CASE VerifyPayment(p)
  <2> DEFINE l == [at[p] EXCEPT !.pc = "apply", !.verdict = pay[d]]
  <2>1. d \in Deposit BY <1>2, <1>1 DEF VerifyPayment, DepositPc
  <2>2. l \in Local BY <1>0, <2>1 DEF Local, Pc
  <2>3. Shape(l) BY <1>0, <2>1 DEF Shape, OrderPc, DepositPc, Local
  <2>4. at' = [at EXCEPT ![p] = l] BY <1>2, <1>0 DEF VerifyPayment
  <2>5. at' \in [Process -> Local] /\ Shapes' BY <2>2, <2>3, <2>4, CallerStep
  <2> QED BY <1>2, <2>5 DEF VerifyPayment, money, orders, deposits
<1>3. CASE ApplyVerdict(p)
  BY <1>3, GoStep, DoneStep, <1>1, <1>0 DEF ApplyVerdict, OrderPc, DepositPc, Pc, Shape, StatusOf,
     DepositStatus, money, orders
<1>4. CASE ApplyFails(p)
  BY <1>4, GoStep, FaultType DEF ApplyFails, OrderPc, DepositPc, Pc, money, orders, deposits
<1>5. CASE WebhookUpdate(p)
  BY <1>5, GoStep, DoneStep, <1>1, <1>0 DEF WebhookUpdate, OrderPc, DepositPc, Pc, Shape, StatusOf,
     DepositStatus, money, orders
<1>6. CASE CreditRead(p)
  BY <1>6, GoStep, DoneStep DEF CreditRead, CreditThrows, OrderPc, DepositPc, Pc, money, orders,
     deposits
<1>7. CASE CreditDepositBalance(p)
  <2>1. at' \in [Process -> Local] /\ Shapes'
    BY <1>7, GoStep, DoneStep DEF CreditDepositBalance, CreditThrows, OrderPc, DepositPc, Pc
  <2>2. d \in Deposit BY <1>7, <1>1 DEF CreditDepositBalance, DepositPc
  <2>3. balance' \in Int /\ Value[d] \in Int
    BY <1>7, <2>2, AmountAssumption DEF CreditDepositBalance, money
  <2>4. history' \in Seq(Row) BY <1>7, <2>2, <2>3, RecordType DEF CreditDepositBalance, money
  <2>5. dep' \in [Deposit -> DepositStatus]
    BY <1>7, <2>2 DEF CreditDepositBalance, DepositStatus
  <2> QED BY <1>7, <2>1, <2>3, <2>4, <2>5 DEF CreditDepositBalance, orders
<1>8. CASE CreditTxFails(p)
  BY <1>8, GoStep, DoneStep, FaultType DEF CreditTxFails, CreditThrows, OrderPc, DepositPc, Pc,
     money, orders, deposits
<1>9. CASE CreditFailed(p) BY <1>9, DoneStep DEF CreditFailed, DepositStatus, money, orders
<1>10. CASE PostDeposit(p)
  <2> DEFINE l == [at[p] EXCEPT !.pc = "finish", !.verdict = "COMPLETED"]
  <2>1. d \in Deposit BY <1>10, <1>1 DEF PostDeposit, DepositPc
  <2>2. l \in Local BY <1>0 DEF Local, Pc, DepositStatus
  <2>3. Shape(l) BY <1>0, <2>1 DEF Shape, OrderPc, DepositPc, Local
  <2>4. at' = [at EXCEPT ![p] = l] BY <1>10, <1>0 DEF PostDeposit
  <2>5. at' \in [Process -> Local] /\ Shapes' BY <2>2, <2>3, <2>4, CallerStep
  <2> QED BY <1>10, <2>1, <2>5 DEF PostDeposit, money, orders, deposits
<1>11. CASE PostDepositFails(p)
  <2> DEFINE l == [at[p] EXCEPT !.pc = "finish", !.verdict = "RECONCILIATION_REQUIRED"]
  <2>1. d \in Deposit BY <1>11, <1>1 DEF PostDepositFails, DepositPc
  <2>2. l \in Local BY <1>0 DEF Local, Pc, DepositStatus
  <2>3. Shape(l) BY <1>0, <2>1 DEF Shape, OrderPc, DepositPc, Local
  <2>4. Done(p) \/ at' = [at EXCEPT ![p] = l] BY <1>11, <1>0 DEF PostDepositFails
  <2>5. at' \in [Process -> Local] /\ Shapes' BY <2>2, <2>3, <2>4, CallerStep, DoneStep
  <2>6. faults' \in 0..MaxFaults BY <1>11, FaultType DEF PostDepositFails
  <2> QED BY <1>11, <2>5, <2>6 DEF PostDepositFails, money, orders, deposits
<1>12. CASE FinishDeposit(p)
  BY <1>12, DoneStep, <1>0 DEF FinishDeposit, Shape, DepositStatus, money, orders
<1> QED BY <1>2, <1>3, <1>4, <1>5, <1>6, <1>7, <1>8, <1>9, <1>10, <1>11, <1>12 DEF DepositStep

LEMMA CallsType ==
  ASSUME TypeOK, Shapes, NEW r \in Request, Calls(r)
  PROVE  TypeOK' /\ Shapes'
<1> USE DEF TypeOK
<1>0. r \in Process BY DEF Process
<1>1. CASE \E o \in Order : RouteStart(r, o)
  <2>1. PICK o \in Order : RouteStart(r, o) BY <1>1
  <2>2. at' \in [Process -> Local] /\ Shapes' BY <1>0, <2>1, BeginOrder DEF RouteStart
  <2>3. fulfil' \in [Order -> FulfillmentStatus \cup {"none"}]
    BY <2>1 DEF RouteStart, FulfillmentStatus
  <2> QED BY <2>1, <2>2, <2>3 DEF RouteStart, money, deposits
<1>2. CASE \E d \in Deposit : ConfirmDepositPayment(r, d)
  <2>1. PICK d \in Deposit : ConfirmDepositPayment(r, d) BY <1>2
  <2>2. at' \in [Process -> Local] /\ Shapes' BY <1>0, <2>1, BeginDeposit DEF ConfirmDepositPayment
  <2> QED BY <2>1, <2>2 DEF ConfirmDepositPayment, money, orders, deposits
<1>3. CASE \E d \in Deposit, s \in {"failed", "succeeded"} : HandleDepositWebhook(r, d, s)
  <2>1. PICK d \in Deposit, s \in {"failed", "succeeded"} : HandleDepositWebhook(r, d, s) BY <1>3
  <2> DEFINE l == Caller("webhook", "webhook", d, s)
  <2>2. l \in Local /\ Shape(l)
    BY DEF Caller, Local, Pc, Item, DepositStatus, Shape, OrderPc, DepositPc
  <2>3. at' \in [Process -> Local] /\ Shapes'
    BY <1>0, <2>1, <2>2, CallerStep DEF HandleDepositWebhook
  <2> QED BY <2>1, <2>3 DEF HandleDepositWebhook, money, orders, deposits
<1> QED BY <1>1, <1>2, <1>3 DEF Calls

LEMMA PicksType ==
  ASSUME TypeOK, Shapes, NEW w \in Worker, Picks(w)
  PROVE  TypeOK' /\ Shapes'
<1> USE DEF TypeOK
<1>0. w \in Process BY DEF Process
<1>1. CASE \E o \in Order : PickReservation(w, o) \/ PickProjection(w, o)
  <2>1. PICK o \in Order : PickReservation(w, o) \/ PickProjection(w, o) BY <1>1
  <2>2. at' \in [Process -> Local] /\ Shapes'
    BY <1>0, <2>1, BeginOrder DEF PickReservation, PickProjection
  <2> QED BY <2>1, <2>2 DEF PickReservation, PickProjection, money, orders, deposits
<1>2. CASE \E d \in Deposit : PickDeposit(w, d)
  <2>1. PICK d \in Deposit : PickDeposit(w, d) BY <1>2
  <2>2. at' \in [Process -> Local] /\ Shapes' BY <1>0, <2>1, BeginDeposit DEF PickDeposit
  <2> QED BY <2>1, <2>2 DEF PickDeposit, money, orders, deposits
<1> QED BY <1>1, <1>2 DEF Picks

LEMMA EnvironmentType ==
  ASSUME TypeOK, Shapes, Environment
  PROVE  TypeOK' /\ Shapes'
<1> USE DEF TypeOK
<1>1. CASE \E o \in Order : FulfillmentMoves(o)
  <2>1. PICK o \in Order : FulfillmentMoves(o) BY <1>1
  <2>2. PICK m \in Moves : fulfil' = [fulfil EXCEPT ![o] = m[2]] BY <2>1 DEF FulfillmentMoves
  <2>3. m[2] \in FulfillmentStatus BY MovesAssumption
  <2> QED BY <2>1, <2>2, <2>3 DEF FulfillmentMoves, money, deposits, Shapes
<1>2. CASE \E d \in Deposit : CreateDepositIntent(d)
  <2>1. PICK d \in Deposit : CreateDepositIntent(d) BY <1>2
  <2>2. dep' \in [Deposit -> DepositStatus] BY <2>1 DEF CreateDepositIntent, DepositStatus
  <2> QED BY <2>1, <2>2 DEF CreateDepositIntent, money, orders, Shapes
<1>3. CASE \E d \in Deposit : ProviderDecides(d)
  <2>1. PICK d \in Deposit : ProviderDecides(d) BY <1>3
  <2> QED BY <2>1 DEF ProviderDecides, money, orders, Shapes
<1> QED BY <1>1, <1>2, <1>3 DEF Environment

LEMMA StepType ==
  ASSUME TypeOK, Shapes, [Next]_vars
  PROVE  TypeOK' /\ Shapes'
<1>1. CASE UNCHANGED vars BY <1>1 DEF TypeOK, Shapes, vars
<1>2. CASE \E p \in Process : Crash(p)
  <2>1. PICK p \in Process : Crash(p) BY <1>2
  <2>2. at' \in [Process -> Local] /\ Shapes' BY <2>1, DoneStep DEF Crash, TypeOK
  <2>3. faults' \in 0..MaxFaults BY <2>1, FaultType DEF Crash, TypeOK
  <2> QED BY <2>1, <2>2, <2>3 DEF Crash, TypeOK, money, orders, deposits
<1> QED BY <1>1, <1>2, OrderStepType, DepositStepType, CallsType, PicksType, EnvironmentType
        DEF Next

LEMMA InitType ==
  ASSUME Init
  PROVE  TypeOK /\ Shapes
BY IdleShape, AmountAssumption, BoundAssumption DEF Init, TypeOK, ReservationState, DepositStatus,
   Shapes

\* Every row, ledger entry and local of a caller keeps its type, for every
\* number of orders, deposits, requests and workers.
THEOREM TypeCorrect == Spec => []TypeOK
<1>1. Init => TypeOK /\ Shapes BY InitType
<1>2. (TypeOK /\ Shapes) /\ [Next]_vars => (TypeOK /\ Shapes)' BY StepType
<1> QED BY <1>1, <1>2, PTL DEF Spec

-----------------------------------------------------------------------------
(* What a step can do to the rows.                                         *)

\* The steps that write a reservation, the balance or a transaction row.
Writes(p) ==
  \/ ReserveResellerBalance(p) \/ MarkReconciliation(p) \/ MarkSettled(p)
  \/ RecordPurchase(p) \/ MarkProjection(p) \/ ReturnFunds(p) \/ RepairRow(p)
  \/ CreditDepositBalance(p)

LEMMA Writers ==
  ASSUME [Next]_vars
  PROVE  (\E p \in Process : Writes(p)) \/ UNCHANGED <<balance, history, resv>>
<1>1. CASE UNCHANGED vars BY <1>1 DEF vars
<1>2. ASSUME NEW p \in Process, OrderStep(p)
      PROVE  Writes(p) \/ UNCHANGED <<balance, history, resv>>
  BY <1>2 DEF OrderStep, Writes, ReserveReplay, ReserveInsufficient, ConfirmAndProvision,
     SettleRead, ReleaseRead, PostPurchase, PostPurchaseFails, Classify, RepairRead, money, orders
<1>3. ASSUME NEW p \in Process, DepositStep(p)
      PROVE  Writes(p) \/ UNCHANGED <<balance, history, resv>>
  BY <1>3 DEF DepositStep, Writes, VerifyPayment, ApplyVerdict, ApplyFails, WebhookUpdate,
     CreditRead, CreditTxFails, CreditFailed, PostDeposit, PostDepositFails, FinishDeposit,
     money, orders
<1>4. ASSUME NEW p \in Process, Crash(p)
      PROVE  UNCHANGED <<balance, history, resv>>
  BY <1>4 DEF Crash, money, orders
<1>5. ASSUME NEW r \in Request, Calls(r)
      PROVE  UNCHANGED <<balance, history, resv>>
  BY <1>5 DEF Calls, RouteStart, ConfirmDepositPayment, HandleDepositWebhook, money, orders
<1>6. ASSUME NEW w \in Worker, Picks(w)
      PROVE  UNCHANGED <<balance, history, resv>>
  BY <1>6 DEF Picks, PickReservation, PickProjection, PickDeposit, money, orders
<1>7. CASE Environment
  BY <1>7 DEF Environment, FulfillmentMoves, CreateDepositIntent, ProviderDecides, money, orders
<1> QED BY <1>1, <1>2, <1>3, <1>4, <1>5, <1>6, <1>7 DEF Next

\* Who writes the ledger, and who writes what is known of the payments.
LEMMA Frames ==
  ASSUME [Next]_vars
  PROVE  /\ (\E p \in Process : PostPurchase(p) \/ PostDeposit(p)) \/ UNCHANGED ledger
         /\ Environment \/ UNCHANGED <<pay, sent>>
<1>1. CASE UNCHANGED vars BY <1>1 DEF vars
<1>2. ASSUME NEW p \in Process, OrderStep(p)
      PROVE  (PostPurchase(p) \/ UNCHANGED ledger) /\ UNCHANGED <<pay, sent>>
  BY <1>2 DEF OrderStep, ReserveReplay, ReserveInsufficient, ReserveResellerBalance,
     ConfirmAndProvision, SettleRead, ReleaseRead, PostPurchase, PostPurchaseFails,
     MarkReconciliation, MarkSettled, RecordPurchase, MarkProjection, ReturnFunds, Classify,
     RepairRead, RepairRow, deposits
<1>3. ASSUME NEW p \in Process, DepositStep(p)
      PROVE  (PostDeposit(p) \/ UNCHANGED ledger) /\ UNCHANGED <<pay, sent>>
  BY <1>3 DEF DepositStep, VerifyPayment, ApplyVerdict, ApplyFails, WebhookUpdate,
     CreditRead, CreditDepositBalance, CreditTxFails, CreditFailed, PostDeposit,
     PostDepositFails, FinishDeposit, deposits
<1>4. ASSUME NEW p \in Process, Crash(p)
      PROVE  UNCHANGED <<ledger, pay, sent>>
  BY <1>4 DEF Crash, deposits
<1>5. ASSUME NEW r \in Request, Calls(r)
      PROVE  UNCHANGED <<ledger, pay, sent>>
  BY <1>5 DEF Calls, RouteStart, ConfirmDepositPayment, HandleDepositWebhook, deposits
<1>6. ASSUME NEW w \in Worker, Picks(w)
      PROVE  UNCHANGED <<ledger, pay, sent>>
  BY <1>6 DEF Picks, PickReservation, PickProjection, PickDeposit, deposits
<1>7. CASE Environment
  BY <1>7 DEF Environment, FulfillmentMoves, CreateDepositIntent, ProviderDecides
<1> QED BY <1>1, <1>2, <1>3, <1>4, <1>5, <1>6, <1>7 DEF Next

\* A recorded row is recorded for good, and is the only new one.
LEMMA RecordedAppend ==
  ASSUME history \in Seq(Row), NEW type, NEW item, NEW amount, NEW after,
         Record(type, item, amount, after)
  PROVE  \A t, i : Recorded(t, i)' <=> Recorded(t, i) \/ (t = type /\ i = item)
<1> DEFINE n == Len(history)
<1>1. DOMAIN history = 1..n /\ n \in Nat OBVIOUS
<1>2. DOMAIN history' = 1..(n + 1) BY DEF Record
<1>3. \A j \in 1..n : history'[j] = history[j] BY DEF Record
<1>4. history'[n + 1].type = type /\ history'[n + 1].item = item BY DEF Record
<1> HIDE DEF n
<1> TAKE t, i
<1>5. ASSUME Recorded(t, i)' PROVE Recorded(t, i) \/ (t = type /\ i = item)
  <2>1. PICK j \in 1..(n + 1) : history'[j].type = t /\ history'[j].item = i
    BY <1>5, <1>2 DEF Recorded
  <2>2. CASE j = n + 1 BY <2>1, <2>2, <1>4
  <2>3. CASE j \in 1..n BY <2>1, <2>3, <1>1, <1>3 DEF Recorded
  <2> QED BY <2>1, <2>2, <2>3, <1>1
<1>6. ASSUME Recorded(t, i) PROVE Recorded(t, i)'
  <2>1. PICK j \in 1..n : history[j].type = t /\ history[j].item = i
    BY <1>6, <1>1 DEF Recorded
  <2>2. j \in 1..(n + 1) BY <2>1, <1>1
  <2> QED BY <2>1, <2>2, <1>2, <1>3 DEF Recorded
<1>7. ASSUME t = type, i = item PROVE Recorded(t, i)' BY <1>1, <1>2, <1>4, <1>7 DEF Recorded
<1> QED BY <1>5, <1>6, <1>7

LEMMA RecordedSame ==
  ASSUME UNCHANGED history
  PROVE  \A t, i : Recorded(t, i)' <=> Recorded(t, i)
BY DEF Recorded

-----------------------------------------------------------------------------
(* The balance implements the abstract prepaid funds.                      *)

LEMMA HoldIs ==
  /\ HoldOf["NONE"] = "none" /\ HoldOf["RESERVED"] = "held" /\ HoldOf["SETTLED"] = "spent"
  /\ HoldOf["RELEASED"] = "returned" /\ HoldOf["RECONCILIATION_REQUIRED"] = "held"
BY DEF HoldOf, ReservationState, Open

\* The holds after one reservation changed state.
LEMMA HoldStep ==
  ASSUME resv \in [Order -> [state : ReservationState, projection : BOOLEAN]],
         NEW o \in Order, NEW s \in ReservationState, SetState(o, s)
  PROVE  [x \in Order |-> HoldOf[resv'[x].state]]
           = [[x \in Order |-> HoldOf[resv[x].state]] EXCEPT ![o] = HoldOf[s]]
BY DEF SetState

LEMMA FundsStep ==
  ASSUME TypeOK, Shapes, [Next]_vars
  PROVE  [Funds!Next]_(Funds!funds)
<1> DEFINE credited == {d \in Deposit : Recorded("deposit", d)}
           hold == [o \in Order |-> HoldOf[resv[o].state]]
<1> USE DEF TypeOK
<1>1. CASE UNCHANGED <<balance, history, resv>> BY <1>1, RecordedSame DEF Funds!funds
<1>2. ASSUME NEW p \in Process, Writes(p)
      PROVE  [Funds!Next]_(Funds!funds)
  <2> PICK o : o = at[p].item OBVIOUS
  <2>0. /\ at[p] \in Local
        /\ at[p].pc \in OrderPc => o \in Order
        /\ at[p].pc \in DepositPc => o \in Deposit
    BY DEF Shapes, Shape
  <2>1. CASE ReserveResellerBalance(p)
    <3>1. o \in Order BY <2>0, <2>1 DEF ReserveResellerBalance, OrderPc
    <3>2. hold' = [hold EXCEPT ![o] = "held"] /\ hold[o] = "none"
      <4>1. SetState(o, "RESERVED") /\ resv[o].state = "NONE"
        BY <2>1 DEF ReserveResellerBalance
      <4>2. hold' = [hold EXCEPT ![o] = HoldOf["RESERVED"]]
        BY <3>1, <4>1, HoldStep DEF ReservationState
      <4>3. hold[o] = "none" BY <3>1, <4>1, HoldIs
      <4> QED BY <4>2, <4>3, HoldIs
    <3>3. credited' = credited BY <2>1, RecordedAppend DEF ReserveResellerBalance
    <3>4. balance' = balance - Price[o] /\ balance >= Price[o]
      BY <2>1 DEF ReserveResellerBalance
    <3>5. Funds!Hold(o) BY <3>2, <3>3, <3>4 DEF Funds!Hold
    <3> QED BY <3>1, <3>5 DEF Funds!Next
  <2>2. CASE MarkReconciliation(p)
    <3>1. o \in Order BY <2>0, <2>2 DEF MarkReconciliation, OrderPc
    <3>2. hold' = hold
      <4>1. CASE UNCHANGED resv BY <4>1
      <4>2. CASE resv[o].state \in Open /\ SetState(o, "RECONCILIATION_REQUIRED")
        <5>1. hold' = [hold EXCEPT ![o] = HoldOf["RECONCILIATION_REQUIRED"]]
          BY <4>2, <3>1, HoldStep DEF ReservationState
        <5>2. hold[o] = "held" BY <4>2, <3>1, HoldIs DEF Open
        <5> QED BY <5>1, <5>2, HoldIs
      <4> QED BY <2>2, <4>1, <4>2 DEF MarkReconciliation
    <3>3. credited' = credited /\ balance' = balance
      BY <2>2, RecordedSame DEF MarkReconciliation, money
    <3> QED BY <3>2, <3>3 DEF Funds!funds
  <2>3. CASE MarkSettled(p)
    <3>1. o \in Order BY <2>0, <2>3 DEF MarkSettled, OrderPc
    <3>2. credited' = credited /\ balance' = balance
      BY <2>3, RecordedSame DEF MarkSettled, money
    <3>3. CASE UNCHANGED resv BY <3>3, <3>2 DEF Funds!funds
    <3>4. CASE resv[o].state \in Open /\ SetState(o, "SETTLED")
      <4>1. hold' = [hold EXCEPT ![o] = "spent"] /\ hold[o] = "held"
        <5>1. hold' = [hold EXCEPT ![o] = HoldOf["SETTLED"]]
          BY <3>4, <3>1, HoldStep DEF ReservationState
        <5>2. hold[o] = "held" BY <3>4, <3>1, HoldIs DEF Open
        <5> QED BY <5>1, <5>2, HoldIs
      <4>2. Funds!Spend(o) BY <3>2, <4>1 DEF Funds!Spend
      <4> QED BY <3>1, <4>2 DEF Funds!Next
    <3> QED BY <2>3, <3>3, <3>4 DEF MarkSettled
  <2>4. CASE RecordPurchase(p) \/ RepairRow(p)
    BY <2>4, RecordedAppend, RecordedSame DEF RecordPurchase, RepairRow, orders, Funds!funds
  <2>5. CASE MarkProjection(p) BY <2>5, RecordedSame DEF MarkProjection, money, Funds!funds
  <2>6. CASE ReturnFunds(p)
    <3>1. o \in Order BY <2>0, <2>6 DEF ReturnFunds, OrderPc
    <3>2. CASE UNCHANGED <<money, resv>> BY <3>2, RecordedSame DEF money, Funds!funds
    <3>3. CASE /\ resv[o].state = "RESERVED" /\ SetState(o, "RELEASED")
               /\ balance' = balance + Price[o]
               /\ Record("release", o, Price[o], balance')
      <4>1. hold' = [hold EXCEPT ![o] = "returned"] /\ hold[o] = "held"
        <5>1. hold' = [hold EXCEPT ![o] = HoldOf["RELEASED"]]
          BY <3>3, <3>1, HoldStep DEF ReservationState
        <5>2. hold[o] = "held" BY <3>3, <3>1, HoldIs
        <5> QED BY <5>1, <5>2, HoldIs
      <4>2. credited' = credited BY <3>3, RecordedAppend
      <4>3. Funds!Return(o) BY <3>3, <4>1, <4>2 DEF Funds!Return
      <4> QED BY <3>1, <4>3 DEF Funds!Next
    <3> QED BY <2>6, <3>2, <3>3 DEF ReturnFunds
  <2>7. CASE CreditDepositBalance(p)
    BY <2>0, <2>7, RecordedSame, RecordedAppend DEF CreditDepositBalance, DepositPc, orders, money,
       Funds!funds, Funds!Credit, Funds!Next
  <2> QED BY <1>2, <2>1, <2>2, <2>3, <2>4, <2>5, <2>6, <2>7 DEF Writes
<1> QED BY <1>1, <1>2, Writers

\* Whatever requests, webhooks and workers do to each other, the money moves as
\* the abstract prepaid funds say.
THEOREM FundsRefinement == Spec => FundsSpec
<1>1. Init => Funds!Init BY HoldIs DEF Init, Recorded, Funds!Init
<1>2. Init => TypeOK /\ Shapes BY InitType
<1>3. (TypeOK /\ Shapes) /\ [Next]_vars => (TypeOK /\ Shapes)' BY StepType
<1>4. (TypeOK /\ Shapes) /\ [Next]_vars => [Funds!Next]_(Funds!funds) BY FundsStep
<1> QED BY <1>1, <1>2, <1>3, <1>4, PTL DEF Spec, FundsSpec, Funds!Spec

-----------------------------------------------------------------------------
(* The rows reconstruct the balance.                                       *)

\* A row appended with the new balance keeps the audit trail.
LEMMA AuditAppend ==
  ASSUME history \in Seq(Row), AuditTrail, NEW type, NEW item, NEW amount, NEW after,
         Record(type, item, amount, after),
         \/ type = "purchase" /\ balance' = balance
         \/ type # "purchase" /\ after = balance' /\ balance' = balance + amount
  PROVE  AuditTrail'
<1> DEFINE n == Len(history)
<1>1. DOMAIN history = 1..n /\ n \in Nat OBVIOUS
<1>2. DOMAIN history' = 1..(n + 1) BY DEF Record
<1>3. \A j \in 1..n : history'[j] = history[j] BY DEF Record
<1>4. history'[n + 1] = [type |-> type, item |-> item, amount |-> amount, after |-> after]
  BY DEF Record
<1>5. \A j \in 1..n : j \in 1..(n + 1) /\ j < n + 1 BY <1>1
<1>6. MoneyRows \subseteq 1..n BY <1>1 DEF MoneyRows
<1> HIDE DEF n
<1>7. \A i \in MoneyRows : history'[i] = history[i] BY <1>3, <1>6
<1>8. CASE type = "purchase" /\ balance' = balance
  BY <1>8, <1>4, <1>1, <1>2, <1>3, <1>7 DEF MoneyRows, AuditTrail
<1>9. CASE type # "purchase" /\ after = balance' /\ balance' = balance + amount
  <2>1. MoneyRows' = MoneyRows \cup {n + 1} BY <1>9, <1>4, <1>1, <1>2, <1>3, <1>5 DEF MoneyRows
  <2>2. ASSUME NEW i \in MoneyRows', \A j \in MoneyRows' : j <= i
        PROVE  history'[i].after = balance'
    BY <2>1, <2>2, <1>1, <1>6, <1>4, <1>9
  <2>3. ASSUME NEW i \in MoneyRows', NEW j \in MoneyRows', i < j,
               \A k \in MoneyRows' : k <= i \/ j <= k
        PROVE  history'[j].after = history'[i].after + history'[j].amount
    <3>1. i \in MoneyRows BY <2>1, <2>3, <1>1, <1>6
    <3>2. CASE j \in MoneyRows BY <2>1, <2>3, <3>1, <3>2, <1>7 DEF AuditTrail
    <3>3. CASE j = n + 1
      <4>1. \A k \in MoneyRows : k <= i
        <5> TAKE k \in MoneyRows
        <5>1. k <= i \/ n + 1 <= k BY <2>1, <2>3, <3>3
        <5>2. k \in 1..n BY <1>6
        <5> QED BY <5>1, <5>2, <1>1
      <4>2. history[i].after = balance BY <3>1, <4>1 DEF AuditTrail
      <4> QED BY <3>1, <3>3, <4>2, <1>4, <1>7, <1>9
    <3> QED BY <2>1, <3>2, <3>3
  <2> QED BY <2>2, <2>3 DEF AuditTrail
<1> QED BY <1>8, <1>9

LEMMA AuditSame ==
  ASSUME AuditTrail, UNCHANGED <<balance, history>>
  PROVE  AuditTrail'
BY DEF AuditTrail, MoneyRows

LEMMA AuditStep ==
  ASSUME TypeOK, Shapes, AuditTrail, Solvent, [Next]_vars
  PROVE  AuditTrail' /\ Solvent'
<1> USE DEF TypeOK
<1>1. CASE UNCHANGED <<balance, history, resv>> BY <1>1, AuditSame DEF Solvent
<1>2. ASSUME NEW p \in Process, Writes(p)
      PROVE  AuditTrail' /\ Solvent'
  <2> PICK o : o = at[p].item OBVIOUS
  <2>0. /\ at[p].pc \in OrderPc => o \in Order
        /\ at[p].pc \in DepositPc => o \in Deposit
    BY DEF Shapes, Shape
  <2>1. CASE ReserveResellerBalance(p)
    <3>1. o \in Order BY <2>0, <2>1 DEF ReserveResellerBalance, OrderPc
    <3>2. Price[o] \in Nat BY <3>1, AmountAssumption
    <3>3. /\ balance >= Price[o] /\ balance' = balance - Price[o]
          /\ Record("reservation", o, -Price[o], balance')
      BY <2>1 DEF ReserveResellerBalance
    <3>4. balance' = balance + (-Price[o]) BY <3>2, <3>3
    <3>5. AuditTrail' BY <3>3, <3>4, AuditAppend
    <3>6. Solvent' BY <3>2, <3>3 DEF Solvent
    <3> QED BY <3>5, <3>6
  <2>2. CASE MarkReconciliation(p) \/ MarkSettled(p) \/ MarkProjection(p)
    BY <2>2, AuditSame DEF MarkReconciliation, MarkSettled, MarkProjection, money, Solvent
  <2>3. CASE RecordPurchase(p) \/ RepairRow(p)
    BY <2>3, AuditSame, AuditAppend DEF RecordPurchase, RepairRow, Solvent
  <2>4. CASE ReturnFunds(p)
    BY <2>0, <2>4, AmountAssumption, AuditSame, AuditAppend DEF ReturnFunds, OrderPc, money, Solvent
  <2>5. CASE CreditDepositBalance(p)
    BY <2>0, <2>5, AmountAssumption, AuditSame, AuditAppend DEF CreditDepositBalance, DepositPc,
       money, Solvent
  <2> QED BY <1>2, <2>1, <2>2, <2>3, <2>4, <2>5 DEF Writes
<1> QED BY <1>1, <1>2, Writers

\* The rows of the tenant reconstruct its balance, and it is never overdrawn,
\* for any number of orders, deposits and callers.
THEOREM AuditableBalance == Spec => [](AuditTrail /\ Solvent)
<1> DEFINE IInv == TypeOK /\ Shapes /\ AuditTrail /\ Solvent
<1>1. Init => IInv BY AmountAssumption, InitType DEF Init, AuditTrail, MoneyRows, Solvent
<1>2. IInv /\ [Next]_vars => IInv' BY StepType, AuditStep
<1>3. IInv => AuditTrail /\ Solvent OBVIOUS
<1> QED BY <1>1, <1>2, <1>3, PTL DEF Spec

-----------------------------------------------------------------------------
(* The stages of a settlement.                                             *)

\* What was done before a caller got where it is: the strengthening that makes
\* SettlementOrder inductive, for a step writes what it no longer checks.
Staged(l) ==
  /\ l.pc = "mark" => l.item \in ledger
  /\ l.pc \in {"row", "repair", "repairrow"} => resv[l.item].state = "SETTLED"
  /\ l.pc = "flag" => Recorded("purchase", l.item)

Stages == \A p \in Process : Staged(at[p])

\* Nothing that a stage left behind is ever taken back.
LEMMA Monotone ==
  ASSUME TypeOK, Shapes, [Next]_vars
  PROVE  /\ ledger \subseteq ledger'
         /\ \A x \in Order : resv[x].state = "SETTLED" => resv'[x].state = "SETTLED"
         /\ \A t, i : Recorded(t, i) => Recorded(t, i)'
<1> USE DEF TypeOK
<1>1. ledger \subseteq ledger' BY Frames DEF PostPurchase, PostDeposit
<1>2. \A x \in Order : resv[x].state = "SETTLED" => resv'[x].state = "SETTLED"
  <2>1. ASSUME NEW p \in Process, Writes(p)
        PROVE  \A x \in Order : resv[x].state = "SETTLED" => resv'[x].state = "SETTLED"
    BY <2>1 DEF Writes, ReserveResellerBalance, MarkReconciliation, MarkSettled, RecordPurchase,
       MarkProjection, ReturnFunds, RepairRow, CreditDepositBalance, SetState, Open, orders
  <2> QED BY <2>1, Writers
<1>3. \A t, i : Recorded(t, i) => Recorded(t, i)'
  <2>1. ASSUME NEW p \in Process, Writes(p)
        PROVE  \A t, i : Recorded(t, i) => Recorded(t, i)'
    BY <2>1, RecordedAppend, RecordedSame DEF Writes, ReserveResellerBalance, MarkReconciliation,
       MarkSettled, RecordPurchase, MarkProjection, ReturnFunds, RepairRow, CreditDepositBalance,
       money
  <2> QED BY <2>1, Writers, RecordedSame
<1> QED BY <1>1, <1>2, <1>3

\* A caller moves only by a step of its own.
LEMMA Mover ==
  ASSUME TypeOK, [Next]_vars, NEW q \in Process
  PROVE  \/ at'[q] = at[q]
         \/ \E p \in Process : (OrderStep(p) \/ DepositStep(p) \/ Crash(p)) /\ p = q
         \/ \E r \in Request : Calls(r) /\ r = q
         \/ \E w \in Worker : Picks(w) /\ w = q
<1> USE DEF TypeOK
<1>1. ASSUME NEW p \in Process, OrderStep(p), p # q PROVE at'[q] = at[q]
  BY <1>1 DEF OrderStep, ReserveReplay, ReserveInsufficient, ReserveResellerBalance,
     ConfirmAndProvision, SettleRead, ReleaseRead, PostPurchase, PostPurchaseFails,
     MarkReconciliation, MarkSettled, RecordPurchase, MarkProjection, ReturnFunds, Classify,
     RepairRead, RepairRow, Go, Done
<1>2. ASSUME NEW p \in Process, DepositStep(p) \/ Crash(p), p # q PROVE at'[q] = at[q]
  BY <1>2 DEF DepositStep, Crash, VerifyPayment, ApplyVerdict, ApplyFails, WebhookUpdate,
     CreditRead, CreditThrows, CreditDepositBalance, CreditTxFails, CreditFailed, PostDeposit,
     PostDepositFails, FinishDeposit, Go, Done
<1>3. ASSUME NEW r \in Request, Calls(r), r # q PROVE at'[q] = at[q]
  BY <1>3 DEF Calls, RouteStart, ConfirmDepositPayment, HandleDepositWebhook, Begin
<1>4. ASSUME NEW w \in Worker, Picks(w), w # q PROVE at'[q] = at[q]
  BY <1>4 DEF Picks, PickReservation, PickProjection, PickDeposit, Begin
<1>5. CASE Environment
  BY <1>5 DEF Environment, FulfillmentMoves, CreateDepositIntent, ProviderDecides
<1>6. CASE UNCHANGED vars BY <1>6 DEF vars
<1> QED BY <1>1, <1>2, <1>3, <1>4, <1>5, <1>6 DEF Next

LEMMA StagesStep ==
  ASSUME TypeOK, Shapes, SettlementOrder, Stages, [Next]_vars
  PROVE  Stages'
<1> USE DEF TypeOK
<1> SUFFICES ASSUME NEW q \in Process, NEW l, l = at'[q]
             PROVE  Staged(l)'
  BY DEF Stages
<1> PICK o : o = at[q].item OBVIOUS
<1>0. /\ at[q] \in Local /\ Staged(at[q])
      /\ at[q].pc \in OrderPc => o \in Order
  BY DEF Shapes, Shape, Stages
<1>1. CASE at'[q] = at[q] BY <1>0, <1>1, Monotone DEF OrderPc, Staged
<1>2. CASE at'[q].pc \notin {"mark", "row", "repair", "repairrow", "flag"}
  BY <1>2 DEF Staged
<1>3. ASSUME NEW p \in Process, OrderStep(p), p = q
      PROVE  Staged(l)'
  <2>1. CASE PostPurchase(p)
    BY <1>3, <2>1, <1>0 DEF PostPurchase, Go, Staged, Local
  <2>2. CASE MarkSettled(p)
    <3>1. o \in Order BY <1>0, <1>3, <2>2 DEF MarkSettled, OrderPc
    <3>2. CASE SetState(o, "SETTLED") /\ Go(p, "row")
      BY <1>3, <1>0, <3>1, <3>2 DEF SetState, Go, Staged, Local
    <3>3. CASE Done(p) BY <1>3, <3>3 DEF Done, Idle, Caller, Staged
    <3> QED BY <1>3, <2>2, <3>2, <3>3 DEF MarkSettled
  <2>3. CASE RecordPurchase(p) \/ RepairRow(p)
    BY <1>3, <2>3, RecordedAppend, RecordedSame, <1>0 DEF RecordPurchase, RepairRow, Go, Local,
       Staged
  <2>4. CASE RepairRead(p)
    BY <1>0, <1>3, <2>4, Monotone DEF RepairRead, OrderPc, Staged, Go, Local
  <2>5. CASE \/ ReserveReplay(p) \/ ReserveInsufficient(p) \/ ReserveResellerBalance(p)
             \/ ConfirmAndProvision(p) \/ SettleRead(p) \/ ReleaseRead(p)
             \/ PostPurchaseFails(p) \/ MarkReconciliation(p) \/ MarkProjection(p)
             \/ ReturnFunds(p) \/ Classify(p)
    <3>1. at'[q].pc \notin {"mark", "row", "repair", "repairrow", "flag"}
      BY <1>3, <2>5, <1>0 DEF ReserveReplay, ReserveInsufficient, ReserveResellerBalance,
         ConfirmAndProvision, SettleRead, ReleaseRead, PostPurchaseFails, MarkReconciliation,
         MarkProjection, ReturnFunds, Classify, Go, Done, Idle, Caller, Local
    <3> QED BY <3>1, <1>2
  <2> QED BY <1>3, <2>1, <2>2, <2>3, <2>4, <2>5 DEF OrderStep
<1>4. ASSUME NEW p \in Process, DepositStep(p) \/ Crash(p), p = q
      PROVE  at'[q].pc \notin {"mark", "row", "repair", "repairrow", "flag"}
  BY <1>4, <1>0 DEF DepositStep, Crash, VerifyPayment, ApplyVerdict, ApplyFails, WebhookUpdate,
     CreditRead, CreditThrows, CreditDepositBalance, CreditTxFails, CreditFailed, PostDeposit,
     PostDepositFails, FinishDeposit, Go, Done, Idle, Caller, Local
<1>5. ASSUME NEW r \in Request, Calls(r), r = q
      PROVE  at'[q].pc \notin {"mark", "row", "repair", "repairrow", "flag"}
  BY <1>5, <1>0 DEF Calls, RouteStart, ConfirmDepositPayment, HandleDepositWebhook, Begin, Caller
<1>6. ASSUME NEW w \in Worker, Picks(w), w = q
      PROVE  Staged(l)'
  <2>1. CASE \E x \in Order : PickProjection(w, x)
    <3>1. PICK x \in Order : PickProjection(w, x) BY <2>1
    <3>2. at'[q].pc = "repair" /\ at'[q].item = x BY <1>6, <3>1 DEF PickProjection, Begin, Caller
    <3>3. resv'[x].state = "SETTLED" BY <3>1 DEF PickProjection, orders
    <3> QED BY <3>2, <3>3 DEF Staged
  <2>2. CASE \/ \E x \in Order : PickReservation(w, x)
             \/ \E d \in Deposit : PickDeposit(w, d)
    BY <1>6, <2>2, <1>2 DEF PickReservation, PickDeposit, Begin, Caller
  <2> QED BY <1>6, <2>1, <2>2 DEF Picks
<1> QED BY <1>1, <1>2, <1>3, <1>4, <1>5, <1>6, Mover

LEMMA SettlementStep ==
  ASSUME TypeOK, Shapes, SettlementOrder, Stages, [Next]_vars
  PROVE  SettlementOrder'
<1> USE DEF TypeOK
<1> SUFFICES ASSUME NEW x \in Order
             PROVE  /\ resv'[x].projection => Recorded("purchase", x)'
                    /\ Recorded("purchase", x)' => resv'[x].state = "SETTLED"
                    /\ resv'[x].state = "SETTLED" => x \in ledger'
  BY DEF SettlementOrder
<1>0. /\ resv[x].projection => Recorded("purchase", x)
      /\ Recorded("purchase", x) => resv[x].state = "SETTLED"
      /\ resv[x].state = "SETTLED" => x \in ledger
  BY DEF SettlementOrder
\* A step that makes none of the three facts newly true keeps their order.
<1>1. CASE /\ resv'[x].projection => resv[x].projection
           /\ Recorded("purchase", x)' => Recorded("purchase", x)
           /\ resv'[x].state = "SETTLED" => resv[x].state = "SETTLED"
  BY <1>0, <1>1, Monotone
<1>2. CASE UNCHANGED <<balance, history, resv>> BY <1>1, <1>2, RecordedSame
<1>3. ASSUME NEW p \in Process, Writes(p)
      PROVE  /\ resv'[x].projection => Recorded("purchase", x)'
             /\ Recorded("purchase", x)' => resv'[x].state = "SETTLED"
             /\ resv'[x].state = "SETTLED" => x \in ledger'
  <2> PICK o : o = at[p].item OBVIOUS
  <2>0. /\ Staged(at[p])
        /\ at[p].pc \in OrderPc => o \in Order
    BY DEF Shapes, Shape, Stages
  <2>1. CASE ReserveResellerBalance(p) \/ MarkReconciliation(p) \/ ReturnFunds(p)
             \/ CreditDepositBalance(p)
    BY <2>1, RecordedAppend, RecordedSame, <2>0, <1>1 DEF ReserveResellerBalance,
       MarkReconciliation, ReturnFunds, CreditDepositBalance, money, orders, SetState
  <2>2. CASE MarkSettled(p)
    <3>1. Recorded("purchase", x)' => Recorded("purchase", x)
      BY <2>2, RecordedSame DEF MarkSettled, money
    <3>2. resv'[x].projection => resv[x].projection BY <2>2 DEF MarkSettled, SetState
    <3>3. CASE x = o
      <4>1. x \in ledger BY <2>0, <2>2, <3>3 DEF MarkSettled, Staged
      <4> QED BY <1>0, <3>1, <3>2, <4>1, Monotone
    <3>4. CASE x # o BY <2>2, <3>4, <1>1, <3>1 DEF MarkSettled, SetState
    <3> QED BY <3>3, <3>4
  <2>3. CASE RecordPurchase(p) \/ RepairRow(p)
    BY <2>3, RecordedAppend, RecordedSame, <2>0, <1>0, Monotone DEF RecordPurchase, RepairRow,
       orders, Staged
  <2>4. CASE MarkProjection(p)
    BY <2>4, RecordedSame, <2>0, <1>0, Monotone DEF MarkProjection, money, Staged
  <2> QED BY <1>3, <2>1, <2>2, <2>3, <2>4 DEF Writes
<1> QED BY <1>2, <1>3, Writers

\* For any number of orders and callers, dying anywhere: SETTLED is written only
\* after the ledger posting, the purchase row only for SETTLED, and the
\* projection flag only for a row that exists.
THEOREM SettlementOrdered == Spec => []SettlementOrder
<1> DEFINE IInv == TypeOK /\ Shapes /\ SettlementOrder /\ Stages
<1>1. Init => IInv
  BY InitType DEF Init, SettlementOrder, Recorded, Stages, Staged, Idle, Caller
<1>2. IInv /\ [Next]_vars => IInv' BY StepType, StagesStep, SettlementStep
<1>3. IInv => SettlementOrder OBVIOUS
<1> QED BY <1>1, <1>2, <1>3, PTL DEF Spec

-----------------------------------------------------------------------------
(* Only paid deposits are credited.                                        *)

Paid(d) == pay[d] = "succeeded"

\* What the deposit's status, a webhook and a caller's place say of the payment:
\* the strengthening that makes CreditedIsPaid inductive.
Believes(l) ==
  /\ (l.pc \in {"apply", "webhook"} /\ l.verdict = "succeeded") => Paid(l.item)
  /\ l.pc \in {"creditTx", "postDeposit", "finish"} => Paid(l.item)

Beliefs ==
  /\ \A p \in Process : Believes(at[p])
  /\ \A d \in Deposit :
       /\ dep[d] \notin {"NONE", "PAYMENT_PENDING", "PAYMENT_FAILED"} => Paid(d)
       /\ "succeeded" \in sent[d] => Paid(d)

\* A payment that succeeded stays so.
LEMMA PaidForever ==
  ASSUME TypeOK, [Next]_vars
  PROVE  \A d \in Deposit : Paid(d) => Paid(d)'
<1> USE DEF TypeOK
<1>1. CASE Environment
  BY <1>1 DEF Environment, FulfillmentMoves, CreateDepositIntent, ProviderDecides, deposits, Paid
<1>2. CASE ~Environment BY <1>2, Frames DEF Paid
<1> QED BY <1>1, <1>2

LEMMA CallerBelief ==
  ASSUME TypeOK, Shapes, Beliefs, [Next]_vars, NEW q \in Process, NEW l, l = at'[q]
  PROVE  Believes(l)'
<1> USE DEF TypeOK
<1> PICK d : d = at[q].item OBVIOUS
<1>0. /\ at[q] \in Local /\ Believes(at[q])
      /\ at[q].pc \in DepositPc => d \in Deposit
  BY DEF Shapes, Shape, Beliefs
<1>1. CASE l = at[q] BY <1>0, <1>1, PaidForever DEF DepositPc, Believes
<1>2. CASE l.pc \notin {"apply", "webhook", "creditTx", "postDeposit", "finish"}
  BY <1>2 DEF Believes
<1>3. ASSUME NEW p \in Process, OrderStep(p), p = q
      PROVE  Believes(l)'
  <2>1. l.pc \notin {"apply", "webhook", "creditTx", "postDeposit", "finish"}
    BY <1>3, <1>0 DEF OrderStep, ReserveReplay, ReserveInsufficient, ReserveResellerBalance,
       ConfirmAndProvision, SettleRead, ReleaseRead, PostPurchase, PostPurchaseFails,
       MarkReconciliation, MarkSettled, RecordPurchase, MarkProjection, ReturnFunds, Classify,
       RepairRead, RepairRow, Go, Done, Idle, Caller, Local
  <2> QED BY <2>1, <1>2
<1>4. ASSUME NEW p \in Process, DepositStep(p), p = q
      PROVE  Believes(l)'
  <2>1. CASE VerifyPayment(p)
    BY <1>0, <1>4, <2>1, PaidForever DEF VerifyPayment, DepositPc, Local, Paid, Believes
  <2>2. CASE CreditRead(p)
    <3>1. d \in Deposit BY <1>0, <1>4, <2>2 DEF CreditRead, DepositPc
    <3>2. CASE dep[d] \in Creditable /\ Go(p, "creditTx")
      BY <1>4, <3>2, <1>0, <3>1, PaidForever DEF Go, Local, Beliefs, Creditable, Believes
    <3>3. CASE Done(p) \/ CreditThrows(p)
      BY <1>4, <1>2, <3>3, <1>0 DEF Done, CreditThrows, Go, Idle, Caller, Local
    <3> QED BY <1>4, <2>2, <3>2, <3>3 DEF CreditRead
  <2>3. CASE CreditDepositBalance(p)
    <3>1. d \in Deposit /\ Paid(d) BY <1>0, <1>4, <2>3 DEF CreditDepositBalance, DepositPc, Believes
    <3>2. CASE Go(p, "postDeposit")
      BY <1>4, <3>2, <1>0, <3>1, PaidForever DEF Go, Local, Believes
    <3>3. CASE Done(p) \/ CreditThrows(p)
      BY <1>4, <1>2, <3>3, <1>0 DEF Done, CreditThrows, Go, Idle, Caller, Local
    <3> QED BY <1>4, <2>3, <3>2, <3>3 DEF CreditDepositBalance
  <2>4. CASE PostDeposit(p) \/ PostDepositFails(p)
    BY <1>0, <1>4, <2>4, <1>2, PaidForever DEF PostDeposit, PostDepositFails, DepositPc, Believes,
       Done, Idle, Caller, Local
  <2>5. CASE \/ ApplyVerdict(p) \/ ApplyFails(p) \/ WebhookUpdate(p) \/ CreditTxFails(p)
             \/ CreditFailed(p) \/ FinishDeposit(p)
    <3>1. l.pc \notin {"apply", "webhook", "creditTx", "postDeposit", "finish"}
      BY <1>4, <2>5, <1>0 DEF ApplyVerdict, ApplyFails, WebhookUpdate, CreditTxFails, CreditThrows,
         CreditFailed, FinishDeposit, Go, Done, Idle, Caller, Local
    <3> QED BY <3>1, <1>2
  <2> QED BY <1>4, <2>1, <2>2, <2>3, <2>4, <2>5 DEF DepositStep
<1>5. ASSUME NEW p \in Process, Crash(p), p = q
      PROVE  Believes(l)'
  BY <1>5, <1>2 DEF Crash, Done, Idle, Caller
<1>6. ASSUME NEW r \in Request, Calls(r), r = q
      PROVE  Believes(l)'
  <2>1. CASE \E e \in Deposit, s \in {"failed", "succeeded"} : HandleDepositWebhook(r, e, s)
    <3>1. PICK e \in Deposit, s \in {"failed", "succeeded"} : HandleDepositWebhook(r, e, s)
      BY <2>1
    <3>2. l.pc = "webhook" /\ l.item = e /\ l.verdict = s
      BY <1>6, <3>1 DEF HandleDepositWebhook, Caller
    <3>3. s = "succeeded" => Paid(e)' BY <3>1, PaidForever DEF HandleDepositWebhook, Beliefs
    <3> QED BY <3>2, <3>3 DEF Believes
  <2>2. CASE \/ \E o \in Order : RouteStart(r, o)
             \/ \E e \in Deposit : ConfirmDepositPayment(r, e)
    BY <1>6, <1>2, <2>2 DEF RouteStart, ConfirmDepositPayment, Begin, Caller
  <2> QED BY <1>6, <2>1, <2>2 DEF Calls
<1>7. ASSUME NEW w \in Worker, Picks(w), w = q
      PROVE  Believes(l)'
  <2>1. CASE \E e \in Deposit : PickDeposit(w, e)
    <3>1. PICK e \in Deposit : PickDeposit(w, e) BY <2>1
    <3>2. l.pc = "postDeposit" /\ l.item = e BY <1>7, <3>1 DEF PickDeposit, Begin, Caller
    <3>3. Paid(e)' BY <3>1, PaidForever DEF PickDeposit, DepositDue, Beliefs
    <3> QED BY <3>2, <3>3 DEF Believes
  <2>2. CASE \E o \in Order : PickReservation(w, o) \/ PickProjection(w, o)
    BY <1>7, <1>2, <2>2 DEF PickReservation, PickProjection, Begin, Caller
  <2> QED BY <1>7, <2>1, <2>2 DEF Picks
<1> QED BY <1>1, <1>3, <1>4, <1>5, <1>6, <1>7, Mover

\* The steps that write a deposit's status, from what their callers believe.
LEMMA StatusBelief ==
  ASSUME TypeOK, Shapes, Beliefs, [Next]_vars, NEW d \in Deposit
  PROVE  dep'[d] \notin {"NONE", "PAYMENT_PENDING", "PAYMENT_FAILED"} => Paid(d)'
<1> USE DEF TypeOK
<1> DEFINE Unpaid == {"NONE", "PAYMENT_PENDING", "PAYMENT_FAILED"}
<1>1. CASE dep'[d] = dep[d] BY <1>1, PaidForever DEF Beliefs
<1>2. CASE Paid(d) BY <1>2, PaidForever
<1>3. ASSUME NEW p \in Process, DepositStep(p)
      PROVE  dep'[d] \notin Unpaid => Paid(d)'
  <2>0. /\ Believes(at[p]) /\ Shape(at[p])
        /\ at[p].pc \in DepositPc => at[p].item \in Deposit
    BY DEF Beliefs, Shapes, Shape
  <2>1. CASE dep' = dep BY <1>1, <2>1
  <2>2. CASE at[p].item # d
    <3>1. dep'[d] = dep[d]
      BY <1>3, <2>2 DEF DepositStep, VerifyPayment, ApplyVerdict, ApplyFails, WebhookUpdate,
         CreditRead, CreditDepositBalance, CreditTxFails, CreditFailed, PostDeposit,
         PostDepositFails, FinishDeposit, deposits
    <3> QED BY <1>1, <3>1
  <2>3. CASE at[p].item = d /\ (ApplyVerdict(p) \/ WebhookUpdate(p))
    BY <2>0, <2>3, <1>2, <1>1 DEF ApplyVerdict, WebhookUpdate, Believes, Shape, StatusOf
  <2>4. CASE at[p].item = d /\ (CreditDepositBalance(p) \/ FinishDeposit(p))
    BY <2>0, <2>4, <1>2 DEF CreditDepositBalance, FinishDeposit, Believes
  <2>5. CASE at[p].item = d /\ CreditFailed(p) BY <1>2, <2>1, <2>5 DEF Beliefs, CreditFailed
  <2>6. CASE \/ VerifyPayment(p) \/ ApplyFails(p) \/ CreditRead(p) \/ CreditTxFails(p)
             \/ PostDeposit(p) \/ PostDepositFails(p)
    BY <2>1, <2>6 DEF VerifyPayment, ApplyFails, CreditRead, CreditTxFails, PostDeposit,
       PostDepositFails, deposits
  <2> QED BY <1>3, <2>2, <2>3, <2>4, <2>5, <2>6 DEF DepositStep
<1>4. CASE \E e \in Deposit : CreateDepositIntent(e)
  <2>1. PICK e \in Deposit : CreateDepositIntent(e) BY <1>4
  <2>2. CASE e = d BY <2>1, <2>2 DEF CreateDepositIntent, Paid
  <2>3. CASE e # d BY <1>1, <2>1, <2>3 DEF CreateDepositIntent
  <2> QED BY <2>2, <2>3
<1>5. ASSUME NEW p \in Process, OrderStep(p) \/ Crash(p)
      PROVE  dep' = dep
  BY <1>5 DEF OrderStep, Crash, ReserveReplay, ReserveInsufficient, ReserveResellerBalance,
     ConfirmAndProvision, SettleRead, ReleaseRead, PostPurchase, PostPurchaseFails,
     MarkReconciliation, MarkSettled, RecordPurchase, MarkProjection, ReturnFunds, Classify,
     RepairRead, RepairRow, deposits
<1>6. ASSUME NEW r \in Request, Calls(r) PROVE dep' = dep
  BY <1>6 DEF Calls, RouteStart, ConfirmDepositPayment, HandleDepositWebhook, deposits
<1>7. ASSUME NEW w \in Worker, Picks(w) PROVE dep' = dep
  BY <1>7 DEF Picks, PickReservation, PickProjection, PickDeposit, deposits
<1>8. CASE Environment
  BY <1>1, <1>4, <1>8 DEF FulfillmentMoves, deposits, ProviderDecides, Environment
<1>9. CASE UNCHANGED vars BY <1>1, <1>9 DEF vars
<1> QED BY <1>1, <1>3, <1>5, <1>6, <1>7, <1>8, <1>9 DEF Next

LEMMA SentBelief ==
  ASSUME TypeOK, Beliefs, [Next]_vars, NEW d \in Deposit
  PROVE  "succeeded" \in sent'[d] => Paid(d)'
<1> USE DEF TypeOK
<1>1. CASE Environment
  BY PaidForever, <1>1 DEF FulfillmentMoves, deposits, Beliefs, CreateDepositIntent, Paid,
     ProviderDecides, Environment
<1>2. CASE ~Environment BY <1>2, Frames, PaidForever DEF Beliefs
<1> QED BY <1>1, <1>2

LEMMA BeliefsStep ==
  ASSUME TypeOK, Shapes, Beliefs, [Next]_vars
  PROVE  Beliefs'
BY CallerBelief, StatusBelief, SentBelief DEF Beliefs

LEMMA CreditedStep ==
  ASSUME TypeOK, Shapes, CreditedIsPaid, Beliefs, [Next]_vars
  PROVE  CreditedIsPaid'
<1> USE DEF TypeOK
<1> SUFFICES ASSUME NEW d \in Deposit, (Recorded("deposit", d) \/ d \in ledger)'
             PROVE  Paid(d)'
  BY DEF CreditedIsPaid, Paid
<1>1. CASE Recorded("deposit", d) \/ d \in ledger
  BY <1>1, PaidForever DEF CreditedIsPaid, Paid
<1>2. CASE Recorded("deposit", d)' /\ ~Recorded("deposit", d)
  <2>1. ASSUME NEW p \in Process, Writes(p), ~CreditDepositBalance(p) PROVE FALSE
    BY <1>2, <2>1, RecordedAppend, RecordedSame DEF Writes, ReserveResellerBalance,
       MarkReconciliation, MarkSettled, RecordPurchase, MarkProjection, ReturnFunds, RepairRow,
       money
  <2>2. PICK p \in Process : CreditDepositBalance(p) BY <1>2, <2>1, Writers, RecordedSame
  <2>3. at[p].item = d BY <1>2, <2>2, RecordedAppend, RecordedSame DEF CreditDepositBalance, money
  <2>4. Paid(d) BY <2>2, <2>3 DEF CreditDepositBalance, Beliefs, Believes
  <2> QED BY <2>4, PaidForever
<1>3. CASE d \in ledger' /\ d \notin ledger
  <2>1. ASSUME NEW p \in Process, PostPurchase(p) PROVE FALSE
    BY <2>1, <1>3, NameAssumption DEF Shapes, Shape, PostPurchase, OrderPc
  <2>2. ASSUME NEW p \in Process, PostDeposit(p) PROVE Paid(d)'
    BY <1>3, <2>2, PaidForever DEF PostDeposit, Beliefs, Believes
  <2>3. \E p \in Process : PostPurchase(p) \/ PostDeposit(p) BY <1>3, Frames
  <2> QED BY <2>1, <2>2, <2>3
<1> QED BY <1>1, <1>2, <1>3

\* However webhooks, confirmations and workers write its status, a deposit is in
\* the balance or the ledger only when the provider declared it paid.
THEOREM OnlyPaidIsCredited == Spec => []CreditedIsPaid
<1> DEFINE IInv == TypeOK /\ Shapes /\ CreditedIsPaid /\ Beliefs
<1>1. Init => IInv
  BY InitType DEF Init, CreditedIsPaid, Recorded, Beliefs, Believes, Idle, Caller
<1>2. IInv /\ [Next]_vars => IInv' BY StepType, BeliefsStep, CreditedStep
<1>3. IInv => CreditedIsPaid OBVIOUS
<1> QED BY <1>1, <1>2, <1>3, PTL DEF Spec

-----------------------------------------------------------------------------
(* No money is lost or invented.                                           *)

CreditedDeposits == {d \in Deposit : Recorded("deposit", d)}
Holds == [o \in Order |-> HoldOf[resv[o].state]]
Encumbered == {o \in Order : Holds[o] \in {"held", "spent"}}

\* Conservation with what keeps its sums meaningful: both are over finite sets,
\* also when there are infinitely many orders and deposits.
FundsInv ==
  /\ balance \in Int
  /\ IsFiniteSet(CreditedDeposits) /\ IsFiniteSet(Encumbered)
  /\ balance = Opening + SumFunctionOnSet(Value, CreditedDeposits)
                       - SumFunctionOnSet(Price, Encumbered)

LEMMA FundsSums ==
  ASSUME IsFiniteSet(CreditedDeposits), IsFiniteSet(Encumbered)
  PROVE  /\ SumFunctionOnSet(Value, CreditedDeposits) \in Int
         /\ SumFunctionOnSet(Price, Encumbered) \in Int
         /\ \A d \in CreditedDeposits : Value[d] \in Int
         /\ \A o \in Encumbered : Price[o] \in Int
BY AmountAssumption, SumIsInt DEF CreditedDeposits, Encumbered

LEMMA FundsInvStep ==
  ASSUME FundsInv, [Funds!Next]_(Funds!funds)
  PROVE  FundsInv'
<1> DEFINE C == SumFunctionOnSet(Value, CreditedDeposits)
           E == SumFunctionOnSet(Price, Encumbered)
<1>1. /\ balance \in Int /\ C \in Int /\ E \in Int /\ Opening \in Int
      /\ IsFiniteSet(CreditedDeposits) /\ IsFiniteSet(Encumbered)
      /\ balance = Opening + C - E
      /\ \A d \in CreditedDeposits : Value[d] \in Int
      /\ \A o \in Encumbered : Price[o] \in Int
  BY FundsSums, AmountAssumption DEF FundsInv
<1>2. Funds!funds = <<balance, CreditedDeposits, Holds>>
  BY DEF Funds!funds, CreditedDeposits, Holds
<1>3. CASE UNCHANGED Funds!funds
  BY <1>3 DEF Funds!funds, CreditedDeposits, Holds, Encumbered, FundsInv
<1>4. ASSUME NEW d \in Deposit, Funds!Credit(d)
      PROVE  FundsInv'
  <2>1. /\ d \notin CreditedDeposits /\ CreditedDeposits' = CreditedDeposits \cup {d}
        /\ balance' = balance + Value[d] /\ Holds' = Holds
    BY <1>4 DEF Funds!Credit, CreditedDeposits, Holds
  <2>2. Encumbered' = Encumbered BY <2>1 DEF Encumbered
  <2>3. Value[d] \in Int BY AmountAssumption
  <2>4. SumFunctionOnSet(Value, CreditedDeposits \cup {d}) = C + Value[d]
    BY <1>1, <2>1, <2>3, SumAdds
  <2>5. IsFiniteSet(CreditedDeposits') BY <1>1, <2>1, FS_AddElement
  <2>6. SumFunctionOnSet(Value, CreditedDeposits') = C + Value[d] BY <2>1, <2>4
  <2>7. SumFunctionOnSet(Price, Encumbered') = E BY <2>2
  <2>8. IsFiniteSet(Encumbered') BY <1>1, <2>2
  <2>9. balance' \in Int /\ balance' = Opening + (C + Value[d]) - E
    <3> HIDE DEF C, E
    <3> QED BY <1>1, <2>1, <2>3
  <2> QED BY <2>5, <2>6, <2>7, <2>8, <2>9 DEF FundsInv
<1>5. ASSUME NEW o \in Order, Funds!Hold(o)
      PROVE  FundsInv'
  <2>1. /\ Holds[o] = "none" /\ Holds' = [Holds EXCEPT ![o] = "held"]
        /\ balance' = balance - Price[o] /\ CreditedDeposits' = CreditedDeposits
    BY <1>5 DEF Funds!Hold, CreditedDeposits, Holds
  <2>2. o \notin Encumbered /\ Encumbered' = Encumbered \cup {o}
    BY <2>1 DEF Encumbered, Holds
  <2>3. Price[o] \in Int BY AmountAssumption
  <2>4. SumFunctionOnSet(Price, Encumbered \cup {o}) = E + Price[o]
    BY <1>1, <2>2, <2>3, SumAdds
  <2>5. IsFiniteSet(Encumbered') BY <1>1, <2>2, FS_AddElement
  <2>6. SumFunctionOnSet(Price, Encumbered') = E + Price[o] BY <2>2, <2>4
  <2>7. SumFunctionOnSet(Value, CreditedDeposits') = C BY <2>1
  <2>8. IsFiniteSet(CreditedDeposits') BY <1>1, <2>1
  <2>9. balance' \in Int /\ balance' = Opening + C - (E + Price[o])
    <3> HIDE DEF C, E
    <3> QED BY <1>1, <2>1, <2>3
  <2> QED BY <2>5, <2>6, <2>7, <2>8, <2>9 DEF FundsInv
<1>6. ASSUME NEW o \in Order, Funds!Spend(o)
      PROVE  FundsInv'
  BY <1>6 DEF Funds!Spend, CreditedDeposits, Holds, Encumbered, FundsInv
<1>7. ASSUME NEW o \in Order, Funds!Return(o)
      PROVE  FundsInv'
  <2>1. /\ Holds[o] = "held" /\ Holds' = [Holds EXCEPT ![o] = "returned"]
        /\ balance' = balance + Price[o] /\ CreditedDeposits' = CreditedDeposits
    BY <1>7 DEF Funds!Return, CreditedDeposits, Holds
  <2>2. o \in Encumbered /\ Encumbered' = Encumbered \ {o}
    BY <2>1 DEF Encumbered, Holds
  <2>3. Price[o] \in Int BY AmountAssumption
  <2>4. E = Price[o] + SumFunctionOnSet(Price, Encumbered \ {o})
    BY <1>1, <2>2, SumRemoves
  <2>5. IsFiniteSet(Encumbered') BY <1>1, <2>2, FS_Subset
  <2>6. SumFunctionOnSet(Price, Encumbered') \in Int
    BY <2>2, <2>5, <1>1, SumIsInt
  <2>7. E = Price[o] + SumFunctionOnSet(Price, Encumbered') BY <2>2, <2>4
  <2>8. SumFunctionOnSet(Value, CreditedDeposits') = C BY <2>1
  <2>9. IsFiniteSet(CreditedDeposits') BY <1>1, <2>1
  <2>10. balance' \in Int /\ balance' = Opening + C - SumFunctionOnSet(Price, Encumbered')
    <3> DEFINE F == SumFunctionOnSet(Price, Encumbered')
    <3>1. F \in Int /\ E = Price[o] + F BY <2>6, <2>7
    <3> HIDE DEF C, E, F
    <3>2. balance' = Opening + C - F BY <1>1, <2>1, <2>3, <3>1
    <3>3. balance' \in Int BY <1>1, <2>1, <2>3
    <3> QED BY <3>2, <3>3 DEF F
  <2> QED BY <2>5, <2>8, <2>9, <2>10 DEF FundsInv
<1> QED BY <1>3, <1>4, <1>5, <1>6, <1>7 DEF Funds!Next

\* The sums of the abstract module are the sums of the laws.
LEMMA FundsInvConserves ==
  ASSUME FundsInv
  PROVE  Funds!Conserved
<1>1. \A f, S : Funds!SumFunctionOnSet(f, S) = SumFunctionOnSet(f, S)
  BY DEF Funds!SumFunctionOnSet, Funds!FoldFunctionOnSet, Funds!MapThenFoldSet,
         SumFunctionOnSet, FoldFunctionOnSet, MapThenFoldSet
<1>2. {o \in Order : Holds[o] \in {"held", "spent"}} = Encumbered BY DEF Encumbered
<1> QED BY <1>1, <1>2 DEF FundsInv, Funds!Conserved, CreditedDeposits, Holds

\* No path through the balance loses or invents money, or overdraws it: every
\* unit ever credited is available, held or spent, for every set of orders and
\* deposits and all their amounts.
THEOREM MoneyIsConserved == Spec => []MoneyConserved
<1>1. Init => TypeOK /\ Shapes BY InitType
<1>2. (TypeOK /\ Shapes) /\ [Next]_vars => (TypeOK /\ Shapes)' BY StepType
<1>3. (TypeOK /\ Shapes) /\ [Next]_vars => [Funds!Next]_(Funds!funds) BY FundsStep
<1>4. Init => FundsInv
  <2> SUFFICES ASSUME Init PROVE FundsInv OBVIOUS
  <2>1. CreditedDeposits = {} BY DEF Init, Recorded, CreditedDeposits
  <2>2. Encumbered = {} BY HoldIs DEF Init, Encumbered, Holds
  <2> QED BY <2>1, <2>2, SumOfNothing, FS_EmptySet, AmountAssumption DEF Init, FundsInv
<1>5. FundsInv /\ [Funds!Next]_(Funds!funds) => FundsInv' BY FundsInvStep
<1>6. FundsInv => Funds!Conserved BY FundsInvConserves
<1>7. Spec => [](AuditTrail /\ Solvent) BY AuditableBalance
<1>8. Funds!Conserved /\ Solvent => MoneyConserved BY DEF MoneyConserved
<1> QED BY <1>1, <1>2, <1>3, <1>4, <1>5, <1>6, <1>7, <1>8, PTL DEF Spec
===============================================================================
