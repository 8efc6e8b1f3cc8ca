----------------------------- MODULE ResellerBalance -----------------------------
(***************************************************************************)
(* One reseller tenant's prepaid balance: reservations for orders          *)
(* (reserve, settle, release), deposit payments (confirm, webhook, credit) *)
(* and the two cron workers that repair what a failure left behind.        *)
(*                                                                         *)
(* Source: src/src/lib/tenant/balance.ts, called by                        *)
(* src/src/app/api/tenant/orders/route.ts, .../tenant/balance/deposit and  *)
(* .../internal/reconcile.  A database transaction, a single statement and *)
(* a ledger posting are one step each; every caller may be suspended, or   *)
(* die, between two of them.                                               *)
(***************************************************************************)
EXTENDS Integers, Sequences, FiniteSets

CONSTANTS
  Order, Deposit,   \* orders of the tenant; its deposit payments
  Request, Worker,  \* API calls and webhook deliveries; cron invocations
  Price, Value,     \* amountMinor of each reservation / deposit
  Opening,          \* balanceMinor before the first of them
  None,             \* no item at hand
  Moves,            \* the moves of an order's fulfillmentStatus
  MaxFaults         \* bound: deaths of a caller and failed statements

ASSUME AmountAssumption ==
  /\ Price \in [Order -> Nat \ {0}] /\ Value \in [Deposit -> Nat \ {0}]
  /\ Opening \in Nat
ASSUME NameAssumption ==
  /\ None \notin Order \cup Deposit /\ Order \cap Deposit = {}
  /\ Request \cap Worker = {}
ASSUME BoundAssumption == MaxFaults \in Nat

VARIABLES
  balance,  \* TenantBalance.balanceMinor
  history,  \* TenantTransaction rows in sequenceNumber order
  resv,     \* TenantBalanceReservation of each order
  fulfil,   \* Order.fulfillmentStatus, "none" before createOrder
  dep,      \* TenantDepositPayment.status
  pay,      \* what the payment provider says of each deposit
  sent,     \* the statuses the provider has sent webhooks about
  ledger,   \* idempotency keys of the posted ledger transactions
  at,       \* where each caller is
  faults

vars == <<balance, history, resv, fulfil, dep, pay, sent, ledger, at, faults>>
money == <<balance, history>>
orders == <<resv, fulfil>>
deposits == <<dep, pay, sent>>

Process == Request \cup Worker
Item == Order \cup Deposit \cup {None}

ReservationState == {"NONE", "RESERVED", "SETTLED", "RELEASED", "RECONCILIATION_REQUIRED"}
DepositStatus ==
  {"NONE", "PAYMENT_PENDING", "PAYMENT_SUCCEEDED", "PAYMENT_FAILED",
   "BALANCE_POSTED", "COMPLETED", "RECONCILIATION_REQUIRED"}
FulfillmentStatus ==
  {"pending", "provisioning", "success", "failed", "unknown", "reconciliation_required"}

FULFILLMENT_TRANSITIONS ==
  [s \in FulfillmentStatus |->
     CASE s = "pending"      -> {"provisioning", "failed", "unknown"}
       [] s = "provisioning" -> {"success", "failed", "unknown", "reconciliation_required"}
       [] s = "success"      -> {"reconciliation_required"}
       [] s = "failed"       -> {"provisioning", "reconciliation_required"}
       [] s = "unknown" -> {"provisioning", "success", "failed", "reconciliation_required"}
       [] s = "reconciliation_required" -> {"provisioning", "success", "failed", "unknown"}]

ASSUME MovesAssumption ==
  Moves \subseteq {m \in FulfillmentStatus \X FulfillmentStatus :
                     m[2] \in FULFILLMENT_TRANSITIONS[m[1]]}

Open == {"RESERVED", "RECONCILIATION_REQUIRED"}

Pc == {"idle", "reserve", "confirm", "settle", "post", "recon", "mark", "row", "flag",
       "release", "return", "inspect", "repair", "repairrow",
       "verify", "apply", "webhook", "credit", "creditTx", "creditFailed",
       "postDeposit", "finish"}
Local ==
  [pc : Pc, role : {"none", "route", "confirm", "webhook", "worker"}, item : Item,
   verdict : DepositStatus \cup {"pending", "failed", "succeeded"}, after : Int]
Row ==
  [type : {"deposit", "reservation", "release", "purchase"},
   item : Order \cup Deposit, amount : Int, after : Int]

Caller(pc, role, item, verdict) ==
  [pc |-> pc, role |-> role, item |-> item, verdict |-> verdict, after |-> 0]
Idle == Caller("idle", "none", None, "NONE")

Init ==
  /\ balance = Opening
  /\ history = <<>>
  /\ resv = [o \in Order |-> [state |-> "NONE", projection |-> FALSE]]
  /\ fulfil = [o \in Order |-> "none"]
  /\ dep = [d \in Deposit |-> "NONE"]
  /\ pay = [d \in Deposit |-> "pending"]
  /\ sent = [d \in Deposit |-> {}]
  /\ ledger = {}
  /\ at = [p \in Process |-> Idle]
  /\ faults = 0

-----------------------------------------------------------------------------
(* Helpers.                                                                *)

Begin(p, pc, role, item) ==
  /\ at[p].pc = "idle"
  /\ at' = [at EXCEPT ![p] = Caller(pc, role, item, "NONE")]
Go(p, pc) == at' = [at EXCEPT ![p].pc = pc]
Done(p) == at' = [at EXCEPT ![p] = Idle]

Fault == faults < MaxFaults /\ faults' = faults + 1

\* TenantTransaction.idempotencyKey is unique: reserve_<k>, release_<k>,
\* settle_<k> for an order's reservation, deposit_<k> for a deposit.
Recorded(type, item) ==
  \E i \in DOMAIN history : history[i].type = type /\ history[i].item = item

\* getNextSequenceNumber under lockTenantBalance: the rows of one tenant are
\* numbered in the order in which their transactions commit.
Record(type, item, amount, after) ==
  history' = Append(history, [type |-> type, item |-> item, amount |-> amount, after |-> after])

SetState(o, s) == resv' = [resv EXCEPT ![o].state = s]

-----------------------------------------------------------------------------
(* POST /api/tenant/orders.                                                *)

\* The balance is checked, unlocked, before the order is created; createOrder
\* returns the existing order to a retry.
RouteStart(r, o) ==
  /\ Begin(r, "reserve", "route", o)
  /\ balance >= Price[o]
  /\ fulfil' = [fulfil EXCEPT ![o] = IF @ = "none" THEN "pending" ELSE @]
  /\ UNCHANGED <<money, deposits, resv, ledger, faults>>

\* One reservation per order: a replay returns it, whatever its state.
ReserveReplay(r) ==
  /\ at[r].pc = "reserve" /\ resv[at[r].item].state # "NONE"
  /\ Go(r, "confirm")
  /\ UNCHANGED <<money, orders, deposits, ledger, faults>>

ReserveInsufficient(r) ==
  /\ at[r].pc = "reserve" /\ resv[at[r].item].state = "NONE"
  /\ balance < Price[at[r].item]
  /\ Done(r)
  /\ UNCHANGED <<money, orders, deposits, ledger, faults>>

ReserveResellerBalance(r) ==
  LET o == at[r].item IN
  /\ at[r].pc = "reserve" /\ resv[o].state = "NONE"
  /\ balance >= Price[o]
  /\ balance' = balance - Price[o]
  /\ SetState(o, "RESERVED")
  /\ Record("reservation", o, -Price[o], balance')
  /\ Go(r, "confirm")
  /\ UNCHANGED <<fulfil, deposits, ledger, faults>>

\* The order moves on: this request's confirmAndProvision, another request's,
\* the card payment routes', an operator's.
FulfillmentMoves(o) ==
  /\ \E m \in Moves : fulfil[o] = m[1] /\ fulfil' = [fulfil EXCEPT ![o] = m[2]]
  /\ UNCHANGED <<money, deposits, resv, ledger, at, faults>>

\* confirmAndProvision returns "COMPLETED", or "PAYMENT_PENDING" while the
\* provider has not decided: the route settles.  On "PAYMENT_FAILED", and when
\* it throws (it may throw after the service became active: the bookkeeping
\* after provisioning is in the same try block), the route releases.
ConfirmAndProvision(r) ==
  /\ at[r].pc = "confirm"
  /\ \/ fulfil[at[r].item] \in {"success", "pending"} /\ Go(r, "settle")
     \/ Go(r, "release")
  /\ UNCHANGED <<money, orders, deposits, ledger, faults>>

-----------------------------------------------------------------------------
(* settleResellerReservation; the worker joins at the ledger posting.      *)

\* SETTLED replays and RELEASED is a conflict: either ends the request.
SettleRead(r) ==
  /\ at[r].pc = "settle"
  /\ IF resv[at[r].item].state \in Open THEN Go(r, "post") ELSE Done(r)
  /\ UNCHANGED <<money, orders, deposits, ledger, faults>>

PostPurchase(p) ==
  /\ at[p].pc = "post"
  /\ ledger' = ledger \cup {at[p].item}
  /\ Go(p, "mark")
  /\ UNCHANGED <<money, orders, deposits, faults>>

\* Mutant: a failed posting is swallowed.
PostPurchaseSwallowed(p) ==
  /\ at[p].pc = "post"
  /\ Fault \/ (at[p].item \in ledger /\ UNCHANGED faults)
  /\ Go(p, "mark")
  /\ UNCHANGED <<money, orders, deposits, ledger>>

\* The posting fails, or loses the race for its unique key.  The route parks
\* the reservation; the worker leaves it for its next run.
PostPurchaseFails(p) ==
  /\ at[p].pc = "post"
  /\ Fault \/ (at[p].item \in ledger /\ UNCHANGED faults)
  /\ IF at[p].role = "route" THEN Go(p, "recon") ELSE Done(p)
  /\ UNCHANGED <<money, orders, deposits, ledger>>

\* Mutant: the reason is written to the state column.
MarkReconciliationReason(p) ==
  /\ at[p].pc = "recon" /\ Done(p)
  /\ SetState(at[p].item, "FULFILLMENT_UNKNOWN")
  /\ UNCHANGED <<money, fulfil, deposits, ledger, faults>>

MarkReconciliation(p) ==
  LET o == at[p].item IN
  /\ at[p].pc = "recon"
  /\ IF resv[o].state \in Open THEN SetState(o, "RECONCILIATION_REQUIRED") ELSE UNCHANGED resv
  /\ Done(p)
  /\ UNCHANGED <<money, fulfil, deposits, ledger, faults>>

\* Mutant: the update is not guarded by the state.
MarkSettledUnguarded(p) ==
  /\ at[p].pc = "mark"
  /\ SetState(at[p].item, "SETTLED") /\ Go(p, "row")
  /\ UNCHANGED <<money, fulfil, deposits, ledger, faults>>

MarkSettled(p) ==
  LET o == at[p].item IN
  /\ at[p].pc = "mark"
  /\ \/ resv[o].state \in Open /\ SetState(o, "SETTLED") /\ Go(p, "row")
     \/ resv[o].state \notin Open /\ Done(p) /\ UNCHANGED resv
  /\ UNCHANGED <<money, fulfil, deposits, ledger, faults>>

\* A second transaction; a unique violation counts as "already recorded".
RecordPurchase(p) ==
  LET o == at[p].item IN
  /\ at[p].pc = "row"
  /\ IF Recorded("purchase", o) THEN UNCHANGED history
     ELSE Record("purchase", o, -Price[o], balance)
  /\ Go(p, "flag")
  /\ UNCHANGED <<balance, orders, deposits, ledger, faults>>

MarkProjection(p) ==
  /\ at[p].pc = "flag"
  /\ resv' = [resv EXCEPT ![at[p].item].projection = TRUE]
  /\ Done(p)
  /\ UNCHANGED <<money, fulfil, deposits, ledger, faults>>

-----------------------------------------------------------------------------
(* releaseResellerReservation; the worker joins at the transaction.        *)

ReleaseRead(r) ==
  /\ at[r].pc = "release"
  /\ IF resv[at[r].item].state \in Open THEN Go(r, "return") ELSE Done(r)
  /\ UNCHANGED <<money, orders, deposits, ledger, faults>>

\* Mutant: the row keeps the balance read before the increment.
ReturnFundsStaleRow(p) ==
  LET o == at[p].item IN
  /\ at[p].pc = "return"
  /\ \/ /\ resv[o].state = "RESERVED"
        /\ SetState(o, "RELEASED")
        /\ balance' = balance + Price[o]
        /\ Record("release", o, Price[o], balance)
     \/ resv[o].state # "RESERVED" /\ UNCHANGED <<money, resv>>
  /\ Done(p)
  /\ UNCHANGED <<fulfil, deposits, ledger, faults>>

ReturnFunds(p) ==
  LET o == at[p].item IN
  /\ at[p].pc = "return"
  /\ \/ /\ resv[o].state = "RESERVED"
        /\ SetState(o, "RELEASED")
        /\ balance' = balance + Price[o]
        /\ Record("release", o, Price[o], balance')
     \/ resv[o].state # "RESERVED" /\ UNCHANGED <<money, resv>>
  /\ Done(p)
  /\ UNCHANGED <<fulfil, deposits, ledger, faults>>

-----------------------------------------------------------------------------
(* processDueResellerReservationReconciliation: each entry of the due list *)
(* is worked on by itself, on what the list read.  A RESERVED row counts   *)
(* as stale at any time: provisioning can outlast the five minutes.        *)

\* Mutant: the scan selects stale RESERVED rows only.
PickReservedOnly(w, o) ==
  /\ resv[o].state = "RESERVED"
  /\ Begin(w, "inspect", "worker", o)
  /\ UNCHANGED <<money, orders, deposits, ledger, faults>>

PickReservation(w, o) ==
  /\ resv[o].state \in Open
  /\ Begin(w, "inspect", "worker", o)
  /\ UNCHANGED <<money, orders, deposits, ledger, faults>>

Classify(w) ==
  LET status == fulfil[at[w].item] IN
  /\ at[w].pc = "inspect"
  /\ \/ status = "success" /\ Go(w, "post")
     \/ status = "failed" /\ Go(w, "return")
     \/ status \in {"pending", "provisioning"} /\ Done(w)
     \/ status \in {"unknown", "reconciliation_required"} /\ Go(w, "recon")
  /\ UNCHANGED <<money, orders, deposits, ledger, faults>>

PickProjection(w, o) ==
  /\ resv[o].state = "SETTLED" /\ ~resv[o].projection
  /\ Begin(w, "repair", "worker", o)
  /\ UNCHANGED <<money, orders, deposits, ledger, faults>>

\* The reservation's row is created with it.
ReservationRow(o) ==
  CHOOSE j \in DOMAIN history : history[j].type = "reservation" /\ history[j].item = o

\* The balance after the last of the rows created before the reservation.
BalanceBefore(o) ==
  IF ~Recorded("reservation", o) \/ ReservationRow(o) = 1 THEN Opening
  ELSE history[ReservationRow(o) - 1].after

RepairRead(w) ==
  LET o == at[w].item IN
  /\ at[w].pc = "repair"
  /\ IF Recorded("purchase", o) THEN Go(w, "flag")
     ELSE at' = [at EXCEPT ![w].pc = "repairrow", ![w].after = BalanceBefore(o) - Price[o]]
  /\ UNCHANGED <<money, orders, deposits, ledger, faults>>

RepairRow(w) ==
  LET o == at[w].item IN
  /\ at[w].pc = "repairrow"
  /\ IF Recorded("purchase", o) THEN UNCHANGED history
     ELSE Record("purchase", o, -Price[o], at[w].after)
  /\ Go(w, "flag")
  /\ UNCHANGED <<balance, orders, deposits, ledger, faults>>

-----------------------------------------------------------------------------
(* Deposits.  The provider decides a payment; a declined one may be paid   *)
(* after all.  It sends a webhook for each decision, at any time, in any   *)
(* order, any number of times.                                             *)

CreateDepositIntent(d) ==
  /\ dep[d] = "NONE"
  /\ \/ dep' = [dep EXCEPT ![d] = "PAYMENT_PENDING"] /\ UNCHANGED <<pay, sent>>
     \/ /\ dep' = [dep EXCEPT ![d] = "PAYMENT_SUCCEEDED"]
        /\ pay' = [pay EXCEPT ![d] = "succeeded"]
        /\ sent' = [sent EXCEPT ![d] = {"succeeded"}]
  /\ UNCHANGED <<money, orders, ledger, at, faults>>

ProviderDecides(d) ==
  /\ dep[d] # "NONE" /\ pay[d] # "succeeded"
  /\ \E v \in {"failed", "succeeded"} \ {pay[d]} :
       /\ pay' = [pay EXCEPT ![d] = v]
       /\ sent' = [sent EXCEPT ![d] = @ \cup {v}]
  /\ UNCHANGED <<money, orders, dep, ledger, at, faults>>

\* confirmDepositPayment: read, ask the provider, write its verdict.
ConfirmDepositPayment(r, d) ==
  /\ dep[d] \notin {"NONE", "COMPLETED", "PAYMENT_FAILED"}
  /\ Begin(r, "verify", "confirm", d)
  /\ UNCHANGED <<money, orders, deposits, ledger, faults>>

VerifyPayment(r) ==
  /\ at[r].pc = "verify"
  /\ at' = [at EXCEPT ![r].pc = "apply", ![r].verdict = pay[at[r].item]]
  /\ UNCHANGED <<money, orders, deposits, ledger, faults>>

StatusOf ==
  [v \in {"pending", "failed", "succeeded"} |->
     CASE v = "pending" -> "PAYMENT_PENDING"
       [] v = "failed" -> "PAYMENT_FAILED"
       [] v = "succeeded" -> "PAYMENT_SUCCEEDED"]

\* Mutant: whatever is not declined counts as paid.
ApplyNotDeclined(r) ==
  LET paid == at[r].verdict # "failed" IN
  /\ at[r].pc = "apply"
  /\ dep' = [dep EXCEPT ![at[r].item] = IF paid THEN "PAYMENT_SUCCEEDED" ELSE "PAYMENT_FAILED"]
  /\ IF paid THEN Go(r, "credit") ELSE Done(r)
  /\ UNCHANGED <<money, orders, pay, sent, ledger, faults>>

\* The write is not guarded by the status the decision was based on.
ApplyVerdict(r) ==
  /\ at[r].pc = "apply"
  /\ dep' = [dep EXCEPT ![at[r].item] = StatusOf[at[r].verdict]]
  /\ IF at[r].verdict = "succeeded" THEN Go(r, "credit") ELSE Done(r)
  /\ UNCHANGED <<money, orders, pay, sent, ledger, faults>>

\* A failing write of PAYMENT_SUCCEEDED is swallowed.
ApplyFails(r) ==
  /\ at[r].pc = "apply" /\ at[r].verdict = "succeeded" /\ Fault
  /\ Go(r, "credit")
  /\ UNCHANGED <<money, orders, deposits, ledger>>

\* handleDepositWebhook
HandleDepositWebhook(r, d, s) ==
  /\ s \in sent[d]
  /\ dep[d] \notin {"NONE", "COMPLETED", "BALANCE_POSTED"}
  /\ at[r].pc = "idle"
  /\ at' = [at EXCEPT ![r] = Caller("webhook", "webhook", d, s)]
  /\ UNCHANGED <<money, orders, deposits, ledger, faults>>

WebhookAlready == [succeeded |-> {"COMPLETED", "BALANCE_POSTED", "PAYMENT_SUCCEEDED"},
                   failed    |-> {"COMPLETED", "PAYMENT_FAILED"}]

\* The guarded update finds no row: handled = false, nothing else happens.
WebhookUpdate(r) ==
  LET d == at[r].item  v == at[r].verdict IN
  /\ at[r].pc = "webhook"
  /\ \/ /\ dep[d] \notin WebhookAlready[v]
        /\ dep' = [dep EXCEPT ![d] = StatusOf[v]]
        /\ IF v = "succeeded" THEN Go(r, "credit") ELSE Done(r)
     \/ dep[d] \in WebhookAlready[v] /\ Done(r) /\ UNCHANGED dep
  /\ UNCHANGED <<money, orders, pay, sent, ledger, faults>>

\* creditDepositBalance throws: only the webhook handler has more to do.
CreditThrows(r) == IF at[r].role = "webhook" THEN Go(r, "creditFailed") ELSE Done(r)

Creditable == {"PAYMENT_SUCCEEDED", "BALANCE_POSTED"}

CreditRead(r) ==
  LET s == dep[at[r].item] IN
  /\ at[r].pc = "credit"
  /\ \/ s \in Creditable /\ Go(r, "creditTx")
     \/ s = "COMPLETED" /\ Done(r)
     \/ s \notin Creditable \cup {"COMPLETED"} /\ CreditThrows(r)
  /\ UNCHANGED <<money, orders, deposits, ledger, faults>>

\* Mutant: the row has no unique key.
CreditEachTime(r) ==
  LET d == at[r].item IN
  /\ at[r].pc = "creditTx" /\ dep[d] \in Creditable
  /\ dep' = [dep EXCEPT ![d] = "BALANCE_POSTED"]
  /\ balance' = balance + Value[d]
  /\ Record("deposit", d, Value[d], balance')
  /\ Go(r, "postDeposit")
  /\ UNCHANGED <<orders, pay, sent, ledger, faults>>

\* The transaction: a second credit violates the row's unique key and rolls back.
CreditDepositBalance(r) ==
  LET d == at[r].item IN
  /\ at[r].pc = "creditTx"
  /\ \/ /\ dep[d] \in Creditable /\ ~Recorded("deposit", d)
        /\ dep' = [dep EXCEPT ![d] = "BALANCE_POSTED"]
        /\ balance' = balance + Value[d]
        /\ Record("deposit", d, Value[d], balance')
        /\ Go(r, "postDeposit")
     \/ /\ dep[d] \in Creditable /\ Recorded("deposit", d)
        /\ CreditThrows(r) /\ UNCHANGED <<money, dep>>
     \/ dep[d] \notin Creditable /\ Done(r) /\ UNCHANGED <<money, dep>>
  /\ UNCHANGED <<orders, pay, sent, ledger, faults>>

CreditTxFails(r) ==
  /\ at[r].pc = "creditTx" /\ Fault
  /\ CreditThrows(r)
  /\ UNCHANGED <<money, orders, deposits, ledger>>

CreditFailed(r) ==
  LET d == at[r].item IN
  /\ at[r].pc = "creditFailed"
  /\ dep' = IF dep[d] = "PAYMENT_SUCCEEDED"
            THEN [dep EXCEPT ![d] = "RECONCILIATION_REQUIRED"] ELSE dep
  /\ Done(r)
  /\ UNCHANGED <<money, orders, pay, sent, ledger, faults>>

\* The ledger posting of creditDepositBalance and of processDueDepositReconciliation.
PostDeposit(p) ==
  /\ at[p].pc = "postDeposit"
  /\ ledger' = ledger \cup {at[p].item}
  /\ at' = [at EXCEPT ![p].pc = "finish", ![p].verdict = "COMPLETED"]
  /\ UNCHANGED <<money, orders, deposits, faults>>

PostDepositFails(p) ==
  /\ at[p].pc = "postDeposit"
  /\ Fault \/ (at[p].item \in ledger /\ UNCHANGED faults)
  /\ IF at[p].role = "worker" THEN Done(p)
     ELSE at' = [at EXCEPT ![p].pc = "finish", ![p].verdict = "RECONCILIATION_REQUIRED"]
  /\ UNCHANGED <<money, orders, deposits, ledger>>

DepositDue == {"RECONCILIATION_REQUIRED", "BALANCE_POSTED"}

\* Guarded by the status in the worker, unguarded in creditDepositBalance.
FinishDeposit(p) ==
  LET d == at[p].item IN
  /\ at[p].pc = "finish"
  /\ dep' = IF at[p].role = "worker" /\ dep[d] \notin DepositDue THEN dep
            ELSE [dep EXCEPT ![d] = at[p].verdict]
  /\ Done(p)
  /\ UNCHANGED <<money, orders, pay, sent, ledger, faults>>

PickDeposit(w, d) ==
  /\ dep[d] \in DepositDue
  /\ Begin(w, "postDeposit", "worker", d)
  /\ UNCHANGED <<money, orders, deposits, ledger, faults>>

-----------------------------------------------------------------------------

\* The process dies, or a statement throws out of the handler.
Crash(p) ==
  /\ at[p].pc # "idle" /\ Fault
  /\ Done(p)
  /\ UNCHANGED <<money, orders, deposits, ledger>>

OrderStep(p) ==
  \/ ReserveReplay(p) \/ ReserveInsufficient(p) \/ ReserveResellerBalance(p)
  \/ ConfirmAndProvision(p) \/ SettleRead(p) \/ ReleaseRead(p)
  \/ PostPurchase(p) \/ PostPurchaseFails(p) \/ MarkReconciliation(p)
  \/ MarkSettled(p) \/ RecordPurchase(p) \/ MarkProjection(p) \/ ReturnFunds(p)
  \/ Classify(p) \/ RepairRead(p) \/ RepairRow(p)

DepositStep(p) ==
  \/ VerifyPayment(p) \/ ApplyVerdict(p) \/ ApplyFails(p) \/ WebhookUpdate(p)
  \/ CreditRead(p) \/ CreditDepositBalance(p) \/ CreditTxFails(p) \/ CreditFailed(p)
  \/ PostDeposit(p) \/ PostDepositFails(p) \/ FinishDeposit(p)

Calls(r) ==
  \/ \E o \in Order : RouteStart(r, o)
  \/ \E d \in Deposit : ConfirmDepositPayment(r, d)
  \/ \E d \in Deposit, s \in {"failed", "succeeded"} : HandleDepositWebhook(r, d, s)

Picks(w) ==
  \/ \E o \in Order : PickReservation(w, o) \/ PickProjection(w, o)
  \/ \E d \in Deposit : PickDeposit(w, d)

Environment ==
  \/ \E o \in Order : FulfillmentMoves(o)
  \/ \E d \in Deposit : CreateDepositIntent(d) \/ ProviderDecides(d)

Next ==
  \/ \E p \in Process : OrderStep(p) \/ DepositStep(p) \/ Crash(p)
  \/ \E r \in Request : Calls(r)
  \/ \E w \in Worker : Picks(w)
  \/ Environment

Spec == Init /\ [][Next]_vars

\* A handler that lives runs on, a posting that is tried again and again gets
\* through, and every cron run visits every row that is due.  Clients, the
\* provider and the order's fulfilment owe nothing.
Fairness ==
  /\ \A p \in Process : WF_vars(OrderStep(p) \/ DepositStep(p))
  /\ \A p \in Process : SF_vars(PostPurchase(p)) /\ SF_vars(PostDeposit(p))
  /\ \A w \in Worker, o \in Order :
       SF_vars(PickReservation(w, o)) /\ SF_vars(PickProjection(w, o))
  /\ \A w \in Worker, d \in Deposit : SF_vars(PickDeposit(w, d))

FairSpec == Spec /\ Fairness

-----------------------------------------------------------------------------
(* Properties.                                                             *)

\* The type invariant of the tenant's rows and of the callers' locals.
TypeOK ==
  /\ balance \in Int
  /\ history \in Seq(Row)
  /\ resv \in [Order -> [state : ReservationState, projection : BOOLEAN]]
  /\ fulfil \in [Order -> FulfillmentStatus \cup {"none"}]
  /\ dep \in [Deposit -> DepositStatus]
  /\ pay \in [Deposit -> {"pending", "failed", "succeeded"}]
  /\ sent \in [Deposit -> SUBSET {"failed", "succeeded"}]
  /\ ledger \subseteq Order \cup Deposit
  /\ at \in [Process -> Local]
  /\ faults \in 0..MaxFaults

HoldOf == [s \in ReservationState |->
  CASE s = "NONE" -> "none" [] s \in Open -> "held"
    [] s = "SETTLED" -> "spent" [] s = "RELEASED" -> "returned"]

Funds == INSTANCE PrepaidFunds WITH
  available <- balance,
  credited <- {d \in Deposit : Recorded("deposit", d)},
  hold <- [o \in Order |-> HoldOf[resv[o].state]]

\* Requests, webhooks and workers, interleaved and dying anywhere, together do
\* no more to the money than the abstract prepaid funds: one credit per deposit,
\* a hold only of available funds, and each hold spent or returned once.
FundsSpec == Funds!Spec

\* No path through the balance loses or invents money, or overdraws it: the
\* unlocked checks of the route are repeated under the row lock.
Solvent == balance >= 0
MoneyConserved == Funds!Conserved /\ Solvent

MoneyRows == {i \in DOMAIN history : history[i].type # "purchase"}

\* The reseller can audit the balance from the rows: each row that moves money
\* carries the balance of the one before plus its amount, and the last of them
\* carries the current balance, however the transactions interleaved.
AuditTrail ==
  /\ \A i \in MoneyRows :
       (\A j \in MoneyRows : j <= i) => history[i].after = balance
  /\ \A i, j \in MoneyRows :
       (i < j /\ \A k \in MoneyRows : k <= i \/ j <= k)
         => history[j].after = history[i].after + history[j].amount

\* The stages of a settlement keep their order although three writers share
\* them: revenue is posted before SETTLED, the purchase row is written only
\* for SETTLED, and projectionReconciled never hides a missing row.
SettlementOrder ==
  \A o \in Order :
    /\ resv[o].projection => Recorded("purchase", o)
    /\ Recorded("purchase", o) => resv[o].state = "SETTLED"
    /\ resv[o].state = "SETTLED" => o \in ledger

\* Neither the balance nor the ledger shows a deposit that the provider has not
\* declared paid, whatever webhooks, confirmations and workers do to its status.
CreditedIsPaid ==
  \A d \in Deposit : Recorded("deposit", d) \/ d \in ledger => pay[d] = "succeeded"

\* An open reservation whose order was fulfilled does not stay open: a crash of
\* the route or a failed posting is made up for by the worker.
FulfilledIsSettled ==
  \A o \in Order :
    (resv[o].state \in Open /\ fulfil[o] = "success")
      ~> (resv[o].state \notin Open \/ fulfil[o] # "success")

\* A settled reservation gets its purchase row and leaves the worker's scan,
\* wherever the settling caller died.
ProjectionRepaired ==
  \A o \in Order :
    resv[o].state = "SETTLED" ~> (resv[o].projection /\ Recorded("purchase", o))

\* The worker leaves neither of the two undone.
OrdersSettle == FulfilledIsSettled /\ ProjectionRepaired

===============================================================================
