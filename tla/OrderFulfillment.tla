---------------------------- MODULE OrderFulfillment ----------------------------
(***************************************************************************)
(* An eSIM order from its payment to its delivery: initiatePayment,        *)
(* confirmAndProvision, fulfillOrder and the payment webhook, with the     *)
(* provider credit reservation and the ledger postings they make.          *)
(*                                                                         *)
(* Source: src/src/lib/orders/service.ts, orders/*-state-machine.ts,       *)
(* finance/provider-credit.ts, finance/finalize.ts, fulfillment/,          *)
(* src/src/app/api/payments.  A statement, a transaction or a provider     *)
(* call is one step; any number of requests serve one order at a time.     *)
(***************************************************************************)
EXTENDS Integers, Sequences, FiniteSets, Functions

CONSTANTS
  Order,      \* orders, created by createOrder
  Request,    \* API calls in flight
  Own,        \* the orders of each request's user
  Offer,      \* the supplier offers that may be selected, of one provider
  Cost,       \* wholesalePrice of each offer
  Ceiling,    \* thresholdCritical per cent of the provider's creditLimit
  None,
  MaxIntents, \* bound: payment intents of an order
  MaxRows,    \* bound: reservations
  MaxFaults   \* bound: deaths of a request and failed statements or calls

ASSUME CostAssumption == Cost \in [Offer -> Nat \ {0}] /\ Ceiling \in Nat
ASSUME OwnAssumption == Own \in [Request -> SUBSET Order]
ASSUME NameAssumption == None \notin Order \cup Offer
ASSUME BoundAssumption == MaxIntents \in Nat /\ MaxRows \in Nat /\ MaxFaults \in Nat

VARIABLES
  ord,     \* the Order rows
  esim,    \* the orders with an Esim row (orderId is unique)
  intent,  \* the payment provider's intents for each order
  credit,  \* the ProviderCreditAccount
  resv,    \* ProviderCreditReservation rows in the order of creation
  ledger,  \* idempotency keys of the posted ledger transactions
  at,      \* where each request is
  shared,  \* history: orders that two requests have served at once
  faults

vars == <<ord, esim, intent, credit, resv, ledger, at, shared, faults>>
finance == <<credit, resv, ledger>>

OrderStatus ==
  {"CHECKOUT_CREATED", "PAYMENT_PENDING", "PAYMENT_CONFIRMED", "PAYMENT_FAILED",
   "ESIM_PROVISIONING", "ESIM_PROVISIONED", "COMPLETED", "PROVISIONING_FAILED"}
FulfillmentStatus == {"pending", "provisioning", "success", "failed"}

OrderRow ==
  [status : OrderStatus, pay : {"pending", "succeeded", "failed"},
   ref : Nat, ful : FulfillmentStatus, entity : BOOLEAN,
   offer : Offer \cup {None}, fin : {"pending", "settled", "reconciliation_required"}]
\* processed: the webhook event of the payment is.
PaymentIntent ==
  [status : {"created", "pending", "succeeded", "failed"}, processed : BOOLEAN]
Reservation ==
  [order : Order, offer : Offer, base : BOOLEAN, state : {"reserved", "settled", "released"}]

\* Where a request is.  A failure Outside reaches no handler, one while
\* Selecting or Undoing confirmAndProvision's, one while Providing or Booking
\* fulfillOrder's, which is Undoing.
Outside == {"idle", "intent", "initiate", "verify", "payFailed", "payConfirmed", "outer"}
Selecting == {"fulfil", "enter", "begin", "select", "reserve", "check", "hold", "row"}
Providing == {"provision", "esim", "entity", "success", "provisioned", "completed"}
Booking == {"settle", "settleTx", "pay", "payPost", "prov", "provPost", "finish"}
Undoing == {"release", "releaseTx", "failed", "failOrder"}
Pc == Outside \cup Selecting \cup Providing \cup Booking \cup Undoing

\* ref, intent: the index of an intent (0: none).  read: the order row as it was read, while it is needed; row: the
\* reservation (0: none).
Local ==
  [pc : Pc, order : Order \cup {None}, read : OrderRow, intent : Nat,
   offer : Offer \cup {None}, row : Nat, settled : BOOLEAN]

NewOrder ==
  [status |-> "CHECKOUT_CREATED", pay |-> "pending", ref |-> 0, ful |-> "pending",
   entity |-> FALSE, offer |-> None, fin |-> "pending"]
Call(pc, o, read) ==
  [pc |-> pc, order |-> o, read |-> read, intent |-> 0, offer |-> None,
   row |-> 0, settled |-> FALSE]
Idle == Call("idle", None, NewOrder)

Init ==
  /\ ord = [o \in Order |-> NewOrder]
  /\ esim = {}
  /\ intent = [o \in Order |-> <<>>]
  /\ credit = [pending |-> 0, liability |-> 0]
  /\ resv = <<>>
  /\ ledger = {}
  /\ at = [r \in Request |-> Idle]
  /\ shared = {}
  /\ faults = 0

-----------------------------------------------------------------------------
(* Helpers.                                                                *)

Begin(r, o, pc) ==
  /\ at[r].pc = "idle"
  /\ at' = [at EXCEPT ![r] = Call(pc, o, ord[o])]
  /\ shared' = IF \E q \in Request : at[q].order = o THEN shared \cup {o} ELSE shared
Go(r, pc) == at' = [at EXCEPT ![r].pc = pc]
Forget(r, pc) == at' = [at EXCEPT ![r].pc = pc, ![r].read = NewOrder]
Done(r) == at' = [at EXCEPT ![r] = Idle]

SetStatus(o, s) == ord' = [ord EXCEPT ![o].status = s]

-----------------------------------------------------------------------------
(* initiatePayment.                                                        *)

\* assertTransition(order.status, "PAYMENT_PENDING").
InitiatePayment(r, o) ==
  /\ o \in Own[r]
  /\ ord[o].pay # "succeeded"
  /\ ord[o].status \in {"CHECKOUT_CREATED", "PAYMENT_FAILED"}
  /\ Begin(r, o, "intent")
  /\ UNCHANGED <<ord, esim, intent, finance, faults>>

\* The provider's intent and its Payment row: once for an idempotency key, a
\* call with the key of an earlier one gets that one's.
CreatePaymentIntent(r) ==
  LET o == at[r].order IN
  /\ at[r].pc = "intent"
  /\ \/ /\ Len(intent[o]) < MaxIntents
        /\ intent' = [intent EXCEPT ![o] = Append(@, [status |-> "created", processed |-> FALSE])]
        /\ at' = [at EXCEPT ![r].pc = "initiate", ![r].intent = Len(intent'[o])]
     \/ /\ \E i \in DOMAIN intent[o] : at' = [at EXCEPT ![r].pc = "initiate", ![r].intent = i]
        /\ UNCHANGED intent
  /\ UNCHANGED <<ord, esim, finance, shared, faults>>

\* The customer gets the intent with the answer, after this update.
SavePaymentReference(r) ==
  LET o == at[r].order
      i == at[r].intent IN
  /\ at[r].pc = "initiate"
  /\ ord' = [ord EXCEPT ![o].status = "PAYMENT_PENDING", ![o].pay = "pending", ![o].ref = i]
  /\ intent' = [intent EXCEPT ![o][i].status = IF @ = "created" THEN "pending" ELSE @]
  /\ Done(r)
  /\ UNCHANGED <<esim, finance, shared, faults>>

\* The customer pays, or fails to.
CustomerPays(o, i) ==
  /\ intent[o][i].status = "pending"
  /\ \E s \in {"succeeded", "failed"} : intent' = [intent EXCEPT ![o][i].status = s]
  /\ UNCHANGED <<ord, esim, finance, at, shared, faults>>

\* The webhook of a payment that succeeded (that of a failed one changes the
\* Payment row only).  It may die before it marks the event as processed.
PaymentWebhook(o, i) ==
  /\ intent[o][i].status = "succeeded" /\ ~intent[o][i].processed
  /\ ord' = [ord EXCEPT ![o].pay = "succeeded"]
  /\ \E done \in BOOLEAN : intent' = [intent EXCEPT ![o][i].processed = done]
  /\ UNCHANGED <<esim, finance, at, shared, faults>>

-----------------------------------------------------------------------------
(* confirmAndProvision.                                                    *)

ConfirmAndProvision(r, o) ==
  /\ o \in Own[r]
  /\ ~(ord[o].status = "COMPLETED" /\ o \in esim)
  /\ ord[o].pay # "failed" /\ ord[o].ref # 0
  /\ Begin(r, o, "verify")
  /\ UNCHANGED <<ord, esim, intent, finance, faults>>

AlreadyPaid(read) ==
  /\ read.pay = "succeeded"
  /\ read.status \in {"PAYMENT_CONFIRMED", "ESIM_PROVISIONING", "ESIM_PROVISIONED",
                      "COMPLETED", "PROVISIONING_FAILED"}

\* Mutant: a pending verification counts as paid.
VerifyPaymentPending(r) ==
  LET read == at[r].read
      verdict == intent[at[r].order][read.ref].status IN
  /\ at[r].pc = "verify"
  /\ \/ verdict = "failed" /\ Forget(r, "payFailed")
     \/ /\ verdict \in {"pending", "succeeded"}
        /\ Forget(r, IF AlreadyPaid(read) THEN "fulfil" ELSE "payConfirmed")
  /\ UNCHANGED <<ord, esim, intent, finance, shared, faults>>

\* A payment not yet decided ends the request, and so does an order that
\* cannot move to PAYMENT_CONFIRMED from the status it was read in.
VerifyPayment(r) ==
  LET read == at[r].read
      verdict == intent[at[r].order][read.ref].status IN
  /\ at[r].pc = "verify"
  /\ \/ verdict = "failed" /\ Forget(r, "payFailed")
     \/ verdict = "pending" /\ Done(r)
     \/ /\ verdict = "succeeded"
        /\ \/ AlreadyPaid(read) /\ Forget(r, "fulfil")
           \/ ~AlreadyPaid(read) /\ read.status = "PAYMENT_PENDING" /\ Forget(r, "payConfirmed")
           \/ ~AlreadyPaid(read) /\ read.status # "PAYMENT_PENDING" /\ Done(r)
  /\ UNCHANGED <<ord, esim, intent, finance, shared, faults>>

PaymentFailed(r) ==
  /\ at[r].pc = "payFailed"
  /\ ord' = [ord EXCEPT ![at[r].order].status = "PAYMENT_FAILED", ![at[r].order].pay = "failed"]
  /\ Done(r)
  /\ UNCHANGED <<esim, intent, finance, shared, faults>>

PaymentConfirmed(r) ==
  /\ at[r].pc = "payConfirmed"
  /\ ord' = [ord EXCEPT ![at[r].order].status = "PAYMENT_CONFIRMED",
                        ![at[r].order].pay = "succeeded"]
  /\ Go(r, "fulfil")
  /\ UNCHANGED <<esim, intent, finance, shared, faults>>

\* confirmAndProvision's handler.
ProvisioningFailed(r) ==
  /\ at[r].pc = "outer"
  /\ SetStatus(at[r].order, "PROVISIONING_FAILED")
  /\ Done(r)
  /\ UNCHANGED <<esim, intent, finance, shared, faults>>

-----------------------------------------------------------------------------
(* fulfillOrder, up to the provider.                                       *)

\* Mutant: PROVISIONING_FAILED is not among the statuses to fulfil from.
FulfillOrderNoRetry(r) ==
  LET o == at[r].order
      fulfilled == ord[o].ful = "success" /\ ord[o].entity
      ready == /\ ord[o].pay = "succeeded"
               /\ ord[o].status \in {"PAYMENT_CONFIRMED", "ESIM_PROVISIONING"}
  IN
  /\ at[r].pc = "fulfil"
  /\ \/ fulfilled /\ Done(r)
     \/ ~fulfilled /\ ~ready /\ Go(r, "outer")
     \/ ~fulfilled /\ ready /\ at' = [at EXCEPT ![r].pc = "enter", ![r].read = ord[o]]
  /\ UNCHANGED <<ord, esim, intent, finance, shared, faults>>

\* A fulfilled order ends the request.  An unpaid one, or one in a status
\* that would skip the payment, is a conflict, which confirmAndProvision
\* handles like any failure.
FulfillOrder(r) ==
  LET o == at[r].order
      fulfilled == ord[o].ful = "success" /\ ord[o].entity
      ready == /\ ord[o].pay = "succeeded"
               /\ ord[o].status \in {"PAYMENT_CONFIRMED", "ESIM_PROVISIONING",
                                     "PROVISIONING_FAILED", "ESIM_PROVISIONED"}
  IN
  /\ at[r].pc = "fulfil"
  /\ \/ fulfilled /\ Done(r)
     \/ ~fulfilled /\ ~ready /\ Go(r, "outer")
     \/ ~fulfilled /\ ready /\ at' = [at EXCEPT ![r].pc = "enter", ![r].read = ord[o]]
  /\ UNCHANGED <<ord, esim, intent, finance, shared, faults>>

EnterProvisioning(r) ==
  /\ at[r].pc = "enter"
  /\ IF at[r].read.status \in {"PAYMENT_CONFIRMED", "PROVISIONING_FAILED"}
     THEN SetStatus(at[r].order, "ESIM_PROVISIONING") ELSE UNCHANGED ord
  /\ Go(r, "begin")
  /\ UNCHANGED <<esim, intent, finance, shared, faults>>

\* transitionFulfillment: guarded by the state read, its answer ignored.
TransitionFulfillment(o, from, to) ==
  ord' = [ord EXCEPT ![o].ful = IF @ = from THEN to ELSE @]

BeginFulfillment(r) ==
  /\ at[r].pc = "begin"
  /\ IF at[r].read.ful \in {"pending", "failed"}
     THEN TransitionFulfillment(at[r].order, at[r].read.ful, "provisioning")
     ELSE UNCHANGED ord
  /\ Go(r, "select")
  /\ UNCHANGED <<esim, intent, finance, shared, faults>>

\* Mutant: a retry selects anew.
SelectAgain(r, f) ==
  /\ at[r].pc = "select"
  /\ ord' = [ord EXCEPT ![at[r].order].offer = f]
  /\ at' = [at EXCEPT ![r].pc = "reserve", ![r].read = NewOrder, ![r].offer = f]
  /\ UNCHANGED <<esim, intent, finance, shared, faults>>

\* selectSupplierForProduct may choose any offer; the choice is frozen on the
\* order, and reused by whoever reads it there.
SelectSupplier(r, f) ==
  LET frozen == at[r].read.offer IN
  /\ at[r].pc = "select"
  /\ \/ frozen = None /\ ord' = [ord EXCEPT ![at[r].order].offer = f]
     \/ frozen = f /\ UNCHANGED ord
  /\ at' = [at EXCEPT ![r].pc = "reserve", ![r].read = NewOrder, ![r].offer = f]
  /\ UNCHANGED <<esim, intent, finance, shared, faults>>

-----------------------------------------------------------------------------
(* reserveProviderCommitment.                                              *)

\* The row with the reservationId made of the order and the offer.
IsBase(i, o, f) == resv[i].base /\ resv[i].order = o /\ resv[i].offer = f
HasBase(o, f) == \E i \in DOMAIN resv : IsBase(i, o, f)

\* A reservation still reserved, or settled, is returned as it is; a released
\* one is followed by one with an id of its own.
ReserveCommitment(r) ==
  LET o == at[r].order
      f == at[r].offer IN
  /\ at[r].pc = "reserve"
  /\ \/ ~HasBase(o, f) /\ Go(r, "check")
     \/ \E i \in DOMAIN resv :
          /\ IsBase(i, o, f)
          /\ IF resv[i].state = "released"
             THEN at' = [at EXCEPT ![r].pc = "check", ![r].row = i]
             ELSE at' = [at EXCEPT ![r].pc = "provision", ![r].row = i,
                                   ![r].settled = resv[i].state = "settled"]
  /\ UNCHANGED <<ord, esim, intent, finance, shared, faults>>

\* The transaction reads, then increments: PostgreSQL's default isolation
\* lets another transaction commit in between.
CheckCredit(r) ==
  /\ at[r].pc = "check"
  /\ Go(r, IF credit.pending + credit.liability + Cost[at[r].offer] < Ceiling
           THEN "hold" ELSE "outer")
  /\ UNCHANGED <<ord, esim, intent, finance, shared, faults>>

HoldCredit(r) ==
  /\ at[r].pc = "hold"
  /\ credit' = [credit EXCEPT !.pending = @ + Cost[at[r].offer]]
  /\ Go(r, "row")
  /\ UNCHANGED <<ord, esim, intent, resv, ledger, shared, faults>>

\* Outside the transaction.  The id is unique: a second base row is refused,
\* and the credit it holds stays held.
CreateReservation(r) ==
  LET o == at[r].order
      f == at[r].offer
      base == at[r].row = 0 IN
  /\ at[r].pc = "row"
  /\ \/ /\ base => ~HasBase(o, f)
        /\ Len(resv) < MaxRows
        /\ resv' = Append(resv, [order |-> o, offer |-> f, base |-> base, state |-> "reserved"])
        /\ at' = [at EXCEPT ![r].pc = "provision", ![r].row = Len(resv')]
     \/ base /\ HasBase(o, f) /\ Go(r, "outer") /\ UNCHANGED resv
  /\ UNCHANGED <<ord, esim, intent, credit, ledger, shared, faults>>

-----------------------------------------------------------------------------
(* The provider, and what is kept of its answer.                           *)

\* Mutant: success is recorded before the eSIM is.
ProvisionUnpersisted(r) ==
  /\ at[r].pc = "provision"
  /\ Go(r, "success")
  /\ UNCHANGED <<ord, esim, intent, finance, shared, faults>>

\* createProviderOrder is idempotent by order, provision by request; then
\* the order's Esim row is looked up.
Provision(r) ==
  /\ at[r].pc = "provision"
  /\ Go(r, IF at[r].order \in esim THEN "success" ELSE "esim")
  /\ UNCHANGED <<ord, esim, intent, finance, shared, faults>>

\* Esim.orderId is unique.
CreateEsim(r) ==
  LET o == at[r].order IN
  /\ at[r].pc = "esim"
  /\ \/ o \notin esim /\ esim' = esim \cup {o} /\ Go(r, "entity")
     \/ o \in esim /\ Go(r, "release") /\ UNCHANGED esim
  /\ UNCHANGED <<ord, intent, finance, shared, faults>>

LinkEsim(r) ==
  /\ at[r].pc = "entity"
  /\ ord' = [ord EXCEPT ![at[r].order].entity = TRUE]
  /\ Go(r, "success")
  /\ UNCHANGED <<esim, intent, finance, shared, faults>>

\* The entity is written with the state, and not without it.
FulfillmentSucceeded(r) ==
  LET o == at[r].order IN
  /\ at[r].pc = "success"
  /\ IF ord[o].ful = "provisioning"
     THEN ord' = [ord EXCEPT ![o].ful = "success", ![o].entity = TRUE] ELSE UNCHANGED ord
  /\ Go(r, "provisioned")
  /\ UNCHANGED <<esim, intent, finance, shared, faults>>

Provisioned(r) ==
  /\ at[r].pc = "provisioned"
  /\ SetStatus(at[r].order, "ESIM_PROVISIONED") /\ Go(r, "completed")
  /\ UNCHANGED <<esim, intent, finance, shared, faults>>

Completed(r) ==
  /\ at[r].pc = "completed"
  /\ SetStatus(at[r].order, "COMPLETED")
  /\ Go(r, IF at[r].settled THEN "pay" ELSE "settle")
  /\ UNCHANGED <<esim, intent, finance, shared, faults>>

-----------------------------------------------------------------------------
(* settleReservation and finalizeCommercialTransaction.                    *)

\* Pay out of the commitments no more than there is.
Uncommit(amount) == IF credit.pending < amount THEN 0 ELSE credit.pending - amount

SettleRead(r) ==
  LET state == resv[at[r].row].state IN
  /\ at[r].pc = "settle"
  /\ Go(r, CASE state = "reserved" -> "settleTx"
             [] state = "settled"  -> "pay"
             [] state = "released" -> "release")
  /\ UNCHANGED <<ord, esim, intent, finance, shared, faults>>

\* The state is not read again in the transaction.
SettleReservation(r) ==
  LET i == at[r].row
      amount == Cost[resv[i].offer] IN
  /\ at[r].pc = "settleTx"
  /\ credit' = [pending |-> Uncommit(amount), liability |-> credit.liability + amount]
  /\ resv' = [resv EXCEPT ![i].state = "settled"]
  /\ Go(r, "pay")
  /\ UNCHANGED <<ord, esim, intent, ledger, shared, faults>>

\* postLedgerTransaction looks the key up, then posts under a unique key.
Lookup(r, pc, key, post, next) ==
  /\ at[r].pc = pc
  /\ Go(r, IF <<key, at[r].order>> \in ledger THEN next ELSE post)
  /\ UNCHANGED <<ord, esim, intent, finance, shared, faults>>

Post(r, pc, key, next) ==
  LET k == <<key, at[r].order>> IN
  /\ at[r].pc = pc
  /\ \/ k \notin ledger /\ ledger' = ledger \cup {k} /\ Go(r, next)
     \/ k \in ledger /\ Go(r, "release") /\ UNCHANGED ledger
  /\ UNCHANGED <<ord, esim, intent, credit, resv, shared, faults>>

LedgerCustomerPayment(r) ==
  Lookup(r, "pay", "sale", "payPost", "prov") \/ Post(r, "payPost", "sale", "prov")

LedgerProviderPurchase(r) ==
  Lookup(r, "prov", "cost", "provPost", "finish") \/ Post(r, "provPost", "cost", "finish")

FinancialStatusSettled(r) ==
  /\ at[r].pc = "finish"
  /\ ord' = [ord EXCEPT ![at[r].order].fin = "settled"]
  /\ Done(r)
  /\ UNCHANGED <<esim, intent, finance, shared, faults>>

-----------------------------------------------------------------------------
(* fulfillOrder's handler, whatever step failed.                           *)

\* A reservation already settled is a conflict: the handler itself fails.
ReleaseRead(r) ==
  LET state == resv[at[r].row].state IN
  /\ at[r].pc = "release"
  /\ Go(r, CASE state = "reserved" -> "releaseTx"
             [] state = "released" -> "failed"
             [] state = "settled"  -> "outer")
  /\ UNCHANGED <<ord, esim, intent, finance, shared, faults>>

\* Mutant: the credit is returned, the row stays reserved.
ReleaseReservationForgotten(r) ==
  /\ at[r].pc = "releaseTx"
  /\ credit' = [credit EXCEPT !.pending = Uncommit(Cost[resv[at[r].row].offer])]
  /\ Go(r, "failed")
  /\ UNCHANGED <<ord, esim, intent, resv, ledger, shared, faults>>

ReleaseReservation(r) ==
  LET i == at[r].row IN
  /\ at[r].pc = "releaseTx"
  /\ credit' = [credit EXCEPT !.pending = Uncommit(Cost[resv[i].offer])]
  /\ resv' = [resv EXCEPT ![i].state = "released"]
  /\ Go(r, "failed")
  /\ UNCHANGED <<ord, esim, intent, ledger, shared, faults>>

FulfillmentFailed(r) ==
  /\ at[r].pc = "failed"
  /\ TransitionFulfillment(at[r].order, "provisioning", "failed")
  /\ Go(r, "failOrder")
  /\ UNCHANGED <<esim, intent, finance, shared, faults>>

\* Mutant: the fulfilment's word for it is written to the order's status.
FailOrderMixedUp(r) ==
  /\ at[r].pc = "failOrder"
  /\ SetStatus(at[r].order, "failed") /\ Go(r, "outer")
  /\ UNCHANGED <<esim, intent, finance, shared, faults>>

FailOrder(r) ==
  /\ at[r].pc = "failOrder"
  /\ SetStatus(at[r].order, "PROVISIONING_FAILED") /\ Go(r, "outer")
  /\ UNCHANGED <<esim, intent, finance, shared, faults>>

\* What a failure of the step at pc reaches.
Handler(pc) ==
  CASE pc \in Outside -> "idle"
    [] pc \in Selecting \cup Undoing -> "outer"
    [] pc \in Providing \cup Booking -> "release"

\* The step fails before it has an effect (one that fails after it is a
\* failure of the next step), or the process dies.  The update of the
\* financial status has a handler of its own.
Fails(r) ==
  LET pc == at[r].pc
      o == at[r].order IN
  /\ pc # "idle"
  /\ faults < MaxFaults /\ faults' = faults + 1
  /\ \/ Done(r) /\ UNCHANGED ord
     \/ /\ Handler(pc) # "idle" /\ Go(r, Handler(pc))
        /\ \/ UNCHANGED ord
           \/ pc = "finish" /\ ord' = [ord EXCEPT ![o].fin = "reconciliation_required"]
  /\ UNCHANGED <<esim, intent, finance, shared>>

Handle(r) ==
  \/ CreatePaymentIntent(r) \/ SavePaymentReference(r)
  \/ VerifyPayment(r) \/ PaymentFailed(r) \/ PaymentConfirmed(r)
  \/ FulfillOrder(r) \/ EnterProvisioning(r) \/ BeginFulfillment(r)
  \/ \E f \in Offer : SelectSupplier(r, f)
  \/ ReserveCommitment(r) \/ CheckCredit(r) \/ HoldCredit(r) \/ CreateReservation(r)
  \/ Provision(r) \/ CreateEsim(r) \/ LinkEsim(r)
  \/ FulfillmentSucceeded(r) \/ Provisioned(r) \/ Completed(r)
  \/ SettleRead(r) \/ SettleReservation(r)
  \/ LedgerCustomerPayment(r) \/ LedgerProviderPurchase(r) \/ FinancialStatusSettled(r)
  \/ ReleaseRead(r) \/ ReleaseReservation(r) \/ FulfillmentFailed(r) \/ FailOrder(r)
  \/ ProvisioningFailed(r)

Next ==
  \/ \E r \in Request : Handle(r) \/ Fails(r)
  \/ \E r \in Request, o \in Order : InitiatePayment(r, o) \/ ConfirmAndProvision(r, o)
  \/ \E o \in Order : \E i \in DOMAIN intent[o] : CustomerPays(o, i) \/ PaymentWebhook(o, i)

Spec == Init /\ [][Next]_vars

\* A request runs to its end unless it dies; the customer of an order that is
\* not complete asks again.
FairSpec ==
  /\ Spec
  /\ \A r \in Request : WF_vars(Handle(r))
  /\ \A r \in Request, o \in Order : WF_vars(ConfirmAndProvision(r, o))

-----------------------------------------------------------------------------
(* Properties.                                                             *)

\* The type invariant of the order rows, the credit rows and the callers.
TypeOK ==
  /\ ord \in [Order -> OrderRow]
  /\ esim \subseteq Order
  /\ intent \in [Order -> Seq(PaymentIntent)]
  /\ credit \in [pending : Nat, liability : Nat]
  /\ resv \in Seq(Reservation)
  /\ ledger \subseteq {"sale", "cost"} \X Order
  /\ at \in [Request -> Local]
  /\ shared \subseteq Order
  /\ faults \in 0..MaxFaults

PaidAtProvider == {o \in Order : \E i \in DOMAIN intent[o] : intent[o][i].status = "succeeded"}

Promise == INSTANCE Purchase WITH
  paid <- PaidAtProvider,
  delivered <- esim,
  sold <- {o \in Order : <<"sale", o>> \in ledger},
  bought <- {o \in Order : <<"cost", o>> \in ledger}

\* Requests that race, fail and retry keep the promise of a purchase: nothing
\* is delivered that the provider was not paid for, nothing booked that was not
\* delivered, and nothing twice.
PurchaseSpec == Promise!Spec

\* No status tells the customer or the books of a delivery that did not
\* happen, in whatever order racing requests write theirs.
DeliveryIsReal ==
  /\ \A o \in Order :
       \/ ord[o].status \in {"ESIM_PROVISIONED", "COMPLETED"}
       \/ ord[o].ful = "success" \/ ord[o].entity \/ ord[o].fin # "pending"
       => o \in esim
  /\ \A i \in DOMAIN resv : resv[i].state = "settled" => resv[i].order \in esim

RowCosts == [i \in DOMAIN resv |-> Cost[resv[i].offer]]
RowsIn(states) == {i \in DOMAIN resv : resv[i].state \in states}
Amount(states) == SumFunctionOnSet(RowCosts, RowsIn(states))

\* As long as no order was served by two requests at once, the provider's
\* account covers what its reservations say: requests for different orders,
\* and failures between any two statements, may leave too much credit
\* committed, never too little, and the liability is exact.
CreditCovered ==
  shared = {} => /\ credit.pending >= Amount({"reserved"})
                 /\ credit.liability = Amount({"settled"})

\* As long as no two requests served the order at once, its supplier offer is
\* chosen once: a retry after any failure reuses it.
SelectionFrozen ==
  [][\A o \in Order \ shared : ord[o].offer # None => ord'[o].offer = ord[o].offer]_vars

\* A payment that succeeded is followed by the delivery if the customer keeps
\* asking, one request at a time, and the provider's credit lasts: no failure
\* leaves the order where a retry cannot take it up.
PaidIsDelivered == \A o \in Order : o \in PaidAtProvider ~> o \in esim

================================================================================
