----------------------------- MODULE CommerceOrder -----------------------------
(***************************************************************************)
(* The orders of a reseller's shop: a payment is requested, the provider's *)
(* webhook (or the shop's own button) marks the order paid and serves it:  *)
(* an entitlement, a binding, its provisioning, the books. Every statement *)
(* is a step of its own; there is no lock, and the order is written        *)
(* without looking at what it has become.                                  *)
(*                                                                         *)
(* Source: src/src/lib/commerce/fulfillment.ts, the routes of              *)
(* src/src/app/api/commerce and src/src/app/api/webhooks/commerce, and     *)
(* src/src/lib/connectivity/entitlement.ts. Provisioning itself is one     *)
(* step here and has its own module.                                       *)
(***************************************************************************)
EXTENDS Integers, Sequences, FiniteSets, Functions

CONSTANTS
  Purchase,     \* CustomerOrder rows
  Run,          \* requests at work: webhook deliveries, buttons, payment requests
  NoRun,
  Simulated,    \* the paymentRef that the button writes
  Unasked,      \* a NULL paymentRef
  SalePlans     \* the reference each order's payment has, the bounds

ASSUME SaleAssumption ==
  /\ Purchase # {} /\ NoRun \notin Run /\ SalePlans # {}
  /\ \A plan \in SalePlans :
       /\ DOMAIN plan.refs \subseteq Purchase
       /\ \A o \in DOMAIN plan.refs : plan.refs[o] \in {"x", "y"}
       /\ plan.left \in [faults : Nat, crashes : Nat]
       /\ plan.does \in [Run -> {"ask", "webhook", "button", "none"}]

VARIABLES
  sale,       \* per order: status, paymentRef, the run whose entitlement it names
  paid,       \* what the provider has made of each payment
  processed,  \* the webhook events that are marked processed
  run,        \* per request: program counter, locals, and what it created
  books,      \* per order: ledger transactions and earning, by idempotency key
  saleRef,    \* the provider's reference for the payment of an order: purchases
              \* of one offer under one intent share it
  saleLeft,   \* bounds left: faults, crashes
  trampled    \* orders that a request wrote although they had changed since it
              \* read them

saleVars == <<sale, paid, processed, run, books, saleRef, saleLeft, trampled>>

Reference == {"x", "y"}
Outcome == {"failed", "succeeded"}
SaleStatus == {"none", "pending", "paid", "fulfilled", "failed"}
RunPc == {"idle", "ask", "find", "mark", "press", "fulfil", "entitle", "activate", "bind",
          "provision", "finish", "look", "insert", "undo", "settle", "off", "dead"}

\* What is booked for an order, in this order; only the fee may be left out.
Bookings == <<"payment", "fee", "purchase", "earning">>
Booking == {"payment", "fee", "purchase", "earning"}

SaleTypeOK ==
  /\ sale \in [Purchase -> [status : SaleStatus, ref : Reference \cup {Unasked, Simulated},
                            by : Run \cup {NoRun}]]
  /\ paid \in [Reference -> {"none", "open"} \cup Outcome]
  /\ processed \subseteq Reference \X Outcome
  /\ run \in [Run -> [pc : RunPc, does : {"ask", "webhook", "button", "none"},
                      order : Purchase, ref : Reference, sim : BOOLEAN,
                      outcome : Outcome \cup {"none"}, status : SaleStatus, next : Nat,
                      ent : {"none", "PENDING", "ACTIVE"}, drift : BOOLEAN,
                      binding : {"none", "UNBOUND", "PROVISIONING", "BOUND", "FAILED"}]]
  /\ books \in [Purchase -> [Booking -> {"absent", "gross", "net"}]]
  /\ DOMAIN saleRef \subseteq Purchase /\ \A o \in DOMAIN saleRef : saleRef[o] \in Reference
  /\ saleLeft \in [faults : Nat, crashes : Nat] /\ trampled \subseteq Purchase

AnyPurchase == CHOOSE o \in Purchase : TRUE

SaleInitOf(plan) ==
  /\ sale = [o \in Purchase |-> [status |-> "none", ref |-> Unasked, by |-> NoRun]]
  /\ paid = [x \in Reference |-> "none"] /\ processed = {}
  /\ run = [r \in Run |->
              [pc |-> "idle", does |-> plan.does[r], order |-> AnyPurchase, ref |-> "x",
               sim |-> FALSE, outcome |-> "none", status |-> "none", next |-> 1,
               ent |-> "none", drift |-> FALSE, binding |-> "none"]]
  /\ books = [o \in Purchase |-> [k \in Booking |-> "absent"]]
  /\ saleRef = plan.refs /\ saleLeft = plan.left /\ trampled = {}

SaleInit == \E plan \in SalePlans : SaleInitOf(plan)

-----------------------------------------------------------------------------
(* What the steps are made of.                                             *)

RunAt(r, pc) == run' = [run EXCEPT ![r].pc = pc]
OrderOf(r) == sale[run[r].order]

\* A request writes its order's status unconditionally. It tramples on what others
\* have written when the status is no longer the one it had read.
Writes(r, status) ==
  /\ sale' = [sale EXCEPT ![run[r].order].status = status]
  /\ trampled' = IF OrderOf(r).status = run[r].status THEN trampled
                 ELSE trampled \cup {run[r].order}

SaleFault == saleLeft.faults > 0 /\ saleLeft' = [saleLeft EXCEPT !.faults = @ - 1]

\* An exception within fulfillOrder's try.
Throws(r) == SaleFault /\ RunAt(r, "undo") /\ UNCHANGED <<sale, books, trampled>>

-----------------------------------------------------------------------------
(* An order is made and its payment requested.                             *)

\* POST orders, or the first half of an intent's purchase.
CreateOrder(o) ==
  /\ o \in DOMAIN saleRef /\ sale[o].status = "none"
  /\ sale' = [sale EXCEPT ![o].status = "pending"]
  /\ UNCHANGED <<paid, processed, run, books, saleRef, saleLeft, trampled>>

\* The provider answers the same idempotency key with the same payment.
RequestPayment(r, o) ==
  /\ run[r].pc = "idle" /\ run[r].does = "ask" /\ sale[o].status = "pending"
  /\ run' = [run EXCEPT ![r].pc = "ask", ![r].order = o, ![r].status = "pending"]
  /\ paid' = [paid EXCEPT ![saleRef[o]] = IF @ = "none" THEN "open" ELSE @]
  /\ UNCHANGED <<sale, processed, books, saleRef, saleLeft, trampled>>

\* The reference is stored whatever the order has become. (The Payment row that
\* should follow names an Order, which a CustomerOrder is not: it is never written.)
StoreReference(r) ==
  /\ run[r].pc = "ask"
  /\ sale' = [sale EXCEPT ![run[r].order].ref = saleRef[run[r].order]]
  /\ RunAt(r, "off")
  /\ UNCHANGED <<paid, processed, books, saleRef, saleLeft, trampled>>

\* The customer at the provider: a declined card may be followed by another.
Pays(x) ==
  /\ \/ paid[x] = "open" /\ paid' = [paid EXCEPT ![x] = "failed"]
     \/ paid[x] \in {"open", "failed"} /\ paid' = [paid EXCEPT ![x] = "succeeded"]
  /\ UNCHANGED <<sale, processed, run, books, saleRef, saleLeft, trampled>>

-----------------------------------------------------------------------------
(* The webhook: the provider delivers an event at least once, in any order. *)

\* An event of the past may still be on its way.
Emitted(x, outcome) ==
  \/ paid[x] = outcome
  \/ outcome = "failed" /\ paid[x] = "succeeded"

\* An event that is marked processed is acknowledged and nothing else.
Receive(r, x, outcome) ==
  /\ run[r].pc = "idle" /\ run[r].does = "webhook"
  /\ Emitted(x, outcome) /\ <<x, outcome>> \notin processed
  /\ run' = [run EXCEPT ![r].pc = "find", ![r].ref = x, ![r].outcome = outcome]
  /\ UNCHANGED <<sale, paid, processed, books, saleRef, saleLeft, trampled>>

\* findFirst by paymentRef, in no particular order.
FindOrder(r) ==
  /\ run[r].pc = "find"
  /\ LET named == {o \in Purchase : sale[o].ref = run[r].ref} IN
       IF named = {} THEN RunAt(r, "settle")
       ELSE \E o \in named :
              run' = [run EXCEPT ![r].order = o, ![r].status = sale[o].status,
                        ![r].pc = IF sale[o].status = "pending" THEN "mark" ELSE "settle"]
  /\ UNCHANGED <<sale, paid, processed, books, saleRef, saleLeft, trampled>>

\* The order was pending when it was found.
MarkOrder(r) ==
  /\ run[r].pc = "mark"
  /\ \/ /\ run[r].outcome = "succeeded" /\ Writes(r, "paid")
        /\ RunAt(r, "fulfil") /\ UNCHANGED saleLeft
     \/ /\ run[r].outcome = "failed" /\ Writes(r, "failed")
        /\ RunAt(r, "settle") /\ UNCHANGED saleLeft
     \/ SaleFault /\ RunAt(r, "settle") /\ UNCHANGED <<sale, trampled>>
  /\ UNCHANGED <<paid, processed, books, saleRef>>

\* Also after an error: the provider is answered 500, and what it sends again is
\* taken for processed.
SettleEvent(r) ==
  /\ run[r].pc = "settle"
  /\ processed' = IF run[r].outcome = "none" THEN processed
                  ELSE processed \cup {<<run[r].ref, run[r].outcome>>}
  /\ RunAt(r, "off")
  /\ UNCHANGED <<sale, paid, books, saleRef, saleLeft, trampled>>

\* The shop's button pays by itself: POST fulfill.
Press(r, o) ==
  /\ run[r].pc = "idle" /\ run[r].does = "button" /\ sale[o].status = "pending"
  /\ run' = [run EXCEPT ![r].pc = "press", ![r].order = o, ![r].status = "pending"]
  /\ UNCHANGED <<sale, paid, processed, books, saleRef, saleLeft, trampled>>

PayByButton(r) ==
  /\ run[r].pc = "press"
  /\ sale' = [sale EXCEPT ![run[r].order].status = "paid", ![run[r].order].ref = Simulated]
  /\ trampled' = IF OrderOf(r).status = "pending" THEN trampled
                 ELSE trampled \cup {run[r].order}
  /\ RunAt(r, "fulfil")
  /\ UNCHANGED <<paid, processed, books, saleRef, saleLeft>>

-----------------------------------------------------------------------------
(* fulfillOrder.                                                           *)

\* An order that is not paid is left alone. The reference read here decides the fee.
Fulfil(r) ==
  /\ run[r].pc = "fulfil"
  /\ run' = IF OrderOf(r).status # "paid" THEN [run EXCEPT ![r].pc = "settle"]
            ELSE [run EXCEPT ![r].pc = "entitle", ![r].status = "paid",
                             ![r].sim = OrderOf(r).ref = Simulated]
  /\ UNCHANGED <<sale, paid, processed, books, saleRef, saleLeft, trampled>>

\* createEntitlement, under an active subscription of the tenant.
CreateEntitlement(r) ==
  /\ run[r].pc = "entitle"
  /\ \/ /\ run' = [run EXCEPT ![r].pc = "activate", ![r].ent = "PENDING"]
        /\ UNCHANGED <<sale, books, saleLeft, trampled>>
     \/ Throws(r)
  /\ UNCHANGED <<paid, processed, saleRef>>

\* transitionEntitlement, guarded by the status it has read: no one else moves it.
ActivateEntitlement(r) ==
  /\ run[r].pc = "activate"
  /\ \/ /\ run' = [run EXCEPT ![r].pc = "bind",
                              ![r].ent = IF @ = "PENDING" THEN "ACTIVE" ELSE @]
        /\ UNCHANGED <<sale, books, saleLeft, trampled>>
     \/ Throws(r)
  /\ UNCHANGED <<paid, processed, saleRef>>

\* createResourceBinding, at an active provider instance of the same tenant and type.
CreateBinding(r) ==
  /\ run[r].pc = "bind"
  /\ \/ /\ run' = [run EXCEPT ![r].pc = "provision", ![r].binding = "UNBOUND"]
        /\ UNCHANGED <<sale, books, saleLeft, trampled>>
     \/ Throws(r)
  /\ UNCHANGED <<paid, processed, saleRef>>

ProvisionUnchecked(r) ==
  /\ run[r].pc = "provision"
  /\ \E b \in {"BOUND", "FAILED", "PROVISIONING"} :
       run' = [run EXCEPT ![r].pc = "finish", ![r].binding = b]
  /\ UNCHANGED <<sale, paid, processed, books, saleRef, saleLeft, trampled>>

\* provisionBinding succeeds, fails, or leaves the binding to the reconciliation;
\* whatever is not a success throws.
ProvisionBinding(r) ==
  /\ run[r].pc = "provision"
  /\ \/ /\ run' = [run EXCEPT ![r].pc = "finish", ![r].binding = "BOUND"]
        /\ UNCHANGED saleLeft
     \/ /\ \E b \in {"FAILED", "PROVISIONING"} :
             run' = [run EXCEPT ![r].pc = "undo", ![r].binding = b]
        /\ SaleFault
  /\ UNCHANGED <<sale, paid, processed, books, saleRef, trampled>>

FinishOrder(r) ==
  /\ run[r].pc = "finish"
  /\ \/ /\ sale' = [sale EXCEPT ![run[r].order].status = "fulfilled", ![run[r].order].by = r]
        /\ trampled' = IF OrderOf(r).status = "paid" THEN trampled
                       ELSE trampled \cup {run[r].order}
        /\ RunAt(r, "look") /\ UNCHANGED <<books, saleLeft>>
     \/ Throws(r)
  /\ UNCHANGED <<paid, processed, saleRef>>

UndoForgets(r) ==
  /\ run[r].pc = "undo" /\ RunAt(r, "settle")
  /\ UNCHANGED <<sale, paid, processed, books, saleRef, saleLeft, trampled>>

\* The catch of fulfillOrder; its own error is ignored.
UndoOrder(r) ==
  /\ run[r].pc = "undo"
  /\ \/ Writes(r, "failed") /\ UNCHANGED saleLeft
     \/ SaleFault /\ UNCHANGED <<sale, trampled>>
  /\ RunAt(r, "settle")
  /\ UNCHANGED <<paid, processed, books, saleRef>>

-----------------------------------------------------------------------------
(* postFulfillmentLedger: bookings under keys made of the order's id.      *)

Fee(r) == IF run[r].sim THEN "gross" ELSE "net"
Entry(r) == Bookings[run[r].next]
Booked(r) == books[run[r].order][Entry(r)]

\* After the last one, or after an error, which is swallowed, the work is done.
NextBooking(r) ==
  run' = [run EXCEPT ![r].pc = IF run[r].next = Len(Bookings) THEN "settle" ELSE "look",
                     ![r].next = @ + 1]

\* The fee is skipped when there is none. The others are looked up by their keys.
LookUp(r) ==
  /\ run[r].pc = "look"
  /\ IF \/ Entry(r) = "fee" /\ Fee(r) = "gross"
        \/ Entry(r) # "earning" /\ Booked(r) # "absent"
     THEN NextBooking(r) ELSE RunAt(r, "insert")
  /\ UNCHANGED <<sale, paid, processed, books, saleRef, saleLeft, trampled>>

\* The insert of a key that came in between throws; the earning is an upsert.
Insert(r) ==
  /\ run[r].pc = "insert"
  /\ \/ /\ Entry(r) = "earning" \/ Booked(r) = "absent"
        /\ books' = [books EXCEPT ![run[r].order][Entry(r)] = Fee(r)]
        /\ NextBooking(r) /\ UNCHANGED saleLeft
     \/ /\ Entry(r) # "earning" /\ Booked(r) # "absent"
        /\ RunAt(r, "settle") /\ UNCHANGED <<books, saleLeft>>
     \/ SaleFault /\ RunAt(r, "settle") /\ UNCHANGED books
  /\ UNCHANGED <<sale, paid, processed, saleRef, trampled>>

-----------------------------------------------------------------------------
(* The rest of the world.                                                  *)

\* The process dies: the provider will deliver the event again.
RunDies(r) ==
  /\ run[r].pc \notin {"idle", "off", "dead"}
  /\ saleLeft.crashes > 0 /\ saleLeft' = [saleLeft EXCEPT !.crashes = @ - 1]
  /\ RunAt(r, "dead")
  /\ UNCHANGED <<sale, paid, processed, books, saleRef, trampled>>

\* The reconciliation of bindings ends what provisioning has left (Provisioning.tla).
RepairBinding(r) ==
  /\ run[r].binding = "PROVISIONING"
  /\ \E b \in {"BOUND", "FAILED"} : run' = [run EXCEPT ![r].binding = b]
  /\ UNCHANGED <<sale, paid, processed, books, saleRef, saleLeft, trampled>>

Drifting(r) == run[r].ent = "ACTIVE" /\ run[r].binding \notin {"none", "BOUND"}

\* reconcileConnectivityEntitlements: an active entitlement with bindings of which
\* none is bound is flagged, and the flag is taken back when one is.
ReconcileEntitlement(r) ==
  /\ \/ Drifting(r) /\ ~run[r].drift /\ run' = [run EXCEPT ![r].drift = TRUE]
     \/ /\ run[r].ent = "ACTIVE" /\ run[r].binding = "BOUND" /\ run[r].drift
        /\ run' = [run EXCEPT ![r].drift = FALSE]
  /\ UNCHANGED <<sale, paid, processed, books, saleRef, saleLeft, trampled>>

RunStep(r) ==
  \/ StoreReference(r) \/ FindOrder(r) \/ MarkOrder(r) \/ SettleEvent(r) \/ PayByButton(r)
  \/ Fulfil(r) \/ CreateEntitlement(r) \/ ActivateEntitlement(r) \/ CreateBinding(r)
  \/ ProvisionBinding(r) \/ FinishOrder(r) \/ UndoOrder(r) \/ LookUp(r) \/ Insert(r)

SaleNext ==
  \/ \E r \in Run : \/ RunStep(r) \/ RunDies(r) \/ RepairBinding(r) \/ ReconcileEntitlement(r)
                    \/ \E o \in Purchase : RequestPayment(r, o) \/ Press(r, o)
                    \/ \E x \in Reference, outcome \in Outcome : Receive(r, x, outcome)
  \/ \E o \in Purchase : CreateOrder(o)
  \/ \E x \in Reference : Pays(x)

SaleFairness == \A r \in Run : WF_saleVars(RunStep(r)) /\ WF_saleVars(ReconcileEntitlement(r))

SaleSpec == SaleInit /\ [][SaleNext]_saleVars /\ SaleFairness

-----------------------------------------------------------------------------

Attempts(o) == {r \in Run : run[r].order = o /\ run[r].ent # "none"}

(* A fulfilled order names an active entitlement whose provider resource is *)
(* bound, and its payment succeeded unless the button was pressed. If no    *)
(* request wrote over another one's status, the order was served once, and  *)
(* when its request has made the last booking all of them agree on the fee. *)
SoldOnce ==
  \A o \in Purchase :
    /\ sale[o].status = "fulfilled" =>
         LET r == sale[o].by IN
         /\ r # NoRun /\ run[r].order = o /\ run[r].ent = "ACTIVE" /\ run[r].binding = "BOUND"
         /\ run[r].outcome = "none" \/ paid[run[r].ref] = "succeeded"
    /\ o \notin trampled =>
         /\ Cardinality(Attempts(o)) <= 1
         /\ sale[o].status = "fulfilled" /\ run[sale[o].by].next > Len(Bookings) =>
              /\ books[o]["payment"] # "absent" /\ books[o]["purchase"] # "absent"
              /\ books[o]["earning"] = books[o]["payment"]
              /\ books[o]["fee"] = "net" <=> books[o]["payment"] = "net"

(* If no process dies, no order remains paid and unserved: it becomes       *)
(* fulfilled or failed; and an entitlement that serves nobody, because its  *)
(* binding was not bound, is flagged for the operator.                      *)
SalesSettle ==
  /\ []<>(\A o \in Purchase : sale[o].status = "paid" => \E r \in Run : run[r].pc = "dead")
  /\ []<>(\A r \in Run : Drifting(r) => run[r].drift)

-----------------------------------------------------------------------------
(* What the reseller has earned and what it draws: requestPayout reads the *)
(* balance as sums, each by a query of its own, and then creates the       *)
(* payout, without lock or transaction                                     *)
(* (src/src/lib/commerce/reseller-economics.ts). Nothing in src/ calls     *)
(* processPayout: it is taken as a step an operator may take at any time.  *)
(* The sum of the provider costs is left out: fulfillment.ts names no      *)
(* supplier, and then none is recorded. Orders and payouts share no row.   *)

CONSTANTS
  Payout,       \* calls of requestPayout, and the rows they create
  Sold,         \* orders of the tenant that are fulfilled
  PayoutPlans   \* what the orders earn and what the payouts ask

ASSUME PayoutAssumption ==
  /\ IsFiniteSet(Sold) /\ IsFiniteSet(Payout) /\ PayoutPlans # {}
  /\ PayoutPlans \subseteq [earns : [Sold -> Int], asks : [Payout -> Int]]

VARIABLES
  earning,      \* ResellerEarning by orderId
  payout,       \* per call: program counter, amount, the balance it has added up
                \* and the sums it still lacks, the row's status
  disturbed     \* calls in whose reading another payout was created or processed

payoutVars == <<earning, payout, disturbed>>

Part == {"earnings", "pending", "completed"}

PayoutTypeOK ==
  /\ earning \in [Sold -> [recorded : BOOLEAN, amount : Int]]
  /\ payout \in [Payout -> [pc : {"idle", "read", "done"}, asks : Int, balance : Int,
                            lacks : SUBSET Part,
                            status : {"none", "refused", "pending", "completed"}]]
  /\ disturbed \subseteq Payout

PayoutInitOf(plan) ==
  /\ earning = [o \in Sold |-> [recorded |-> FALSE, amount |-> plan.earns[o]]]
  /\ payout = [p \in Payout |-> [pc |-> "idle", asks |-> plan.asks[p], balance |-> 0,
                                 lacks |-> {}, status |-> "none"]]
  /\ disturbed = {}

PayoutInit == \E plan \in PayoutPlans : PayoutInitOf(plan)

-----------------------------------------------------------------------------

Amounts == [o \in Sold |-> earning[o].amount]
Asked == [p \in Payout |-> payout[p].asks]
Earned == SumFunctionOnSet(Amounts, {o \in Sold : earning[o].recorded})
Drawn(status) == SumFunctionOnSet(Asked, {p \in Payout : payout[p].status = status})

\* Who is reading the balance while a payout changes.
DisturbsOthers(p) ==
  disturbed' = disturbed \cup {q \in Payout \ {p} : payout[q].pc = "read"}

\* calculateAndRecordEarnings: an upsert, so a second fulfilment changes nothing.
RecordEarning(o) ==
  /\ earning' = [earning EXCEPT ![o].recorded = TRUE]
  /\ UNCHANGED <<payout, disturbed>>

RequestPayout(p) ==
  /\ payout[p].pc = "idle"
  /\ payout' = [payout EXCEPT ![p].pc = "read", ![p].lacks = Part]
  /\ UNCHANGED <<earning, disturbed>>

AmountOfEarnings(part) == IF part = "earnings" THEN Earned
                          ELSE IF part = "completed" THEN -Drawn("completed") ELSE 0

\* getResellerBalance: the queries of one Promise.all, in any order.
AmountOf(part) == IF part = "earnings" THEN Earned ELSE -Drawn(part)

ReadPart(p, part) ==
  /\ part \in payout[p].lacks
  /\ payout' = [payout EXCEPT ![p].lacks = @ \ {part}, ![p].balance = @ + AmountOf(part)]
  /\ UNCHANGED <<earning, disturbed>>

\* The balance at hand covers the amount, or the call throws.
CreatePayout(p) ==
  /\ payout[p].pc = "read" /\ payout[p].lacks = {}
  /\ IF payout[p].balance < payout[p].asks
       THEN /\ payout' = [payout EXCEPT ![p].pc = "done", ![p].status = "refused"]
            /\ UNCHANGED disturbed
       ELSE /\ payout' = [payout EXCEPT ![p].pc = "done", ![p].status = "pending"]
            /\ DisturbsOthers(p)
  /\ UNCHANGED earning

ProcessPayout(p) ==
  /\ payout[p].status = "pending"
  /\ payout' = [payout EXCEPT ![p].status = "completed"]
  /\ DisturbsOthers(p) /\ UNCHANGED earning

PayoutNext ==
  \/ \E o \in Sold : RecordEarning(o)
  \/ \E p \in Payout : RequestPayout(p) \/ CreatePayout(p) \/ ProcessPayout(p)
  \/ \E p \in Payout, part \in Part : ReadPart(p, part)

PayoutSpec == PayoutInit /\ [][PayoutNext]_payoutVars

-----------------------------------------------------------------------------

Created(p) == payout[p].status \in {"pending", "completed"}
Gains == {o \in Sold : earning[o].recorded /\ earning[o].amount > 0}

(* Unless a payout was created while another one changed, what is drawn is *)
(* covered by what was earned (an order sold at a loss may be booked       *)
(* later), in whichever order the sums are read and payouts processed.     *)
DrawnIsEarned ==
  {p \in disturbed : Created(p)} = {} =>
    Drawn("pending") + Drawn("completed") <= SumFunctionOnSet(Amounts, Gains)
=============================================================================
