# TLA+ models of RoamLink

RoamLink sells mobile connectivity (eSIM plans, Wi-Fi access on MikroTik routers, virtual numbers)
directly and through reseller tenants. It is a Next.js application over one PostgreSQL database:
every request, webhook delivery and cron call is a separate short-lived process, several of them may
serve the same row at once, any of them may die between two statements, and nothing but the database
is shared. Its code therefore carries its own concurrency control: claims with attempt identities and
leases, compare-and-set updates, idempotency keys, reservations, and workers that repair what a failed
request left behind. That machinery is what these modules model, check and prove.

Paths are relative to the repository; `lib/` stands for `src/src/lib/`, `cp/` for
`src/src/lib/control-plane/`.

| module | what it is |
|---|---|
| `Provisioning` | one provider resource binding: claim, lease, heartbeat, timeout, provider call, recovery, reconciliation |
| `AttemptFence` | abstract: what the provisioning claim promises |
| `SessionExecution` | decisions and actions on connectivity sessions: claims, the session's slot, reserve / mark / move / release, the API, the cron route |
| `SessionConnectivity` | abstract: what a session's connectivity promises |
| `KernelBridge` | how a session's resource gets its entitlement and binding |
| `ActionRecovery` | what becomes of actions whose process died |
| `ConnectivityView` | what a user is shown of session, invariant, health and readings |
| `IntentEvents` | the versions of an intent and the queue of re-evaluation events |
| `ConnectivityDecision` | reports of measurements, the health derived from them, and the decision an event makes of policy, context, health and offers |
| `MobileOutboxes` | the phone's outboxes of intents and of observations, with the server's end of each |
| `EdgeAttribution` | whose a phone's observation is, and of which resource |
| `ProviderAccess` | cached router clients, the probe rounds, instances under edit |
| `OperationRecovery` | the durable record of each provider operation, and its recovery |
| `IdempotencyClaim` | `runIdempotentOperation` with a top-up as its operation |
| `EsimSupplier` | the eSIM adapter, client and transport against a supplier that applies late |
| `RateLimit` | the counters of the API's rate limit |
| `OrderFulfillment` | an eSIM order from payment to delivery and bookkeeping, with provider credit |
| `Purchase` | abstract: what a purchase promises |
| `ResellerBalance` | a tenant's prepaid balance: reservations, deposits, both repair workers |
| `PrepaidFunds` | abstract: what a prepaid balance promises |
| `SaasRenewal` | a tenant's plan: first invoice, renewal, ambiguous payments |
| `CustomerCredit` | rewards, grants and spending of customer credit, and their postings |
| `NumberSubscription` | the renewal of a number, with the ledger's postings (extends `CustomerCredit`) |
| `NumberPurchase` | a number bought, used and given back |
| `CommerceOrder` | the orders of a reseller's shop, and the payouts of what they earned |
| `Catalogue` | synced plans, products, a tenant's shelf, the offer an order takes |
| `OfferSearch` | the reseller's market: ingestion, markups, ranking, purchase |
| `Suppliers` | the supplier chosen for an order; costs, settlements and invoices |
| `TenantAccess` | roles, sessions, API keys, quotas, team, sign-up |
| `IncidentLookup` | what support is answered about an incident while rows are written |
| `MCProvisioning`, `MCSessionExecution`, `MCResellerBalance`, `MCOrderFulfillment` | instances of one component |
| `MCBackground`, `MCBilling`, `MCServices`, `MCRepairs` | instances of several components that share no row (section 3) |
| `ProvisioningProofs`, `ResellerBalanceProofs` | theorems about the component they are named for |
| `OrderFulfillmentProofs` | theorems about `OrderFulfillment`, `Catalogue` |
| `ControlProofs` | theorems about `RateLimit`, `SessionExecution`, `TenantAccess` |
| `OperationProofs` | theorems about `IdempotencyClaim`, `OperationRecovery`, `EsimSupplier`, `IncidentLookup`, `ConnectivityDecision`, `MobileOutboxes`, `IntentEvents` |
| `ServiceProofs` | theorems about `NumberPurchase` and, as they stand together in `MCServices`, `KernelBridge`, `ProviderAccess`, `EdgeAttribution`, `ActionRecovery`, `ConnectivityView` |
| `BillingProofs` | theorems about `MCBilling` and its parts `SaasRenewal`, `CustomerCredit`, `NumberSubscription`, `CommerceOrder` |
| `SumLaws` | the laws of sums over finite sets that the proofs about money use |

In every model a database statement, a transaction, a provider request or a ledger posting is one
step, and an actor has a program counter between two of them. What an actor read stays in its locals
as stale as the code lets it get. Definitions commented `mutant:` are not part of the specifications:
they are the plausible bugs that show each property can fail.

## 1. Inventory

Sizes are lines of TypeScript. What is hard about each part is spelled out in the hazard list of
`PROJECT.json`, each at its line.

### 1.1 Connectivity

**Provisioning kernel** (`lib/connectivity/entitlement.ts`, 2200). State: the
`ProviderResourceBinding` row (status, `provisioningAttemptId`, `provisioningClaimExpiresAt`,
`providerResourceId`, reconciliation state). Operations: `createResourceBinding`, `provisionBinding`
(resolve, claim or take over, verify ownership, heartbeat, provider call against a timeout, fenced
finalization), `reconcileProvisioning`, `reconcileBindingWithProvider`, `transitionBinding`,
`reconcileConnectivityEntitlements`. Calls the adapter registry; is called by the kernel bridge, the
API routes and the recovery cron. Hard: takeover of a lease while the slow owner still calls the
provider; a provider call that outlives its timeout; four writers of one status column. Correct if
one attempt at a time holds the row, a superseded one never finalizes, a usable binding exists at the
provider, every move is legal, and a crashed claim is settled.

**MikroTik adapter and RouterOS client** (`lib/connectivity/providers/mikrotik/`). State: hotspot
users at the router; a cache of clients per process. `createResource` is GET, PUT, and on conflict or
an uncertain answer GET again and at most one more PUT. Hard: a PUT whose answer is lost may arrive
later, after its sender gave up; an instance edited while its client is cached. Correct if it
converges on one user, reports the one that exists, and asks the router the binding names.

**eSIM adapter and client** (`providers/esim/`): profiles at a supplier, idempotent by reference.
Hard: retries of what was applied, requests applied after their sender gave up.

### 1.2 Control plane (`cp/`, 8450)

**Decision and action execution** (`decision-executor`, `session-execution-slot`, `action-executor`,
`session-manager`, `intent-authority`). State: `ConnectivityDecision` (execution state, claim, attempt
count), `ConnectivityAction`, `ConnectivitySession` (state, active resource, execution slot with claim
and lease), `ProtocolResource` (AVAILABLE, RESERVED, IN_USE). A decision is claimed, its session's
slot is acquired and kept by a heartbeat, and resource and session mutations are fenced by the slot in
their WHERE clause. The public API executes actions with no slot. Hard: leases, fences, partial
switches, reclaim, dead letters. Correct if a session has one mutation at a time, its active resource
is in use by it, no resource leaks unnoticed, and pending decisions are executed.

**Intents and reevaluation** (`intent-service`, `reevaluation`). State: versions of an intent (one not
superseded), a queue of events with claims. Hard: supersession against supersession, reclaim of an
event that was claimed again. Correct if versions form a chain, each with an event that is evaluated.

**Decisions, policy, health** (`decision-engine`, `policy-engine`, `effective-policy`,
`measurement-store`, `health-derivation`, `freshness`): rows read and written without a lock. Correct
if a decision follows from what was so since it began, and health from readings that were there.

**Kernel bridge** (`kernel-bridge`) and **action recovery** (`action-executor` 860-1105): what the
executor asks of the kernel, and what is made of actions whose process died.

**Mobile edge** (`src/apps/mobile/lib/connectivity`, `edge-ingestion`): durable outboxes, claims,
watermarks, ownership and trust of observations. Hard: overlapping flushes, lost answers, eviction.

### 1.3 Orders and money

**Orders** (`lib/orders/`, 1350; `lib/fulfillment/`, 430; `app/api/payments`). State: `Order`
(status, paymentStatus, payment reference, fulfillmentStatus, fulfillment entity, frozen supplier,
financial status), `Esim`, payment intents at the provider, `WebhookEvent`. Hard: two requests for
one order, a webhook between them, stale reads written back, a failure after each of a dozen
statements, and a retry that must take up whatever was left. Correct if an order is delivered only
when paid, once, booked only when delivered, and a paid one is delivered in the end.

**Provider credit and supplier choice** (`lib/finance/provider-credit.ts`,
`lib/orchestration/engine.ts`): pending commitments and outstanding liability of a provider account
and the reservations behind them, shared by all orders; the best offer whose supplier is able.

**Ledger** (`lib/finance/double-entry-ledger.ts`, `finalize.ts`): transactions with a unique
idempotency key; posting is look-up then insert.

**Reseller balance** (`lib/tenant/balance.ts`, 1500; routes `tenant/orders`, `tenant/balance/deposit`,
`internal/reconcile`). State: `TenantBalance`, `TenantTransaction` rows with running balance and
sequence number, `TenantBalanceReservation`, `TenantDepositPayment`. Hard: three writers of a
settlement, unlocked checks before locked ones, webhooks out of order, a death at each step. Correct
if money is conserved, never overdrawn, credited once and only when paid, auditable, and reservations
do not stay open.

**SaaS billing** (`lib/tenant/saas-subscription.ts`, 2350), **number subscriptions** and **virtual
numbers** (`lib/subscriptions`, `lib/virtual-numbers`, 1160): renewal cycles keyed by their period,
ambiguous payments, posting of revenue, credit that pays a part. **Promotions, referrals, customer
credit** (`lib/promotions`, 740): a balance with locked and unlocked writers. **Commerce**
(`lib/commerce/`, 2240, its routes and webhook): a second order flow with its own fulfilment, market,
payouts and supplier settlements. **Plans and catalogue** (`lib/plans`, `lib/tenant/catalog.ts`):
products shared by syncs, orders and tenants' shelves.

### 1.4 Cross-cutting

**Idempotency primitive** (`lib/idempotency/claim.ts`, 1060): an operation row with claim, heartbeat,
uncertain outcome and reconciliation claim. **Provider operation recovery** and **incident lookup**
(`lib/observability/`): a durable record per provider call, with claims and leases over it, and the
reads that show support what happened. **Rate limiting** (`lib/api/rate-limit.ts`): conditional
counters. **Tenant context, team, API keys, sign-up** (`lib/tenant`, `lib/auth.ts`, `lib/api`):
checks and the writes they guard, apart. **UI, scripts, docs, `skills/`**: not part of the server's
logic.

### 1.5 How the parts interact

```
 UI / API ──► tenant/orders route ──► reserve ► createOrder ► confirmAndProvision ► settle | release
                      │                                          │
 payment webhook ─────┼──────────────► Order row ◄───────────────┤  fulfillOrder: freeze supplier,
                      │                                          │  hold credit, provision, persist,
 cron */5 internal/reconcile ► balance workers                   │  settle, post to the ledger
                                                                 ▼
 phone ► outboxes ► edge ingestion ► health ► events ► decisions ► slot ► action ► kernel bridge
 cron */1 observe-connectivity ► probes, events, decisions, reclaims          │
                                                                              ▼
 cron */5 connectivity-reconcile ► operation recovery ► reconcileBinding…  provisionBinding
                                                                              │
                                                                   adapter ► router | eSIM supplier
```

All arrows end in rows; there are no queues or locks outside the database.

## 2. What is modelled

### 2.1 Provisioning

| model | code |
|---|---|
| `row` | `ProviderResourceBinding`; an attempt is a number never used before, for a UUID |
| `router`, `wire` | the hotspot user of this binding, and PUTs still under way whose sender gave up |
| `wk[w].pc` | where a call of `provisionBinding` / `reconcileProvisioning` is, and what it read |
| `op[w]` | the provider call, which goes on after the timeout and is not cancelled |
| `rec` | one `reconcileBindingWithProvider`: snapshot, observation, guarded commit |
| `Resolve`, `ClaimUnbound`, `ClaimRead`, `TakeOver`, `VerifyOwnership` | `claimProvisioning` and the check after it |
| `HeartbeatFires`, `ExtendLease`, `TimeoutFires`, `ProviderReturns` | the timers and the race in `provisionBinding` |
| `FinalizeSuccess`, `FinalizeFailure` | `claimGuardedTransition`, with the lost-heartbeat discard and the catch |
| `GetById` ... `PutAgain`, `LatePut` | the adapter's `provision` and the client's `createResource` |
| `TransitionBinding`, `RouterChanges`, `Crash`, `Tick` | operators, people at the router, deaths, time |

A clock read at the start of a call is a local (`t0`), so a statement may run with an old `now`, as in
the code. `Punctual = FALSE` puts no bound on how late a timer or statement is; `Punctual = TRUE`
states the assumption under which the lease comments make sense: nothing overdue is overtaken by time.

### 2.2 SessionExecution

| model | code |
|---|---|
| `job` | a decision, or an action asked for through the API: its session, type and target |
| `dec`, `act` | the execution columns of `ConnectivityDecision`; `ConnectivityAction.state`, one row per idempotency key |
| `sess`, `res` | `ConnectivitySession` with its slot and lease; `ProtocolResource` with `reservedBy` |
| `call[c]` | a process in `executeDecision` or the actions route, with the session it read when it loaded the action |
| `cron` | `executePendingDecisions` of the cron route |
| `ReadDecision` ... `CreateAction` | `executeDecision` up to the slot, the authority check and the keyed action |
| `LoadAction` ... `FreeSlot` | `executeAction`, its state machine read then written, and the outcome |
| `RenewSlot`, `SlotLapses`, `ClaimLapses`, `Crash` | heartbeat, leases, deaths: a lease may lapse at any moment |
| `ReclaimDecision`, `ReclaimSlot`, `CronFind`, `CronClaim`, `CronMark` | the cron route |
| `PostAction` | the API's execution without a slot |
| `IntentEnds` | the intent expires, is superseded or cancelled at any time |

`Plans` are the cases an instance explores: jobs, starting states, and the number of lapses, crashes
and faults. `reserves` is a history variable. Left out: `UNKNOWN` and `RECOVERY_CLAIMED`, which no
caller enters; what the provider answers is any answer (`KernelBridge`, `Provisioning`).

### 2.3 The rest of the control plane

- **`IntentEvents`**: `version` is the chain of one intent's versions, `event` the queue. A change is
  a read and a guarded transaction (`supersedeIntent`, `cancelIntent`, `expireStaleIntents`), looked
  up by its idempotency key first; an evaluator claims, rereads its claim, evaluates, completes or
  fails; the cron job reclaims by two unfenced statements. The claim id is the attempt that wrote it.
- **`ConnectivityDecision`**: `Ingest` stores a report once by its key, derivation reads the newest
  and upserts the snapshot with no lock between; events tell of the measurement and the change. The
  second half: policy edits, contexts posted out of order (the unlocked stale fence), and a decider
  that reads each of them in a step of its own before it writes. Capabilities, resources and offers
  stand still; numbers are in hundredths.
- **`KernelBridge`**: `resolveResourceBinding` and `verifyResourceUsable` statement by statement over
  the rows of entitlements and bindings, for calls that race for a resource, with the check of the
  invariant that ends an activation; the kernel's own claim is one step with every answer it can give.
- **`ActionRecovery`**: `recoverStaleActions`: claims, what is left of the target, the give-back, the
  session, the verdict. Nothing in src/ calls it.
- **`ConnectivityView`**: each read of `getCurrentConnectivity` and of the invariant checker, while
  sessions switch and end and health is derived anew. `bond` is the user of each resource's account,
  if it has one; the checker's clauses on tenant, kind and provider are any answer.
- **`MobileOutboxes`**: queueing, eviction, claims of five minutes, overlapping flushes, requests that
  arrive after their sender gave up, the batch with its watermark, and the server's record.
- **`EdgeAttribution`**: registration, the ownership of device and session, the hint against the
  resource the session is on, trust, and the projection into a measurement; any read or insert may
  throw, and the batch goes on.
- **`ProviderAccess`**: probe rounds, recovery of one binding, the client cache with its keys, edits
  of instances. An instance is the sequence of its versions.
- **`OperationRecovery`**: an operation's record beside the router's resource; the worker completes
  its own, the recovery job claims, asks and decides; the attempts, leases and lost completions.
- **`IdempotencyClaim`**: one key of one scope: claim, fenced end, polling, renewal, reclaim and
  reconciliation, with `purchaseTopUp`'s two providers and its transaction.
- **`EsimSupplier`**: the five calls, the client's lookup and creation, the transport's retries, and a
  wire whose requests the supplier may apply at any later time.
- **`RateLimit`**: the update, the insert that loses a race, the second update, failures, pruning.

### 2.4 OrderFulfillment

| model | code |
|---|---|
| `ord`, `esim`, `intent` | `Order`, `Esim` (unique by order), the payment provider's intents with the event's `processed` mark |
| `credit`, `resv`, `ledger` | `ProviderCreditAccount`, its reservations, posted keys (`sale`, `cost`) |
| `at[r]` | a request: its program counter, the order row it read while it still uses it, the frozen offer, the reservation |
| `InitiatePayment` ... `SavePaymentReference` | `initiatePayment`; an intent may be that of an earlier key |
| `CustomerPays`, `PaymentWebhook` | the payment provider and the webhook route, which may die before it marks the event |
| `ConfirmAndProvision`, `VerifyPayment`, `PaymentConfirmed`, `PaymentFailed` | the first half of `confirmAndProvision` |
| `FulfillOrder` ... `SelectSupplier` | `fulfillOrder` up to the frozen supplier |
| `ReserveCommitment`, `CheckCredit`, `HoldCredit`, `CreateReservation` | `reserveProviderCommitment`: under PostgreSQL's default isolation the check and the increment are two steps, and the row is inserted after the transaction |
| `Provision` ... `Completed` | the provider call, `persistEsim`, the status updates |
| `Settle*`, `Ledger*`, `FinancialStatusSettled`, `Release*`, `FulfillmentFailed`, `FailOrder`, `ProvisioningFailed` | bookkeeping and the two error handlers |
| `Fails` | the process dies, or the step throws to the handler its place has |

`createOrder` is the initial state (its choice of an offer is `Catalogue`'s). A failure has no effect
of its own: one that strikes after the effect is a failure of the next step. `shared` is a history
variable: the orders that two requests have served at once. One provider account; offers differ in
price. Left out: `Payment` rows, audit, notifications, referral rewards.

### 2.5 ResellerBalance

| model | code |
|---|---|
| `balance`, `history` | `TenantBalance`, `TenantTransaction` in sequence order (rows are numbered under `lockTenantBalance`) |
| `resv`, `fulfil` | the reservation and the `fulfillmentStatus` of each order |
| `dep`, `pay`, `sent` | the deposit's status, the provider's verdict, webhooks that may be (re)delivered at any time |
| `ledger` | idempotency keys of posted transactions |
| `RouteStart`, `Reserve*`, `ConfirmAndProvision`, `SettleRead`, `PostPurchase`, `MarkSettled`, `RecordPurchase`, `MarkProjection`, `ReleaseRead`, `ReturnFunds` | the orders route and what it calls |
| `ConfirmDepositPayment`, `HandleDepositWebhook`, `ApplyVerdict`, `CreditDepositBalance`, `PostDeposit`, `FinishDeposit` | deposits |
| `PickReservation`, `PickProjection`, `PickDeposit`, `Classify`, `Repair*` | the cron workers; a pick is one due row of one cron run |
| `FulfillmentMoves` | the order's fulfilment as an environment: the moves `Moves` of its state machine |

A reservation counts as stale at any time, so the worker may meet a request still at work: the
threshold is a time the code cannot rely on. One tenant, since its row lock makes tenants independent.
Left out: `reconciliationReason` and `failureReason`. No route calls `handleDepositWebhook` at this
commit; it is modelled as the exported handler it is.

### 2.6 The rest of the money

- **`SaasRenewal`**: subscription, one invoice, its cycle and payment; the payment request, webhook,
  the tenant's confirmation, the renewal and the reconciliation job, all ending in the same posting,
  activation and completion. Left out: free plans, a change of plan, trials.
- **`CustomerCredit`**: a referral's two grants in one transaction that reads each balance without a
  lock, grants by hand, their issuance records and postings, the repair job, spending.
- **`NumberSubscription`**: cycles paid from credit first and by card for the rest, the end of a
  number nobody pays; and, as operators, the postings of every kind of ledger transaction with the
  check `postLedgerTransaction` makes of them.
- **`NumberPurchase`**: payment, the provider's sale, the row, release, messages in and out.
- **`CommerceOrder`**: payment request, webhooks (as soon as the reference is stored, once per event
  row), the shop's button, entitlement, binding, bookings; payouts asked for, approved and paid.
- **`Catalogue`**: a sync's products, offers and prices; a tenant's shelf; `createOrder`'s offer; the
  provider changing a plan's price or what the plan is. `had` and `been` are history: every
  specification a plan's or product's row has had.
- **`OfferSearch`**: ingestion under markup rules, the parser, the ranking, a purchase of what was
  ranked. Scores are in millionths; coordinates are left out.
- **`Suppliers`**: `selectSupplierOffer` and the comparison beside commitments of credit and syncs;
  costs, settlements, invoices, the write-off. Reliability is in thousandths, as the score rounds it.

### 2.7 Access and support

- **`TenantAccess`**: a request's session or key, the tenant it has chosen, the role there, the quota
  and the write are steps of their own, while others change roles, revoke, switch and end.
- **`IncidentLookup`**: the rounds of reads of `resolveTenantForKey` and `lookupIncident`, while
  decisions, actions and sessions are written.


## 3. What the runs check

| run | module, instance | shows |
|---|---|---|
| `provisioning` | `MCProvisioning`, two scenes that share no row. *Crash*: 2 workers, no timing assumption, 1 crash, 1 fault, operator retries. *Reconcile*: 2 workers, reconciler, operators that fail, retry and release, 1 change at the router. Clock to 3 in both | `BoundMeansProvisioned`: a usable binding names the resource the router has; `FenceSpec`: the attempts implement `AttemptFence`; `LegalTransitions`: no interleaving of the four writers makes a forbidden move |
| `repairs` | `MCRepairs`: 2 workers, punctual, 1 crash, 1 fault, lease 3 within a clock to 6; beside them one order paid from a prepaid balance, whose caller and worker may die or fail twice | `LiveWorkerKeepsClaim`; `ClaimSettles`: a claim whose owner died is settled; `OrdersSettle`: neither the settlement nor its purchase row stays undone |
| `reseller_orders` | `MCResellerBalance`: 2 orders of 2 against 3, 2 requests, 1 worker, 1 fault | `AuditTrail`, `SettlementOrder`, `FundsSpec` (implements `PrepaidFunds`) |
| `reseller_deposits` | 1 order, 1 deposit, 2 requests, 1 worker, 1 fault | `MoneyConserved`, `CreditedIsPaid` |
| `order_race` | `MCOrderFulfillment`: 1 order, 2 requests, 2 intents, 1 fault | `DeliveryIsReal`, `PurchaseSpec` (implements `Purchase`) |
| `order_customers` | 2 orders, 2 customers, 2 offers, 1 fault, under `FairSpec` | `CreditCovered`, `SelectionFrozen`, `PaidIsDelivered` |
| `session_workers` | `MCSessionExecution`: the cases of `Workers`, two processes, two decisions or API actions, lapses, a crash, a fault, the cron route | `ReservationsAccounted`, `MakeBeforeBreak` (implements `SessionConnectivity`), `NothingStaysClaimed` |
| `pending_decisions` | the cron route alone | violates `PendingIsExecuted` (section 4) |
| `background` | `MCBackground`, eight parts | `TypeOK`, `AnswersAreTrue`, `VersionChain`, `VerdictIsTrue`, `OutboxesForgetNothing`, `DecisionIsJustified`, `RateLimitKept`, `AnsweredHolds`, `ChangesAndVerdictsCome`, `OutboxesDrain` |
| `billing` | `MCBilling`, four parts | `TypeOK`, `ServedIsPaid`, `ShopIsSquare`, `PaymentsSettle`, `CreditIsBookedOnce` |
| `services` | `MCServices`, twelve parts | `ServedByOwn`, `CatalogueIsTrue`, `WritesAreAllowed`, `NumbersAreTrue`, `OneIncident`, `SupplyIsTrue` |
| `active_sessions` | the same | violates `ActiveIsOwn` (section 4) |

**Instances of several components.** The parts of `MCBackground`, `MCBilling`, `MCServices` and
`MCRepairs` share no row, so nothing is learned from interleaving them. A constant variable `part`
names the one that a behaviour explores; the others stay in their initial state. The state space is the
sum of the parts' spaces, each as large as if it were run alone, and a fairness condition of one part
says nothing of the others because none of their actions is enabled.

**Plans.** A component whose cases differ in what is there before (which decisions, which offers, who
posts what and what may fail) takes a set of plans as a constant and starts from any one of them. A
plan fixes what the environment does and how often it may fail, never the order of anything.

**Properties with parts.** `ServedIsPaid`, `ShopIsSquare`, `PaymentsSettle`, `SupplyIsTrue`,
`ServedByOwn`, `OutboxesForgetNothing` and their like are conjunctions of properties of different
modules or of two sides of one promise; each conjunct carries its own comment where it is defined, and
each has been seen to fail for a bug in its own module. What the less obvious ones say:

| property | parts |
|---|---|
| `AnswersAreTrue` | `AnswersAgree`: an answer is that of a row that ended so for good, for the asker's own payload; `FailedTookNothing`: a FAILED operation took no payment |
| `OutboxesForgetNothing` | `QueuedOnce` (a mutation is applied at most once), `ForgottenIsRecorded` (an observation leaves the phone only when the server has it or rules it out) |
| `ChangesAndVerdictsCome` | `ChangeEvaluatedIfRun`, `VerdictComesOnce` |
| `ServedIsPaid` | `NothingUnpaid` (tenants' plans), `ExtendedIsPaid` (numbers) |
| `ShopIsSquare` | `SoldOnce`, `DrawnIsEarned` (payouts take no more than was earned) |
| `ReservationsAccounted` | `ReservedOnce`, `NoSilentOrphan` |
| `NothingStaysClaimed` | `SlotFreed`, `NeverStuckInFlight` |
| `CatalogueIsTrue` | `OrderAsOffered`, `SyncCopies` |
| `WritesAreAllowed` | `ActedWithRight`, `QuotaHeldAlone` |
| `NumbersAreTrue` | `NumberIsPaidFor`, `MessageKeptOnce` |
| `ServedByOwn` | `OwnBinding`, `RoutersAreAsked`, `AttributedRightly`, `RecoveredRightly`, `ViewIsTrue` |
| `SupplyIsTrue` | `MarketIsTrue` (`PricedByRules`, `RankedFairly`, `BoughtAsQuoted`), `ChosenIsBest`, `SettledOnce` |

**Why the bounds are enough.** Two workers are what a takeover needs: an owner and its successor; the
lease is the smallest that is longer than heartbeat and timeout, and the clock passes it once
(`provisioning`) or twice (`repairs`, for a successor's whole call). Two orders compete for one balance
that fits either; one deposit makes room. Two requests at an order produce every stale write, since a
write depends on one read. One fault anywhere, at every statement, is the failure the handlers are
written for; `repairs` has two so that the repair itself fails once. Orders have two intents in the
race because a webhook of the first may arrive after the second was made; `Ceiling` and `MaxRows`
admit every retry the fault budget allows. A session has at most two jobs at once, because each of its
statements is guarded by what one other process can have changed; two sessions and three resources
are in where resources can be taken from one another. An outbox has as many entries as its bounds and
one more, so that eviction happens; the rate limit has two keys of one tenant and one path, at a limit
one below the requests made; health has as many reports as a verdict needs and one more. Longer lists,
more actors and larger amounts repeat these cases; the theorems of section 5 have none of these bounds.

**Deadlock** checking is off: every program here may stop when all requests have ended and nothing is
due.

**Fairness and why the code justifies it.**
`Provisioning`: a live process runs its statements and its timers (weak fairness of its steps);
recovery is re-driven, which is the deployment's part, since no cron of `vercel.json` calls it; only
finitely many calls fit between two clock readings (`<>(clock = MaxClock)`). A failed statement
excuses `ClaimSettles`, because its cost is one lease more than the horizon has.
`ResellerBalance`: weak fairness of a handler that has started; strong fairness of postings (an
attempt that is repeated for ever succeeds once) and of picks (each cron run, every five minutes,
visits every due row). Clients, provider and fulfilment owe nothing.
`OrderFulfillment`: weak fairness of each request's steps and of `ConfirmAndProvision`: the customer of
an incomplete order keeps asking, as the UI's retry does; the provider's credit lasts (`Ceiling`).
`SessionExecution`: a live process's statements; the cron route is called again and again; a lease
nobody renews lapses. Nobody is obliged to call `executeDecision` or the API.
`MCBackground`: callers finish what they began, cron jobs run again, the app that holds something in an
outbox is opened again. Nothing is assumed of crashes, of a lease that is renewed, of late workers or
of requests whose sender gave up.
`MCBilling`: requests and jobs finish what they began; the job of every five minutes makes all its scans
in each run, so none of them waits for ever while there is something to find (strong fairness of each
scan). Payments, webhooks and customers owe nothing.
`MCServices` checks safety only.

**Conditions in the properties.** Each is there because the code does not keep the promise without it;
most of them are findings (section 4).

- `BoundMeansProvisioned` speaks of a router nobody else edits.
- `CreditCovered` and `SelectionFrozen` speak of orders never served by two requests at once: when two
  are, the account and the frozen choice really drift (`orders/service.ts:863`,
  `provider-credit.ts:310`). Different orders, failures and retries are in. The account may hold more
  than its reservations say: a failure between the hold and the row leaves credit committed that no
  row accounts for, and nothing returns it.
- `MakeBeforeBreak` and `NoSilentOrphan` leave out sessions on which an API action runs, which takes no
  slot. `NoSilentOrphan` speaks of sessions that were activated once: a second ACTIVATE drops the first.
- `FailedTookNothing` leaves out a lease that lapsed under a living executor.
- `DecisionIsJustified` speaks of the price of the offer stored with the decision where a kind of
  resource was named, by the intent or by the session's resource. Where none is named, policy and budget
  are asked about the offer ranked first over all kinds, while the offer stored is the one for the
  chosen resource's kind (`decision-engine.ts:349-409`): nothing bounds its price.
- `ForgottenIsRecorded` excepts reports without a key of their own, which get a new one at each retry.
- `SoldOnce` speaks of orders no second fulfilment ran over, `DrawnIsEarned` of payouts created while
  no other one changed, `SettledOnce` of costs and settlements that no two requests worked at and none
  abandoned, `QuotaHeldAlone` and `MessageKeptOnce` of calls that do not overlap another.
- `RateLimitKept` needs that no request outlives its counter, which is kept for ten minutes.
- `OrderAsOffered` says that the order's product *has been* what the plan *has been*: see the renaming
  in section 4.
- `OneIncident` needs that rows keep their tenant.
- `RecoveredRightly` takes an executor past `RECOVERY_TIMEOUT_MS` for dead and excepts actions whose
  target is gone; `ViewIsTrue` excepts a session that left ACTIVE between two of the reads.

## 4. Where the code and its comments disagree

Two runs find a documented promise violated. `pending_decisions`: the cron route claims a decision,
marks it EXECUTING and then calls `executeDecision`, which returns at once for that state
(`cp/decision-executor.ts:794`, comment at 763); it is reclaimed, claimed again and dead-lettered
without ever being executed.
`active_sessions`: `createEntitlement` is handed the subject by the bridge (`cp/kernel-bridge.ts:249`)
and stores no `userId` (`connectivity/entitlement.ts:231`), so that of an ACTIVE session over a binding
the bridge has made "binding.entitlement.userId = session.subjectId" (`cp/invariant-checker.ts:12`,
asserted at 111) is false. The check that ends the activation reports it, the action ends
RECONCILIATION_REQUIRED and the session stays ACTIVE; `OwnBinding` says what does hold.

The following were met while modelling. Those of the first list were seen as counterexamples of TLC.

- Recovery of a FAILED binding calls a claim that accepts only UNBOUND and PROVISIONING rows and so
  answers `claim_lost` for ever (`entitlement.ts:2106`, promise at 2060); `claim_lost` is what the
  bridge takes for an active binding.
- Revenue is posted before the guarded SETTLED update, so a release in between leaves revenue for
  returned funds (`balance.ts:354`, promise at 442). A deposit in PAYMENT_SUCCEEDED is scanned by no
  worker and refused by the webhook handler (949, promise at 906); one is completed without being
  credited (967).
- A failure after `fulfillmentStatus = success` leaves the reservation unsettled and the ledger
  unposted, since every retry returns at once (`orders/service.ts:755`).
- A cycle of a number left `failed` by a declined payment lets the next renewal set the subscription
  active, unpaid (`subscriptions/service.ts:291`); a retry after the credit ran out charges the card
  the whole price.
- Two deliveries of one commerce webhook fulfil twice; a crash after `paid` is never fulfilled; the
  event of an error is marked processed and its retry ignored; two payouts asked for at once overdraw.
- A shop's order and the payment's reservation read the price at different times
  (`tenant/orders/route.ts:85`, 425); a sync writes back a product status it read before an operator
  changed it; two callers create the same product, as identities are not unique. A plan that changes has
  its product renamed also from under another plan that was the same and did not change, whose next
  order names a product of the other's new specification (`plans/service.ts:456`).
- The action recovery job would die on its first action IN_USE: `correlation` is not defined
  (`cp/action-executor.ts:955`). It has no caller.

Read in the code, and visible in the models as a condition or as an action nobody is obliged to take:

- *Provisioning*: an `in_sync` reconciliation overwrites the takeover marker (`entitlement.ts:928`,
  comment 1342); a failing audit insert takes a BOUND binding to FAILED (`adapter.ts:793`).
- *Balance*: the route releases while the order may be delivered and settles one that is only
  PAYMENT_PENDING (`tenant/orders/route.ts:134`, 150); a repaired purchase row carries the current
  balance (`balance.ts:1324`, comment 1322); a completed deposit can be marked for reconciliation again
  (685); the worker releases RESERVED rows only (1131, comment 1103).
- *Orders*: the answer of a fulfilment transition is ignored (`orders/service.ts:787`), so "only one
  wins" does not stop the loser.
- *Decisions*: a decision is created PENDING by default and marked by a second, unfenced update
  (`cp/reevaluation.ts:416`), which may put a claimed one back. A resource event decides ACTIVATE for a
  session that is DEGRADED or SWITCHING and asks for no budget; two ACTIVATEs leave the first resource
  reserved.
- *Sessions*: an action that loses its slot between verification and the fenced write ends FAILED with
  its target still reserved; a decision's terminal update is unfenced; attempts may exceed the maximum.
- *Events*: `reclaimExpiredClaims` is two unfenced statements (`cp/reevaluation.ts:652`).
- *Idempotency*: `reconcileOperation` answers with an outcome its fenced update did not write
  (`claim.ts:945`); a declined top-up counts as ambiguous; a lapse under a living executor lets a FAILED
  operation pay.
- *Recovery*: a crash before the resource's id was stored becomes FAILED_PERMANENT without asking; a
  404 to PATCH or DELETE counts as success; a POST applied late turns a success into CONFLICT.
- *Bridge*: an entitlement without `userId` is not found again by user either, so each session makes
  another; undefined names at `kernel-bridge.ts:411` and `action-executor.ts:955`.
- *Phones*: `EdgeObservationRecord.deviceId` refers to `EdgeDevice.id` (schema.prisma:2542) while
  `edge-ingestion.ts:353` writes the client's id, so PostgreSQL refuses every one; the model is of the
  code as if the relation named the client's id. A refused observation leaves a gap in the sequence
  below which nothing is acknowledged any more. A hint is taken when the observation starts, so
  A to B to A makes what was seen at B count for A.
- *Health*: `createOrUpdatePolicy` and the stale fence of `policy-context` are unlocked; the freshness
  stored with a snapshot is that of its derivation; `take: 5` is applied before the trust filter.
- *Plans and subscriptions*: a link update moves PAYMENT_CREATING back to PAYMENT_PENDING
  (`saas-subscription.ts:1321`, comment 1398); a failure that overtakes a success turns an active plan
  past_due (1561, 1758); a renewal reactivates a cancelled plan; a declined invoice that is paid later
  takes money and serves nothing; `processDueSaasRenewals` has no handler per tenant.
- *Credit and ledger*: `addCreditInternal` writes an absolute sum unlocked; postings whose cash part is
  below the fee do not balance and stay to be reconciled.
- *Suppliers*: `cooldownUntil`, `healthStatus`, `successCount` and `failureCount` are never written;
  `canProviderCommit` counts the liability, the reservation counts pending amounts too; invoices name
  the provider's account by the supplier's id; costs may be counted by two settlements.
- *Market*: two offers of one wholesale price may rank the dearer first; expired offers and those above
  `maxPrice` are not filtered; markup and offer rows are found and created without a unique key.
- *Tenants*: quotas are checked and then used; an owner can be demoted and then removed; onboarding
  stores e-mail addresses as typed and login looks them up in lower case; the team route includes a
  relation the schema lacks.
- *Numbers and incidents*: a crash after the payment of a number leaves PAYMENT_CONFIRMED with no job; a
  released number can never be bought again; support may see the latest decision of an intent beside an
  older version of it.
- *Access to providers*: one resource with a missing binding makes the whole observation round fail
  (`observation.ts:138`); `probeSession` and `invalidateRouterOSClient` have no caller.

## 5. What is proved

For every set of workers, requests, orders, sessions, phones and keys, every amount, every plan, every
timing that satisfies the assumptions, and every bound on failures. The assumptions are the named
`ASSUME`s of the component modules, which TLC evaluates on every run of those modules:
`TimingAssumption` (lease longer than heartbeat and timeout), that bounds and limits are numbers,
prices positive, plans of the shape their comment gives, and that a null is none of the values.

**Provisioning** (`ProvisioningProofs`). `TypeCorrect`; `FenceRefinement` (`Spec => FenceSpec`);
`AllMovesLegal`; `BoundIsOnRouter`; `LiveWorkersKeepTheirClaims`. The first three rest on types, on
`HasAttempt` (a worker past its claim knows its attempt) and on `FenceInv` (the attempt on the row was
issued and is not settled: without it a grant could repeat an identity); each step keeps, grants or
settles. `AllMovesLegal` goes by the guard each writer has over the status it read. `BoundIsOnRouter`
adds `BoundInv`: a call that succeeded, a PUT under way and an id a worker has in hand name the
router's resource. Its hypothesis is that no operator declares a PROVISIONING binding BOUND, which the
transition table allows and which does break the property. `LiveWorkersKeepTheirClaims` is stated under
`OnTime`: punctual timers, nobody but workers moves the row. `KeepInv` says that attempts in the hands
of two workers differ, that a clock reading in use is not too old (`Fresh`) and that the lease on the
row outlives the call and its timeout (`Kept`); only `OpTimeout < Lease` is needed.

**Prepaid balance** (`ResellerBalanceProofs`). `TypeCorrect` with `Shapes` (what a caller has at hand
where it is). `FundsRefinement` from the lemma `Writers`, which names the few steps that touch money.
`AuditableBalance` (also `Solvent`). `SettlementOrdered` needs `Stages`, what was done before a caller
got where it is, together with `Monotone`: nothing a stage left behind is taken back.
`OnlyPaidIsCredited` needs `Beliefs`: what a deposit's status, a webhook and a caller's place say of the
payment. `MoneyIsConserved` is about sums over the orders and deposits that hold money: `FundsInv` keeps
those sets finite, and each step changes one term.

**Orders** (`OrderFulfillmentProofs`). One inductive invariant: `TypeOK`, `RowFacts` (what an order row
says of the payment is so at the provider), `AllFacts` (what a request may rely on where it is),
`DeliveryIsReal`. The facts are stable because the state they mention only grows (`FactsGrow`). From it
`TypeCorrect`, `DeliveryReal`, `PurchaseRefinement`. `ChosenOnce` adds `Alone`: two requests at one
order have marked it as shared, so what the only one has read still stands until it writes it.
`CreditIsCovered` adds `Covered`: the pending amount covers the reserved rows and what every request
holds between the increment and its row.

**Sessions** (`ControlProofs`). `SessionsTyped`, `ReservesOnce`,
`ReservationsHaveAnAction`, `BreaksAfterMaking`. The invariant has three layers. Types of rows and of
each call's locals where it uses them. Then the slot: at most one API call acts on a session at a time,
an action that is still PLANNED has reserved nothing (`NotYet`), no action comes back to PLANNED, and
so each reserves once; whoever holds the slot is the only one to move the session (`PrevIsActive`,
`Stand`) and its target is its own until it is used (`TargetHeld`). Then, for sessions activated once
(`ActivatesTheIdle`), what a session holds beside the resource it stands on is covered by a call still
at work or by an action that did not report success. Most steps are `Forward`: they reserve nothing and
move no session. The three that do more are lemmas of their own. The refinement maps a session's phase
and what it stands on and holds; every step stutters, enters, seats, uses or drops.

**Operations** (`OperationProofs`). `TopUpTyped`, `TopUpAnswersAreTrue`: `OpInv` adds that whoever
executes holds the claim or has lost it for good, that a poller found a row, that a reconciler's verdict
comes after the lease, and who paid. `VerdictsAreTrue`, `VerdictsAreFinal`: `RecInv` ties each record
to what its call has done at the router and to what a recovery run has seen there. `SupplierAnswersHold`:
`SupInv` says that a call ends once, that identifiers are those the supplier made, and that every
request on the wire is of a call and can undo nothing acknowledged.
`IntentVersionsFormAChain` rests on `EventInv`: a transaction that supersedes still sees the version
it read as the newest.

**Incident lookup** (`OperationProofs`). `IncidentIsOne`: `IncidentInv` says that there is an owner of
each intent to whom all rows keep (`BookFits`), that a lookup past its first read was led to a row of
the caller's, and that what it has found hangs together (`ChainFits`, `AroundFits`, `OpsFound`); rows
are only added, and by an owner. `IncidentAssumption` asks the same of the rows there are at first: each
decision, action, operation and binding is of the tenant of what it refers to. Of rows that break this
(written by hand) a lookup would answer a mixture.

**Decisions made** (`OperationProofs`). `DecisionsAreJustified`: `DecInv` says that a report has one row
and none is of the future (`ReportsPast`), that what a derivation read holds for good, however late it
is written or used, since rows and trust stay as they are (`HealthHolds`), that an evaluation works with
a version of the policy the user has had or with the default, and that there is a best candidate wherever
there is one. For a named kind the stored offer is the one that was asked about (`TargetIsTop`).
`HealthAssumption` and `DecisionAssumption` bound the data at first: finitely many reports, edits and
resources, prices and clocks that are numbers.

**Outboxes** (`OperationProofs`). `OutboxesAreKept`: a mutation leaves the outbox when it had its one
effect, an observation when it is recorded. `OutboxInv` says what a flush may rely on for the entries it
loaded (`FlushesFit`), that an entry that is out was taken by the server (`EntriesFit`), and what the
server has made of the requests on the wire (`ServerFits`). For observations each number up to the last
is held, recorded or lost (`Remembered`), measured at most once and then recorded (`MeasuredOnce`), and
two uploads never project the same one (`UploadsFit`). `OutboxAssumption` gives the plans their types.

**Billing** (`BillingProofs`, about `MCBilling`, whose parts share no row). `BillingInv` is `SaasInv`,
`NumberInv` (over `CreditInv`), `SaleInv` and `PayoutInv`; `TypeCorrect` is its types.
`NobodyIsServedUnpaid` rests on `SaasFacts` and `WorkerFits` (who posts was told of a payment that
succeeded, and a cycle past its first state has an invoice) and, for numbers, on `PaidFacts` and
`RenewerFits`. `RewardsAreGrantedOnce` on `RecordsAgree` (the records of a use are made together, each
with its grant) and `CallerFits` (who holds the claim of a use holds it alone, before any grant).
`ShopsAreSquare` on `OrderFits` and `RowFits`: while nobody wrote over an order's status unguarded, one
request serves it, and its books (`BooksFit`) are those of what that request has done; and on
`BalanceIsCovered`: what an undisturbed payout has read is still earned and not drawn, a comparison of
sums over the shop's rows (`SumLaws`). `SaasAssumption`, `RewardAssumption`, `RecipientsAssumption`,
`OwnerAssumption`, `NumberAssumption`, `SaleAssumption` and `PayoutAssumption` give plans, prices and
owners their types.

**Rate limit** (`ControlProofs`). `LimitsAreKept`: `RateInv` says that a counter holds the requests
counted at it (two ways to count one set, kept equal by bijections), and that a sensitive request past a
scope was counted there.

**Numbers** (`ServiceProofs`). `NumbersStayTrue`: `LineInv` has what the provider sold under each order
(`SoldApart`), what a purchase and a release may rely on where they are (`BuysInOrder`,
`GivesBackInOrder`), that a row is of one paid order for ever, and that of a message whose deliveries
never overlapped one finds no row before it writes one (`DeliveredApart`). `LineAssumption`: a message
that is sent gets an id from the provider that no message that comes in has.

**Who serves a session** (`ServiceProofs`, about `MCServices`, of whose parts one moves at a time).
`SessionsAreServedByTheirOwn`: `ServedInv` is the conjunction of five. `BridgeInv`: the resource a call
works on is held for its session, the row it has in hand is of the resource's tenant and provider and
of the session's subject or made for it, a row made for one session is answered to that one alone, and
an activation succeeds only over the subject's own.
`RouteInv`: whatever a call has read of an instance was in force at some version since it began
(`Versioned`), also while operators rotate keys and swap instances; and a round has tried a resource,
with what it has left to try, no more often than it found sessions on it, and leaves out none that stays
in service (`RoundFits`, a count over pairs). `EdgeInv`: an
upload past its checks is of its device's owner, carries what it read of the session, and no
observation is recorded twice. `RecoveryInv`: when a run is about to settle an action as
FAILED, its session holds the target no more and does not switch (`RescueFits`). `ViewInv`: a session that
stands or switches uses what it is on (`SitFits`), a request past the chain saw the account to be its
user's, and one that a request did not find using its
resource has given it back for good (`ScreenFits`). `BridgeAssumption`, `RouteAssumption`,
`EdgeAssumption`, `RecoveryAssumption` and `ViewAssumption` say the like of the rows of the beginning: a
binding names an instance of its own tenant or none, resources name bindings, requests name sessions
and devices that there are. The code that made these rows is not part of these models: of a binding
written by hand to another tenant's instance the property would be false.

**Tenant access** (`ControlProofs`). `WritesStayAllowed`: `AccessInv` says that a request past its
checks had one of the rights its route asks for (`Cleared`), that what its user is in each tenant counts
among the rights it has had (`HoldsNow`), who founded each tenant and what it has by each step of the
sign-up, and that of requests that fill a quota unaccompanied there is one, which finds room
(`QuotaHolds`). `AccessAssumption` describes the rows of the beginning: a member has a role and a row,
belongs to a tenant that was founded, tenants are within their quotas, and what requests will make is
not there yet.

**Catalogue** (`OrderFulfillmentProofs`). `CatalogueHolds`: a plan's row and a product forget no
specification they have had (`PlansGrow`, `ProductsGrow`), so that the product a call has found has
been one of the plan's (`FoundFits`) for as long as the call holds it, whoever renames products or
changes plans meanwhile. Prices of active offers were offered (`ActiveOffered`), and a sync without
another writer has copied every plan it has passed (`SyncFits`). `CatalogueAssumption`: a sync is for
every plan, a row of the beginning has had the specification it has, and the product of a plan has been
one that the plan was (`SourceFits`): sync and order make no other, also for a plan that the provider
has changed since, and for two plans that were one. The property says *has been*: when a plan becomes
what no other is, its sync renames the product that it owns, also from under another plan that was the
same and has not changed. An order of that other plan, or its own sync in the same run, may then be left
with the renamed product (`GivenAway`) until the next order or sync makes it another.

**Sums** (`SumLaws`). A sum over a finite set is a fold; that it does not depend on the order, and that
changing one term changes the sum by the difference, is proved by a least counterexample over the size
of the set. Induction theorems of the library cannot be instantiated here, well-founded minima can.

**Only model-checked.** All liveness: `ClaimSettles`, `OrdersSettle`, `PaidIsDelivered`,
`NothingStaysClaimed`, `ChangesAndVerdictsCome`, `OutboxesDrain`, `PaymentsSettle`,
`CreditIsBookedOnce` are out of the prover's reach. Of the invariants, `SupplyIsTrue`
and the type invariant of `MCBackground` have no proof yet.

## 6. What is not modelled

`PROJECT.json` gives the reason for each component left out: web pages and the mobile app's screens,
shared packages, routing, analytics and notifications, the payment providers' HTTP clients and install
tokens, usage readings, capability queries, schema and migrations, build files, scripts, documents and
`skills/`. Within the modelled components: capabilities and provider instances of a binding,
currencies and FX, refunds, several provider accounts, the text of errors, audits and notifications.
Formatting, validation of input and HTTP details are left out for good.

## 7. Plan

1. A proof of `SupplyIsTrue`: that the cheapest of what was offered is ranked first and bought as quoted.
2. The orders route as a composition: `OrderFulfillment` in place of the environment of
   `ResellerBalance`.
