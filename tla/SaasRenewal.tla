------------------------------ MODULE SaasRenewal ------------------------------
(***************************************************************************)
(* One tenant's SaaS subscription and one invoice of it, the first or that *)
(* of a renewal: the payment request, the webhook, the tenant's own        *)
(* confirmation, the renewal job and the reconciliation job, all of them   *)
(* ending in the same posting, activation and completion.                  *)
(*                                                                         *)
(* Source: src/src/lib/tenant/saas-subscription.ts and its routes. One     *)
(* statement or transaction is one step; a transaction is atomic.          *)
(***************************************************************************)
EXTENDS Naturals

CONSTANTS
  Worker,     \* requests and cron runs at work on the subscription
  SaasPlans   \* first or renewal, which answers bear a date, the bounds

ASSUME SaasAssumption ==
  /\ SaasPlans # {}
  /\ SaasPlans \subseteq
       [first : BOOLEAN, dates : SUBSET {"verify", "webhook"},
        bounds : [calls : Nat, deliveries : Nat, declines : Nat, slow : Nat, faults : Nat]]

RR == "reconciliation_required"

VARIABLES
  sub,       \* TenantSubscription: status, and the end of the paid period
  cycle,     \* SaasRenewalCycle: state, is its invoice linked, was it last
             \* updated five minutes ago?
  invoice,   \* TenantInvoice: status, is it the first, providerReference,
             \* paidAt, was it created five minutes ago?
  ledger,    \* is there a ledger transaction for the invoice?
  payment,   \* the provider's intent: one per idempotency key
  events,    \* what the provider's webhooks say
  worker,    \* program counter and locals
  dates,     \* which of the provider's answers bear paidAt
  saasLeft   \* bounds left: requests, webhooks, declined attempts, slow
             \* workers, faults

saasVars == <<sub, cycle, invoice, ledger, payment, events, worker, dates, saasLeft>>

Kind == {"none", "renew", "retry", "webhook", "confirm", "due", "creating",
         "stuck", "subs", "resolve", "subscribe"}
Pc == {"idle", "row", "bill", "invoice", "link", "claim", "wait", "create",
       "persist", "verify", "fail", "demote", "settle", "confirm", "activate",
       "post", "paid", "initial", "complete", "mark", "unstick",
       "ambiguous", "adopt"}
Report == {"pending", "failed", "succeeded"}

SaasTypeOK ==
  /\ sub \in [status : {"none", "pending_payment", "active", "past_due", "cancelled", RR},
              until : {"epoch", "ended", "current"}]
  /\ cycle \in [state : {"none", "PENDING", "PAYMENT_PENDING", "PAYMENT_CREATING",
                         "PAYMENT_CONFIRMED", "FINANCIAL_POSTED", "PAST_DUE",
                         "AMBIGUOUS_PAYMENT", "RECONCILIATION_REQUIRED", "COMPLETED"},
                linked : BOOLEAN, old : BOOLEAN]
  /\ invoice \in [status : {"absent", "pending", "paid", "failed", RR}, first : BOOLEAN,
                  ref : BOOLEAN, paidAt : BOOLEAN, old : BOOLEAN]
  /\ ledger \in BOOLEAN
  /\ payment \in {"none", "open", "declined", "succeeded"}
  /\ events \subseteq Report /\ dates \subseteq {"verify", "webhook"}
  /\ worker \in [Worker -> [pc : Pc, kind : Kind, seen : {"none", "pending", "paid", "failed", RR},
                            report : Report, verified : BOOLEAN, dated : BOOLEAN]]
  /\ saasLeft \in [calls : Nat, deliveries : Nat, declines : Nat, slow : Nat,
                faults : Nat]

Resting == [pc |-> "idle", kind |-> "none", seen |-> "none", report |-> "pending",
            verified |-> FALSE, dated |-> FALSE]

SaasInitOf(plan) ==
  /\ sub = IF plan.first THEN [status |-> "none", until |-> "epoch"]
                         ELSE [status |-> "active", until |-> "ended"]
  /\ cycle = [state |-> "none", linked |-> FALSE, old |-> FALSE]
  /\ invoice = [status |-> "absent", first |-> plan.first, ref |-> FALSE,
                paidAt |-> FALSE, old |-> FALSE]
  /\ ledger = FALSE /\ payment = "none" /\ events = {}
  /\ worker = [w \in Worker |-> Resting]
  /\ dates = plan.dates /\ saasLeft = plan.bounds

SaasInit == \E plan \in SaasPlans : SaasInitOf(plan)

-----------------------------------------------------------------------------

At(w, pc) == worker[w].pc = pc
Is(w, kinds) == worker[w].kind \in kinds
Goes(w, pc) == worker' = [worker EXCEPT ![w].pc = pc]
Rests(w) == worker' = [worker EXCEPT ![w] = Resting]
Begins(w, kind, pc) ==
  At(w, "idle") /\ worker' = [worker EXCEPT ![w].pc = pc, ![w].kind = kind]

Spends(bound) == saasLeft[bound] > 0 /\ saasLeft' = [saasLeft EXCEPT ![bound] = @ - 1]

Becomes(status) == invoice' = [invoice EXCEPT !.status = status]
\* Every update of the row renews updatedAt.
CycleTo(state) == cycle' = [cycle EXCEPT !.state = state, !.old = FALSE]
MoveCycle(from, to) == IF cycle.state \in from THEN CycleTo(to) ELSE UNCHANGED cycle
NotYetPosted == {"pending", RR}

OnlyWorker == UNCHANGED <<sub, cycle, invoice, ledger, payment, events, dates, saasLeft>>
ButSub == UNCHANGED <<cycle, invoice, ledger, payment, events, dates, saasLeft>>
ButCycle == UNCHANGED <<sub, invoice, ledger, payment, events, dates, saasLeft>>
ButInvoice == UNCHANGED <<sub, cycle, ledger, payment, events, dates, saasLeft>>
OnlyBounds == UNCHANGED <<sub, cycle, invoice, ledger, payment, events, dates>>

-----------------------------------------------------------------------------
(* The tenant: createSubscriptionIntent, cancelSubscription; and the       *)
(* customer at the provider's page. A request whose key has an invoice     *)
(* already is answered from it.                                            *)

OpenIntent == payment' = IF payment = "none" THEN "open" ELSE payment

CreateSubscriptionIntent(w) ==
  /\ sub.until = "epoch" /\ invoice.status = "absent"
  /\ Begins(w, "subscribe", "row") /\ Spends("calls") /\ OpenIntent
  /\ UNCHANGED <<sub, cycle, invoice, ledger, events, dates>>

UpsertSubscription(w) ==
  /\ At(w, "row") /\ Goes(w, "bill")
  /\ sub' = [status |-> "pending_payment", until |-> "epoch"]
  /\ ButSub

\* The key is unique: the second of two creations throws.
CreateInvoice(w) ==
  /\ At(w, "bill") /\ Rests(w)
  /\ invoice' = IF invoice.status = "absent"
                  THEN [invoice EXCEPT !.status = "pending", !.ref = TRUE] ELSE invoice
  /\ ButInvoice

CancelSubscription ==
  /\ sub.status \notin {"none", "cancelled", RR} /\ Spends("calls")
  /\ sub' = [sub EXCEPT !.status = "cancelled"]
  /\ UNCHANGED <<cycle, invoice, ledger, payment, events, worker, dates>>

\* A declined attempt is not the end: the same intent can be paid afterwards.
Customer ==
  /\ payment \in {"open", "declined"} /\ (invoice.first => invoice.ref)
  /\ \/ /\ payment = "open" /\ payment' = "declined" /\ events' = events \cup {"failed"}
        /\ Spends("declines")
     \/ /\ payment' = "succeeded" /\ events' = events \cup {"succeeded"}
        /\ UNCHANGED saasLeft
  /\ UNCHANGED <<sub, cycle, invoice, ledger, worker, dates>>

-----------------------------------------------------------------------------
(* renewSubscription, up to the provider's answer.                         *)

\* What the cron job selects: processDueSaasRenewals.
RenewalDue == sub.status \in {"active", "past_due"} /\ sub.until = "ended"

\* The cycle of this period is found or created, and decides what is left to do.
RenewSubscription(w) ==
  LET state == cycle.state IN
  /\ RenewalDue
  /\ state \notin {"AMBIGUOUS_PAYMENT", "PAST_DUE"}
  /\ CASE state = "COMPLETED" -> Begins(w, "stuck", "complete")
       [] state \in {"RECONCILIATION_REQUIRED", "FINANCIAL_POSTED"} ->
            Begins(w, "retry", "activate")
       [] OTHER -> Begins(w, "renew", "invoice")
  /\ MoveCycle({"none"}, "PENDING") /\ ButCycle

UpsertInvoice(w) ==
  LET status == IF invoice.status = "absent" THEN "pending" ELSE invoice.status IN
  /\ At(w, "invoice")
  /\ IF status = "paid"
       THEN Goes(w, "complete") /\ cycle' = [cycle EXCEPT !.linked = TRUE]
       ELSE /\ worker' = [worker EXCEPT ![w].pc = "link", ![w].seen = status]
            /\ UNCHANGED cycle
  /\ Becomes(status)
  /\ UNCHANGED <<sub, ledger, payment, events, dates, saasLeft>>

\* One update links the invoice, a second marks a payment taken before; only
\* COMPLETED, RECONCILIATION_REQUIRED and PAYMENT_PENDING are left as they are.
\* Then the reference is read, and reused if there is one.
LinkCycle(w) ==
  LET taken == worker[w].seen = RR IN
  /\ At(w, "link")
  /\ Goes(w, IF taken THEN "activate" ELSE IF invoice.ref THEN "verify" ELSE "claim")
  /\ cycle' = IF cycle.state \in {"COMPLETED", "RECONCILIATION_REQUIRED"} THEN cycle
              ELSE [state |-> IF taken THEN "FINANCIAL_POSTED" ELSE "PAYMENT_PENDING",
                    linked |-> TRUE, old |-> FALSE]
  /\ ButCycle

\* PAYMENT_PENDING -> PAYMENT_CREATING, for one worker.
ClaimCreation(w) ==
  /\ At(w, "claim")
  /\ Goes(w, IF cycle.state = "PAYMENT_PENDING" THEN "create" ELSE "wait")
  /\ MoveCycle({"PAYMENT_PENDING"}, "PAYMENT_CREATING") /\ ButCycle

\* The last of the ten seconds' polls.
AwaitReference(w) ==
  /\ At(w, "wait") /\ (IF invoice.ref THEN Goes(w, "verify") ELSE Rests(w))
  /\ OnlyWorker

CreatePaymentIntent(w) ==
  /\ At(w, "create") /\ Goes(w, "persist") /\ OpenIntent
  /\ UNCHANGED <<sub, cycle, invoice, ledger, events, dates, saasLeft>>

PersistReference(w) ==
  /\ At(w, "persist") /\ Goes(w, "verify")
  /\ invoice' = [invoice EXCEPT !.ref = TRUE]
  /\ ButInvoice

AnswersLoosely(w) ==     \* mutant: what has not failed is taken for paid
  CASE Is(w, {"resolve"}) /\ ~invoice.ref -> {"failed"}
    [] payment = "declined"               -> {"failed", "succeeded"}
    [] OTHER                              -> {"succeeded"}

\* What verifyPayment may say. Providers report a declined payment as failed or as
\* pending. An invoice without a reference has no provider either: its payment is
\* asked of the mock provider, which does not know it.
Answers(w) ==
  CASE Is(w, {"resolve"}) /\ ~invoice.ref -> {"failed"}
    [] payment = "succeeded"              -> {"succeeded"}
    [] payment = "declined"               -> {"failed", "pending"}
    [] OTHER                              -> {"pending"}

AfterAnswer(w, answer) ==
  CASE Is(w, {"resolve"}) -> IF answer = "pending" THEN "idle" ELSE "adopt"
    [] answer = "failed"  -> "fail"
    [] answer = "pending" -> IF Is(w, {"renew"}) THEN "demote" ELSE "idle"
    [] Is(w, {"renew"})   -> "confirm"
    [] OTHER              -> "activate"

\* The reconciliation job takes a payment for verified only if the answer has a date.
VerifyPayment(w) ==
  LET dated == "verify" \in dates IN
  /\ At(w, "verify")
  /\ \E answer \in Answers(w) :
       IF AfterAnswer(w, answer) = "idle" THEN Rests(w)
       ELSE worker' = [worker EXCEPT
              ![w].pc = AfterAnswer(w, answer), ![w].report = answer,
              ![w].verified = answer = "succeeded" /\ (Is(w, {"due"}) => dated),
              ![w].dated = answer = "succeeded" /\ dated]
  /\ OnlyWorker

-----------------------------------------------------------------------------
(* A payment that failed or is pending.                                    *)

FailUnguarded(w) ==     \* mutant: failed whatever the invoice has become
  /\ At(w, "fail") /\ Goes(w, "demote")
  /\ Becomes("failed") /\ ButInvoice

\* Only a pending invoice fails; the webhook alone goes on when it did not.
FailInvoice(w) ==
  LET pending == invoice.status = "pending" IN
  /\ At(w, "fail")
  /\ IF pending \/ Is(w, {"webhook"}) THEN Goes(w, "demote") ELSE Rests(w)
  /\ Becomes(IF pending THEN "failed" ELSE invoice.status) /\ ButInvoice

DemoteSubscription(w) ==
  /\ At(w, "demote") /\ (IF Is(w, {"renew"}) THEN Goes(w, "settle") ELSE Rests(w))
  /\ sub' = [sub EXCEPT !.status = IF @ \in {"active", "pending_payment"}
                                     THEN "past_due" ELSE @]
  /\ ButSub

SettleCycle(w) ==
  /\ At(w, "settle") /\ Rests(w)
  /\ IF worker[w].report = "pending"
       THEN MoveCycle({"PAYMENT_CREATING"}, "PAYMENT_PENDING")
       ELSE IF cycle.state = "COMPLETED" THEN UNCHANGED cycle ELSE CycleTo("PAST_DUE")
  /\ ButCycle

ConfirmCycle(w) ==
  /\ At(w, "confirm") /\ Goes(w, "activate")
  /\ MoveCycle({"PAYMENT_CREATING", "PAYMENT_PENDING"}, "PAYMENT_CONFIRMED")
  /\ ButCycle

-----------------------------------------------------------------------------
(* activateSubscriptionAndPostLedger, and what each caller does next.      *)

\* Who completes the cycle after an activation, and who marks it when the
\* completion, or the activation itself, did not come about.
Completing == {"renew", "retry", "webhook", "due", "resolve"}
MarkingCompletion == {"renew", "retry", "webhook", "due"}

Activated(w) == IF Is(w, Completing) THEN Goes(w, "complete") ELSE Rests(w)
NotActivated(w) == IF Is(w, {"renew"}) THEN Goes(w, "mark") ELSE Rests(w)
NotCompleted(w) == IF Is(w, MarkingCompletion) THEN Goes(w, "mark") ELSE Rests(w)

\* Nothing is posted for a pending invoice nobody verified; a failed one throws.
ReadInvoice(w) ==
  LET status == invoice.status IN
  /\ At(w, "activate")
  /\ CASE status = "pending" /\ ~worker[w].verified -> NotActivated(w)
       [] status = "failed" -> Rests(w)
       [] OTHER -> worker' = [worker EXCEPT ![w] = [Resting EXCEPT
                     !.pc = IF status = "paid" THEN "initial" ELSE "post",
                     !.kind = worker[w].kind, !.seen = status, !.dated = worker[w].dated]]
  /\ OnlyWorker

\* paidAt is written once, and not any more on a paid invoice; then the ledger is
\* posted. When that fails the invoice is put aside, if that update succeeds.
PostLedger(w) ==
  LET unposted == invoice.status \in NotYetPosted
      Stamped(status) == invoice' = [invoice EXCEPT !.status = status,
                                       !.paidAt = @ \/ (worker[w].dated /\ unposted)] IN
  /\ At(w, "post")
  /\ \/ /\ Goes(w, "paid") /\ ledger' = TRUE
        /\ Stamped(invoice.status) /\ UNCHANGED saasLeft
     \/ /\ NotActivated(w) /\ Spends("faults") /\ UNCHANGED ledger
        /\ \E status \in {IF unposted THEN RR ELSE invoice.status, invoice.status} :
             Stamped(status)
  /\ UNCHANGED <<sub, cycle, payment, events, dates>>

MarkPaid(w) ==
  LET mine == invoice.status \in NotYetPosted IN
  /\ At(w, "paid")
  /\ IF mine THEN Goes(w, "initial")
             ELSE IF invoice.status = "paid" THEN Activated(w) ELSE NotActivated(w)
  /\ Becomes(IF mine THEN "paid" ELSE invoice.status) /\ ButInvoice

\* activateInitialSaasSubscription, for a subscription still waiting for its
\* payment. A renewal's invoice has its period, the first takes it from paidAt.
\* Who has just posted needs paidAt before the subscription is looked at.
\* Neither the caller nor the invoice knows when the money came.
Undated(w) == ~worker[w].dated /\ ~invoice.paidAt /\ worker[w].seen # "paid"
\* A period is on the invoice already, or follows from its paidAt.
PeriodKnown == invoice.first => invoice.paidAt

ActivateInitial(w) ==
  LET waiting == sub.status \in {"pending_payment", RR} IN
  /\ At(w, "initial")
  /\ \/ /\ Undated(w) /\ NotActivated(w) /\ UNCHANGED <<sub, saasLeft>>
     \/ /\ ~Undated(w) /\ ~waiting /\ Activated(w) /\ UNCHANGED <<sub, saasLeft>>
     \/ /\ ~Undated(w) /\ waiting /\ ~PeriodKnown
        /\ NotActivated(w) /\ UNCHANGED <<sub, saasLeft>>
     \/ /\ ~Undated(w) /\ waiting /\ PeriodKnown
        /\ sub' = [status |-> "active", until |-> "current"]
        /\ Activated(w) /\ UNCHANGED saasLeft
     \/ /\ ~Undated(w) /\ waiting /\ Spends("faults") /\ NotActivated(w)
        /\ sub' = [sub EXCEPT !.status = RR]
  /\ UNCHANGED <<cycle, invoice, ledger, payment, events, dates>>

-----------------------------------------------------------------------------
(* completeSaasRenewalCycle.                                               *)

\* Subscription and cycle in one transaction, whatever the subscription's status;
\* a completed cycle repairs only a period that is behind.
CompleteCycle(w) ==
  /\ At(w, "complete")
  /\ \/ /\ ~(cycle.linked /\ invoice.status = "paid")
        /\ NotCompleted(w) /\ UNCHANGED <<sub, cycle, saasLeft>>
     \/ /\ cycle.linked /\ invoice.status = "paid" /\ Rests(w)
        /\ sub' = IF cycle.state = "COMPLETED" /\ sub.until = "current" THEN sub
                  ELSE [status |-> "active", until |-> "current"]
        /\ CycleTo("COMPLETED") /\ UNCHANGED saasLeft
     \/ /\ cycle.linked /\ Spends("faults")
        /\ NotCompleted(w) /\ UNCHANGED <<sub, cycle>>
  /\ UNCHANGED <<invoice, ledger, payment, events, dates>>

MarkCycle(w) ==
  /\ At(w, "mark") /\ Rests(w)
  /\ IF cycle.state \in {"none", "COMPLETED"} THEN UNCHANGED cycle
                                            ELSE CycleTo("RECONCILIATION_REQUIRED")
  /\ ButCycle

-----------------------------------------------------------------------------
(* handleSaasPaymentWebhook, confirmSubscriptionPayment,                   *)
(* resolveAmbiguousPayment.                                                *)

\* An event may come late, twice or after another; one that finds the invoice paid
\* does nothing, nor does a failure of a payment verified before.
Webhook(w) ==
  /\ invoice.ref /\ invoice.status # "paid" /\ Spends("deliveries")
  /\ \/ /\ "succeeded" \in events /\ At(w, "idle")
        /\ worker' = [worker EXCEPT ![w].pc = "activate", ![w].kind = "webhook",
                         ![w].verified = TRUE, ![w].dated = "webhook" \in dates]
     \/ /\ "failed" \in events /\ invoice.status # RR
        /\ Begins(w, "webhook", "fail")
  /\ OnlyBounds

ConfirmSubscriptionPayment(w) ==
  /\ sub.status # "active" /\ invoice.status = "pending" /\ invoice.ref
  /\ Begins(w, "confirm", "verify") /\ Spends("calls") /\ OnlyBounds

ResolveAmbiguousPayment(w) ==
  /\ cycle.state = "AMBIGUOUS_PAYMENT" /\ cycle.linked
  /\ Begins(w, "resolve", "verify") /\ Spends("calls") /\ OnlyBounds

\* paidAt, the claim of the cycle and the reference, which is there already.
AdoptReference(w) ==
  LET mine == cycle.state = "AMBIGUOUS_PAYMENT" IN
  /\ At(w, "adopt")
  /\ IF worker[w].report = "failed"
       THEN /\ Rests(w) /\ MoveCycle({"AMBIGUOUS_PAYMENT"}, "PENDING")
            /\ UNCHANGED invoice
       ELSE /\ (IF mine THEN Goes(w, "activate") ELSE Rests(w))
            /\ MoveCycle({"AMBIGUOUS_PAYMENT"}, "PAYMENT_PENDING")
            /\ invoice' = [invoice EXCEPT !.paidAt = @ \/ worker[w].dated]
  /\ UNCHANGED <<sub, ledger, payment, events, dates, saasLeft>>

-----------------------------------------------------------------------------
(* processDueSaasFinancialReconciliation: its four scans.                  *)

DueOnlyPosted(w) ==     \* mutant: a pending payment is nobody's
  /\ invoice.status = RR /\ Begins(w, "due", "activate") /\ OnlyWorker

DueInvoice(w) ==
  /\ \/ invoice.status = RR /\ Begins(w, "due", "activate")
     \/ invoice.status = "pending" /\ invoice.old /\ invoice.ref /\ Begins(w, "due", "verify")
  /\ OnlyWorker

StuckCreating(w) ==
  /\ cycle.state = "PAYMENT_CREATING" /\ cycle.old
  /\ Begins(w, "creating", IF invoice.ref THEN "unstick" ELSE "ambiguous")
  /\ OnlyWorker

Unstick(w) ==
  /\ At(w, "unstick") \/ At(w, "ambiguous")
  /\ Rests(w)
  /\ MoveCycle({"PAYMENT_CREATING"},
               IF At(w, "unstick") THEN "PAYMENT_PENDING" ELSE "AMBIGUOUS_PAYMENT")
  /\ ButCycle

StuckCycle(w) ==
  /\ cycle.state = "RECONCILIATION_REQUIRED" /\ invoice.status = "paid"
  /\ Begins(w, "stuck", "complete") /\ OnlyWorker

StuckSubscription(w) ==
  /\ sub.status = RR /\ invoice.status = "paid"
  /\ Begins(w, "subs", "activate") /\ OnlyWorker

-----------------------------------------------------------------------------
(* Time and failures.                                                      *)

InvoiceAges ==
  /\ invoice.status = "pending" /\ invoice.ref /\ ~invoice.old
  /\ invoice' = [invoice EXCEPT !.old = TRUE]
  /\ UNCHANGED worker /\ ButInvoice

\* Five minutes in PAYMENT_CREATING; few creators are alive that long.
CycleAges ==
  LET alive == \E w \in Worker : At(w, "create") \/ At(w, "persist") IN
  /\ cycle.state = "PAYMENT_CREATING" /\ ~cycle.old
  /\ cycle' = [cycle EXCEPT !.old = TRUE]
  /\ IF alive THEN Spends("slow") ELSE UNCHANGED saasLeft
  /\ UNCHANGED <<sub, invoice, ledger, payment, events, worker, dates>>

\* The process dies, or a statement throws what nobody catches.
WorkerStops(w) ==
  /\ ~At(w, "idle") /\ Rests(w) /\ Spends("faults") /\ OnlyBounds

Works(w) ==
  \/ UpsertSubscription(w) \/ CreateInvoice(w)
  \/ UpsertInvoice(w) \/ LinkCycle(w) \/ ClaimCreation(w)
  \/ AwaitReference(w) \/ CreatePaymentIntent(w) \/ PersistReference(w)
  \/ VerifyPayment(w) \/ FailInvoice(w) \/ DemoteSubscription(w) \/ SettleCycle(w)
  \/ ConfirmCycle(w) \/ ReadInvoice(w) \/ PostLedger(w)
  \/ MarkPaid(w) \/ ActivateInitial(w) \/ CompleteCycle(w) \/ MarkCycle(w)
  \/ AdoptReference(w) \/ Unstick(w)

Requested(w) == CreateSubscriptionIntent(w) \/ Webhook(w)
                \/ ConfirmSubscriptionPayment(w) \/ ResolveAmbiguousPayment(w)

SaasNext ==
  \/ \E w \in Worker :
       \/ Requested(w) \/ Works(w) \/ WorkerStops(w)
       \/ RenewSubscription(w) \/ DueInvoice(w) \/ StuckCreating(w)
       \/ StuckCycle(w) \/ StuckSubscription(w)
  \/ CancelSubscription \/ Customer \/ InvoiceAges \/ CycleAges

SaasSpec == SaasInit /\ [][SaasNext]_saasVars

-----------------------------------------------------------------------------
(* Properties.                                                             *)

\* No revenue and no service without a payment that succeeded, however requests,
\* webhooks and jobs cross ("prevents ambiguous payment states from becoming
\* recognized revenue", saas-subscription.ts:386).
NothingUnpaid ==
  ledger \/ invoice.status \in {"paid", RR} \/ sub.until = "current"
    => payment = "succeeded"

\* "A paid invoice must NOT be rolled back" (saas-subscription.ts:1700), nor one
\* whose payment was verified: late failures of the same payment come to nothing.
PaidInvoiceStays ==
  [][invoice.status \in {"paid", RR} => invoice'.status \in {"paid", RR}]_saasVars

\* The first subscription is paid and nothing looks at it any more.
Forgotten ==
  /\ invoice.first /\ invoice.status = "paid"
  /\ sub.status \in {"pending_payment", "past_due"}
  /\ \A w \in Worker : At(w, "idle")

\* Who pays is served: whatever process dies and whatever webhook is lost, a
\* payment that succeeded extends the subscription, if the provider tells its date
\* when asked (else the job takes it for unverified). Excepted are the ends the code
\* leaves to people: an ambiguous creation, a payment that succeeds after the
\* invoice was failed, a cancelled subscription, and a first subscription whose
\* worker stopped, or was overtaken by a failure, after the invoice was paid.
PaidIsServed ==
  []<>(payment = "succeeded" /\ "verify" \in dates =>
         \/ sub.until = "current"
         \/ cycle.state = "AMBIGUOUS_PAYMENT" \/ invoice.status = "failed"
         \/ sub.status = "cancelled" \/ Forgotten)
===============================================================================
