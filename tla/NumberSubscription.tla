--------------------------- MODULE NumberSubscription ---------------------------
(***************************************************************************)
(* The monthly renewal of one virtual number: its cycles, paid from credit *)
(* first and by card for the rest, the ledger, and the end of a number     *)
(* nobody pays.                                                            *)
(*                                                                         *)
(* Source: src/src/lib/subscriptions/service.ts. Periods are numbered; the *)
(* cycle of a period has one key, which names its payment, its credit      *)
(* transaction and its postings. The module begins with the postings of    *)
(* the double-entry ledger, finance/double-entry-ledger.ts: what each event *)
(* debits and credits, and which postings postLedgerTransaction accepts.   *)
(* Amounts are integers in minor units, and an entry that is left out has  *)
(* amount 0.                                                               *)
(***************************************************************************)
EXTENDS CustomerCredit, Integers

\* The accounts the events below use.
Account == {"cash", "fees", "cogs", "promotion", "customerCredit", "resellerFunds",
            "providerCredit", "sales", "platformFee", "saasRevenue"}

\* Entries pushed under a test for a positive amount.
IfPositive(amount) == IF amount > 0 THEN amount ELSE 0

Only(account, amount) == [a \in Account |-> IF a = account THEN amount ELSE 0]
Posting(debit, credit) == [debit |-> debit, credit |-> credit]
Transfer(from, to, amount) == Posting(Only(to, amount), Only(from, amount))

Total(side) ==
  side["cash"] + side["fees"] + side["cogs"] + side["promotion"]
  + side["customerCredit"] + side["resellerFunds"] + side["providerCredit"]
  + side["sales"] + side["platformFee"] + side["saasRevenue"]

\* postLedgerTransaction throws for anything else.
Accepted(posting) ==
  /\ Total(posting.debit) = Total(posting.credit)
  /\ Total(posting.debit) # 0

-----------------------------------------------------------------------------

\* Cash net of the fee, the fee and the credit used, against the price. The fee and
\* the net cash are left out when they are not positive.
CustomerPayment(price, fee, paidFromCredit) ==
  Posting([a \in Account |->
             CASE a = "cash" -> IfPositive(price - paidFromCredit - fee)
               [] a = "fees" -> IfPositive(fee)
               [] a = "customerCredit" -> IfPositive(paidFromCredit)
               [] OTHER -> 0],
          Only("sales", price))

\* The platform's fee is a part of the retail price.
ResellerPurchase(retail, fee) ==
  Posting(Only("resellerFunds", retail),
          [a \in Account |-> CASE a = "sales" -> retail - fee
                               [] a = "platformFee" -> IfPositive(fee)
                               [] OTHER -> 0])

CreditIssuance(amount) == Transfer("customerCredit", "promotion", amount)
ResellerDeposit(amount) == Transfer("resellerFunds", "cash", amount)
SaasSubscriptionPayment(amount) == Transfer("saasRevenue", "cash", amount)
ProviderPurchase(wholesale) == Transfer("providerCredit", "cogs", wholesale)
PaymentFee(amount) == Transfer("cash", "fees", amount)

\* What a card payment costs: 2.9% and 30, rounded half up.
CardFee(amount) == IF amount > 0 THEN (29 * amount + 30500) \div 1000 ELSE 0

\* finalizeCommercialTransaction posts both or throws.
Finalizable(price, fee, paidFromCredit, wholesale) ==
  /\ Accepted(CustomerPayment(price, fee, paidFromCredit))
  /\ Accepted(ProviderPurchase(wholesale))

-----------------------------------------------------------------------------
(* The subscription.                                                       *)

CONSTANTS
  Renewer,      \* requests and cron runs
  Owner,        \* the customer of the number
  NumberPlans   \* price, wholesale, how many periods are over, the credit, the bounds

ASSUME OwnerAssumption == Owner \in User /\ Order \subseteq Nat
ASSUME NumberAssumption ==
  /\ NumberPlans # {}
  /\ \A of \in NumberPlans :
       /\ {of.price, of.cost, of.over} \subseteq Nat /\ CreditPlan(of.credit)
       /\ of.bounds \in [runs : Nat, calls : Nat, faults : Nat]

VARIABLES
  number,       \* VirtualNumber: status, sellingPrice, providerCost, and the end of
                \* its period
  plan,         \* NumberSubscription: status, currentPeriodEnd
  renewal,      \* SubscriptionRenewalCycle of each period: state, the split recorded
  intent,       \* the card payment of each period: amount, did it succeed?
  finalized,    \* are both postings of the period in the ledger?
  renewer,      \* program counter and locals
  over,         \* periods that have ended
  numberLeft    \* bounds left: cron runs, requests, faults

rowsOfNumber == <<number, plan, renewal, intent, finalized>>
numberVars == <<number, plan, renewal, intent, finalized, renewer, over, numberLeft>>

Period == Order
NoIntent == [amount |-> 0, paid |-> FALSE]
Idle == [pc |-> "idle", period |-> 0, credit |-> 0]

RenewerPc == {"idle", "start", "cycle", "repair", "spend", "pay", "verify", "fail", "demote",
              "confirm", "reread", "finalize", "posted", "again", "extend", "push",
              "stretch", "complete", "undone", "flag", "activate", "suspend", "end"}

NumberTypeOK ==
  /\ number \in [status : {"active", "suspended", "released"}, price : Nat, cost : Nat,
                 expires : Nat]
  /\ plan \in [status : {"active", "past_due", "suspended", "cancelled",
                         "reconciliation_required"}, end : Nat]
  /\ renewal \in [Period -> [state : {"none", "pending", "failed", "payment_confirmed",
                                      "financial_posted", "reconciliation_required",
                                      "completed"}, credit : Nat, fee : Nat]]
  /\ intent \in [Period -> [amount : Nat, paid : BOOLEAN]]
  /\ finalized \in [Period -> BOOLEAN]
  /\ renewer \in [Renewer -> [pc : RenewerPc, period : Nat, credit : Nat]]
  /\ over \in Nat /\ numberLeft \in [runs : Nat, calls : Nat, faults : Nat]

NumberInitOf(of) ==
  /\ number = [status |-> "active", price |-> of.price, cost |-> of.cost, expires |-> 0]
  /\ plan = [status |-> "active", end |-> 0]
  /\ renewal = [p \in Period |-> [state |-> "none", credit |-> 0, fee |-> 0]]
  /\ intent = [p \in Period |-> NoIntent] /\ finalized = [p \in Period |-> FALSE]
  /\ renewer = [w \in Renewer |-> Idle]
  /\ over = of.over /\ numberLeft = of.bounds

NumberInit == \E of \in NumberPlans : NumberInitOf(of) /\ CreditInitOf(of.credit)

-----------------------------------------------------------------------------

RenewerAt(w, pc) == renewer[w].pc = pc
RenewerGoes(w, pc) == renewer' = [renewer EXCEPT ![w].pc = pc]
RenewerRests(w) == renewer' = [renewer EXCEPT ![w] = Idle]
NumberSpends(bound) ==
  numberLeft[bound] > 0 /\ numberLeft' = [numberLeft EXCEPT ![bound] = @ - 1]

Cycle(w) == renewer[w].period
State(w) == renewal[Cycle(w)].state
CycleSet(w, state) == renewal' = [renewal EXCEPT ![Cycle(w)].state = state]
Behind(w) == plan.end < Cycle(w) + 1
Remaining(w) == number.price - renewer[w].credit

NoCredit == UNCHANGED creditVars
OnlyRenewer == UNCHANGED <<rowsOfNumber, over, numberLeft, creditVars>>
ButRenewal == UNCHANGED <<number, plan, intent, finalized, over, numberLeft, creditVars>>
ButPlan == UNCHANGED <<number, renewal, intent, finalized, over, numberLeft, creditVars>>

-----------------------------------------------------------------------------
(* renewSubscription: the cycle of the period that ends next.              *)

Found(state) ==
  CASE state = "completed" -> "repair"
    [] state \in {"none", "pending"} -> "spend"
    [] OTHER -> "reread"

\* The cron job lists what is due or flagged.
ListDue(w) ==
  /\ RenewerAt(w, "idle") /\ RenewerGoes(w, "start") /\ NumberSpends("runs")
  /\ \/ plan.status = "active" /\ plan.end < over
     \/ plan.status = "reconciliation_required"
  /\ UNCHANGED <<rowsOfNumber, over>> /\ NoCredit

\* POST /api/subscriptions/renew, at any time.
RequestRenewal(w) ==
  /\ RenewerAt(w, "idle") /\ RenewerGoes(w, "start") /\ NumberSpends("calls")
  /\ UNCHANGED <<rowsOfNumber, over>> /\ NoCredit

\* Whether the period is over is not asked again.
RenewNumber(w) ==
  LET p == plan.end IN
  /\ RenewerAt(w, "start")
  /\ IF plan.status = "cancelled" \/ p \notin Period
       THEN RenewerRests(w)
       ELSE renewer' = [renewer EXCEPT ![w] = [pc |-> "cycle", period |-> p, credit |-> 0]]
  /\ OnlyRenewer

\* The cycle of the period that was read, which another run may have completed since.
GetCycle(w) ==
  /\ RenewerAt(w, "cycle") /\ RenewerGoes(w, Found(State(w)))
  /\ renewal' = [renewal EXCEPT ![Cycle(w)].state = IF @ = "none" THEN "pending" ELSE @]
  /\ ButRenewal

\* A completed cycle repairs the subscription, unless it is active and not behind.
RepairCompleted(w) ==
  /\ RenewerAt(w, "repair") /\ RenewerRests(w)
  /\ IF Behind(w) \/ plan.status # "active"
       THEN /\ plan' = [status |-> "active", end |-> Cycle(w) + 1]
            /\ number' = [number EXCEPT !.expires = Cycle(w) + 1]
       ELSE UNCHANGED <<plan, number>>
  /\ UNCHANGED <<renewal, intent, finalized, over, numberLeft>> /\ NoCredit

\* A failure of the call, before or after its commit, counts as no credit.
SpendForCycle(w) ==
  LET take == SpendOf(Owner, Cycle(w), number.price) IN
  /\ RenewerAt(w, "spend")
  /\ \/ /\ SpendCredit(Owner, Cycle(w), number.price) /\ UNCHANGED numberLeft
        /\ renewer' = [renewer EXCEPT ![w].pc = IF take = number.price THEN "confirm" ELSE "pay",
                                      ![w].credit = take]
     \/ /\ NumberSpends("faults") /\ RenewerGoes(w, "pay")
        /\ SpendCredit(Owner, Cycle(w), number.price) \/ NoCredit
  /\ UNCHANGED <<rowsOfNumber, over>>

\* The key of the payment is the cycle's: a second call gets the first intent, or an
\* error when it asks for another amount.
PayRest(w) ==
  LET known == intent[Cycle(w)] IN
  /\ RenewerAt(w, "pay")
  /\ \/ /\ known = NoIntent /\ RenewerGoes(w, "verify")
        /\ intent' = [intent EXCEPT ![Cycle(w)].amount = Remaining(w)]
     \/ known # NoIntent /\ RenewerGoes(w, "verify") /\ UNCHANGED intent
     \/ /\ known # NoIntent /\ known.amount # Remaining(w)
        /\ RenewerGoes(w, "fail") /\ UNCHANGED intent
  /\ UNCHANGED <<number, plan, renewal, finalized, over, numberLeft>> /\ NoCredit

VerifyLoosely(w) ==     \* mutant: a payment that is on its way counts
  /\ RenewerAt(w, "verify") /\ RenewerGoes(w, "confirm") /\ OnlyRenewer

VerifyRest(w) ==
  /\ RenewerAt(w, "verify")
  /\ RenewerGoes(w, IF intent[Cycle(w)].paid THEN "confirm" ELSE "fail") /\ OnlyRenewer

\* A call to the provider throws.
PaymentFails(w) ==
  /\ RenewerAt(w, "pay") \/ RenewerAt(w, "verify")
  /\ RenewerGoes(w, "fail") /\ NumberSpends("faults")
  /\ UNCHANGED <<rowsOfNumber, over>> /\ NoCredit

\* Neither update asks what became of the cycle or the subscription meanwhile.
FailCycle(w) ==
  /\ RenewerAt(w, "fail") /\ RenewerGoes(w, "demote")
  /\ CycleSet(w, "failed") /\ ButRenewal

DemoteNumber(w) ==
  /\ RenewerAt(w, "demote") /\ RenewerRests(w)
  /\ plan' = [plan EXCEPT !.status = "past_due"] /\ ButPlan

ConfirmPayment(w) ==
  /\ RenewerAt(w, "confirm") /\ RenewerGoes(w, "reread")
  /\ renewal' = [renewal EXCEPT ![Cycle(w)] =
       [state |-> "payment_confirmed", credit |-> renewer[w].credit,
        fee |-> CardFee(Remaining(w))]]
  /\ ButRenewal

-----------------------------------------------------------------------------
(* The postings, then the period, each decided by the state as it is read  *)
(* again.                                                                  *)

Reread(w) ==
  /\ RenewerAt(w, "reread")
  /\ RenewerGoes(w, IF State(w) \in {"payment_confirmed", "reconciliation_required"}
                      THEN "finalize" ELSE "again")
  /\ OnlyRenewer

\* Both postings, by their keys, or neither: an unbalanced one throws. A failure may
\* follow the postings: it may be that of the update that marks them.
FinalizeRenewal(w) ==
  LET cycle == renewal[Cycle(w)]
      fits == finalized[Cycle(w)]
              \/ Finalizable(number.price, cycle.fee, cycle.credit, number.cost) IN
  /\ RenewerAt(w, "finalize")
  /\ \/ /\ fits /\ RenewerGoes(w, "posted") /\ UNCHANGED numberLeft
        /\ finalized' = [finalized EXCEPT ![Cycle(w)] = TRUE]
     \/ ~fits /\ RenewerGoes(w, "undone") /\ UNCHANGED <<finalized, numberLeft>>
     \/ /\ fits /\ RenewerGoes(w, "undone") /\ NumberSpends("faults")
        /\ \E posted \in {TRUE, finalized[Cycle(w)]} :
             finalized' = [finalized EXCEPT ![Cycle(w)] = posted]
  /\ UNCHANGED <<number, plan, renewal, intent, over>> /\ NoCredit

MarkPosted(w) ==
  /\ RenewerAt(w, "posted") /\ RenewerGoes(w, "again")
  /\ CycleSet(w, "financial_posted") /\ ButRenewal

Again(w) ==
  /\ RenewerAt(w, "again")
  /\ RenewerGoes(w, IF State(w) \in {"financial_posted", "reconciliation_required"}
                      THEN "extend" ELSE "activate")
  /\ OnlyRenewer

ReadPeriod(w) ==
  /\ RenewerAt(w, "extend") /\ RenewerGoes(w, IF Behind(w) THEN "push" ELSE "stretch")
  /\ OnlyRenewer

PushPeriod(w) ==
  /\ RenewerAt(w, "push") /\ RenewerGoes(w, "stretch")
  /\ plan' = [status |-> "active", end |-> Cycle(w) + 1] /\ ButPlan

StretchNumber(w) ==
  /\ RenewerAt(w, "stretch") /\ RenewerGoes(w, "complete")
  /\ number' = [number EXCEPT !.expires = IF @ < Cycle(w) + 1 THEN Cycle(w) + 1 ELSE @]
  /\ UNCHANGED <<numberLeft, plan, renewal, intent, finalized, over>> /\ NoCredit

CompleteRenewal(w) ==
  /\ RenewerAt(w, "complete") /\ RenewerGoes(w, "activate")
  /\ CycleSet(w, "completed") /\ ButRenewal

\* One of these updates throws.
DomainFails(w) ==
  /\ renewer[w].pc \in {"push", "stretch", "complete"}
  /\ RenewerGoes(w, "undone") /\ NumberSpends("faults")
  /\ UNCHANGED <<rowsOfNumber, over>> /\ NoCredit

\* Whatever the cycle's state was, a failed one's too.
ActivatePlan(w) ==
  /\ RenewerAt(w, "activate") /\ RenewerRests(w)
  /\ plan' = [plan EXCEPT !.status = "active"] /\ ButPlan

\* Postings or period failed: the cycle and the subscription are flagged.
FlagCycle(w) ==
  /\ RenewerAt(w, "undone") /\ RenewerGoes(w, "flag")
  /\ CycleSet(w, "reconciliation_required") /\ ButRenewal

FlagPlan(w) ==
  /\ RenewerAt(w, "flag") /\ RenewerRests(w)
  /\ plan' = [plan EXCEPT !.status = "reconciliation_required"] /\ ButPlan

-----------------------------------------------------------------------------
(* The customer, the provider and the rest of processDueSubscriptions.     *)

CustomerPays(p) ==
  /\ intent[p] # NoIntent /\ ~intent[p].paid
  /\ intent' = [intent EXCEPT ![p].paid = TRUE]
  /\ UNCHANGED <<number, plan, renewal, finalized, renewer, over, numberLeft>> /\ NoCredit

CancelNumber ==
  /\ plan.status # "cancelled" /\ NumberSpends("calls")
  /\ plan' = [plan EXCEPT !.status = "cancelled"]
  /\ UNCHANGED <<number, renewal, intent, finalized, renewer, over>> /\ NoCredit

\* The two updates of releaseNumber.
ReleaseNumber ==
  /\ number.status # "released" /\ NumberSpends("calls")
  /\ number' = [number EXCEPT !.status = "released"]
  /\ plan' = [plan EXCEPT !.status = IF @ = "active" THEN "cancelled" ELSE @]
  /\ UNCHANGED <<renewal, intent, finalized, renewer, over>> /\ NoCredit

\* What the job found it suspends, or ends, by id.
FindUnpaid(w) ==
  /\ RenewerAt(w, "idle") /\ plan.end < over /\ plan.status \in {"past_due", "suspended"}
  /\ RenewerGoes(w, IF plan.status = "past_due" THEN "suspend" ELSE "end") /\ OnlyRenewer

SuspendNumber(w) ==
  /\ RenewerAt(w, "suspend") /\ RenewerRests(w)
  /\ plan' = [plan EXCEPT !.status = "suspended"]
  /\ number' = [number EXCEPT !.status = "suspended"]
  /\ UNCHANGED <<renewal, intent, finalized, over, numberLeft>> /\ NoCredit

EndNumber(w) ==
  /\ RenewerAt(w, "end") /\ RenewerRests(w)
  /\ plan' = [plan EXCEPT !.status = "cancelled"]
  /\ number' = [number EXCEPT !.status = "released"]
  /\ UNCHANGED <<renewal, intent, finalized, over, numberLeft>> /\ NoCredit

\* The process dies, or an update throws.
RenewerStops(w) ==
  /\ ~RenewerAt(w, "idle") /\ RenewerRests(w) /\ NumberSpends("faults")
  /\ UNCHANGED <<rowsOfNumber, over>> /\ NoCredit

RenewalStep(w) ==
  \/ RenewNumber(w) \/ GetCycle(w) \/ RepairCompleted(w) \/ SpendForCycle(w) \/ PayRest(w)
  \/ VerifyRest(w) \/ PaymentFails(w) \/ DomainFails(w)
  \/ FailCycle(w) \/ DemoteNumber(w) \/ ConfirmPayment(w) \/ Reread(w)
  \/ FinalizeRenewal(w) \/ MarkPosted(w) \/ Again(w) \/ ReadPeriod(w) \/ PushPeriod(w)
  \/ StretchNumber(w) \/ CompleteRenewal(w) \/ ActivatePlan(w) \/ FlagCycle(w)
  \/ FlagPlan(w) \/ SuspendNumber(w) \/ EndNumber(w)

NumberNext ==
  \/ \E w \in Renewer :
       ListDue(w) \/ RequestRenewal(w) \/ RenewalStep(w) \/ FindUnpaid(w) \/ RenewerStops(w)
  \/ \E p \in Period : CustomerPays(p)
  \/ CancelNumber \/ ReleaseNumber
  \/ CreditNext /\ UNCHANGED numberVars

-----------------------------------------------------------------------------
(* Properties.                                                             *)

\* A period is added only for its price, in credit taken and card payments that
\* succeeded, however renewals overlap, fail half-way, find the credit spent by a
\* run before them, or come upon a cycle another run has failed.
ExtendedIsPaid ==
  \A p \in Period : p < plan.end =>
    number.price <= spent[p] + IF intent[p].paid THEN intent[p].amount ELSE 0
=============================================================================
