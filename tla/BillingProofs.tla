------------------------------ MODULE BillingProofs ------------------------------
(***************************************************************************)
(* What is paid, for every number of requests, workers, orders, recipients *)
(* and payouts: the rows keep their types (TypeCorrect), nobody is served  *)
(* for nothing (NobodyIsServedUnpaid), a reward is granted once            *)
(* (RewardsAreGrantedOnce), and the books of a shop agree with what it has *)
(* served and drawn (ShopsAreSquare).                                      *)
(*                                                                         *)
(* Each part has an inductive invariant of its own (SaasInv, NumberInv     *)
(* over CreditInv, SaleInv, PayoutInv); the parts share no row, so a step  *)
(* of one leaves the invariants of the others alone.                       *)
(***************************************************************************)
EXTENDS MCBilling, SumLaws, SequenceTheorems

-----------------------------------------------------------------------------
(* SaasRenewal: nothing is served unpaid.                                  *)

\* What the rows and the provider agree on. A cycle that has left its first state has
\* an invoice, and so has who works on one.
SaasFacts ==
  /\ NothingUnpaid
  /\ "succeeded" \in events => payment = "succeeded"
  /\ cycle.state \notin {"none", "PENDING"} \/ invoice.ref => invoice.status # "absent"

\* Who posts, or was told so by the provider, does it for a payment that succeeded.
WorkerFits(w) ==
  /\ worker[w].verified \/ worker[w].pc \in {"post", "paid", "initial"} => payment = "succeeded"
  /\ worker[w].pc \notin {"idle", "row", "bill", "invoice"} => invoice.status # "absent"

SaasInv == SaasTypeOK /\ SaasFacts /\ \A w \in Worker : WorkerFits(w)

WorkerRow == [pc : Pc, kind : Kind, seen : {"none", "pending", "paid", "failed", RR},
              report : Report, verified : BOOLEAN, dated : BOOLEAN]

LEMMA SaasInitInv ==
  ASSUME NEW of \in SaasPlans, SaasInitOf(of)
  PROVE  SaasInv
<1>1. of \in [first : BOOLEAN, dates : SUBSET {"verify", "webhook"},
                bounds : [calls : Nat, deliveries : Nat, declines : Nat, slow : Nat, faults : Nat]]
  BY SaasAssumption
<1>2. SaasTypeOK
  BY <1>1 DEF SaasInitOf, SaasTypeOK, Resting, Pc, Kind, Report, RR
<1>3. SaasFacts
  BY <1>1 DEF SaasInitOf, SaasFacts, NothingUnpaid, RR
<1>4. \A w \in Worker : WorkerFits(w)
  BY DEF SaasInitOf, WorkerFits, Resting
<1>. QED  BY <1>2, <1>3, <1>4 DEF SaasInv

\* One worker's row is replaced; what was paid and billed stays so.
LEMMA WorkerMoves ==
  ASSUME SaasInv, NEW w \in Worker, NEW row \in WorkerRow, worker' = [worker EXCEPT ![w] = row],
         payment = "succeeded" => payment' = "succeeded",
         invoice.status # "absent" => invoice'.status # "absent",
         row.verified \/ row.pc \in {"post", "paid", "initial"} => payment' = "succeeded",
         row.pc \notin {"idle", "row", "bill", "invoice"} => invoice'.status # "absent"
  PROVE  worker' \in [Worker -> WorkerRow] /\ \A v \in Worker : WorkerFits(v)'
BY DEF SaasInv, SaasTypeOK, WorkerRow, WorkerFits

\* A worker goes on, rests, or begins; what was paid and billed stays so.
WorkerStep(w) ==
  /\ payment = "succeeded" => payment' = "succeeded"
  /\ invoice.status # "absent" => invoice'.status # "absent"
  /\ \E pc \in Pc : /\ Goes(w, pc) \/ Rests(w) \/ (\E kind \in Kind : Begins(w, kind, pc))
                    /\ pc \in {"post", "paid", "initial"} => payment' = "succeeded"
                    /\ pc \notin {"idle", "row", "bill", "invoice"} => invoice'.status # "absent"

LEMMA WorkerGoes ==
  ASSUME SaasInv, NEW w \in Worker, WorkerStep(w)
  PROVE  worker' \in [Worker -> WorkerRow] /\ \A v \in Worker : WorkerFits(v)'
<1>. PICK pc \in Pc : /\ Goes(w, pc) \/ Rests(w) \/ (\E kind \in Kind : Begins(w, kind, pc))
                      /\ pc \in {"post", "paid", "initial"} => payment' = "succeeded"
                      /\ pc \notin {"idle", "row", "bill", "invoice"} =>
                           invoice'.status # "absent"
  BY DEF WorkerStep
<1>. /\ payment = "succeeded" => payment' = "succeeded"
     /\ invoice.status # "absent" => invoice'.status # "absent"
  BY DEF WorkerStep
<1>1. worker \in [Worker -> WorkerRow] /\ worker[w] \in WorkerRow /\ WorkerFits(w)
  BY DEF SaasInv, SaasTypeOK, WorkerRow
<1>2. CASE Goes(w, pc)
  <2>. DEFINE b == [worker[w] EXCEPT !.pc = pc]
  <2>1. PICK row : row = b
    OBVIOUS
  <2>2. worker' = [worker EXCEPT ![w] = row] /\ row \in WorkerRow /\ row.pc = pc
        /\ row.verified = worker[w].verified
    BY <1>1, <1>2, <2>1 DEF Goes, WorkerRow
  <2>. HIDE DEF b
  <2>. QED  BY <1>1, <2>2, WorkerMoves DEF WorkerFits
<1>3. CASE Rests(w) BY <1>3, WorkerMoves DEF Resting, WorkerRow, Pc, Kind, Report, Rests
<1>4. ASSUME NEW kind \in Kind, Begins(w, kind, pc)
      PROVE  worker' \in [Worker -> WorkerRow] /\ \A v \in Worker : WorkerFits(v)'
  <2>. DEFINE b == [worker[w] EXCEPT !.pc = pc, !.kind = kind]
  <2>1. PICK row : row = b
    OBVIOUS
  <2>2. worker' = [worker EXCEPT ![w] = row] /\ row \in WorkerRow /\ row.pc = pc
        /\ row.verified = worker[w].verified
    BY <1>1, <1>4, <2>1 DEF Begins, WorkerRow
  <2>. HIDE DEF b
  <2>. QED  BY <1>1, <2>2, WorkerMoves DEF WorkerFits
<1>. QED  BY <1>2, <1>3, <1>4

\* What a step has to show: its rows fit their columns, the facts hold, and the workers.
SubRow == [status : {"none", "pending_payment", "active", "past_due", "cancelled", RR},
           until : {"epoch", "ended", "current"}]
CycleState == {"none", "PENDING", "PAYMENT_PENDING", "PAYMENT_CREATING", "PAYMENT_CONFIRMED",
               "FINANCIAL_POSTED", "PAST_DUE", "AMBIGUOUS_PAYMENT", "RECONCILIATION_REQUIRED",
               "COMPLETED"}
CycleRow == [state : CycleState, linked : BOOLEAN, old : BOOLEAN]
InvoiceStatus == {"absent", "pending", "paid", "failed", RR}
InvoiceRow == [status : InvoiceStatus, first : BOOLEAN, ref : BOOLEAN, paidAt : BOOLEAN,
               old : BOOLEAN]
SaasBounds == [calls : Nat, deliveries : Nat, declines : Nat, slow : Nat, faults : Nat]

RowsTyped ==
  /\ sub \in SubRow /\ cycle \in CycleRow /\ invoice \in InvoiceRow
  /\ ledger \in BOOLEAN /\ payment \in {"none", "open", "declined", "succeeded"}
  /\ events \subseteq Report /\ dates \subseteq {"verify", "webhook"}
  /\ saasLeft \in SaasBounds

LEMMA RowsAreTyped ==
  (SaasTypeOK <=> RowsTyped /\ worker \in [Worker -> WorkerRow])
BY DEF SaasTypeOK, RowsTyped, WorkerRow, SubRow, CycleRow, CycleState, InvoiceRow, InvoiceStatus,
       SaasBounds

LEMMA StepTogether ==
  ASSUME RowsTyped', SaasFacts', worker' \in [Worker -> WorkerRow],
         \A v \in Worker : WorkerFits(v)'
  PROVE  SaasInv'
<1>1. SaasTypeOK'
  BY DEF SaasTypeOK, RowsTyped, WorkerRow, SubRow, CycleRow, CycleState, InvoiceRow, InvoiceStatus,
         SaasBounds
<1>. QED  BY <1>1 DEF SaasInv

\* What is spent was there.
LEMMA SaasSpends ==
  ASSUME saasLeft \in SaasBounds,
         NEW bound \in {"calls", "deliveries", "declines", "slow", "faults"}, Spends(bound)
  PROVE  saasLeft' \in SaasBounds
BY DEF Spends, SaasBounds

LEMMA CycleMoves ==
  ASSUME cycle \in CycleRow, NEW state \in CycleState, CycleTo(state)
  PROVE  cycle' \in CycleRow /\ cycle'.state = state
BY DEF CycleTo, CycleRow

LEMMA InvoiceBecomes ==
  ASSUME NEW row \in InvoiceRow, NEW status \in InvoiceStatus
  PROVE  [row EXCEPT !.status = status] \in InvoiceRow
BY DEF InvoiceRow

\* What a worker who is about to act can rely on.
WorkerNow(w) == RowsTyped /\ SaasFacts /\ WorkerFits(w) /\ worker[w] \in WorkerRow

LEMMA WorkerIsNow == ASSUME SaasInv, NEW w \in Worker PROVE WorkerNow(w)
BY RowsAreTyped DEF SaasInv, WorkerNow

\* The steps of the workers, one by one; the columns of the rows are seen in all of them.
USE DEF WorkerNow, WorkerStep, RowsTyped, SubRow, CycleRow, CycleState, InvoiceRow, InvoiceStatus,
        RR, At, SaasFacts, NothingUnpaid, WorkerFits

LEMMA CreateSubscriptionIntentKeeps ==
  ASSUME SaasInv, NEW w \in Worker, CreateSubscriptionIntent(w) PROVE SaasInv'
BY WorkerIsNow, SaasSpends, WorkerGoes, StepTogether DEF CreateSubscriptionIntent, OpenIntent, Pc,
   Kind

LEMMA UpsertSubscriptionKeeps ==
  ASSUME SaasInv, NEW w \in Worker, UpsertSubscription(w) PROVE SaasInv'
BY WorkerIsNow, WorkerGoes, StepTogether DEF UpsertSubscription, ButSub, Pc, Kind

LEMMA CreateInvoiceKeeps ==
  ASSUME SaasInv, NEW w \in Worker, CreateInvoice(w) PROVE SaasInv'
<1>1. WorkerNow(w)
  BY WorkerIsNow
<1>2. RowsTyped'
  <2>1. invoice' \in InvoiceRow
    BY <1>1 DEF CreateInvoice, ButInvoice
  <2>. QED  BY <1>1, <2>1 DEF CreateInvoice, ButInvoice
<1>3. SaasFacts'
  BY <1>1 DEF CreateInvoice, ButInvoice
<1>4. WorkerStep(w)
  BY <1>1 DEF CreateInvoice, Pc, Kind, ButInvoice
<1>. QED  BY <1>2, <1>3, <1>4, WorkerGoes, StepTogether

LEMMA RenewSubscriptionKeeps ==
  ASSUME SaasInv, NEW w \in Worker, RenewSubscription(w) PROVE SaasInv'
BY WorkerIsNow, CycleMoves, WorkerGoes, StepTogether DEF RenewSubscription, RenewalDue, MoveCycle,
   ButCycle, CycleTo, Pc, Kind

LEMMA LinkCycleKeeps ==
  ASSUME SaasInv, NEW w \in Worker, LinkCycle(w) PROVE SaasInv'
BY WorkerIsNow, WorkerGoes, StepTogether DEF LinkCycle, ButCycle, Pc, Kind

LEMMA ClaimCreationKeeps ==
  ASSUME SaasInv, NEW w \in Worker, ClaimCreation(w) PROVE SaasInv'
BY WorkerIsNow, CycleMoves, WorkerGoes, StepTogether DEF ClaimCreation, MoveCycle, ButCycle,
   CycleTo, Pc, Kind

LEMMA AwaitReferenceKeeps ==
  ASSUME SaasInv, NEW w \in Worker, AwaitReference(w) PROVE SaasInv'
BY WorkerIsNow, WorkerGoes, StepTogether DEF AwaitReference, OnlyWorker, Pc, Kind

LEMMA CreatePaymentIntentKeeps ==
  ASSUME SaasInv, NEW w \in Worker, CreatePaymentIntent(w) PROVE SaasInv'
BY WorkerIsNow, WorkerGoes, StepTogether DEF CreatePaymentIntent, OpenIntent, Pc, Kind

LEMMA PersistReferenceKeeps ==
  ASSUME SaasInv, NEW w \in Worker, PersistReference(w) PROVE SaasInv'
<1>1. WorkerNow(w)
  BY WorkerIsNow
<1>2. RowsTyped'
  <2>1. invoice' \in InvoiceRow
    BY <1>1 DEF PersistReference, ButInvoice
  <2>. QED  BY <1>1, <2>1 DEF PersistReference, ButInvoice
<1>3. SaasFacts'
  BY <1>1 DEF PersistReference, ButInvoice
<1>4. WorkerStep(w)
  BY <1>1 DEF PersistReference, Pc, Kind, ButInvoice
<1>. QED  BY <1>2, <1>3, <1>4, WorkerGoes, StepTogether

LEMMA FailInvoiceKeeps ==
  ASSUME SaasInv, NEW w \in Worker, FailInvoice(w) PROVE SaasInv'
<1>1. WorkerNow(w)
  BY WorkerIsNow
<1>2. RowsTyped'
  <2>1. invoice' \in InvoiceRow
    BY <1>1, InvoiceBecomes DEF FailInvoice, Becomes, ButInvoice
  <2>. QED  BY <1>1, <2>1 DEF FailInvoice, Becomes, ButInvoice
<1>3. SaasFacts'
  BY <1>1 DEF FailInvoice, Becomes, ButInvoice
<1>4. WorkerStep(w)
  BY <1>1 DEF FailInvoice, Pc, Kind, Becomes, ButInvoice
<1>. QED  BY <1>2, <1>3, <1>4, WorkerGoes, StepTogether

LEMMA DemoteSubscriptionKeeps ==
  ASSUME SaasInv, NEW w \in Worker, DemoteSubscription(w) PROVE SaasInv'
BY WorkerIsNow, WorkerGoes, StepTogether DEF DemoteSubscription, ButSub, Pc, Kind

LEMMA SettleCycleKeeps ==
  ASSUME SaasInv, NEW w \in Worker, SettleCycle(w) PROVE SaasInv'
BY WorkerIsNow, CycleMoves, WorkerGoes, StepTogether DEF SettleCycle, MoveCycle, ButCycle, CycleTo,
   Pc, Kind

LEMMA ConfirmCycleKeeps ==
  ASSUME SaasInv, NEW w \in Worker, ConfirmCycle(w) PROVE SaasInv'
BY WorkerIsNow, CycleMoves, WorkerGoes, StepTogether DEF ConfirmCycle, MoveCycle, ButCycle, CycleTo,
   Pc, Kind

LEMMA PostLedgerKeeps ==
  ASSUME SaasInv, NEW w \in Worker, PostLedger(w) PROVE SaasInv'
<1>1. WorkerNow(w)
  BY WorkerIsNow
<1>2. RowsTyped'
  <2>1. saasLeft' \in SaasBounds
    BY <1>1, SaasSpends DEF PostLedger, NotActivated, NotYetPosted
  <2>2. RowsTyped
    BY <1>1
  <2>. HIDE DEF WorkerNow
  <2>3. invoice' \in InvoiceRow
    <3>1. /\ invoice \in InvoiceRow /\ worker[w].dated \in BOOLEAN /\ RR \in InvoiceStatus
          /\ invoice.status \in InvoiceStatus
      BY <1>1, <2>2 DEF InvoiceRow, RowsTyped, WorkerNow, WorkerRow
    <3>2. PICK status \in InvoiceStatus :
            invoice' = [invoice EXCEPT !.status = status,
                          !.paidAt = @ \/ (worker[w].dated /\ invoice.status \in NotYetPosted)]
      BY <3>1 DEF PostLedger
    <3>. QED  BY <3>1, <3>2 DEF InvoiceRow
  <2>. HIDE DEF SubRow, CycleRow, InvoiceRow
  <2>. QED  BY <2>1, <2>2, <2>3 DEF PostLedger, NotActivated, NotYetPosted
<1>3. SaasFacts'
  BY <1>1 DEF PostLedger, NotActivated, NotYetPosted
<1>4. WorkerStep(w)
  BY <1>1 DEF PostLedger, Pc, Kind, NotActivated, NotYetPosted
<1>. QED  BY <1>2, <1>3, <1>4, WorkerGoes, StepTogether

LEMMA MarkPaidKeeps ==
  ASSUME SaasInv, NEW w \in Worker, MarkPaid(w) PROVE SaasInv'
<1>1. WorkerNow(w)
  BY WorkerIsNow
<1>2. RowsTyped'
  <2>1. invoice' \in InvoiceRow
    BY <1>1, InvoiceBecomes DEF MarkPaid, Becomes, ButInvoice, NotYetPosted, Activated, NotActivated
  <2>. QED  BY <1>1, <2>1 DEF MarkPaid, Becomes, ButInvoice, NotYetPosted, Activated, NotActivated
<1>3. SaasFacts'
  BY <1>1 DEF MarkPaid, Becomes, ButInvoice, NotYetPosted, Activated, NotActivated
<1>4. WorkerStep(w)
  BY <1>1 DEF MarkPaid, Pc, Kind, Becomes, ButInvoice, NotYetPosted, Activated, NotActivated
<1>. QED  BY <1>2, <1>3, <1>4, WorkerGoes, StepTogether

LEMMA ActivateInitialKeeps ==
  ASSUME SaasInv, NEW w \in Worker, ActivateInitial(w) PROVE SaasInv'
BY WorkerIsNow, SaasSpends, WorkerGoes, StepTogether DEF ActivateInitial, Activated, NotActivated,
   Pc, Kind

LEMMA CompleteCycleKeeps ==
  ASSUME SaasInv, NEW w \in Worker, CompleteCycle(w) PROVE SaasInv'
BY WorkerIsNow, SaasSpends, CycleMoves, WorkerGoes, StepTogether DEF CompleteCycle, NotCompleted,
   CycleTo, Pc, Kind

LEMMA MarkCycleKeeps ==
  ASSUME SaasInv, NEW w \in Worker, MarkCycle(w) PROVE SaasInv'
BY WorkerIsNow, CycleMoves, WorkerGoes, StepTogether DEF MarkCycle, ButCycle, CycleTo, Pc, Kind

LEMMA AdoptReferenceKeeps ==
  ASSUME SaasInv, NEW w \in Worker, AdoptReference(w) PROVE SaasInv'
<1>1. WorkerNow(w)
  BY WorkerIsNow
<1>2. RowsTyped'
  <2>1. cycle' \in CycleRow
    BY <1>1, CycleMoves DEF AdoptReference, MoveCycle
  <2>2. invoice' \in InvoiceRow
    BY <1>1 DEF AdoptReference, MoveCycle, CycleTo
  <2>. QED  BY <1>1, <2>1, <2>2 DEF AdoptReference, MoveCycle, CycleTo
<1>3. SaasFacts'
  BY <1>1 DEF AdoptReference, MoveCycle, CycleTo
<1>4. WorkerStep(w)
  BY <1>1 DEF AdoptReference, Pc, Kind, MoveCycle, CycleTo
<1>. QED  BY <1>2, <1>3, <1>4, WorkerGoes, StepTogether

LEMMA UnstickKeeps ==
  ASSUME SaasInv, NEW w \in Worker, Unstick(w) PROVE SaasInv'
<1>1. WorkerNow(w)
  BY WorkerIsNow
<1>2. RowsTyped'
  <2>1. cycle' \in CycleRow
    BY <1>1, CycleMoves DEF Unstick, MoveCycle, ButCycle
  <2>. QED  BY <1>1, <2>1 DEF Unstick, MoveCycle, CycleTo, ButCycle
<1>3. SaasFacts'
  BY <1>1 DEF Unstick, MoveCycle, CycleTo, ButCycle
<1>4. WorkerStep(w)
  BY <1>1 DEF Unstick, Pc, Kind, MoveCycle, CycleTo, ButCycle
<1>. QED  BY <1>2, <1>3, <1>4, WorkerGoes, StepTogether

LEMMA ConfirmSubscriptionPaymentKeeps ==
  ASSUME SaasInv, NEW w \in Worker, ConfirmSubscriptionPayment(w) PROVE SaasInv'
BY WorkerIsNow, SaasSpends, WorkerGoes, StepTogether DEF ConfirmSubscriptionPayment, OnlyBounds, Pc,
   Kind

LEMMA ResolveAmbiguousPaymentKeeps ==
  ASSUME SaasInv, NEW w \in Worker, ResolveAmbiguousPayment(w) PROVE SaasInv'
BY WorkerIsNow, SaasSpends, WorkerGoes, StepTogether DEF ResolveAmbiguousPayment, OnlyBounds, Pc,
   Kind

LEMMA DueInvoiceKeeps ==
  ASSUME SaasInv, NEW w \in Worker, DueInvoice(w) PROVE SaasInv'
BY WorkerIsNow, WorkerGoes, StepTogether DEF DueInvoice, OnlyWorker, Pc, Kind

LEMMA StuckCreatingKeeps ==
  ASSUME SaasInv, NEW w \in Worker, StuckCreating(w) PROVE SaasInv'
BY WorkerIsNow, WorkerGoes, StepTogether DEF StuckCreating, OnlyWorker, Pc, Kind

LEMMA StuckCycleKeeps ==
  ASSUME SaasInv, NEW w \in Worker, StuckCycle(w) PROVE SaasInv'
BY WorkerIsNow, WorkerGoes, StepTogether DEF StuckCycle, OnlyWorker, Pc, Kind

LEMMA StuckSubscriptionKeeps ==
  ASSUME SaasInv, NEW w \in Worker, StuckSubscription(w) PROVE SaasInv'
BY WorkerIsNow, WorkerGoes, StepTogether DEF StuckSubscription, OnlyWorker, Pc, Kind

LEMMA WorkerStopsKeeps ==
  ASSUME SaasInv, NEW w \in Worker, WorkerStops(w) PROVE SaasInv'
BY WorkerIsNow, SaasSpends, WorkerGoes, StepTogether DEF WorkerStops, OnlyBounds, Pc, Kind

HIDE DEF WorkerNow, WorkerStep, RowsTyped, SubRow, CycleRow, CycleState, InvoiceRow, InvoiceStatus,
         RR, At, SaasFacts, NothingUnpaid, WorkerFits

LEMMA UpsertInvoiceKeeps ==
  ASSUME SaasInv, NEW w \in Worker, UpsertInvoice(w) PROVE SaasInv'
<1>1. RowsTyped /\ SaasFacts /\ WorkerFits(w) /\ worker[w] \in WorkerRow
  BY RowsAreTyped DEF SaasInv
<1>. DEFINE status == IF invoice.status = "absent" THEN "pending" ELSE invoice.status
<1>2. PICK now : now = status
  OBVIOUS
<1>. HIDE DEF status
<1>3. /\ now \in {"pending", "paid", "failed", RR} /\ now \in InvoiceStatus
      /\ now = "paid" => invoice.status = "paid"
      /\ now = RR => invoice.status = RR
  BY <1>1, <1>2 DEF RowsTyped, InvoiceRow, InvoiceStatus, RR, status
<1>4. invoice' = [invoice EXCEPT !.status = now]
      /\ UNCHANGED <<sub, ledger, payment, events, dates, saasLeft>>
      /\ IF now = "paid"
           THEN Goes(w, "complete") /\ cycle' = [cycle EXCEPT !.linked = TRUE]
           ELSE /\ worker' = [worker EXCEPT ![w].pc = "link", ![w].seen = now]
                /\ UNCHANGED cycle
  BY <1>2 DEF UpsertInvoice, Becomes, status
<1>5. invoice' \in InvoiceRow /\ invoice'.status = now /\ invoice'.ref = invoice.ref
  BY <1>1, <1>3, <1>4, InvoiceBecomes DEF RowsTyped, InvoiceRow
<1>6. cycle' \in CycleRow /\ cycle'.state = cycle.state
  BY <1>1, <1>4 DEF RowsTyped, CycleRow
<1>7. RowsTyped'
  BY <1>1, <1>4, <1>5, <1>6 DEF RowsTyped
<1>8. SaasFacts'
  BY <1>1, <1>3, <1>4, <1>5, <1>6 DEF SaasFacts, NothingUnpaid, RR
<1>9. worker' \in [Worker -> WorkerRow] /\ \A v \in Worker : WorkerFits(v)'
  <2>1. CASE now = "paid"
    BY <1>3, <1>4, <1>5, <2>1, WorkerGoes DEF WorkerStep, Pc, RR
  <2>2. CASE now # "paid"
    <3>. DEFINE b == [worker[w] EXCEPT !.pc = "link", !.seen = now]
    <3>1. PICK row : row = b
      OBVIOUS
    <3>2. worker' = [worker EXCEPT ![w] = row] /\ row \in WorkerRow /\ row.pc = "link"
          /\ row.verified = worker[w].verified
      BY <1>1, <1>3, <1>4, <2>2, <3>1 DEF WorkerRow, Pc
    <3>. HIDE DEF b
    <3>. QED  BY <1>1, <1>3, <1>4, <1>5, <3>2, WorkerMoves DEF WorkerFits, RR
  <2>. QED  BY <2>1, <2>2
<1>. QED  BY <1>7, <1>8, <1>9, StepTogether

\* A step of a worker alone, to a row that fits.
LEMMA OnlyWorkerKeeps ==
  ASSUME SaasInv, NEW w \in Worker, NEW row \in WorkerRow, worker' = [worker EXCEPT ![w] = row],
         UNCHANGED <<sub, cycle, invoice, ledger, payment, events, dates>>,
         saasLeft' \in SaasBounds,
         row.verified \/ row.pc \in {"post", "paid", "initial"} => payment = "succeeded",
         row.pc \notin {"idle", "row", "bill", "invoice"} => invoice.status # "absent"
  PROVE  SaasInv'
BY RowsAreTyped, WorkerMoves, StepTogether DEF SaasInv, RowsTyped, SaasFacts, NothingUnpaid

\* A provider says that a payment succeeded when it did.
LEMMA VerifyPaymentKeeps ==
  ASSUME SaasInv, NEW w \in Worker, VerifyPayment(w) PROVE SaasInv'
<1>1. RowsTyped /\ WorkerFits(w) /\ worker[w] \in WorkerRow
  BY RowsAreTyped DEF SaasInv
<1>2. UNCHANGED <<sub, cycle, invoice, ledger, payment, events, dates>> /\ saasLeft' \in SaasBounds
      /\ invoice.status # "absent"
  BY <1>1 DEF VerifyPayment, OnlyWorker, RowsTyped, WorkerFits, At
<1>3. PICK answer \in Answers(w) :
        \/ Rests(w)
        \/ /\ AfterAnswer(w, answer) # "idle"
           /\ worker' = [worker EXCEPT
                ![w].pc = AfterAnswer(w, answer), ![w].report = answer,
                ![w].verified = answer = "succeeded" /\ (Is(w, {"due"}) => "verify" \in dates),
                ![w].dated = answer = "succeeded" /\ "verify" \in dates]
  BY DEF VerifyPayment
<1>4. answer \in Report /\ (answer = "succeeded" => payment = "succeeded")
  BY <1>1 DEF Answers, Report, RowsTyped
<1>5. CASE Rests(w)
  BY <1>2, <1>5, OnlyWorkerKeeps DEF Resting, WorkerRow, Pc, Kind, Report, Rests
<1>6. CASE ~Rests(w)
  <2>1. PICK pc, told, dated :
          /\ pc = AfterAnswer(w, answer) /\ told \in BOOLEAN /\ dated \in BOOLEAN
          /\ told = (answer = "succeeded" /\ (Is(w, {"due"}) => "verify" \in dates))
          /\ dated = (answer = "succeeded" /\ "verify" \in dates)
    OBVIOUS
  <2>. DEFINE b == [worker[w] EXCEPT !.pc = pc, !.report = answer, !.verified = told, !.dated = dated]
  <2>2. PICK row : row = b
    OBVIOUS
  <2>3. pc \in {"adopt", "fail", "demote", "idle", "confirm", "activate"}
    BY <2>1 DEF AfterAnswer
  <2>4. row \in WorkerRow /\ row.pc = pc /\ row.verified = told
    <3>1. worker[w] \in WorkerRow /\ pc \in Pc
      BY <1>1, <2>3 DEF Pc
    <3>. HIDE DEF Pc
    <3>. QED  BY <1>4, <2>1, <2>2, <3>1 DEF WorkerRow
  <2>5. worker' = [worker EXCEPT ![w] = row]
    BY <1>3, <1>6, <2>1, <2>2
  <2>. HIDE DEF b
  <2>. QED  BY <1>2, <1>4, <2>1, <2>3, <2>4, <2>5, OnlyWorkerKeeps
<1>. QED  BY <1>5, <1>6

LEMMA ReadInvoiceKeeps ==
  ASSUME SaasInv, NEW w \in Worker, ReadInvoice(w) PROVE SaasInv'
<1>1. RowsTyped /\ SaasFacts /\ WorkerFits(w) /\ worker[w] \in WorkerRow
  BY RowsAreTyped DEF SaasInv
<1>2. UNCHANGED <<sub, cycle, invoice, ledger, payment, events, dates>> /\ saasLeft' \in SaasBounds
      /\ invoice.status \in {"pending", "paid", "failed", RR} /\ worker[w].pc = "activate"
  BY <1>1 DEF ReadInvoice, OnlyWorker, RowsTyped, WorkerFits, At, InvoiceRow, InvoiceStatus
<1>3. CASE NotActivated(w) \/ Rests(w)
  <2>1. PICK pc \in {"mark", "idle"} : Goes(w, pc) \/ Rests(w)
    BY <1>3 DEF NotActivated
  <2>2. worker' \in [Worker -> WorkerRow] /\ \A v \in Worker : WorkerFits(v)'
    BY <1>1, <1>2, <2>1, WorkerGoes DEF WorkerStep, Pc, RR
  <2>3. RowsTyped' /\ SaasFacts'
    BY <1>1, <1>2 DEF RowsTyped, SaasFacts, NothingUnpaid
  <2>. QED  BY <2>2, <2>3, StepTogether
<1>4. CASE ~(NotActivated(w) \/ Rests(w))
  <2>. DEFINE b == [Resting EXCEPT !.pc = IF invoice.status = "paid" THEN "initial" ELSE "post",
                      !.kind = worker[w].kind, !.seen = invoice.status, !.dated = worker[w].dated]
  <2>1. PICK row : row = b
    OBVIOUS
  <2>2. worker' = [worker EXCEPT ![w] = row] /\ invoice.status # "failed"
        /\ ~(invoice.status = "pending" /\ ~worker[w].verified)
    BY <1>4, <2>1 DEF ReadInvoice
  <2>3. row \in WorkerRow /\ row.pc \in {"initial", "post"}
    BY <1>1, <1>2, <2>1 DEF WorkerRow, Resting, Pc, Report
  <2>. HIDE DEF b
  <2>4. payment = "succeeded"
    BY <1>1, <1>2, <2>2 DEF SaasFacts, NothingUnpaid, WorkerFits, RR
  <2>. QED  BY <1>2, <2>2, <2>3, <2>4, OnlyWorkerKeeps DEF RR
<1>. QED  BY <1>3, <1>4

LEMMA WebhookKeeps ==
  ASSUME SaasInv, NEW w \in Worker, Webhook(w) PROVE SaasInv'
<1>1. RowsTyped /\ SaasFacts /\ WorkerFits(w) /\ worker[w] \in WorkerRow
  BY RowsAreTyped DEF SaasInv
<1>2. UNCHANGED <<sub, cycle, invoice, ledger, payment, events, dates>> /\ saasLeft' \in SaasBounds
      /\ invoice.status # "absent"
  BY <1>1, SaasSpends DEF Webhook, OnlyBounds, RowsTyped, SaasFacts
<1>3. CASE "succeeded" \in events /\ worker' = [worker EXCEPT ![w].pc = "activate",
             ![w].kind = "webhook", ![w].verified = TRUE, ![w].dated = "webhook" \in dates]
  <2>1. PICK dated : dated = ("webhook" \in dates)
    OBVIOUS
  <2>. DEFINE b == [worker[w] EXCEPT !.pc = "activate", !.kind = "webhook", !.verified = TRUE,
                      !.dated = dated]
  <2>2. PICK row : row = b
    OBVIOUS
  <2>3. row \in WorkerRow /\ row.pc = "activate"
    <3>1. dated \in BOOLEAN
      BY <2>1
    <3>. QED  BY <1>1, <2>2, <3>1 DEF WorkerRow, Pc, Kind
  <2>4. worker' = [worker EXCEPT ![w] = row]
    BY <1>3, <2>1, <2>2
  <2>5. payment = "succeeded"
    BY <1>1, <1>3 DEF SaasFacts
  <2>. HIDE DEF b
  <2>. QED  BY <1>2, <2>3, <2>4, <2>5, OnlyWorkerKeeps
<1>4. CASE Begins(w, "webhook", "fail")
  BY <1>2, <1>4, WorkerGoes, <1>1, StepTogether DEF WorkerStep, Pc, Kind, RowsTyped, SaasFacts,
     NothingUnpaid
<1>. QED  BY <1>3, <1>4 DEF Webhook

\* What happens outside the workers.
LEMMA SaasWorldKeeps ==
  ASSUME SaasInv, CancelSubscription \/ Customer \/ InvoiceAges \/ CycleAges PROVE SaasInv'
<1>1. RowsTyped /\ SaasFacts /\ worker \in [Worker -> WorkerRow]
  BY RowsAreTyped DEF SaasInv
<1>2. worker' = worker
  BY DEF CancelSubscription, Customer, InvoiceAges, CycleAges, ButInvoice
<1>3. saasLeft' \in SaasBounds
  BY <1>1, SaasSpends DEF CancelSubscription, Customer, InvoiceAges, CycleAges, ButInvoice,
         RowsTyped
<1>4. sub' \in SubRow /\ (sub'.until = "current" => sub.until = "current")
  BY <1>1 DEF CancelSubscription, Customer, InvoiceAges, CycleAges, ButInvoice, RowsTyped, SubRow
<1>5. cycle' \in CycleRow /\ cycle'.state = cycle.state
  BY <1>1 DEF CancelSubscription, Customer, InvoiceAges, CycleAges, ButInvoice, RowsTyped, CycleRow
<1>6. invoice' \in InvoiceRow /\ invoice'.status = invoice.status /\ invoice'.ref = invoice.ref
  BY <1>1 DEF CancelSubscription, Customer, InvoiceAges, CycleAges, ButInvoice, RowsTyped,
         InvoiceRow
<1>7. /\ payment' \in {"none", "open", "declined", "succeeded"}
      /\ payment = "succeeded" => payment' = "succeeded"
      /\ events' \subseteq Report
      /\ "succeeded" \in events' => "succeeded" \in events \/ payment' = "succeeded"
      /\ UNCHANGED <<ledger, dates>>
  BY <1>1 DEF CancelSubscription, Customer, InvoiceAges, CycleAges, ButInvoice, RowsTyped, Report
<1>8. RowsTyped'
  BY <1>1, <1>3, <1>4, <1>5, <1>6, <1>7 DEF RowsTyped
<1>9. SaasFacts'
  BY <1>1, <1>4, <1>5, <1>6, <1>7 DEF SaasFacts, NothingUnpaid
<1>10. \A v \in Worker : WorkerFits(v)'
  BY <1>2, <1>6, <1>7 DEF SaasInv, WorkerFits
<1>. QED  BY <1>1, <1>2, <1>8, <1>9, <1>10, StepTogether

LEMMA SaasStays == SaasInv /\ UNCHANGED saasVars => SaasInv'
BY DEF SaasInv, SaasTypeOK, SaasFacts, NothingUnpaid, WorkerFits, saasVars

LEMMA SaasStep == SaasInv /\ SaasNext => SaasInv'
<1>. SUFFICES ASSUME SaasInv, SaasNext PROVE SaasInv'
  OBVIOUS
<1>1. ASSUME NEW w \in Worker, Requested(w) PROVE SaasInv'
  BY <1>1, CreateSubscriptionIntentKeeps, WebhookKeeps, ConfirmSubscriptionPaymentKeeps,
     ResolveAmbiguousPaymentKeeps DEF Requested
<1>2. ASSUME NEW w \in Worker, Works(w) PROVE SaasInv'
  <2>1. CASE UpsertSubscription(w) \/ CreateInvoice(w) \/ UpsertInvoice(w) \/ LinkCycle(w)
             \/ ClaimCreation(w) \/ AwaitReference(w) \/ CreatePaymentIntent(w)
    BY <2>1, UpsertSubscriptionKeeps, CreateInvoiceKeeps, UpsertInvoiceKeeps, LinkCycleKeeps,
       ClaimCreationKeeps, AwaitReferenceKeeps, CreatePaymentIntentKeeps
  <2>2. CASE PersistReference(w) \/ VerifyPayment(w) \/ FailInvoice(w) \/ DemoteSubscription(w)
             \/ SettleCycle(w) \/ ConfirmCycle(w) \/ ReadInvoice(w)
    BY <2>2, PersistReferenceKeeps, VerifyPaymentKeeps, FailInvoiceKeeps, DemoteSubscriptionKeeps,
       SettleCycleKeeps, ConfirmCycleKeeps, ReadInvoiceKeeps
  <2>3. CASE PostLedger(w) \/ MarkPaid(w) \/ ActivateInitial(w) \/ CompleteCycle(w) \/ MarkCycle(w)
             \/ AdoptReference(w) \/ Unstick(w)
    BY <2>3, PostLedgerKeeps, MarkPaidKeeps, ActivateInitialKeeps, CompleteCycleKeeps,
       MarkCycleKeeps, AdoptReferenceKeeps, UnstickKeeps
  <2>. QED  BY <1>2, <2>1, <2>2, <2>3 DEF Works
<1>3. ASSUME NEW w \in Worker,
             \/ WorkerStops(w) \/ RenewSubscription(w) \/ DueInvoice(w) \/ StuckCreating(w)
             \/ StuckCycle(w) \/ StuckSubscription(w)
      PROVE  SaasInv'
  BY <1>3, WorkerStopsKeeps, RenewSubscriptionKeeps, DueInvoiceKeeps, StuckCreatingKeeps,
     StuckCycleKeeps, StuckSubscriptionKeeps
<1>. QED  BY <1>1, <1>2, <1>3, SaasWorldKeeps DEF SaasNext

-----------------------------------------------------------------------------
(* CustomerCredit: what is granted is granted once.                        *)

Ordinal == Nat \ {0}
Readings == [User -> Nat]
CallerRow == [pc : {"claim", "read", "post", "done"}, use : Use, next : Ordinal, read : Readings]
IssuanceStatus == {"none", "pending", "completed", "reconciliation_required"}
IssuanceRow == [status : IssuanceStatus, old : BOOLEAN]

\* The records of a use are made together, each with its grant.
RecordsAgree ==
  /\ \A i \in Issuance : /\ granted[i] = IF issuance[i].status = "none" THEN 0 ELSE 1
                         /\ booked[i] => issuance[i].status # "none"
  /\ \A use \in Use : \A u, v \in GrantsTo(use) :
       issuance[<<use, u>>].status = "none" <=> issuance[<<use, v>>].status = "none"

\* Who holds a claim holds it alone, and nothing is granted yet; who posts, posts a grant.
CallerFits(c) ==
  /\ caller[c].next <= Len(Recipients[caller[c].use]) + 1
  /\ caller[c].pc = "read" =>
       /\ \A user \in GrantsTo(caller[c].use) : issuance[<<caller[c].use, user>>].status = "none"
       /\ \A d \in Caller \ {c} : caller[d].pc = "read" => caller[d].use # caller[c].use
  /\ caller[c].pc = "post" =>
       \A user \in GrantsTo(caller[c].use) : issuance[<<caller[c].use, user>>].status # "none"

CreditTyped ==
  /\ balance \in [User -> Nat] /\ spent \in [Order -> Nat]
  /\ issuance \in [Issuance -> IssuanceRow]
  /\ granted \in [Issuance -> Nat] /\ booked \in [Issuance -> BOOLEAN]
  /\ caller \in [Caller -> CallerRow] /\ creditLeft \in Nat

CreditInv == CreditTyped /\ RecordsAgree /\ \A c \in Caller : CallerFits(c)

LEMMA CreditInvGivesType == CreditInv => CreditTypeOK /\ GrantedOnce
BY DEF CreditInv, CreditTyped, CreditTypeOK, CallerFits, CallerRow, Ordinal, Readings, IssuanceRow,
       IssuanceStatus, GrantedOnce, RecordsAgree

\* A recipient of a use has a record of it.
LEMMA IssuanceOf ==
  /\ \A use \in Use : GrantsTo(use) \subseteq User
  /\ \A use \in Use : \A user \in GrantsTo(use) : <<use, user>> \in Issuance
  /\ \A i \in Issuance : i[1] \in Use /\ i[2] \in GrantsTo(i[1]) /\ i = <<i[1], i[2]>>
BY RecipientsAssumption DEF GrantsTo, Issuance

LEMMA CreditInitInv ==
  ASSUME NEW of, CreditPlan(of), CreditInitOf(of)
  PROVE  CreditInv
<1>1. \A c \in Caller : caller[c] = GrantOf(of.grants, c)
  BY DEF CreditInitOf
<1>2. \A c \in Caller : /\ GrantOf(of.grants, c) \in CallerRow
                        /\ GrantOf(of.grants, c).pc \in {"claim", "done"}
                        /\ GrantOf(of.grants, c).next = 1
  <2>. SUFFICES ASSUME NEW c \in Caller
                PROVE  /\ GrantOf(of.grants, c) \in CallerRow
                       /\ GrantOf(of.grants, c).pc \in {"claim", "done"}
                       /\ GrantOf(of.grants, c).next = 1
    OBVIOUS
  <2>1. (CHOOSE any \in Use : TRUE) \in Use
    BY RecipientsAssumption
  <2>2. PICK use \in Use :
          use = IF c \in DOMAIN of.grants THEN of.grants[c] ELSE CHOOSE any \in Use : TRUE
    BY <2>1 DEF CreditPlan
  <2>3. 1 \in Ordinal /\ [user \in User |-> 0] \in Readings
    BY DEF Ordinal, Readings
  <2>. QED  BY <2>2, <2>3 DEF GrantOf, CallerRow
<1>3. caller \in [Caller -> CallerRow]
  BY <1>2 DEF CreditInitOf
<1>4. CreditTyped
  BY <1>3 DEF CreditInitOf, CreditTyped, CreditPlan, Absent, IssuanceRow, IssuanceStatus
<1>5. RecordsAgree
  BY IssuanceOf DEF CreditInitOf, RecordsAgree, Absent
<1>6. ASSUME NEW c \in Caller PROVE CallerFits(c)
  <2>1. caller[c].use \in Use /\ caller[c].next = 1 /\ caller[c].pc \in {"claim", "done"}
    BY <1>1, <1>2 DEF CallerRow
  <2>2. Len(Recipients[caller[c].use]) \in Nat
    BY <2>1, RecipientsAssumption
  <2>. QED  BY <2>1, <2>2 DEF CallerFits
<1>. QED  BY <1>4, <1>5, <1>6 DEF CreditInv

\* A caller's row is replaced and no record changes.
LEMMA CallerMoves ==
  ASSUME CreditInv, NEW c \in Caller, NEW row \in CallerRow, caller' = [caller EXCEPT ![c] = row],
         UNCHANGED <<balance, spent, issuance, granted, booked>>, creditLeft' \in Nat,
         row.use = caller[c].use, row.next <= Len(Recipients[row.use]) + 1,
         row.pc = "read" =>
           /\ \A user \in GrantsTo(row.use) : issuance[<<row.use, user>>].status = "none"
           /\ \A d \in Caller \ {c} : caller[d].pc = "read" => caller[d].use # row.use,
         row.pc = "post" =>
           \A user \in GrantsTo(row.use) : issuance[<<row.use, user>>].status # "none"
  PROVE  CreditInv'
<1>1. CreditTyped /\ RecordsAgree
  BY DEF CreditInv
<1>2. CreditTyped' /\ caller'[c] = row /\ \A d \in Caller \ {c} : caller'[d] = caller[d]
  BY <1>1 DEF CreditTyped
<1>3. RecordsAgree'
  BY <1>1 DEF RecordsAgree
<1>4. ASSUME NEW d \in Caller PROVE CallerFits(d)' BY <1>2 DEF CreditInv, CallerFits
<1>. QED  BY <1>2, <1>3, <1>4 DEF CreditInv

\* A caller goes elsewhere and begins its recipients again.
LEMMA CallerGoesOn ==
  ASSUME CreditInv, NEW c \in Caller, NEW pc \in {"claim", "read", "post", "done"},
         CallerGoes(c, pc),
         UNCHANGED <<balance, spent, issuance, granted, booked>>, creditLeft' \in Nat,
         pc = "read" => ~Claimed(caller[c].use) /\ ~Held(caller[c].use),
         pc = "post" => Claimed(caller[c].use)
  PROVE  CreditInv'
<1>1. CreditTyped /\ RecordsAgree /\ caller[c] \in CallerRow /\ caller[c].use \in Use
      /\ caller \in [Caller -> CallerRow]
  BY DEF CreditInv, CreditTyped, CallerRow
<1>. DEFINE b == [caller[c] EXCEPT !.pc = pc, !.next = 1]
<1>2. PICK row : row = b
  OBVIOUS
<1>3. row \in CallerRow /\ caller' = [caller EXCEPT ![c] = row] /\ row.pc = pc /\ row.next = 1
      /\ row.use = caller[c].use
  <2>1. row \in CallerRow /\ row.pc = pc /\ row.next = 1 /\ row.use = caller[c].use
    <3>1. 1 \in Ordinal
      BY DEF Ordinal
    <3>. QED  BY <1>1, <1>2, <3>1 DEF CallerRow
  <2>2. caller' = [caller EXCEPT ![c] = row]
    BY <1>1, <1>2 DEF CallerGoes
  <2>. QED  BY <2>1, <2>2
<1>. HIDE DEF b
<1>4. row.next <= Len(Recipients[row.use]) + 1 BY <1>1, <1>3, RecipientsAssumption
<1>5. row.pc = "read" => \A user \in GrantsTo(row.use) : issuance[<<row.use, user>>].status = "none"
  BY <1>3 DEF Claimed
<1>6. row.pc = "read" => \A d \in Caller \ {c} : caller[d].pc = "read" => caller[d].use # row.use
  BY <1>3 DEF Held, CallerAt
<1>7. row.pc = "post" => \A user \in GrantsTo(row.use) : issuance[<<row.use, user>>].status # "none"
  BY <1>1, <1>3 DEF Claimed, RecordsAgree
<1>. QED  BY <1>3, <1>4, <1>5, <1>6, <1>7, CallerMoves

LEMMA ReadBalanceKeeps ==
  ASSUME CreditInv, NEW c \in Caller, ReadBalance(c)
  PROVE  CreditInv'
<1>1. CreditTyped /\ caller[c] \in CallerRow /\ caller[c].use \in Use /\ CallerFits(c)
      /\ caller[c].next \in Nat \ {0}
  BY DEF CreditInv, CreditTyped, CallerRow, Ordinal
<1>2. Recipients[caller[c].use] \in Seq(User) /\ Len(Recipients[caller[c].use]) \in Nat
      /\ caller[c].next <= Len(Recipients[caller[c].use])
  BY <1>1, RecipientsAssumption DEF ReadBalance, Exhausted
<1>3. PICK user \in User : user = Current(c)
  BY <1>1, <1>2 DEF Current
<1>4. PICK amount \in Nat : amount = balance[user]
  BY <1>1 DEF CreditTyped
<1>. DEFINE b == [caller[c] EXCEPT !.next = @ + 1, !.read[user] = amount]
<1>5. PICK row : row = b
  OBVIOUS
<1>6. caller' = [caller EXCEPT ![c] = row]
  BY <1>1, <1>3, <1>4, <1>5 DEF ReadBalance
<1>7. row \in CallerRow /\ row.pc = caller[c].pc /\ row.use = caller[c].use
      /\ row.next = caller[c].next + 1
  <2>1. PICK n \in Ordinal : n = caller[c].next + 1
    BY <1>1 DEF Ordinal
  <2>2. PICK reads \in Readings : reads = [caller[c].read EXCEPT ![user] = amount]
    BY <1>1 DEF CallerRow, Readings
  <2>3. row = [caller[c] EXCEPT !.next = n, !.read = reads]
    BY <1>1, <1>5, <2>1, <2>2 DEF CallerRow
  <2>. HIDE DEF b
  <2>. QED  BY <1>1, <2>1, <2>3 DEF CallerRow
<1>. HIDE DEF b
<1>8. UNCHANGED <<balance, spent, issuance, granted, booked>> /\ creditLeft' \in Nat
      /\ caller[c].pc = "read"
  BY <1>1 DEF ReadBalance, CreditTyped, CallerAt
<1>9. row.next <= Len(Recipients[row.use]) + 1
  BY <1>1, <1>2, <1>7
<1>. QED  BY <1>1, <1>6, <1>7, <1>8, <1>9, CallerMoves DEF CallerFits

\* Nothing was granted of the use before: its claim was held alone.
LEMMA CommitGrantKeeps ==
  ASSUME CreditInv, NEW c \in Caller, CommitGrant(c)
  PROVE  CreditInv'
<1>1. CreditTyped /\ RecordsAgree /\ caller[c] \in CallerRow /\ CallerFits(c)
      /\ caller[c].pc = "read" /\ REWARD \in Nat
  BY RewardAssumption DEF CreditInv, CreditTyped, CommitGrant, CallerAt
<1>2. PICK use \in Use : use = caller[c].use
  BY <1>1 DEF CallerRow
<1>3. \A i \in Issuance : i \in Mine(c) <=> i[1] = use
  BY <1>2, IssuanceOf DEF Mine
<1>4. ASSUME NEW i \in Issuance
      PROVE  /\ i[1] = use => /\ issuance'[i].status = "pending"
                              /\ granted'[i] = granted[i] + 1
             /\ i[1] # use => issuance'[i] = issuance[i] /\ granted'[i] = granted[i]
  BY <1>1, <1>3 DEF CreditTyped, CommitGrant, Absent
<1>5. issuance' \in [Issuance -> IssuanceRow] /\ granted' \in [Issuance -> Nat]
      /\ balance' \in [User -> Nat] /\ UNCHANGED <<spent, booked, creditLeft>>
  <2>1. issuance' \in [Issuance -> IssuanceRow]
    BY <1>1 DEF CommitGrant, Absent, CreditTyped, IssuanceRow, IssuanceStatus
  <2>2. granted' \in [Issuance -> Nat]
    BY <1>1 DEF CommitGrant, CreditTyped
  <2>3. balance' \in [User -> Nat]
    BY <1>1 DEF CommitGrant, CreditTyped, CallerRow, Readings
  <2>. QED  BY <2>1, <2>2, <2>3 DEF CommitGrant
<1>. DEFINE b == [caller[c] EXCEPT !.pc = "post", !.next = 1]
<1>6. PICK row : row = b
  OBVIOUS
<1>7. row \in CallerRow /\ caller' = [caller EXCEPT ![c] = row] /\ row.pc = "post" /\ row.next = 1
      /\ row.use = use
  <2>1. row \in CallerRow /\ row.pc = "post" /\ row.next = 1 /\ row.use = use
    <3>1. 1 \in Ordinal
      BY DEF Ordinal
    <3>. QED  BY <1>1, <1>2, <1>6, <3>1 DEF CallerRow
  <2>2. caller \in [Caller -> CallerRow]
    BY <1>1 DEF CreditTyped
  <2>3. caller' = [caller EXCEPT ![c] = row]
    BY <1>6, <2>2 DEF CommitGrant, CallerGoes
  <2>. QED  BY <2>1, <2>3
<1>. HIDE DEF b
<1>8. caller' \in [Caller -> CallerRow] /\ caller'[c] = row
      /\ \A d \in Caller \ {c} : caller'[d] = caller[d]
  BY <1>1, <1>7 DEF CreditTyped
<1>9. CreditTyped'
  BY <1>1, <1>5, <1>8 DEF CreditTyped
<1>10. \A i \in Issuance : i[1] = use => issuance[i].status = "none"
  BY <1>1, <1>2, IssuanceOf DEF CallerFits
<1>11. RecordsAgree'
  <2>1. ASSUME NEW i \in Issuance
        PROVE  /\ granted'[i] = IF issuance'[i].status = "none" THEN 0 ELSE 1
               /\ booked'[i] => issuance'[i].status # "none"
    BY <1>1, <1>4, <1>5, <1>10 DEF RecordsAgree, CreditTyped
  <2>2. ASSUME NEW to \in Use, NEW u \in GrantsTo(to), NEW v \in GrantsTo(to)
        PROVE  issuance'[<<to, u>>].status = "none" <=> issuance'[<<to, v>>].status = "none"
    BY IssuanceOf, <1>1, <1>4 DEF RecordsAgree
  <2>. QED  BY <2>1, <2>2 DEF RecordsAgree
<1>12. ASSUME NEW d \in Caller PROVE CallerFits(d)'
  <2>1. CallerFits(d) /\ caller[d].use \in Use /\ caller'[d].use = caller[d].use
        /\ caller[d].next \in Nat
    BY <1>1, <1>2, <1>7, <1>8 DEF CreditInv, CreditTyped, CallerRow, Ordinal
  <2>2. CASE caller[d].use = use
    <3>1. caller'[d].pc # "read"
      BY <1>1, <1>2, <1>7, <1>8, <2>1, <2>2 DEF CallerFits
    <3>2. \A user \in GrantsTo(use) : issuance'[<<use, user>>].status # "none"
      BY <1>2, <1>4, IssuanceOf
    <3>3. Len(Recipients[use]) \in Nat
      BY RecipientsAssumption
    <3>. QED  BY <1>7, <1>8, <2>1, <2>2, <3>1, <3>2, <3>3 DEF CallerFits
  <2>3. CASE caller[d].use # use
    <3>1. d # c /\ caller'[d] = caller[d]
      BY <1>2, <1>8, <2>3
    <3>2. \A user \in GrantsTo(caller[d].use) :
            issuance'[<<caller[d].use, user>>] = issuance[<<caller[d].use, user>>]
      BY <1>4, <2>1, <2>3, IssuanceOf
    <3>3. \A e \in Caller \ {d} : caller'[e].pc = "read" => caller[e].pc = "read" /\ caller'[e].use = caller[e].use
      BY <1>7, <1>8
    <3>. QED  BY <2>1, <3>1, <3>2, <3>3 DEF CallerFits
  <2>. QED  BY <2>2, <2>3
<1>. QED  BY <1>9, <1>11, <1>12 DEF CreditInv

\* A record that there is changes its status, and stays one; it may be booked.
LEMMA RecordMoves ==
  ASSUME CreditInv, NEW i \in Issuance, NEW row \in IssuanceRow, issuance[i].status # "none",
         row.status # "none", issuance' = [issuance EXCEPT ![i] = row],
         NEW posted \in BOOLEAN, booked' = [booked EXCEPT ![i] = posted],
         UNCHANGED <<balance, spent, granted, caller>>, creditLeft' \in Nat
  PROVE  CreditInv'
BY IssuanceOf DEF CreditInv, CreditTyped, RecordsAgree, CallerRow, CallerFits

\* The guarded update of a record's status.
LEMMA RecordBecomes ==
  ASSUME CreditTyped, NEW i \in Issuance, NEW status \in IssuanceStatus \ {"none"},
         issuance[i].status # "none", IssuanceTo(i, status)
  PROVE  \E row \in IssuanceRow : row.status # "none" /\ issuance' = [issuance EXCEPT ![i] = row]
<1>1. PICK row : row = IF issuance[i].status \in Unsettled
                         THEN [status |-> status, old |-> FALSE] ELSE issuance[i]
  OBVIOUS
<1>2. issuance' = [issuance EXCEPT ![i] = row]
  BY <1>1 DEF IssuanceTo
<1>3. row \in IssuanceRow /\ row.status # "none"
  BY <1>1 DEF CreditTyped, IssuanceRow, IssuanceStatus
<1>. QED  BY <1>2, <1>3

LEMMA RepairIssuanceKeeps ==
  ASSUME CreditInv, NEW i \in Issuance, RepairIssuance(i)
  PROVE  CreditInv'
<1>1. CreditTyped /\ issuance[i].status # "none"
  BY DEF CreditInv, RepairIssuance, Due
<1>2. PICK row \in IssuanceRow : row.status # "none" /\ issuance' = [issuance EXCEPT ![i] = row]
  BY <1>1, RecordBecomes DEF RepairIssuance, IssuanceStatus
<1>3. booked' = [booked EXCEPT ![i] = TRUE] /\ UNCHANGED <<balance, spent, granted, caller>>
      /\ creditLeft' \in Nat
  BY <1>1 DEF RepairIssuance, CreditTyped
<1>. QED  BY <1>1, <1>2, <1>3, RecordMoves

LEMMA IssuanceAgesKeeps ==
  ASSUME CreditInv, NEW i \in Issuance, IssuanceAges(i)
  PROVE  CreditInv'
<1>1. CreditTyped /\ issuance[i] = [status |-> "pending", old |-> FALSE]
      /\ UNCHANGED <<balance, spent, granted, booked, caller, creditLeft>>
  BY DEF CreditInv, IssuanceAges
<1>. DEFINE b == [issuance[i] EXCEPT !.old = TRUE]
<1>2. PICK row : row = b
  OBVIOUS
<1>3. row \in IssuanceRow /\ row.status # "none" /\ issuance' = [issuance EXCEPT ![i] = row]
  <2>1. issuance \in [Issuance -> IssuanceRow]
    BY <1>1 DEF CreditTyped
  <2>2. issuance' = [issuance EXCEPT ![i] = row]
    BY <1>2, <2>1 DEF IssuanceAges
  <2>3. issuance[i].status = "pending"
    BY <1>1
  <2>4. issuance[i] \in IssuanceRow
    BY <2>1
  <2>5. row \in IssuanceRow /\ row.status = "pending"
    BY <1>2, <2>3, <2>4 DEF IssuanceRow
  <2>. QED  BY <2>2, <2>5
<1>4. booked' = [booked EXCEPT ![i] = booked[i]] /\ booked[i] \in BOOLEAN
      /\ issuance[i].status # "none" /\ creditLeft' \in Nat
  BY <1>1 DEF CreditTyped
<1>. HIDE DEF b
<1>. QED  BY <1>1, <1>3, <1>4, RecordMoves

\* The record is posted, or marked, or left as it is; then the caller goes on to the next.
LEMMA PostIssuanceKeeps ==
  ASSUME CreditInv, NEW c \in Caller, PostIssuance(c)
  PROVE  CreditInv'
<1>1. CreditTyped /\ caller[c] \in CallerRow /\ caller[c].use \in Use /\ CallerFits(c)
      /\ caller[c].next \in Nat \ {0} /\ RecordsAgree
  BY DEF CreditInv, CreditTyped, CallerRow, Ordinal
<1>2. Len(Recipients[caller[c].use]) \in Nat /\ caller[c].pc = "post"
      /\ caller[c].next <= Len(Recipients[caller[c].use])
  BY <1>1, RecipientsAssumption DEF PostIssuance, Exhausted, CallerAt
<1>3. Current(c) \in GrantsTo(caller[c].use)
  BY <1>1, <1>2, RecipientsAssumption DEF Current, GrantsTo
<1>4. PICK i \in Issuance : i = <<caller[c].use, Current(c)>>
  BY <1>1, <1>3, IssuanceOf
<1>5. issuance[i].status # "none"
  BY <1>2, <1>1, <1>3, <1>4 DEF CallerFits
<1>6. \E row \in IssuanceRow, posted \in BOOLEAN :
        /\ row.status # "none" /\ issuance' = [issuance EXCEPT ![i] = row]
        /\ booked' = [booked EXCEPT ![i] = posted]
  <2>1. CASE IssuanceTo(i, "completed") /\ booked' = [booked EXCEPT ![i] = TRUE]
    BY <1>1, <1>5, <2>1, RecordBecomes DEF IssuanceStatus
  <2>2. CASE /\ \E posted \in {TRUE, booked[i]} : booked' = [booked EXCEPT ![i] = posted]
             /\ IssuanceTo(i, "reconciliation_required") \/ UNCHANGED issuance
    <3>1. PICK posted \in BOOLEAN : booked' = [booked EXCEPT ![i] = posted]
      BY <1>1, <2>2 DEF CreditTyped
    <3>2. CASE IssuanceTo(i, "reconciliation_required")
      BY <1>1, <1>5, <3>1, <3>2, RecordBecomes DEF IssuanceStatus
    <3>3. CASE UNCHANGED issuance BY <1>1, <3>3, <1>5, <3>1 DEF CreditTyped
    <3>. QED  BY <2>2, <3>2, <3>3
  <2>. QED  BY <1>4, <2>1, <2>2 DEF PostIssuance
<1>7. PICK line \in IssuanceRow, posted \in BOOLEAN :
        /\ line.status # "none" /\ issuance' = [issuance EXCEPT ![i] = line]
        /\ booked' = [booked EXCEPT ![i] = posted]
  BY <1>6
<1>8. UNCHANGED <<balance, spent, granted>> /\ creditLeft' \in Nat
  BY <1>1 DEF PostIssuance, CreditTyped, Fails
<1>. DEFINE b == [caller[c] EXCEPT !.next = @ + 1]
<1>9. PICK row : row = b
  OBVIOUS
<1>10. caller' = [caller EXCEPT ![c] = row] /\ row \in CallerRow /\ row.pc = "post"
       /\ row.use = caller[c].use /\ row.next = caller[c].next + 1
  BY <1>1, <1>2, <1>9 DEF PostIssuance, CallerRow, Ordinal
<1>. HIDE DEF b
<1>11. /\ \A j \in Issuance : issuance'[j].status = "none" <=> issuance[j].status = "none"
       /\ \A j \in Issuance : booked'[j] => booked[j] \/ issuance[j].status # "none"
  BY <1>1, <1>5, <1>7 DEF CreditTyped
<1>12. CreditTyped'
  BY <1>1, <1>7, <1>8, <1>10 DEF CreditTyped
<1>13. RecordsAgree'
  BY <1>1, <1>8, <1>11, IssuanceOf DEF RecordsAgree
<1>14. ASSUME NEW d \in Caller PROVE CallerFits(d)'
  <2>1. CallerFits(d) /\ caller[d].use \in Use /\ caller'[d].use = caller[d].use
        /\ caller'[d].pc = caller[d].pc
    BY <1>1, <1>2, <1>10 DEF CreditInv, CreditTyped, CallerRow
  <2>2. \A e \in Caller : caller'[e].use = caller[e].use /\ caller'[e].pc = caller[e].pc
    BY <1>1, <1>2, <1>10 DEF CreditTyped
  <2>3. caller'[d].next <= Len(Recipients[caller[d].use]) + 1
    BY <1>1, <1>2, <1>10, <2>1 DEF CallerFits, CreditTyped
  <2>. QED  BY <1>11, <2>1, <2>2, <2>3, IssuanceOf DEF CallerFits
<1>. QED  BY <1>12, <1>13, <1>14 DEF CreditInv

LEMMA CreditStep ==
  ASSUME CreditInv, CreditNext PROVE CreditInv'
<1>1. CreditTyped
  BY DEF CreditInv
<1>2. ASSUME NEW c \in Caller, ClaimGrant(c) PROVE CreditInv'
  <2>1. PICK pc \in {"read", "post", "done"} :
          /\ CallerGoes(c, pc) /\ (pc = "read" => ~Claimed(caller[c].use))
          /\ (pc = "post" => Claimed(caller[c].use))
    BY <1>2 DEF ClaimGrant
  <2>2. UNCHANGED <<balance, spent, issuance, granted, booked>> /\ creditLeft' \in Nat
        /\ ~Held(caller[c].use)
    BY <1>1, <1>2 DEF ClaimGrant, CreditTyped
  <2>. QED  BY <2>1, <2>2, CallerGoesOn
<1>3. ASSUME NEW c \in Caller, CallerReturns(c) \/ CallerStops(c) PROVE CreditInv'
  BY <1>1, <1>3, CallerGoesOn DEF CallerReturns, CallerStops, Fails, CreditTyped
<1>. QED  BY <1>2, <1>3, ReadBalanceKeeps, CommitGrantKeeps, PostIssuanceKeeps,
             RepairIssuanceKeeps, IssuanceAgesKeeps DEF CreditNext, Granting

LEMMA CreditStays == CreditInv /\ UNCHANGED creditVars => CreditInv'
BY DEF CreditInv, CreditTyped, RecordsAgree, CallerFits, creditVars

-----------------------------------------------------------------------------
(* NumberSubscription: a period is extended only for its price.            *)

PaidFor(p) == number.price <= spent[p] + IF intent[p].paid THEN intent[p].amount ELSE 0

\* Cycles in these states were paid, and so was the cycle of who is at one of these steps.
PaidStates == {"payment_confirmed", "financial_posted", "reconciliation_required", "completed"}
Sure == {"repair", "confirm", "finalize", "posted", "extend", "push", "stretch", "complete", "undone"}
\* No cycle was looked up yet.
Nowhere == {"idle", "start", "suspend", "end"}

\* A card payment is asked for what the credit had left.
PaidFacts ==
  /\ ExtendedIsPaid
  /\ \A p \in Period : /\ renewal[p].state \in PaidStates => PaidFor(p)
                       /\ intent[p] # NoIntent => number.price <= spent[p] + intent[p].amount
                       /\ spent[p] <= number.price

\* Who renews a period knows no more credit than was taken for it, and those before are paid.
RenewerFits(w) ==
  renewer[w].pc \notin Nowhere =>
    /\ Cycle(w) \in Period /\ (\A q \in Period : q < Cycle(w) => PaidFor(q))
    /\ renewer[w].credit <= spent[Cycle(w)]
    /\ renewer[w].pc \in Sure => PaidFor(Cycle(w))

NumberRow == [status : {"active", "suspended", "released"}, price : Nat, cost : Nat, expires : Nat]
PlanRow == [status : {"active", "past_due", "suspended", "cancelled", "reconciliation_required"},
            end : Nat]
RenewalState == {"none", "pending", "failed", "payment_confirmed", "financial_posted",
                 "reconciliation_required", "completed"}
RenewalRow == [state : RenewalState, credit : Nat, fee : Nat]
IntentRow == [amount : Nat, paid : BOOLEAN]
RenewerRow == [pc : RenewerPc, period : Nat, credit : Nat]
NumberBounds == [runs : Nat, calls : Nat, faults : Nat]

NumberTyped ==
  /\ number \in NumberRow /\ plan \in PlanRow /\ renewal \in [Period -> RenewalRow]
  /\ intent \in [Period -> IntentRow] /\ finalized \in [Period -> BOOLEAN]
  /\ over \in Nat /\ numberLeft \in NumberBounds

NumberInv ==
  /\ NumberTyped /\ renewer \in [Renewer -> RenewerRow] /\ CreditInv
  /\ PaidFacts /\ \A w \in Renewer : RenewerFits(w)

LEMMA NumberInvGivesType == NumberInv => NumberTypeOK /\ CreditTypeOK /\ ExtendedIsPaid /\ GrantedOnce
BY CreditInvGivesType DEF NumberInv, NumberTyped, NumberTypeOK, NumberRow, PlanRow,
   RenewalRow, RenewalState,
   IntentRow, RenewerRow, NumberBounds, PaidFacts

LEMMA NumberInitInv ==
  ASSUME NEW of \in NumberPlans, NumberInitOf(of), CreditInitOf(of.credit)
  PROVE  NumberInv
<1>1. of.price \in Nat /\ of.cost \in Nat /\ of.over \in Nat /\ CreditPlan(of.credit)
      /\ of.bounds \in NumberBounds
  BY NumberAssumption DEF NumberBounds
<1>2. CreditInv
  BY <1>1, CreditInitInv
<1>3. NumberTyped /\ renewer \in [Renewer -> RenewerRow]
  BY <1>1 DEF NumberInitOf, NumberTyped, NumberRow, PlanRow, RenewalRow, RenewalState, IntentRow,
     RenewerRow, NumberBounds, NoIntent, Idle, RenewerPc
<1>4. Period \subseteq Nat /\ \A p \in Period : spent[p] = 0
  BY OwnerAssumption DEF CreditInitOf, Period
<1>5. PaidFacts
  BY <1>1, <1>4 DEF NumberInitOf, PaidFacts, ExtendedIsPaid, PaidStates
<1>6. \A w \in Renewer : RenewerFits(w)
  BY DEF NumberInitOf, RenewerFits, Idle, Nowhere
<1>. QED  BY <1>2, <1>3, <1>5, <1>6 DEF NumberInv

LEMMA NumberSpent ==
  ASSUME numberLeft \in NumberBounds, NEW bound \in {"runs", "calls", "faults"}, NumberSpends(bound)
  PROVE  numberLeft' \in NumberBounds
BY DEF NumberSpends, NumberBounds

\* What the invariant says of one period and of one renewer.
LEMMA NumberNow ==
  ASSUME NumberInv
  PROVE  /\ NumberTyped /\ CreditInv /\ number.price \in Nat /\ plan.end \in Nat
         /\ Period \subseteq Nat
         /\ \A p \in Period : /\ spent[p] \in Nat /\ intent[p] \in IntentRow /\ intent[p].amount \in Nat
                              /\ p < plan.end => PaidFor(p)
                              /\ renewal[p].state \in PaidStates => PaidFor(p)
                              /\ intent[p] # NoIntent => number.price <= spent[p] + intent[p].amount
                              /\ spent[p] <= number.price
                              /\ renewal[p] \in RenewalRow
         /\ \A w \in Renewer : /\ renewer[w] \in RenewerRow /\ Cycle(w) \in Nat
                               /\ renewer[w].credit \in Nat
<1>1. NumberTyped /\ CreditInv /\ number.price \in Nat /\ plan.end \in Nat /\ Period \subseteq Nat
      /\ spent \in [Period -> Nat]
  BY OwnerAssumption DEF NumberInv, NumberTyped, NumberRow, PlanRow, Period, CreditInv, CreditTyped
<1>2. ASSUME NEW p \in Period
      PROVE  /\ spent[p] \in Nat /\ intent[p] \in IntentRow /\ intent[p].amount \in Nat
             /\ p < plan.end => PaidFor(p)
             /\ renewal[p].state \in PaidStates => PaidFor(p)
             /\ intent[p] # NoIntent => number.price <= spent[p] + intent[p].amount
             /\ spent[p] <= number.price
             /\ renewal[p] \in RenewalRow
  BY <1>1 DEF NumberTyped, IntentRow, NumberInv, PaidFacts, ExtendedIsPaid, PaidFor
<1>3. \A w \in Renewer : renewer[w] \in RenewerRow /\ Cycle(w) \in Nat /\ renewer[w].credit \in Nat
  BY DEF NumberInv, RenewerRow, Cycle
<1>. QED  BY <1>1, <1>2, <1>3

\* What is paid stays paid: credit taken is not given back and a payment is not undone.
LEMMA PaymentsGrow ==
  ASSUME NumberInv, number'.price = number.price,
         \A p \in Period : spent'[p] \in Nat /\ spent[p] <= spent'[p],
         \A p \in Period : /\ intent'[p].amount \in Nat
                           /\ intent[p].paid => intent'[p].paid /\ intent'[p].amount = intent[p].amount
  PROVE  \A p \in Period : PaidFor(p) => PaidFor(p)'
<1>. SUFFICES ASSUME NEW p \in Period, PaidFor(p) PROVE PaidFor(p)'
  OBVIOUS
<1>1. number.price \in Nat /\ spent[p] \in Nat /\ intent[p].amount \in Nat
  BY NumberNow
<1>. QED  BY <1>1 DEF PaidFor

\* The other renewers are where they were, and what they know stays true.
LEMMA RenewerMoves ==
  ASSUME NumberInv, NEW w \in Renewer, NEW row \in RenewerRow, renewer' = [renewer EXCEPT ![w] = row],
         \A p \in Period : PaidFor(p) => PaidFor(p)',
         \A p \in Period : spent'[p] \in Nat /\ spent[p] <= spent'[p],
         row.pc \notin Nowhere =>
           /\ row.period \in Period /\ (\A q \in Period : q < row.period => PaidFor(q)')
           /\ row.credit <= spent'[row.period]
           /\ row.pc \in Sure => PaidFor(row.period)'
  PROVE  renewer' \in [Renewer -> RenewerRow] /\ \A v \in Renewer : RenewerFits(v)'
<1>1. renewer \in [Renewer -> RenewerRow]
  BY DEF NumberInv
<1>2. renewer' \in [Renewer -> RenewerRow] /\ renewer'[w] = row
      /\ \A v \in Renewer \ {w} : renewer'[v] = renewer[v]
  BY <1>1
<1>3. ASSUME NEW v \in Renewer PROVE RenewerFits(v)'
  <2>1. CASE v = w
    BY <1>2, <2>1 DEF RenewerFits, Cycle
  <2>2. CASE v # w BY <1>2, <2>2, NumberNow DEF Cycle, NumberInv, RenewerFits
  <2>. QED  BY <2>1, <2>2
<1>. QED  BY <1>2, <1>3

\* A step of a renewer that takes no money: what it adds to the plan or says of a cycle was
\* paid before.
TakesNothing == UNCHANGED intent /\ NoCredit /\ number'.price = number.price
EndPaid == \A p \in Period : p < plan'.end => p < plan.end \/ PaidFor(p)
CyclesPaid == \A p \in Period : renewal'[p].state \in PaidStates =>
                                  renewal[p].state \in PaidStates \/ PaidFor(p)
RenewerStep(w) == \E pc \in RenewerPc : /\ RenewerGoes(w, pc) \/ RenewerRests(w)
                                        /\ pc \notin Nowhere => renewer[w].pc \notin Nowhere
                                        /\ pc \in Sure => PaidFor(Cycle(w))

LEMMA RenewerGoesOn ==
  ASSUME NumberInv, NEW w \in Renewer, NumberTyped', TakesNothing, EndPaid, CyclesPaid, RenewerStep(w)
  PROVE  NumberInv'
<1>. USE DEF TakesNothing, EndPaid, CyclesPaid
<1>. PICK pc \in RenewerPc : /\ RenewerGoes(w, pc) \/ RenewerRests(w)
                             /\ pc \notin Nowhere => renewer[w].pc \notin Nowhere
                             /\ pc \in Sure => PaidFor(Cycle(w))
  BY DEF RenewerStep
<1>1. /\ \A p \in Period : spent'[p] \in Nat /\ spent[p] <= spent'[p] /\ spent'[p] = spent[p]
      /\ \A p \in Period : /\ intent'[p].amount \in Nat
                           /\ intent[p].paid => intent'[p].paid /\ intent'[p].amount = intent[p].amount
  BY NumberNow DEF NoCredit, creditVars
<1>2. \A p \in Period : PaidFor(p) => PaidFor(p)'
  BY <1>1, PaymentsGrow
<1>3. CreditInv'
  BY CreditStays, NumberNow DEF NoCredit
<1>4. PaidFacts' BY <1>2, NumberNow, <1>1 DEF ExtendedIsPaid, PaidFor, PaidFacts
<1>5. renewer' \in [Renewer -> RenewerRow] /\ \A v \in Renewer : RenewerFits(v)'
  <2>1. renewer \in [Renewer -> RenewerRow] /\ renewer[w] \in RenewerRow /\ RenewerFits(w)
    BY DEF NumberInv
  <2>2. CASE RenewerRests(w)
    BY <2>2, <1>1, <1>2, RenewerMoves DEF Idle, RenewerRow, RenewerPc, RenewerRests, Nowhere
  <2>3. CASE RenewerGoes(w, pc)
    <3>. DEFINE b == [renewer[w] EXCEPT !.pc = pc]
    <3>1. PICK row : row = b
      OBVIOUS
    <3>2. row \in RenewerRow /\ row.pc = pc /\ row.period = Cycle(w) /\ row.credit = renewer[w].credit
      BY <2>1, <3>1 DEF RenewerRow, Cycle
    <3>3. renewer' = [renewer EXCEPT ![w] = row]
      BY <2>1, <2>3, <3>1 DEF RenewerGoes
    <3>. HIDE DEF b
    <3>4. row.pc \notin Nowhere =>
            /\ row.period \in Period /\ (\A q \in Period : q < row.period => PaidFor(q)')
            /\ row.credit <= spent'[row.period]
            /\ row.pc \in Sure => PaidFor(row.period)'
      BY <1>1, <1>2, <2>1, <3>2 DEF RenewerFits
    <3>. QED  BY <1>1, <1>2, <3>2, <3>3, <3>4, RenewerMoves
  <2>. QED  BY <2>2, <2>3
<1>. QED  BY <1>3, <1>4, <1>5 DEF NumberInv


\* What a renewer who is about to act can rely on.
RenewerNow(w) ==
  /\ NumberTyped /\ RenewerFits(w) /\ renewer[w] \in RenewerRow /\ Cycle(w) \in Nat
  /\ renewer[w].pc \notin Nowhere => Cycle(w) \in Period

LEMMA RenewerIsNow == ASSUME NumberInv, NEW w \in Renewer PROVE RenewerNow(w)
BY NumberNow DEF NumberInv, RenewerFits, RenewerNow

\* The steps of the renewers, one by one; the columns of the rows are seen in all of them.
USE DEF RenewerNow, TakesNothing, EndPaid, CyclesPaid, RenewerStep, NumberTyped, PlanRow, NumberRow,
        RenewalRow, RenewerFits, RenewerAt, Sure, Nowhere, PaidStates, OnlyRenewer, rowsOfNumber

LEMMA ListDueKeeps ==
  ASSUME NumberInv, NEW w \in Renewer, ListDue(w) PROVE NumberInv'
BY RenewerIsNow, NumberSpent, NumberNow, RenewerGoesOn DEF ListDue, NoCredit, RenewerPc, PaidFor

LEMMA RequestRenewalKeeps ==
  ASSUME NumberInv, NEW w \in Renewer, RequestRenewal(w) PROVE NumberInv'
BY RenewerIsNow, NumberSpent, NumberNow, RenewerGoesOn DEF RequestRenewal, NoCredit, RenewerPc,
   PaidFor

LEMMA RepairCompletedKeeps ==
  ASSUME NumberInv, NEW w \in Renewer, RepairCompleted(w) PROVE NumberInv'
<1>1. RenewerNow(w)
  BY RenewerIsNow
<1>2. NumberTyped' BY <1>1 DEF RepairCompleted, Behind
<1>3. TakesNothing
  BY <1>1 DEF RepairCompleted, Behind, NoCredit
<1>4. EndPaid
  <2>1. renewer[w].pc \in Sure /\ renewer[w].pc \notin Nowhere
    BY DEF RepairCompleted
  <2>2. PaidFor(Cycle(w)) /\ \A q \in Period : q < Cycle(w) => PaidFor(q)
    BY <1>1, <2>1
  <2>3. plan'.end = plan.end \/ plan'.end = Cycle(w) + 1
    BY <1>1 DEF RepairCompleted, Behind
  <2>4. Cycle(w) \in Nat /\ Period \subseteq Nat
    BY <1>1, NumberNow
  <2>5. \A p \in Period : p < Cycle(w) + 1 => p < Cycle(w) \/ p = Cycle(w)
    BY <2>4
  <2>. QED  BY <2>2, <2>3, <2>5
<1>5. CyclesPaid
  BY <1>1 DEF RepairCompleted, Behind
<1>6. RenewerStep(w)
  BY <1>1, NumberNow DEF RenewerPc, PaidFor, RepairCompleted, Behind
<1>. QED  BY <1>2, <1>3, <1>4, <1>5, <1>6, RenewerGoesOn

LEMMA VerifyRestKeeps ==
  ASSUME NumberInv, NEW w \in Renewer, VerifyRest(w) PROVE NumberInv'
<1>1. RenewerNow(w)
  BY RenewerIsNow
<1>2. NumberTyped'
  BY <1>1 DEF VerifyRest
<1>3. TakesNothing
  BY <1>1 DEF VerifyRest, NoCredit
<1>4. EndPaid
  BY <1>1, NumberNow DEF VerifyRest
<1>5. CyclesPaid
  BY <1>1 DEF VerifyRest
<1>6. RenewerStep(w) BY <1>1, NumberNow DEF VerifyRest, NoIntent, PaidFor, RenewerPc
<1>. QED  BY <1>2, <1>3, <1>4, <1>5, <1>6, RenewerGoesOn

LEMMA PaymentFailsKeeps ==
  ASSUME NumberInv, NEW w \in Renewer, PaymentFails(w) PROVE NumberInv'
BY RenewerIsNow, NumberSpent, NumberNow, RenewerGoesOn DEF PaymentFails, NoCredit, RenewerPc,
   PaidFor

LEMMA DomainFailsKeeps ==
  ASSUME NumberInv, NEW w \in Renewer, DomainFails(w) PROVE NumberInv'
BY RenewerIsNow, NumberSpent, NumberNow, RenewerGoesOn DEF DomainFails, NoCredit, RenewerPc, PaidFor

LEMMA FailCycleKeeps ==
  ASSUME NumberInv, NEW w \in Renewer, FailCycle(w) PROVE NumberInv'
BY RenewerIsNow, NumberNow, RenewerGoesOn DEF RenewalState, FailCycle, CycleSet, ButRenewal,
   NoCredit, RenewerPc, PaidFor

LEMMA DemoteNumberKeeps ==
  ASSUME NumberInv, NEW w \in Renewer, DemoteNumber(w) PROVE NumberInv'
BY RenewerIsNow, NumberNow, RenewerGoesOn DEF DemoteNumber, ButPlan, NoCredit, RenewerPc, PaidFor

LEMMA RemainderIsNat ==
  ASSUME NumberInv, NEW w \in Renewer, renewer[w].pc \notin Nowhere
  PROVE  Cycle(w) \in Period /\ Remaining(w) \in Nat /\ CardFee(Remaining(w)) \in Nat
         /\ number.price <= spent[Cycle(w)] + Remaining(w)
BY NumberNow DEF NumberInv, Remaining, CardFee


LEMMA ConfirmPaymentKeeps ==
  ASSUME NumberInv, NEW w \in Renewer, ConfirmPayment(w) PROVE NumberInv'
<1>1. RenewerNow(w)
  BY RenewerIsNow
<1>2. NumberTyped'
  <2>1. renewer[w].credit \in Nat /\ CardFee(Remaining(w)) \in Nat
    BY NumberNow, RemainderIsNat DEF ConfirmPayment
  <2>2. PICK row : row = [state |-> "payment_confirmed", credit |-> renewer[w].credit,
                          fee |-> CardFee(Remaining(w))]
    OBVIOUS
  <2>3. row \in RenewalRow /\ renewal' = [renewal EXCEPT ![Cycle(w)] = row]
    BY <2>1, <2>2 DEF ConfirmPayment, RenewalState
  <2>4. renewal' \in [Period -> RenewalRow]
    BY <1>1, <2>3
  <2>. QED  BY <1>1, <2>4 DEF ConfirmPayment, ButRenewal
<1>3. TakesNothing
  BY <1>1 DEF ConfirmPayment, ButRenewal, NoCredit
<1>4. EndPaid
  BY <1>1, NumberNow DEF ConfirmPayment, ButRenewal
<1>5. CyclesPaid
  BY <1>1 DEF ConfirmPayment, ButRenewal
<1>6. RenewerStep(w)
  BY <1>1, NumberNow DEF RenewerPc, PaidFor, ConfirmPayment, ButRenewal
<1>. QED  BY <1>2, <1>3, <1>4, <1>5, <1>6, RenewerGoesOn

LEMMA RereadKeeps ==
  ASSUME NumberInv, NEW w \in Renewer, Reread(w) PROVE NumberInv'
BY RenewerIsNow, NumberNow, RenewerGoesOn DEF Reread, State, NoCredit, RenewerPc, PaidFor

LEMMA FinalizeRenewalKeeps ==
  ASSUME NumberInv, NEW w \in Renewer, FinalizeRenewal(w) PROVE NumberInv'
<1>1. RenewerNow(w)
  BY RenewerIsNow
<1>2. NumberTyped' BY <1>1, NumberSpent DEF FinalizeRenewal
<1>3. TakesNothing
  BY <1>1 DEF FinalizeRenewal, NoCredit
<1>4. EndPaid
  BY <1>1, NumberNow DEF FinalizeRenewal
<1>5. CyclesPaid
  BY <1>1 DEF FinalizeRenewal
<1>6. RenewerStep(w)
  BY <1>1, NumberNow DEF RenewerPc, PaidFor, FinalizeRenewal
<1>. QED  BY <1>2, <1>3, <1>4, <1>5, <1>6, RenewerGoesOn

LEMMA MarkPostedKeeps ==
  ASSUME NumberInv, NEW w \in Renewer, MarkPosted(w) PROVE NumberInv'
<1>1. RenewerNow(w)
  BY RenewerIsNow
<1>2. NumberTyped' BY <1>1 DEF RenewalState, MarkPosted, CycleSet, ButRenewal
<1>3. TakesNothing
  BY <1>1 DEF MarkPosted, CycleSet, ButRenewal, NoCredit
<1>4. EndPaid
  BY <1>1, NumberNow DEF MarkPosted, CycleSet, ButRenewal
<1>5. CyclesPaid
  BY <1>1 DEF MarkPosted, CycleSet, ButRenewal
<1>6. RenewerStep(w)
  BY <1>1, NumberNow DEF RenewerPc, PaidFor, MarkPosted, CycleSet, ButRenewal
<1>. QED  BY <1>2, <1>3, <1>4, <1>5, <1>6, RenewerGoesOn

LEMMA AgainKeeps ==
  ASSUME NumberInv, NEW w \in Renewer, Again(w) PROVE NumberInv'
BY RenewerIsNow, NumberNow, RenewerGoesOn DEF Again, State, NoCredit, RenewerPc, PaidFor

LEMMA ReadPeriodKeeps ==
  ASSUME NumberInv, NEW w \in Renewer, ReadPeriod(w) PROVE NumberInv'
BY RenewerIsNow, NumberNow, RenewerGoesOn DEF ReadPeriod, NoCredit, RenewerPc, PaidFor

LEMMA PushPeriodKeeps ==
  ASSUME NumberInv, NEW w \in Renewer, PushPeriod(w) PROVE NumberInv'
<1>1. RenewerNow(w)
  BY RenewerIsNow
<1>2. NumberTyped' BY <1>1 DEF PushPeriod, ButPlan
<1>3. TakesNothing
  BY <1>1 DEF PushPeriod, ButPlan, NoCredit
<1>4. EndPaid
  <2>1. renewer[w].pc \in Sure /\ renewer[w].pc \notin Nowhere
    BY DEF PushPeriod
  <2>2. PaidFor(Cycle(w)) /\ \A q \in Period : q < Cycle(w) => PaidFor(q)
    BY <1>1, <2>1
  <2>3. plan'.end = plan.end \/ plan'.end = Cycle(w) + 1
    BY <1>1 DEF PushPeriod, ButPlan
  <2>4. Cycle(w) \in Nat /\ Period \subseteq Nat
    BY <1>1, NumberNow
  <2>5. \A p \in Period : p < Cycle(w) + 1 => p < Cycle(w) \/ p = Cycle(w)
    BY <2>4
  <2>. QED  BY <2>2, <2>3, <2>5
<1>5. CyclesPaid
  BY <1>1 DEF PushPeriod, ButPlan
<1>6. RenewerStep(w)
  BY <1>1, NumberNow DEF RenewerPc, PaidFor, PushPeriod, ButPlan
<1>. QED  BY <1>2, <1>3, <1>4, <1>5, <1>6, RenewerGoesOn

LEMMA StretchNumberKeeps ==
  ASSUME NumberInv, NEW w \in Renewer, StretchNumber(w) PROVE NumberInv'
<1>1. RenewerNow(w)
  BY RenewerIsNow
<1>2. NumberTyped' BY <1>1 DEF StretchNumber
<1>3. TakesNothing
  BY <1>1 DEF StretchNumber, NoCredit
<1>4. EndPaid
  BY <1>1, NumberNow DEF StretchNumber
<1>5. CyclesPaid
  BY <1>1 DEF StretchNumber
<1>6. RenewerStep(w)
  BY <1>1, NumberNow DEF RenewerPc, PaidFor, StretchNumber
<1>. QED  BY <1>2, <1>3, <1>4, <1>5, <1>6, RenewerGoesOn

LEMMA CompleteRenewalKeeps ==
  ASSUME NumberInv, NEW w \in Renewer, CompleteRenewal(w) PROVE NumberInv'
<1>1. RenewerNow(w)
  BY RenewerIsNow
<1>2. NumberTyped' BY <1>1 DEF CompleteRenewal, CycleSet, ButRenewal, RenewalState
<1>3. TakesNothing
  BY <1>1 DEF CompleteRenewal, CycleSet, ButRenewal, NoCredit
<1>4. EndPaid
  BY <1>1, NumberNow DEF CompleteRenewal, CycleSet, ButRenewal
<1>5. CyclesPaid
  BY <1>1 DEF CompleteRenewal, CycleSet, ButRenewal
<1>6. RenewerStep(w)
  BY <1>1, NumberNow DEF RenewerPc, PaidFor, CompleteRenewal, CycleSet, ButRenewal
<1>. QED  BY <1>2, <1>3, <1>4, <1>5, <1>6, RenewerGoesOn

LEMMA ActivatePlanKeeps ==
  ASSUME NumberInv, NEW w \in Renewer, ActivatePlan(w) PROVE NumberInv'
BY RenewerIsNow, NumberNow, RenewerGoesOn DEF ActivatePlan, ButPlan, NoCredit, RenewerPc, PaidFor

LEMMA FlagCycleKeeps ==
  ASSUME NumberInv, NEW w \in Renewer, FlagCycle(w) PROVE NumberInv'
BY RenewerIsNow, NumberNow, RenewerGoesOn DEF RenewalState, FlagCycle, CycleSet, ButRenewal,
   NoCredit, RenewerPc, PaidFor

LEMMA FlagPlanKeeps ==
  ASSUME NumberInv, NEW w \in Renewer, FlagPlan(w) PROVE NumberInv'
BY RenewerIsNow, NumberNow, RenewerGoesOn DEF FlagPlan, ButPlan, NoCredit, RenewerPc, PaidFor

LEMMA FindUnpaidKeeps ==
  ASSUME NumberInv, NEW w \in Renewer, FindUnpaid(w) PROVE NumberInv'
BY RenewerIsNow, NumberNow, RenewerGoesOn DEF FindUnpaid, NoCredit, RenewerPc, PaidFor

LEMMA SuspendNumberKeeps ==
  ASSUME NumberInv, NEW w \in Renewer, SuspendNumber(w) PROVE NumberInv'
BY RenewerIsNow, NumberNow, RenewerGoesOn DEF SuspendNumber, NoCredit, RenewerPc, PaidFor

LEMMA EndNumberKeeps ==
  ASSUME NumberInv, NEW w \in Renewer, EndNumber(w) PROVE NumberInv'
BY RenewerIsNow, NumberNow, RenewerGoesOn DEF EndNumber, NoCredit, RenewerPc, PaidFor

LEMMA RenewerStopsKeeps ==
  ASSUME NumberInv, NEW w \in Renewer, RenewerStops(w) PROVE NumberInv'
BY RenewerIsNow, NumberSpent, NumberNow, RenewerGoesOn DEF RenewerStops, NoCredit, RenewerPc,
   PaidFor

\* A run finds the cycle of the period that ends next: those before are paid.
LEMMA RenewNumberKeeps ==
  ASSUME NumberInv, NEW w \in Renewer, RenewNumber(w) PROVE NumberInv'
<1>1. NumberTyped /\ RenewerFits(w) /\ renewer[w] \in RenewerRow /\ plan.end \in Nat
  BY NumberNow DEF NumberInv
<1>2. UNCHANGED <<number, plan, renewal, intent, finalized, over, numberLeft>> /\ NoCredit
  BY DEF RenewNumber, NoCredit
<1>3. CASE RenewerRests(w)
  BY <1>1, <1>2, <1>3, RenewerGoesOn DEF RenewerPc
<1>4. CASE ~RenewerRests(w)
  <2>1. PICK p \in Period : p = plan.end
    BY <1>4 DEF RenewNumber
  <2>. DEFINE b == [pc |-> "cycle", period |-> p, credit |-> 0]
  <2>2. PICK row : row = b
    OBVIOUS
  <2>3. renewer' = [renewer EXCEPT ![w] = row]
    BY <1>4, <2>1, <2>2 DEF RenewNumber
  <2>4. row.pc = "cycle" /\ row.period = p /\ row.credit = 0
    BY <2>2
  <2>5. row \in RenewerRow
    BY <2>1, <2>2, <1>1 DEF RenewerRow, RenewerPc
  <2>. HIDE DEF b
  <2>6. NumberTyped'
    BY <1>1, <1>2
  <2>7. \A q \in Period : /\ spent'[q] \in Nat /\ spent[q] <= spent'[q] /\ spent'[q] = spent[q]
                          /\ PaidFor(q) => PaidFor(q)'
    BY <1>2, NumberNow DEF PaidFor, NoCredit, creditVars
  <2>8. \A q \in Period : q < p => PaidFor(q)'
    BY <1>1, <2>1, <2>7, NumberNow
  <2>9. renewer' \in [Renewer -> RenewerRow] /\ \A v \in Renewer : RenewerFits(v)'
    <3>1. row.credit <= spent'[row.period]
      BY <2>1, <2>4, <2>7
    <3>2. row.pc \notin Sure
      BY <2>4
    <3>. QED  BY <2>1, <2>3, <2>4, <2>5, <2>7, <2>8, <3>1, <3>2, RenewerMoves
  <2>10. PaidFacts' BY <1>2, <2>7, NumberNow DEF ExtendedIsPaid, PaidFor, PaidFacts
  <2>11. CreditInv'
    BY <1>2, CreditStays, NumberNow DEF NoCredit
  <2>. QED  BY <2>6, <2>9, <2>10, <2>11 DEF NumberInv
<1>. QED  BY <1>3, <1>4

LEMMA GetCycleKeeps ==
  ASSUME NumberInv, NEW w \in Renewer, GetCycle(w) PROVE NumberInv'
<1>1. RenewerNow(w)
  BY RenewerIsNow
<1>2. PICK p \in Period : p = Cycle(w)
  BY <1>1 DEF GetCycle
<1>3. PICK pc : pc = Found(renewal[p].state)
  OBVIOUS
<1>4. /\ pc \in {"repair", "spend", "reread"}
      /\ pc \in Sure => renewal[p].state = "completed"
  BY <1>3 DEF Found
<1>5. renewal' = [renewal EXCEPT ![p].state = IF @ = "none" THEN "pending" ELSE @]
  BY <1>2 DEF GetCycle
<1>6. renewal' \in [Period -> RenewalRow]
      /\ \A q \in Period : renewal'[q].state \in PaidStates => renewal[q].state \in PaidStates
  BY <1>1, <1>5 DEF RenewalState
<1>7. NumberTyped' /\ TakesNothing /\ EndPaid /\ CyclesPaid
  BY <1>1, <1>6 DEF GetCycle, ButRenewal, NoCredit
<1>8. pc \in Sure => PaidFor(Cycle(w))
  BY <1>2, <1>4, NumberNow
<1>9. RenewerGoes(w, pc) /\ renewer[w].pc \notin Nowhere
  BY <1>2, <1>3 DEF GetCycle, State
<1>10. RenewerStep(w)
  BY <1>4, <1>8, <1>9 DEF RenewerPc
<1>. QED  BY <1>7, <1>10, RenewerGoesOn

HIDE DEF RenewerNow, TakesNothing, EndPaid, CyclesPaid, RenewerStep, NumberTyped, PlanRow,
         NumberRow, RenewalRow, RenewerFits, RenewerAt, Sure, Nowhere, PaidStates, OnlyRenewer,
         rowsOfNumber

\* Credit is taken once for a period, and no more than the price.
LEMMA SpendGives ==
  ASSUME NumberInv, NEW p \in Period, SpendCredit(Owner, p, number.price) \/ NoCredit
  PROVE  /\ CreditInv'
         /\ \A q \in Period : /\ spent'[q] \in Nat /\ spent[q] <= spent'[q]
                              /\ spent'[q] <= number.price
         /\ SpendOf(Owner, p, number.price) \in Nat
         /\ SpendCredit(Owner, p, number.price) => SpendOf(Owner, p, number.price) <= spent'[p]
<1>1. CreditTyped /\ number.price \in Nat /\ Owner \in User /\ p \in Order /\ spent[p] \in Nat
      /\ balance[Owner] \in Nat /\ spent \in [Period -> Nat]
      /\ \A q \in Period : spent[q] \in Nat /\ spent[q] <= number.price
  BY NumberNow, OwnerAssumption DEF CreditInv, CreditTyped, Period
<1>2. PICK take \in Nat : take = SpendOf(Owner, p, number.price)
  BY <1>1 DEF SpendOf
<1>3. /\ spent[p] = 0 => take <= number.price /\ take <= balance[Owner]
      /\ spent[p] # 0 => take <= spent[p]
  BY <1>1, <1>2 DEF SpendOf
<1>4. CASE NoCredit
  <2>1. CreditInv'
    BY <1>4, CreditStays, NumberNow DEF NoCredit
  <2>2. spent' = spent /\ balance' = balance
    BY <1>4 DEF NoCredit, creditVars
  <2>3. SpendCredit(Owner, p, number.price) => take <= spent[p]
    BY <1>3, <1>2, <1>1, <2>2 DEF SpendCredit
  <2>. QED  BY <1>1, <1>2, <2>1, <2>2, <2>3
<1>5. CASE SpendCredit(Owner, p, number.price)
  <2>1. CASE spent[p] # 0
    <3>1. UNCHANGED creditVars
      BY <1>5, <2>1 DEF SpendCredit, creditVars
    <3>2. CreditInv' /\ spent' = spent
      BY <3>1, CreditStays, NumberNow DEF creditVars
    <3>. QED  BY <1>1, <1>2, <1>3, <2>1, <3>2
  <2>2. CASE spent[p] = 0
    <3>1. /\ balance' = [balance EXCEPT ![Owner] = @ - take]
          /\ spent' = [spent EXCEPT ![p] = take]
          /\ UNCHANGED <<issuance, granted, booked, caller, creditLeft>>
      BY <1>2, <1>5, <2>2 DEF SpendCredit
    <3>2. balance' \in [User -> Nat] /\ spent' \in [Order -> Nat]
      BY <1>1, <1>3, <2>2, <3>1 DEF CreditTyped
    <3>3. CreditInv'
      BY <3>1, <3>2, NumberNow DEF CreditInv, CreditTyped, RecordsAgree, CallerFits
    <3>4. \A q \in Period : spent'[q] = IF q = p THEN take ELSE spent[q]
      BY <1>1, <3>1
    <3>5. \A q \in Period : spent'[q] \in Nat /\ spent[q] <= spent'[q] /\ spent'[q] <= number.price
      BY <1>1, <1>3, <2>2, <3>4
    <3>. QED  BY <1>2, <3>3, <3>4, <3>5
  <2>. QED  BY <2>1, <2>2
<1>. QED  BY <1>4, <1>5

LEMMA SpendForCycleKeeps ==
  ASSUME NumberInv, NEW w \in Renewer, SpendForCycle(w) PROVE NumberInv'
<1>1. NumberTyped /\ RenewerFits(w) /\ renewer[w] \in RenewerRow /\ Cycle(w) \in Nat
      /\ renewer \in [Renewer -> RenewerRow] /\ number.price \in Nat /\ Period \subseteq Nat
      /\ renewer[w].credit \in Nat
  BY NumberNow DEF NumberInv
<1>2. Cycle(w) \in Period /\ (\A q \in Period : q < Cycle(w) => PaidFor(q))
      /\ renewer[w].credit <= spent[Cycle(w)]
  BY <1>1 DEF SpendForCycle, RenewerAt, RenewerFits, Nowhere
<1>3. SpendCredit(Owner, Cycle(w), number.price) \/ NoCredit
  BY DEF SpendForCycle
<1>4. PICK take : take = SpendOf(Owner, Cycle(w), number.price)
  OBVIOUS
<1>5. /\ CreditInv' /\ take \in Nat
      /\ \A q \in Period : /\ spent'[q] \in Nat /\ spent[q] <= spent'[q]
                           /\ spent'[q] <= number.price
      /\ SpendCredit(Owner, Cycle(w), number.price) => take <= spent'[Cycle(w)]
  BY <1>2, <1>3, <1>4, SpendGives
<1>6. UNCHANGED <<number, plan, renewal, intent, finalized, over>> /\ numberLeft' \in NumberBounds
  BY <1>1, NumberSpent DEF SpendForCycle, rowsOfNumber, NumberTyped
<1>7. ASSUME NEW q \in Period
      PROVE  (PaidFor(q) => PaidFor(q)') /\ (number.price <= spent'[q] => PaidFor(q)')
  BY <1>5, NumberNow, <1>6, <1>1 DEF PaidFor
<1>8. NumberTyped'
  BY <1>1, <1>6 DEF NumberTyped
<1>9. PaidFacts' BY <1>6, <1>7, NumberNow, <1>5, <1>1 DEF ExtendedIsPaid, PaidFor, PaidFacts
<1>10. \E row \in RenewerRow :
         /\ renewer' = [renewer EXCEPT ![w] = row]
         /\ row.period = Cycle(w) /\ row.credit <= spent'[Cycle(w)]
         /\ row.pc \in Sure => number.price <= spent'[Cycle(w)]
  <2>1. CASE /\ SpendCredit(Owner, Cycle(w), number.price)
             /\ renewer' = [renewer EXCEPT ![w].pc = IF take = number.price THEN "confirm" ELSE "pay",
                                           ![w].credit = take]
    <3>1. PICK pc : pc = IF take = number.price THEN "confirm" ELSE "pay"
      OBVIOUS
    <3>. DEFINE b == [renewer[w] EXCEPT !.pc = pc, !.credit = take]
    <3>2. PICK row : row = b
      OBVIOUS
    <3>3. row \in RenewerRow /\ row.pc = pc /\ row.period = Cycle(w) /\ row.credit = take
      BY <1>1, <1>5, <3>1, <3>2 DEF RenewerRow, RenewerPc, Cycle
    <3>4. renewer' = [renewer EXCEPT ![w] = row]
      BY <1>1, <2>1, <3>1, <3>2
    <3>. HIDE DEF b
    <3>5. row.pc \in Sure => take = number.price
      BY <3>1, <3>3 DEF Sure
    <3>. QED  BY <1>5, <2>1, <3>3, <3>4, <3>5
  <2>2. CASE RenewerGoes(w, "pay")
    <3>. DEFINE b == [renewer[w] EXCEPT !.pc = "pay"]
    <3>2. PICK row : row = b
      OBVIOUS
    <3>3. row \in RenewerRow /\ row.pc = "pay" /\ row.period = Cycle(w)
          /\ row.credit = renewer[w].credit
      BY <1>1, <3>2 DEF RenewerRow, RenewerPc, Cycle
    <3>4. renewer' = [renewer EXCEPT ![w] = row]
      BY <1>1, <2>2, <3>2 DEF RenewerGoes
    <3>. HIDE DEF b
    <3>5. row.credit <= spent'[Cycle(w)] BY <1>2, <1>5, NumberNow, <1>1, <3>3
    <3>. QED  BY <3>3, <3>4, <3>5 DEF Sure
  <2>. QED  BY <1>4, <2>1, <2>2 DEF SpendForCycle
<1>11. renewer' \in [Renewer -> RenewerRow] /\ \A v \in Renewer : RenewerFits(v)'
  <2>1. PICK row \in RenewerRow :
          /\ renewer' = [renewer EXCEPT ![w] = row]
          /\ row.period = Cycle(w) /\ row.credit <= spent'[Cycle(w)]
          /\ row.pc \in Sure => number.price <= spent'[Cycle(w)]
    BY <1>10
  <2>. QED  BY <1>2, <1>5, <1>7, <2>1, RenewerMoves
<1>. QED  BY <1>5, <1>8, <1>9, <1>11 DEF NumberInv

\* The rest is asked of a card; an intent that there is was made for no less.
LEMMA PayRestKeeps ==
  ASSUME NumberInv, NEW w \in Renewer, PayRest(w) PROVE NumberInv'
<1>1. NumberTyped /\ RenewerFits(w) /\ renewer[w].pc = "pay"
      /\ renewer \in [Renewer -> RenewerRow] /\ renewer[w] \in RenewerRow
  BY DEF NumberInv, PayRest, RenewerAt
<1>2. Cycle(w) \in Period /\ Remaining(w) \in Nat /\ number.price <= spent[Cycle(w)] + Remaining(w)
  BY <1>1, RemainderIsNat DEF Nowhere
<1>3. /\ UNCHANGED <<number, plan, renewal, finalized, over, numberLeft>> /\ NoCredit
      /\ (RenewerGoes(w, "verify") \/ RenewerGoes(w, "fail"))
  BY DEF PayRest, NoCredit
<1>4. CASE UNCHANGED intent
  BY <1>1, <1>3, <1>4, RenewerGoesOn DEF NumberTyped, RenewerPc, Sure, Nowhere, TakesNothing,
     EndPaid, CyclesPaid, RenewerStep
<1>5. CASE /\ intent[Cycle(w)] = NoIntent /\ RenewerGoes(w, "verify")
           /\ intent' = [intent EXCEPT ![Cycle(w)].amount = Remaining(w)]
  <2>1. intent \in [Period -> IntentRow] /\ intent' \in [Period -> IntentRow]
        /\ intent'[Cycle(w)].amount = Remaining(w) /\ ~intent'[Cycle(w)].paid
        /\ \A q \in Period \ {Cycle(w)} : intent'[q] = intent[q]
    <3>1. PICK rest \in Nat : rest = Remaining(w)
      BY <1>2
    <3>. DEFINE b == [intent[Cycle(w)] EXCEPT !.amount = rest]
    <3>2. PICK row : row = b
      OBVIOUS
    <3>3. intent \in [Period -> IntentRow] /\ intent[Cycle(w)] \in IntentRow
      BY <1>1, <1>2 DEF NumberTyped
    <3>4. ~intent[Cycle(w)].paid
      BY <1>5 DEF NoIntent
    <3>5. row \in IntentRow /\ row.amount = rest /\ row.paid = intent[Cycle(w)].paid
      BY <3>2, <3>3 DEF IntentRow
    <3>6. intent' = [intent EXCEPT ![Cycle(w)] = row]
      BY <1>5, <3>1, <3>2, <3>3
    <3>. HIDE DEF b
    <3>. QED  BY <1>2, <3>1, <3>3, <3>4, <3>5, <3>6
  <2>2. NumberTyped'
    BY <1>1, <1>3, <2>1 DEF NumberTyped
  <2>3. \A q \in Period : /\ spent'[q] \in Nat /\ spent[q] <= spent'[q] /\ spent'[q] = spent[q]
    BY <1>3, NumberNow DEF NoCredit, creditVars
  <2>4. \A q \in Period : PaidFor(q) => PaidFor(q)'
    BY <1>5, <1>2, <2>1, <1>3, <2>3, PaymentsGrow DEF NoIntent, IntentRow
  <2>5. PaidFacts'
    BY <1>3, <2>4, NumberNow, <1>2, <2>1, <2>3 DEF ExtendedIsPaid, PaidFor, PaidFacts
  <2>6. renewer' \in [Renewer -> RenewerRow] /\ \A v \in Renewer : RenewerFits(v)'
    <3>. DEFINE b == [renewer[w] EXCEPT !.pc = "verify"]
    <3>1. PICK row : row = b
      OBVIOUS
    <3>2. row \in RenewerRow /\ row.pc = "verify" /\ row.period = Cycle(w)
          /\ row.credit = renewer[w].credit
      BY <1>1, <3>1 DEF RenewerRow, RenewerPc, Cycle
    <3>3. renewer' = [renewer EXCEPT ![w] = row]
      BY <1>1, <1>5, <3>1 DEF RenewerGoes
    <3>. HIDE DEF b
    <3>4. /\ \A q \in Period : q < Cycle(w) => PaidFor(q)'
          /\ row.credit <= spent'[Cycle(w)] /\ row.pc \notin Sure
      BY <1>1, <1>2, <2>3, <2>4, <3>2 DEF RenewerFits, Nowhere, Sure
    <3>. QED  BY <1>2, <2>3, <2>4, <3>2, <3>3, <3>4, RenewerMoves
  <2>7. CreditInv'
    BY <1>3, CreditStays, NumberNow DEF NoCredit
  <2>. QED  BY <2>2, <2>5, <2>6, <2>7 DEF NumberInv
<1>. QED  BY <1>4, <1>5 DEF PayRest

\* A step that no renewer takes and that adds nothing to the plan.
LEMMA WorldKeeps ==
  ASSUME NumberInv, NumberTyped', CreditInv', UNCHANGED <<renewer, renewal, spent>>,
         number'.price = number.price, plan'.end = plan.end,
         \A p \in Period : /\ intent'[p].amount \in Nat
                           /\ intent[p].paid => intent'[p].paid /\ intent'[p].amount = intent[p].amount,
         \A p \in Period : intent'[p] # NoIntent =>
                             intent[p] # NoIntent /\ intent'[p].amount = intent[p].amount
  PROVE  NumberInv'
BY NumberNow, PaymentsGrow DEF ExtendedIsPaid, PaidFor, PaidFacts, NumberInv, RenewerFits, Cycle

LEMMA CustomerPaysKeeps ==
  ASSUME NumberInv, NEW p \in Period, CustomerPays(p) PROVE NumberInv'
BY NumberNow, CreditStays, WorldKeeps DEF NumberTyped, CustomerPays, IntentRow, NoCredit, creditVars

LEMMA EndingKeeps ==
  ASSUME NumberInv, CancelNumber \/ ReleaseNumber PROVE NumberInv'
BY NumberNow, NumberSpent, CreditStays, WorldKeeps DEF CancelNumber, ReleaseNumber, NoCredit,
   NumberTyped, NumberRow, PlanRow, creditVars

LEMMA GrantingKeeps ==
  ASSUME NumberInv, CreditNext, UNCHANGED numberVars PROVE NumberInv'
<1>1. CreditInv' /\ NumberTyped
  BY CreditStep, NumberNow
<1>2. spent' = spent
  BY DEF CreditNext, Granting, ClaimGrant, ReadBalance, CommitGrant, PostIssuance, CallerReturns,
     CallerStops, RepairIssuance, IssuanceAges
<1>3. UNCHANGED <<number, plan, renewal, intent, finalized, renewer, over, numberLeft>>
  BY DEF numberVars
<1>4. NumberTyped'
  BY <1>1, <1>3 DEF NumberTyped
<1>. QED  BY <1>1, <1>2, <1>3, <1>4, WorldKeeps, NumberNow

LEMMA NumberStays == NumberInv /\ UNCHANGED <<numberVars, creditVars>> => NumberInv'
<1>. SUFFICES ASSUME NumberInv, UNCHANGED <<numberVars, creditVars>> PROVE NumberInv'
  OBVIOUS
<1>1. UNCHANGED <<number, plan, renewal, intent, finalized, renewer, over, numberLeft, spent>>
      /\ UNCHANGED creditVars
  BY DEF numberVars, creditVars
<1>2. NumberTyped /\ CreditInv
  BY NumberNow
<1>3. NumberTyped' /\ CreditInv'
  BY <1>1, <1>2, CreditStays DEF NumberTyped
<1>. QED  BY <1>1, <1>3, WorldKeeps, NumberNow

LEMMA NumberStep ==
  ASSUME NumberInv, NumberNext PROVE NumberInv'
<1>1. ASSUME NEW w \in Renewer, RenewalStep(w) PROVE NumberInv'
  <2>1. CASE RenewNumber(w) \/ GetCycle(w) \/ RepairCompleted(w) \/ SpendForCycle(w) \/ PayRest(w)
             \/ VerifyRest(w) \/ PaymentFails(w) \/ DomainFails(w)
    BY <2>1, RenewNumberKeeps, GetCycleKeeps, RepairCompletedKeeps, SpendForCycleKeeps, PayRestKeeps,
       VerifyRestKeeps, PaymentFailsKeeps, DomainFailsKeeps
  <2>2. CASE FailCycle(w) \/ DemoteNumber(w) \/ ConfirmPayment(w) \/ Reread(w)
             \/ FinalizeRenewal(w) \/ MarkPosted(w) \/ Again(w) \/ ReadPeriod(w)
    BY <2>2, FailCycleKeeps, DemoteNumberKeeps, ConfirmPaymentKeeps, RereadKeeps,
       FinalizeRenewalKeeps, MarkPostedKeeps, AgainKeeps, ReadPeriodKeeps
  <2>3. CASE PushPeriod(w) \/ StretchNumber(w) \/ CompleteRenewal(w) \/ ActivatePlan(w)
             \/ FlagCycle(w) \/ FlagPlan(w) \/ SuspendNumber(w) \/ EndNumber(w)
    BY <2>3, PushPeriodKeeps, StretchNumberKeeps, CompleteRenewalKeeps, ActivatePlanKeeps,
       FlagCycleKeeps, FlagPlanKeeps, SuspendNumberKeeps, EndNumberKeeps
  <2>. QED  BY <1>1, <2>1, <2>2, <2>3 DEF RenewalStep
<1>2. ASSUME NEW w \in Renewer, ListDue(w) \/ RequestRenewal(w) \/ FindUnpaid(w) \/ RenewerStops(w)
      PROVE  NumberInv'
  BY <1>2, ListDueKeeps, RequestRenewalKeeps, FindUnpaidKeeps, RenewerStopsKeeps
<1>. QED  BY <1>1, <1>2, CustomerPaysKeeps, EndingKeeps, GrantingKeeps DEF NumberNext

-----------------------------------------------------------------------------
(* CommerceOrder: an order is served once.                                 *)

SaleRow == [status : SaleStatus, ref : Reference \cup {Unasked, Simulated}, by : Run \cup {NoRun}]
RunRow == [pc : RunPc, does : {"ask", "webhook", "button", "none"}, order : Purchase,
           ref : Reference, sim : BOOLEAN, outcome : Outcome \cup {"none"}, status : SaleStatus,
           next : Nat, ent : {"none", "PENDING", "ACTIVE"}, drift : BOOLEAN,
           binding : {"none", "UNBOUND", "PROVISIONING", "BOUND", "FAILED"}]
PaidState == {"none", "open"} \cup Outcome
Page == [Booking -> {"absent", "gross", "net"}]

\* A request that serves its order, or has made an entitlement for it.
InService == {"fulfil", "entitle", "activate", "bind", "provision", "finish", "look", "insert", "undo"}
Serves(row) == row.pc \in InService \/ row.ent # "none"

\* What a request that has fulfilled its order looks like, ever after.
After == {"look", "insert", "settle", "off", "dead"}
Delivered(row) == /\ row.ent = "ACTIVE" /\ row.binding = "BOUND" /\ row.pc \in After
                  /\ row.outcome \in {"none", "succeeded"}

\* The bookings before the next one are made, at the request's fee, the others are not.
BooksFit(row, page) ==
  \A k \in 1..4 : page[Bookings[k]] =
    IF k < row.next /\ (k = 2 => ~row.sim) THEN (IF row.sim THEN "gross" ELSE "net") ELSE "absent"

RowFits(row) ==
  /\ row.pc \in {"idle", "press"} => row.outcome = "none"
  /\ row.pc \in {"idle", "ask", "find", "mark", "press", "fulfil", "entitle"} => row.ent = "none"
  /\ row.pc = "activate" => row.ent = "PENDING"
  /\ row.pc \in {"bind", "provision", "finish", "look", "insert"} => row.ent = "ACTIVE"
  /\ row.pc \in {"finish", "look", "insert"} => row.binding = "BOUND"
  /\ row.pc \in {"ask", "mark", "press"} => row.order \in DOMAIN saleRef
  /\ row.pc \in {"mark", "press"} => row.status = "pending"
  /\ row.outcome = "succeeded" => paid[row.ref] = "succeeded"
  /\ row.pc \in InService => row.outcome \in {"none", "succeeded"}
  /\ row.pc \in {"look", "insert"} => row.next <= 4
  /\ row.pc = "insert" => ~(row.next = 2 /\ row.sim)
  /\ row.pc \notin After \/ row.ent = "none" => row.next = 1
  /\ row.next # 0
  /\ Serves(row) => sale[row.order].status \notin {"none", "pending"}

\* While nobody wrote over another's status, one request at most serves the order, and
\* its books are that request's.
OrderFits(o) ==
  /\ sale[o].status # "none" => o \in DOMAIN saleRef
  /\ sale[o].status = "fulfilled" => sale[o].by # NoRun
  /\ sale[o].by # NoRun => run[sale[o].by].order = o /\ Delivered(run[sale[o].by])
  /\ o \notin trampled =>
       /\ \A r, q \in Run : Serves(run[r]) /\ Serves(run[q]) /\ run[r].order = o /\ run[q].order = o
                              => r = q
       /\ \A r \in Run : Serves(run[r]) /\ run[r].order = o => BooksFit(run[r], books[o])
       /\ (\A r \in Run : ~(Serves(run[r]) /\ run[r].order = o)) => \A k \in Booking : books[o][k] = "absent"

SaleTyped ==
  /\ sale \in [Purchase -> SaleRow] /\ paid \in [Reference -> PaidState]
  /\ processed \subseteq Reference \X Outcome /\ books \in [Purchase -> Page]
  /\ DOMAIN saleRef \subseteq Purchase /\ (\A o \in DOMAIN saleRef : saleRef[o] \in Reference)
  /\ saleLeft \in [faults : Nat, crashes : Nat] /\ trampled \subseteq Purchase

SaleInv ==
  /\ SaleTyped /\ run \in [Run -> RunRow]
  /\ \A r \in Run : RowFits(run[r])
  /\ \A o \in Purchase : OrderFits(o)

LEMMA BookingNames ==
  /\ Len(Bookings) = 4 /\ Bookings[1] = "payment" /\ Bookings[2] = "fee"
  /\ Bookings[3] = "purchase" /\ Bookings[4] = "earning"
  /\ \A k \in 1..4 : Bookings[k] \in Booking
  /\ \A b \in Booking : \E k \in 1..4 : b = Bookings[k]
  /\ \A j, k \in 1..4 : Bookings[j] = Bookings[k] => j = k
BY DEF Bookings, Booking

\* Nothing is booked by who is at the first booking.
LEMMA NothingBooked ==
  ASSUME NEW row, NEW page, row.next = 1
  PROVE  BooksFit(row, page) <=> \A k \in Booking : page[k] = "absent"
BY BookingNames DEF BooksFit

LEMMA SaleInvGivesType == SaleInv => SaleTypeOK
BY DEF SaleInv, SaleTyped, SaleTypeOK, SaleRow, RunRow, PaidState, Page

\* The order is served once, and its books agree.
LEMMA SaleInvGivesSold == SaleInv => SoldOnce
<1>. SUFFICES ASSUME SaleInv, NEW o \in Purchase
              PROVE  /\ sale[o].status = "fulfilled" =>
                          LET r == sale[o].by IN
                          /\ r # NoRun /\ run[r].order = o /\ run[r].ent = "ACTIVE"
                          /\ run[r].binding = "BOUND"
                          /\ run[r].outcome = "none" \/ paid[run[r].ref] = "succeeded"
                     /\ o \notin trampled =>
                          /\ Cardinality(Attempts(o)) <= 1
                          /\ sale[o].status = "fulfilled" /\ run[sale[o].by].next > Len(Bookings) =>
                               /\ books[o]["payment"] # "absent" /\ books[o]["purchase"] # "absent"
                               /\ books[o]["earning"] = books[o]["payment"]
                               /\ books[o]["fee"] = "net" <=> books[o]["payment"] = "net"
  BY DEF SoldOnce
<1>1. OrderFits(o) /\ sale[o] \in SaleRow /\ run \in [Run -> RunRow]
  BY DEF SaleInv, SaleTyped
<1>2. ASSUME sale[o].status = "fulfilled"
      PROVE  /\ sale[o].by # NoRun /\ sale[o].by \in Run /\ run[sale[o].by].order = o
             /\ Delivered(run[sale[o].by]) /\ RowFits(run[sale[o].by])
  BY <1>1, <1>2 DEF OrderFits, SaleRow, SaleInv
<1>3. sale[o].status = "fulfilled" =>
        /\ sale[o].by # NoRun /\ run[sale[o].by].order = o /\ run[sale[o].by].ent = "ACTIVE"
        /\ run[sale[o].by].binding = "BOUND"
        /\ run[sale[o].by].outcome = "none" \/ paid[run[sale[o].by].ref] = "succeeded"
  BY <1>2 DEF Delivered, RowFits
<1>4. ASSUME o \notin trampled PROVE Cardinality(Attempts(o)) <= 1
  <2>1. \A r, q \in Attempts(o) : r = q
    BY <1>1, <1>4 DEF Attempts, OrderFits, Serves
  <2>2. CASE Attempts(o) = {}
    BY <2>2, FS_EmptySet
  <2>3. CASE Attempts(o) # {}
    <3>1. PICK r \in Attempts(o) : TRUE
      BY <2>3
    <3>2. Attempts(o) = {r}
      BY <2>1, <3>1
    <3>3. Cardinality({r}) = 1
      BY FS_Singleton
    <3>. QED  BY <3>2, <3>3
  <2>. QED  BY <2>2, <2>3
<1>5. ASSUME o \notin trampled, sale[o].status = "fulfilled", run[sale[o].by].next > Len(Bookings)
      PROVE  /\ books[o]["payment"] # "absent" /\ books[o]["purchase"] # "absent"
             /\ books[o]["earning"] = books[o]["payment"]
             /\ books[o]["fee"] = "net" <=> books[o]["payment"] = "net"
  <2>1. PICK r \in Run : r = sale[o].by
    BY <1>2, <1>5
  <2>2. run[r].next \in Nat /\ run[r].next > 4
    BY <1>1, <1>5, <2>1, BookingNames DEF RunRow
  <2>3. BooksFit(run[r], books[o])
    BY <1>1, <1>2, <1>5, <2>1 DEF OrderFits, Serves, Delivered
  <2>4. \A k \in 1..4 : books[o][Bookings[k]] =
          IF (k = 2 => ~run[r].sim) THEN (IF run[r].sim THEN "gross" ELSE "net") ELSE "absent"
    BY <2>2, <2>3 DEF BooksFit
  <2>5. 1 \in 1..4 /\ 2 \in 1..4 /\ 3 \in 1..4 /\ 4 \in 1..4
    OBVIOUS
  <2>6. /\ books[o][Bookings[1]] = IF run[r].sim THEN "gross" ELSE "net"
        /\ books[o][Bookings[2]] = IF ~run[r].sim THEN (IF run[r].sim THEN "gross" ELSE "net")
                                  ELSE "absent"
        /\ books[o][Bookings[3]] = IF run[r].sim THEN "gross" ELSE "net"
        /\ books[o][Bookings[4]] = IF run[r].sim THEN "gross" ELSE "net"
    BY <2>4, <2>5
  <2>7. /\ books[o]["payment"] = IF run[r].sim THEN "gross" ELSE "net"
        /\ books[o]["fee"] = IF ~run[r].sim THEN (IF run[r].sim THEN "gross" ELSE "net") ELSE "absent"
        /\ books[o]["purchase"] = IF run[r].sim THEN "gross" ELSE "net"
        /\ books[o]["earning"] = IF run[r].sim THEN "gross" ELSE "net"
    BY <2>6, BookingNames
  <2>. QED  BY <2>7
<1>. QED  BY <1>3, <1>4, <1>5

LEMMA SaleInitInv ==
  ASSUME NEW of \in SalePlans, SaleInitOf(of)
  PROVE  SaleInv
<1>1. /\ DOMAIN of.refs \subseteq Purchase /\ (\A o \in DOMAIN of.refs : of.refs[o] \in Reference)
      /\ of.left \in [faults : Nat, crashes : Nat]
      /\ of.does \in [Run -> {"ask", "webhook", "button", "none"}]
      /\ AnyPurchase \in Purchase /\ NoRun \notin Run
  BY SaleAssumption DEF Reference, AnyPurchase
<1>2. SaleTyped
  BY <1>1 DEF SaleInitOf, SaleTyped, SaleRow, SaleStatus, PaidState, Page
<1>3. run \in [Run -> RunRow]
  BY <1>1 DEF SaleInitOf, RunRow, RunPc, Reference, Outcome, SaleStatus
<1>4. \A r \in Run : run[r].pc = "idle" /\ run[r].ent = "none" /\ run[r].outcome = "none"
                     /\ run[r].next = 1
  BY DEF SaleInitOf
<1>5. \A r \in Run : RowFits(run[r])
  BY <1>4 DEF RowFits, Serves, InService, After
<1>6. \A o \in Purchase : OrderFits(o)
  BY <1>4 DEF SaleInitOf, OrderFits, Serves, InService
<1>. QED  BY <1>2, <1>3, <1>5, <1>6 DEF SaleInv

\* A request's row is replaced. It enters its order's service only when the order was
\* pending, or wrote over what the order had become; what is booked meanwhile is its own.
LEMMA RunMoves ==
  ASSUME SaleInv, NEW r \in Run, NEW row \in RunRow, run' = [run EXCEPT ![r] = row],
         SaleTyped', UNCHANGED saleRef, trampled \subseteq trampled',
         \A x \in Reference : paid[x] = "succeeded" => paid'[x] = "succeeded",
         \A o \in Purchase : /\ sale[o].status \notin {"none", "pending"} =>
                                  sale'[o].status \notin {"none", "pending"}
                             /\ sale'[o].status # "none" => o \in DOMAIN saleRef
                             /\ sale'[o].status = "fulfilled" => sale'[o].by # NoRun
                             /\ sale'[o].by = sale[o].by
                                  \/ (sale'[o].by = r /\ row.order = o /\ Delivered(row)),
         RowFits(row)',
         Serves(row) => \/ Serves(run[r])
                        \/ row.order \notin trampled' => sale[row.order].status = "pending",
         Serves(run[r]) => row.order = run[r].order,
         Delivered(run[r]) => Delivered(row),
         \A o \in Purchase : o # row.order \/ ~Serves(row) => books'[o] = books[o],
         Serves(row) /\ row.order \notin trampled' => BooksFit(row, books'[row.order]),
         ~Serves(row) /\ Serves(run[r]) => run[r].next = 1
  PROVE  SaleInv'
<1>1. SaleTyped /\ run \in [Run -> RunRow] /\ (\A q \in Run : RowFits(run[q]))
      /\ (\A o \in Purchase : OrderFits(o))
  BY DEF SaleInv
<1>2. run' \in [Run -> RunRow] /\ run'[r] = row /\ (\A q \in Run \ {r} : run'[q] = run[q])
  BY <1>1
<1>3. ASSUME NEW q \in Run PROVE RowFits(run[q])' BY <1>2, <1>1 DEF RowFits, Serves, RunRow
<1>4. ASSUME NEW o \in Purchase PROVE OrderFits(o)'
  <2>1. OrderFits(o) /\ sale[o] \in SaleRow
    BY <1>1 DEF SaleTyped
  <2>2. /\ sale'[o].status # "none" => o \in DOMAIN saleRef'
        /\ sale'[o].status = "fulfilled" => sale'[o].by # NoRun
    OBVIOUS
  <2>3. sale'[o].by # NoRun => run'[sale'[o].by].order = o /\ Delivered(run[sale[o].by])'
    <3>1. CASE sale'[o].by = sale[o].by /\ sale[o].by # NoRun
      BY <2>1, <3>1, <1>2 DEF OrderFits, SaleRow, Delivered, Serves
    <3>2. CASE sale'[o].by = r /\ row.order = o /\ Delivered(row)
      BY <1>2, <3>2 DEF Delivered
    <3>. QED  BY <3>1, <3>2
  <2>4. ASSUME o \notin trampled'
        PROVE  /\ \A p, q \in Run : Serves(run'[p]) /\ Serves(run'[q]) /\ run'[p].order = o
                                      /\ run'[q].order = o => p = q
               /\ \A q \in Run : Serves(run'[q]) /\ run'[q].order = o => BooksFit(run'[q], books'[o])
               /\ (\A q \in Run : ~(Serves(run'[q]) /\ run'[q].order = o)) =>
                    \A k \in Booking : books'[o][k] = "absent"
    <3>1. /\ \A p, q \in Run : Serves(run[p]) /\ Serves(run[q]) /\ run[p].order = o /\ run[q].order = o
                                 => p = q
          /\ \A q \in Run : Serves(run[q]) /\ run[q].order = o => BooksFit(run[q], books[o])
          /\ (\A q \in Run : ~(Serves(run[q]) /\ run[q].order = o)) =>
               \A k \in Booking : books[o][k] = "absent"
      BY <2>1, <2>4 DEF OrderFits
    <3>2. CASE Serves(row) /\ row.order = o /\ Serves(run[r]) BY <3>2, <3>1, <1>2, <2>4
    <3>3. CASE Serves(row) /\ row.order = o /\ ~Serves(run[r])
      BY <2>4, <3>3, <1>1, <1>2 DEF RowFits
    <3>4. CASE ~(Serves(row) /\ row.order = o)
      <4>1. books'[o] = books[o]
        BY <3>4
      <4>2. \A q \in Run : Serves(run'[q]) /\ run'[q].order = o =>
                             q # r /\ run'[q] = run[q] /\ Serves(run[q]) /\ run[q].order = o
        BY <1>2, <3>4
      <4>3. ASSUME \A q \in Run : ~(Serves(run'[q]) /\ run'[q].order = o)
            PROVE  \A k \in Booking : books'[o][k] = "absent"
        BY <3>4, <3>1, <4>1, NothingBooked, <1>2, <4>3
      <4>4. \A q \in Run : Serves(run'[q]) /\ run'[q].order = o => BooksFit(run'[q], books'[o])
        BY <3>1, <4>1, <4>2
      <4>. QED  BY <3>1, <4>2, <4>3, <4>4
    <3>. QED  BY <3>2, <3>3, <3>4
  <2>. QED  BY <2>2, <2>3, <2>4 DEF OrderFits, Serves, BooksFit
<1>. QED  BY <1>2, <1>3, <1>4 DEF SaleInv

\* Only the request moves.
LEMMA RunGoes ==
  ASSUME SaleInv, NEW r \in Run, NEW row \in RunRow, run' = [run EXCEPT ![r] = row],
         UNCHANGED <<sale, paid, books, saleRef, trampled>>,
         processed' \subseteq Reference \X Outcome, saleLeft' \in [faults : Nat, crashes : Nat],
         RowFits(row), Serves(row) => Serves(run[r]),
         Serves(run[r]) => row.order = run[r].order,
         Delivered(run[r]) => Delivered(row),
         ~Serves(row) /\ Serves(run[r]) => run[r].next = 1,
         Serves(row) => \/ row.next = run[r].next /\ row.sim = run[r].sim
                        \/ row.next = 1 /\ run[r].next = 1
  PROVE  SaleInv'
<1>1. SaleTyped /\ run[r] \in RunRow /\ (\A o \in Purchase : OrderFits(o))
  BY DEF SaleInv
<1>2. SaleTyped'
  BY <1>1 DEF SaleTyped
<1>3. RowFits(row)'
  BY DEF RowFits, Serves
<1>4. ASSUME Serves(row), row.order \notin trampled' PROVE BooksFit(row, books'[row.order])
  BY <1>4, <1>1, NothingBooked DEF RunRow, OrderFits, BooksFit
<1>5. \A o \in Purchase : /\ sale[o].status # "none" => o \in DOMAIN saleRef
                          /\ sale[o].status = "fulfilled" => sale[o].by # NoRun
  BY <1>1 DEF OrderFits
<1>. QED  BY <1>2, <1>3, <1>4, <1>5, RunMoves

LEMMA RunAtIsRow ==
  ASSUME run \in [Run -> RunRow], NEW r \in Run, NEW pc \in RunPc, RunAt(r, pc)
  PROVE  \E row \in RunRow : /\ row = [run[r] EXCEPT !.pc = pc]
                             /\ run' = [run EXCEPT ![r] = row]
<1>1. run[r] \in RunRow
  OBVIOUS
<1>2. [run[r] EXCEPT !.pc = pc] \in RunRow
  BY <1>1 DEF RunRow
<1>. QED  BY <1>1, <1>2 DEF RunAt

\* A request may stop anywhere.
LEMMA RunStops ==
  ASSUME SaleInv, NEW r \in Run, NEW pc \in {"settle", "off", "dead"}, RunAt(r, pc),
         UNCHANGED <<sale, paid, books, saleRef, trampled>>,
         processed' \subseteq Reference \X Outcome, saleLeft' \in [faults : Nat, crashes : Nat]
  PROVE  SaleInv'
<1>1. run \in [Run -> RunRow] /\ run[r] \in RunRow /\ RowFits(run[r])
  BY DEF SaleInv
<1>2. PICK row \in RunRow : row = [run[r] EXCEPT !.pc = pc] /\ run' = [run EXCEPT ![r] = row]
  BY <1>1, RunAtIsRow DEF RunPc
<1>3. /\ row.pc = pc /\ row.order = run[r].order /\ row.ent = run[r].ent /\ row.next = run[r].next
      /\ row.sim = run[r].sim /\ row.outcome = run[r].outcome /\ row.status = run[r].status
      /\ row.binding = run[r].binding /\ row.ref = run[r].ref
  BY <1>1, <1>2 DEF RunRow
<1>4. /\ Serves(row) => Serves(run[r])
      /\ Delivered(run[r]) => Delivered(row)
      /\ ~Serves(row) /\ Serves(run[r]) => run[r].next = 1
  BY <1>1, <1>3 DEF Serves, InService, Delivered, After, RowFits
<1>5. RowFits(row)
  BY <1>1, <1>3, <1>4 DEF RowFits, InService, After
<1>. QED  BY <1>2, <1>3, <1>4, <1>5, RunGoes

\* An exception within fulfillOrder.
LEMMA RunThrows ==
  ASSUME SaleInv, NEW r \in Run, run[r].pc \in {"entitle", "activate", "bind", "finish"},
         Throws(r), UNCHANGED <<paid, processed, saleRef>>
  PROVE  SaleInv'
<1>1. run \in [Run -> RunRow] /\ run[r] \in RunRow /\ RowFits(run[r]) /\ SaleTyped
  BY DEF SaleInv
<1>2. PICK row \in RunRow : row = [run[r] EXCEPT !.pc = "undo"] /\ run' = [run EXCEPT ![r] = row]
  BY <1>1, RunAtIsRow DEF RunPc, Throws
<1>3. /\ row.pc = "undo" /\ row.order = run[r].order /\ row.ent = run[r].ent /\ row.next = run[r].next
      /\ row.sim = run[r].sim /\ row.outcome = run[r].outcome /\ row.status = run[r].status
      /\ row.binding = run[r].binding /\ row.ref = run[r].ref
  BY <1>1, <1>2 DEF RunRow
<1>4. /\ Serves(row) /\ Serves(run[r]) /\ ~Delivered(run[r])
      /\ run[r].outcome \in {"none", "succeeded"} /\ run[r].next = 1
      /\ sale[run[r].order].status \notin {"none", "pending"}
  BY <1>1, <1>3 DEF Serves, InService, Delivered, After, RowFits
<1>5. RowFits(row)
  BY <1>1, <1>3, <1>4 DEF RowFits, InService, After
<1>6. saleLeft' \in [faults : Nat, crashes : Nat] /\ processed' \subseteq Reference \X Outcome
      /\ UNCHANGED <<sale, paid, books, saleRef, trampled>>
  BY <1>1 DEF Throws, SaleFault, SaleTyped
<1>. QED  BY <1>2, <1>3, <1>4, <1>5, <1>6, RunGoes

\* An order's status is written.
LEMMA StatusWritten ==
  ASSUME sale \in [Purchase -> SaleRow], NEW x \in Purchase, NEW s \in SaleStatus,
         sale' = [sale EXCEPT ![x].status = s]
  PROVE  /\ sale' \in [Purchase -> SaleRow]
         /\ \A o \in Purchase : sale'[o].by = sale[o].by
         /\ \A o \in Purchase \ {x} : sale'[o] = sale[o]
         /\ sale'[x].status = s
BY DEF SaleRow

LEMMA StoreReferenceInv ==
  ASSUME SaleInv, NEW r \in Run, StoreReference(r)
  PROVE  SaleInv'
<1>1. run \in [Run -> RunRow] /\ run[r] \in RunRow /\ RowFits(run[r]) /\ SaleTyped
      /\ run[r].order \in Purchase /\ (\A o \in Purchase : OrderFits(o))
  BY DEF SaleInv, RunRow
<1>2. PICK row \in RunRow : row = [run[r] EXCEPT !.pc = "off"] /\ run' = [run EXCEPT ![r] = row]
  BY <1>1, RunAtIsRow DEF RunPc, StoreReference
<1>3. /\ row.pc = "off"
      /\ row.order = run[r].order /\ row.ent = run[r].ent /\ row.next = run[r].next
      /\ row.sim = run[r].sim /\ row.outcome = run[r].outcome /\ row.status = run[r].status
      /\ row.binding = run[r].binding /\ row.ref = run[r].ref
  BY <1>1, <1>2 DEF RunRow
<1>4. run[r].pc = "ask" /\ run[r].ent = "none" /\ run[r].next = 1 /\ run[r].order \in DOMAIN saleRef
  BY <1>1 DEF RowFits, StoreReference, After
<1>5. ~Serves(row) /\ ~Serves(run[r]) /\ ~Delivered(run[r])
  BY <1>3, <1>4 DEF Serves, InService, Delivered
<1>6. saleRef[run[r].order] \in Reference
  BY <1>1, <1>4 DEF SaleTyped
<1>7. /\ sale' \in [Purchase -> SaleRow]
      /\ \A o \in Purchase : sale'[o].status = sale[o].status /\ sale'[o].by = sale[o].by
  BY <1>1, <1>6 DEF StoreReference, SaleTyped, SaleRow
<1>8. SaleTyped' /\ UNCHANGED <<paid, saleRef, books, trampled>>
  BY <1>1, <1>7 DEF SaleTyped, StoreReference
<1>9. RowFits(row)'
  BY <1>1, <1>3, <1>4, <1>5, <1>8 DEF RowFits, InService, After, Serves
<1>10. \A o \in Purchase : /\ sale[o].status # "none" => o \in DOMAIN saleRef
                           /\ sale[o].status = "fulfilled" => sale[o].by # NoRun
  BY <1>1 DEF OrderFits
<1>11. \A o \in Purchase : /\ sale[o].status \notin {"none", "pending"} =>
                                  sale'[o].status \notin {"none", "pending"}
                           /\ sale'[o].status # "none" => o \in DOMAIN saleRef
                           /\ sale'[o].status = "fulfilled" => sale'[o].by # NoRun
                           /\ sale'[o].by = sale[o].by
  BY <1>7, <1>10
<1>12. /\ trampled \subseteq trampled' /\ \A o \in Purchase : books'[o] = books[o]
       /\ \A x \in Reference : paid[x] = "succeeded" => paid'[x] = "succeeded"
  BY <1>8
<1>. QED  BY <1>2, <1>5, <1>8, <1>9, <1>11, <1>12, RunMoves

\* The order is paid: who finds it as it was read has it for itself.
LEMMA PaysFor ==
  ASSUME SaleInv, NEW r \in Run, run[r].pc \in {"mark", "press"},
         run[r].pc = "mark" => run[r].outcome = "succeeded",
         RunAt(r, "fulfil"), UNCHANGED <<paid, processed, books, saleRef, saleLeft>>,
         sale' \in [Purchase -> SaleRow], sale'[run[r].order].status = "paid",
         \A o \in Purchase : sale'[o].by = sale[o].by,
         \A o \in Purchase \ {run[r].order} : sale'[o] = sale[o],
         trampled' = IF OrderOf(r).status = "pending" THEN trampled
                     ELSE trampled \cup {run[r].order}
  PROVE  SaleInv'
<1>1. run \in [Run -> RunRow] /\ run[r] \in RunRow /\ RowFits(run[r]) /\ SaleTyped
      /\ run[r].order \in Purchase /\ (\A o \in Purchase : OrderFits(o))
  BY DEF SaleInv, RunRow
<1>2. PICK row \in RunRow : row = [run[r] EXCEPT !.pc = "fulfil"] /\ run' = [run EXCEPT ![r] = row]
  BY <1>1, RunAtIsRow DEF RunPc
<1>3. /\ row.pc = "fulfil"
      /\ row.order = run[r].order /\ row.ent = run[r].ent /\ row.next = run[r].next
      /\ row.sim = run[r].sim /\ row.outcome = run[r].outcome /\ row.status = run[r].status
      /\ row.binding = run[r].binding /\ row.ref = run[r].ref
  BY <1>1, <1>2 DEF RunRow
<1>4. run[r].ent = "none" /\ run[r].next = 1 /\ run[r].order \in DOMAIN saleRef
      /\ run[r].outcome \in {"none", "succeeded"}
  BY <1>1 DEF RowFits, After
<1>5. Serves(row) /\ ~Serves(run[r]) /\ ~Delivered(run[r])
  BY <1>3, <1>4 DEF Serves, InService, Delivered
<1>6. SaleTyped'
  BY <1>1 DEF SaleTyped
<1>7. RowFits(row)'
  BY <1>1, <1>3, <1>4, <1>5 DEF RowFits, InService, After, Serves
<1>8. ASSUME row.order \notin trampled'
      PROVE  sale[row.order].status = "pending" /\ BooksFit(row, books'[row.order])
  BY <1>1, <1>3, <1>8, <1>4, NothingBooked DEF OrderOf, SaleInv, RowFits, OrderFits
<1>9. \A o \in Purchase : /\ sale[o].status # "none" => o \in DOMAIN saleRef
                          /\ sale[o].status = "fulfilled" => sale[o].by # NoRun
  BY <1>1 DEF OrderFits
<1>10. \A o \in Purchase : /\ sale[o].status \notin {"none", "pending"} =>
                                  sale'[o].status \notin {"none", "pending"}
                           /\ sale'[o].status # "none" => o \in DOMAIN saleRef
                           /\ sale'[o].status = "fulfilled" => sale'[o].by # NoRun
  BY <1>1, <1>4, <1>9
<1>11. trampled \subseteq trampled'
  OBVIOUS
<1>. QED  BY <1>2, <1>5, <1>6, <1>7, <1>8, <1>10, <1>11, RunMoves

\* Its order is written off by who has failed, or who heard that the payment has.
LEMMA WritesOff ==
  ASSUME SaleInv, NEW r \in Run, run[r].pc \in {"mark", "undo"},
         Writes(r, "failed"), RunAt(r, "settle"),
         UNCHANGED <<paid, processed, books, saleRef, saleLeft>>
  PROVE  SaleInv'
<1>1. run \in [Run -> RunRow] /\ run[r] \in RunRow /\ RowFits(run[r]) /\ SaleTyped
      /\ run[r].order \in Purchase /\ (\A o \in Purchase : OrderFits(o))
  BY DEF SaleInv, RunRow
<1>2. PICK row \in RunRow : row = [run[r] EXCEPT !.pc = "settle"] /\ run' = [run EXCEPT ![r] = row]
  BY <1>1, RunAtIsRow DEF RunPc
<1>3. /\ row.pc = "settle"
      /\ row.order = run[r].order /\ row.ent = run[r].ent /\ row.next = run[r].next
      /\ row.sim = run[r].sim /\ row.outcome = run[r].outcome /\ row.status = run[r].status
      /\ row.binding = run[r].binding /\ row.ref = run[r].ref
  BY <1>1, <1>2 DEF RunRow
<1>4. /\ run[r].next = 1 /\ ~Delivered(run[r]) /\ (Serves(row) => Serves(run[r]))
      /\ run[r].pc = "mark" => run[r].order \in DOMAIN saleRef
      /\ run[r].pc = "undo" => sale[run[r].order].status \notin {"none", "pending"}
  BY <1>1, <1>3 DEF RowFits, After, Delivered, Serves, InService
<1>5. /\ sale' \in [Purchase -> SaleRow] /\ sale'[run[r].order].status = "failed"
      /\ \A o \in Purchase : sale'[o].by = sale[o].by
      /\ \A o \in Purchase \ {run[r].order} : sale'[o] = sale[o]
  BY <1>1, StatusWritten DEF Writes, SaleStatus, SaleTyped
<1>6. SaleTyped' /\ trampled \subseteq trampled'
  BY <1>1, <1>5 DEF SaleTyped, Writes
<1>7. RowFits(row)'
  BY <1>1, <1>3, <1>4, <1>5 DEF RowFits, InService, After, Serves
<1>8. ASSUME Serves(row), row.order \notin trampled' PROVE BooksFit(row, books'[row.order])
  BY <1>1, <1>3, <1>4, <1>6, <1>8, NothingBooked DEF OrderFits
<1>9. \A o \in Purchase : /\ sale[o].status # "none" => o \in DOMAIN saleRef
                          /\ sale[o].status = "fulfilled" => sale[o].by # NoRun
  BY <1>1 DEF OrderFits
<1>10. \A o \in Purchase : /\ sale[o].status \notin {"none", "pending"} =>
                                  sale'[o].status \notin {"none", "pending"}
                           /\ sale'[o].status # "none" => o \in DOMAIN saleRef
                           /\ sale'[o].status = "fulfilled" => sale'[o].by # NoRun
  BY <1>1, <1>4, <1>9, <1>5
<1>. QED  BY <1>2, <1>3, <1>4, <1>5, <1>6, <1>7, <1>8, <1>10, RunMoves

LEMMA MarkOrderInv ==
  ASSUME SaleInv, NEW r \in Run, MarkOrder(r)
  PROVE  SaleInv'
<1>1. run \in [Run -> RunRow] /\ run[r] \in RunRow /\ RowFits(run[r]) /\ SaleTyped
      /\ run[r].order \in Purchase /\ (\A o \in Purchase : OrderFits(o))
  BY DEF SaleInv, RunRow
<1>2. run[r].pc = "mark" /\ run[r].status = "pending" /\ UNCHANGED <<paid, processed, books, saleRef>>
  BY <1>1 DEF MarkOrder, RowFits
<1>3. CASE run[r].outcome = "succeeded" /\ Writes(r, "paid") /\ RunAt(r, "fulfil") /\ UNCHANGED saleLeft
  BY <1>1, <1>3, StatusWritten, <1>2, PaysFor DEF Writes, SaleStatus, SaleTyped
<1>4. CASE run[r].outcome = "failed" /\ Writes(r, "failed") /\ RunAt(r, "settle") /\ UNCHANGED saleLeft
  BY <1>2, <1>4, WritesOff
<1>5. CASE SaleFault /\ RunAt(r, "settle") /\ UNCHANGED <<sale, trampled>>
  BY <1>1, <1>2, <1>5, RunStops DEF SaleFault, SaleTyped
<1>. QED  BY <1>3, <1>4, <1>5 DEF MarkOrder

LEMMA PayByButtonInv ==
  ASSUME SaleInv, NEW r \in Run, PayByButton(r)
  PROVE  SaleInv'
<1>1. run \in [Run -> RunRow] /\ run[r] \in RunRow /\ RowFits(run[r]) /\ SaleTyped
      /\ run[r].order \in Purchase /\ (\A o \in Purchase : OrderFits(o))
  BY DEF SaleInv, RunRow
<1>2. /\ run[r].pc = "press" /\ RunAt(r, "fulfil")
      /\ UNCHANGED <<paid, processed, books, saleRef, saleLeft>>
      /\ trampled' = IF OrderOf(r).status = "pending" THEN trampled
                     ELSE trampled \cup {run[r].order}
  BY DEF PayByButton
<1>3. /\ sale' \in [Purchase -> SaleRow] /\ sale'[run[r].order].status = "paid"
      /\ \A o \in Purchase : sale'[o].by = sale[o].by
      /\ \A o \in Purchase \ {run[r].order} : sale'[o] = sale[o]
  BY <1>1 DEF PayByButton, SaleTyped, SaleRow, SaleStatus
<1>. QED  BY <1>2, <1>3, PaysFor

LEMMA SettleEventInv ==
  ASSUME SaleInv, NEW r \in Run, SettleEvent(r)
  PROVE  SaleInv'
BY RunStops DEF SaleInv, RunRow, SettleEvent, SaleTyped

LEMMA UndoOrderInv ==
  ASSUME SaleInv, NEW r \in Run, UndoOrder(r)
  PROVE  SaleInv'
BY WritesOff, RunStops DEF SaleInv, RunRow, UndoOrder, SaleFault, SaleTyped

LEMMA RunDiesInv ==
  ASSUME SaleInv, NEW r \in Run, RunDies(r)
  PROVE  SaleInv'
BY RunStops DEF SaleInv, RunRow, RunDies, SaleTyped

LEMMA FindOrderInv ==
  ASSUME SaleInv, NEW r \in Run, FindOrder(r)
  PROVE  SaleInv'
<1>1. run \in [Run -> RunRow] /\ run[r] \in RunRow /\ RowFits(run[r]) /\ SaleTyped
      /\ run[r].order \in Purchase /\ (\A o \in Purchase : OrderFits(o))
  BY DEF SaleInv, RunRow
<1>2. run[r].pc = "find" /\ run[r].ent = "none" /\ run[r].next = 1
      /\ UNCHANGED <<sale, paid, processed, books, saleRef, saleLeft, trampled>>
  BY <1>1 DEF FindOrder, RowFits, After
<1>3. processed' \subseteq Reference \X Outcome /\ saleLeft' \in [faults : Nat, crashes : Nat]
  BY <1>1, <1>2 DEF SaleTyped
<1>4. CASE RunAt(r, "settle")
  BY <1>2, <1>3, <1>4, RunStops
<1>5. ASSUME NEW o \in Purchase,
             run' = [run EXCEPT ![r].order = o, ![r].status = sale[o].status,
                       ![r].pc = IF sale[o].status = "pending" THEN "mark" ELSE "settle"]
      PROVE  SaleInv'
  <2>1. PICK s \in SaleStatus : s = sale[o].status
    BY <1>1 DEF SaleTyped, SaleRow
  <2>2. PICK pc \in {"mark", "settle"} : pc = IF sale[o].status = "pending" THEN "mark" ELSE "settle"
    OBVIOUS
  <2>3. [run[r] EXCEPT !.order = o, !.status = s, !.pc = pc] \in RunRow
    <3>1. pc \in RunPc
      BY <2>2 DEF RunPc
    <3>. QED  BY <1>1, <2>1, <3>1 DEF RunRow
  <2>4. run' = [run EXCEPT ![r] = [run[r] EXCEPT !.order = o, !.status = s, !.pc = pc]]
    BY <1>1, <1>5, <2>1, <2>2 DEF RunRow
  <2>5. PICK row \in RunRow : /\ row = [run[r] EXCEPT !.order = o, !.status = s, !.pc = pc]
                              /\ run' = [run EXCEPT ![r] = row]
    BY <2>3, <2>4
  <2>6. /\ row.pc = pc /\ row.order = o /\ row.status = s
      /\ row.ent = run[r].ent /\ row.next = run[r].next /\ row.sim = run[r].sim
      /\ row.outcome = run[r].outcome /\ row.binding = run[r].binding /\ row.ref = run[r].ref
    BY <1>1, <2>5 DEF RunRow
  <2>7. ~Serves(row) /\ ~Serves(run[r]) /\ ~Delivered(run[r])
    BY <1>2, <2>2, <2>6 DEF Serves, InService, Delivered
  <2>8. o \in DOMAIN saleRef \/ pc = "settle"
    BY <1>1, <2>2 DEF OrderFits
  <2>9. RowFits(row)
    BY <1>1, <1>2, <2>1, <2>2, <2>6, <2>7, <2>8 DEF RowFits, InService, After, Serves
  <2>. QED  BY <1>2, <1>3, <2>5, <2>7, <2>9, RunGoes
<1>. QED  BY <1>4, <1>5 DEF FindOrder

LEMMA FulfilInv ==
  ASSUME SaleInv, NEW r \in Run, Fulfil(r)
  PROVE  SaleInv'
<1>1. run \in [Run -> RunRow] /\ run[r] \in RunRow /\ RowFits(run[r]) /\ SaleTyped
      /\ run[r].order \in Purchase /\ (\A o \in Purchase : OrderFits(o))
  BY DEF SaleInv, RunRow
<1>2. run[r].pc = "fulfil" /\ run[r].ent = "none" /\ run[r].next = 1
      /\ run[r].outcome \in {"none", "succeeded"}
      /\ sale[run[r].order].status \notin {"none", "pending"}
      /\ UNCHANGED <<sale, paid, processed, books, saleRef, saleLeft, trampled>>
  BY <1>1 DEF Fulfil, RowFits, After, Serves, InService
<1>3. processed' \subseteq Reference \X Outcome /\ saleLeft' \in [faults : Nat, crashes : Nat]
  BY <1>1, <1>2 DEF SaleTyped
<1>4. CASE OrderOf(r).status # "paid" BY <1>4, <1>2, <1>3, RunStops DEF Fulfil, RunAt
<1>5. CASE OrderOf(r).status = "paid"
  <2>1. PICK d : d = (OrderOf(r).ref = Simulated)
    OBVIOUS
  <2>2. d \in BOOLEAN
    BY <2>1
  <2>3. run' = [run EXCEPT ![r].pc = "entitle", ![r].status = "paid", ![r].sim = d]
    BY <1>5, <2>1 DEF Fulfil
  <2>4. [run[r] EXCEPT !.pc = "entitle", !.status = "paid", !.sim = d] \in RunRow
    BY <1>1, <2>2 DEF RunRow, RunPc, SaleStatus
  <2>5. run' = [run EXCEPT ![r] = [run[r] EXCEPT !.pc = "entitle", !.status = "paid", !.sim = d]]
    BY <1>1, <2>3 DEF RunRow
  <2>6. PICK row \in RunRow :
          /\ row = [run[r] EXCEPT !.pc = "entitle", !.status = "paid", !.sim = d]
          /\ run' = [run EXCEPT ![r] = row]
    BY <2>4, <2>5
  <2>7. /\ row.pc = "entitle"
      /\ row.order = run[r].order /\ row.ent = run[r].ent /\ row.next = run[r].next
      /\ row.outcome = run[r].outcome /\ row.binding = run[r].binding /\ row.ref = run[r].ref
    BY <1>1, <2>6 DEF RunRow
  <2>8. Serves(row) /\ Serves(run[r]) /\ ~Delivered(run[r])
    BY <1>2, <2>7 DEF Serves, InService, Delivered
  <2>9. RowFits(row)
    BY <1>1, <1>2, <2>7, <2>8 DEF RowFits, InService, After
  <2>. QED  BY <1>2, <1>3, <2>6, <2>7, <2>8, <2>9, RunGoes
<1>. QED  BY <1>4, <1>5

LEMMA CreateEntitlementInv ==
  ASSUME SaleInv, NEW r \in Run, CreateEntitlement(r)
  PROVE  SaleInv'
<1>1. run \in [Run -> RunRow] /\ run[r] \in RunRow /\ RowFits(run[r]) /\ SaleTyped
      /\ run[r].order \in Purchase /\ (\A o \in Purchase : OrderFits(o))
  BY DEF SaleInv, RunRow
<1>2. run[r].pc = "entitle" /\ run[r].next = 1 /\ run[r].outcome \in {"none", "succeeded"}
      /\ sale[run[r].order].status \notin {"none", "pending"}
      /\ UNCHANGED <<paid, processed, saleRef>>
  BY <1>1 DEF CreateEntitlement, RowFits, After, Serves, InService
<1>3. CASE Throws(r)
  BY <1>2, <1>3, RunThrows
<1>4. CASE ~Throws(r)
  <2>1. run' = [run EXCEPT ![r] = [run[r] EXCEPT !.pc = "activate", !.ent = "PENDING"]]
        /\ UNCHANGED <<sale, books, saleLeft, trampled>>
    BY <1>1, <1>2, <1>4 DEF CreateEntitlement, RunRow, RowFits
  <2>2. [run[r] EXCEPT !.pc = "activate", !.ent = "PENDING"] \in RunRow
    BY <1>1 DEF RunRow, RunPc
  <2>3. PICK row \in RunRow : /\ row = [run[r] EXCEPT !.pc = "activate", !.ent = "PENDING"]
                              /\ run' = [run EXCEPT ![r] = row]
    BY <2>1, <2>2
  <2>4. /\ row.pc = "activate" /\ row.ent = "PENDING"
      /\ row.order = run[r].order /\ row.next = run[r].next /\ row.sim = run[r].sim
      /\ row.outcome = run[r].outcome /\ row.status = run[r].status /\ row.binding = run[r].binding
      /\ row.ref = run[r].ref
    BY <1>1, <2>3 DEF RunRow
  <2>5. Serves(row) /\ Serves(run[r]) /\ ~Delivered(run[r])
    BY <1>2, <2>4 DEF Serves, InService, Delivered, After
  <2>6. RowFits(row)
    BY <1>1, <1>2, <2>4, <2>5 DEF RowFits, InService, After
  <2>7. processed' \subseteq Reference \X Outcome /\ saleLeft' \in [faults : Nat, crashes : Nat]
    BY <1>1, <1>2, <2>1 DEF SaleTyped
  <2>. QED  BY <1>2, <2>1, <2>3, <2>4, <2>5, <2>6, <2>7, RunGoes
<1>. QED  BY <1>3, <1>4

LEMMA ActivateEntitlementInv ==
  ASSUME SaleInv, NEW r \in Run, ActivateEntitlement(r)
  PROVE  SaleInv'
<1>1. run \in [Run -> RunRow] /\ run[r] \in RunRow /\ RowFits(run[r]) /\ SaleTyped
      /\ run[r].order \in Purchase /\ (\A o \in Purchase : OrderFits(o))
  BY DEF SaleInv, RunRow
<1>2. run[r].pc = "activate" /\ run[r].next = 1 /\ run[r].outcome \in {"none", "succeeded"}
      /\ sale[run[r].order].status \notin {"none", "pending"}
      /\ UNCHANGED <<paid, processed, saleRef>>
  BY <1>1 DEF ActivateEntitlement, RowFits, After, Serves, InService
<1>3. CASE Throws(r)
  BY <1>2, <1>3, RunThrows
<1>4. CASE ~Throws(r)
  <2>1. run' = [run EXCEPT ![r] = [run[r] EXCEPT !.pc = "bind", !.ent = "ACTIVE"]]
        /\ UNCHANGED <<sale, books, saleLeft, trampled>>
    BY <1>1, <1>2, <1>4 DEF ActivateEntitlement, RunRow, RowFits
  <2>2. [run[r] EXCEPT !.pc = "bind", !.ent = "ACTIVE"] \in RunRow
    BY <1>1 DEF RunRow, RunPc
  <2>3. PICK row \in RunRow : /\ row = [run[r] EXCEPT !.pc = "bind", !.ent = "ACTIVE"]
                              /\ run' = [run EXCEPT ![r] = row]
    BY <2>1, <2>2
  <2>4. /\ row.pc = "bind" /\ row.ent = "ACTIVE"
      /\ row.order = run[r].order /\ row.next = run[r].next /\ row.sim = run[r].sim
      /\ row.outcome = run[r].outcome /\ row.status = run[r].status /\ row.binding = run[r].binding
      /\ row.ref = run[r].ref
    BY <1>1, <2>3 DEF RunRow
  <2>5. Serves(row) /\ Serves(run[r]) /\ ~Delivered(run[r])
    BY <1>2, <2>4 DEF Serves, InService, Delivered, After
  <2>6. RowFits(row)
    BY <1>1, <1>2, <2>4, <2>5 DEF RowFits, InService, After
  <2>7. processed' \subseteq Reference \X Outcome /\ saleLeft' \in [faults : Nat, crashes : Nat]
    BY <1>1, <1>2, <2>1 DEF SaleTyped
  <2>. QED  BY <1>2, <2>1, <2>3, <2>4, <2>5, <2>6, <2>7, RunGoes
<1>. QED  BY <1>3, <1>4

LEMMA CreateBindingInv ==
  ASSUME SaleInv, NEW r \in Run, CreateBinding(r)
  PROVE  SaleInv'
<1>1. run \in [Run -> RunRow] /\ run[r] \in RunRow /\ RowFits(run[r]) /\ SaleTyped
      /\ run[r].order \in Purchase /\ (\A o \in Purchase : OrderFits(o))
  BY DEF SaleInv, RunRow
<1>2. run[r].pc = "bind" /\ run[r].next = 1 /\ run[r].outcome \in {"none", "succeeded"}
      /\ sale[run[r].order].status \notin {"none", "pending"}
      /\ UNCHANGED <<paid, processed, saleRef>>
  BY <1>1 DEF CreateBinding, RowFits, After, Serves, InService
<1>3. CASE Throws(r)
  BY <1>2, <1>3, RunThrows
<1>4. CASE ~Throws(r)
  <2>1. run' = [run EXCEPT ![r] = [run[r] EXCEPT !.pc = "provision", !.binding = "UNBOUND"]]
        /\ UNCHANGED <<sale, books, saleLeft, trampled>>
    BY <1>1, <1>2, <1>4 DEF CreateBinding, RunRow, RowFits
  <2>2. [run[r] EXCEPT !.pc = "provision", !.binding = "UNBOUND"] \in RunRow
    BY <1>1 DEF RunRow, RunPc
  <2>3. PICK row \in RunRow : /\ row = [run[r] EXCEPT !.pc = "provision", !.binding = "UNBOUND"]
                              /\ run' = [run EXCEPT ![r] = row]
    BY <2>1, <2>2
  <2>4. /\ row.pc = "provision" /\ row.binding = "UNBOUND"
      /\ row.order = run[r].order /\ row.ent = run[r].ent /\ row.next = run[r].next
      /\ row.sim = run[r].sim /\ row.outcome = run[r].outcome /\ row.status = run[r].status
      /\ row.ref = run[r].ref
    BY <1>1, <2>3 DEF RunRow
  <2>5. Serves(row) /\ Serves(run[r]) /\ ~Delivered(run[r])
    BY <1>2, <2>4 DEF Serves, InService, Delivered, After
  <2>6. RowFits(row)
    BY <1>1, <1>2, <2>4, <2>5 DEF RowFits, InService, After
  <2>7. processed' \subseteq Reference \X Outcome /\ saleLeft' \in [faults : Nat, crashes : Nat]
    BY <1>1, <1>2, <2>1 DEF SaleTyped
  <2>. QED  BY <1>2, <2>1, <2>3, <2>4, <2>5, <2>6, <2>7, RunGoes
<1>. QED  BY <1>3, <1>4

LEMMA ProvisionBindingInv ==
  ASSUME SaleInv, NEW r \in Run, ProvisionBinding(r)
  PROVE  SaleInv'
<1>1. run \in [Run -> RunRow] /\ run[r] \in RunRow /\ RowFits(run[r]) /\ SaleTyped
      /\ run[r].order \in Purchase /\ (\A o \in Purchase : OrderFits(o))
  BY DEF SaleInv, RunRow
<1>2. run[r].pc = "provision" /\ run[r].next = 1 /\ run[r].outcome \in {"none", "succeeded"}
      /\ run[r].ent = "ACTIVE" /\ sale[run[r].order].status \notin {"none", "pending"}
      /\ UNCHANGED <<sale, paid, processed, books, saleRef, trampled>>
  BY <1>1 DEF ProvisionBinding, RowFits, After, Serves, InService
<1>3. processed' \subseteq Reference \X Outcome /\ saleLeft' \in [faults : Nat, crashes : Nat]
  BY <1>1, <1>2 DEF SaleTyped, SaleFault, ProvisionBinding
<1>4. PICK pc \in {"finish", "undo"}, b \in {"BOUND", "FAILED", "PROVISIONING"} :
        /\ run' = [run EXCEPT ![r].pc = pc, ![r].binding = b]
        /\ pc = "finish" => b = "BOUND"
  BY DEF ProvisionBinding
<1>5. run' = [run EXCEPT ![r] = [run[r] EXCEPT !.pc = pc, !.binding = b]]
  BY <1>1, <1>4 DEF RunRow
<1>6. [run[r] EXCEPT !.pc = pc, !.binding = b] \in RunRow
  BY <1>1 DEF RunRow, RunPc
<1>7. PICK row \in RunRow : /\ row = [run[r] EXCEPT !.pc = pc, !.binding = b]
                            /\ run' = [run EXCEPT ![r] = row]
  BY <1>5, <1>6
<1>8. /\ row.pc = pc /\ row.binding = b
      /\ row.order = run[r].order /\ row.ent = run[r].ent /\ row.next = run[r].next
      /\ row.sim = run[r].sim /\ row.outcome = run[r].outcome /\ row.status = run[r].status
      /\ row.ref = run[r].ref
  BY <1>1, <1>7 DEF RunRow
<1>9. Serves(row) /\ Serves(run[r]) /\ ~Delivered(run[r])
  BY <1>2, <1>8 DEF Serves, InService, Delivered, After
<1>10. RowFits(row)
  BY <1>1, <1>2, <1>4, <1>8, <1>9 DEF RowFits, InService, After
<1>. QED  BY <1>2, <1>3, <1>7, <1>8, <1>9, <1>10, RunGoes

LEMMA FinishOrderInv ==
  ASSUME SaleInv, NEW r \in Run, FinishOrder(r)
  PROVE  SaleInv'
<1>1. run \in [Run -> RunRow] /\ run[r] \in RunRow /\ RowFits(run[r]) /\ SaleTyped
      /\ run[r].order \in Purchase /\ (\A o \in Purchase : OrderFits(o))
  BY DEF SaleInv, RunRow
<1>2. run[r].pc = "finish" /\ run[r].next = 1 /\ run[r].outcome \in {"none", "succeeded"}
      /\ run[r].ent = "ACTIVE" /\ run[r].binding = "BOUND"
      /\ sale[run[r].order].status \notin {"none", "pending"}
      /\ UNCHANGED <<paid, processed, saleRef>>
  BY <1>1 DEF FinishOrder, RowFits, After, Serves, InService
<1>3. CASE Throws(r)
  BY <1>2, <1>3, RunThrows
<1>4. CASE ~Throws(r)
  <2>1. /\ sale' = [sale EXCEPT ![run[r].order].status = "fulfilled", ![run[r].order].by = r]
        /\ trampled' = IF OrderOf(r).status = "paid" THEN trampled
                       ELSE trampled \cup {run[r].order}
        /\ RunAt(r, "look") /\ UNCHANGED <<books, saleLeft>>
    BY <1>4 DEF FinishOrder
  <2>2. PICK row \in RunRow : row = [run[r] EXCEPT !.pc = "look"] /\ run' = [run EXCEPT ![r] = row]
    BY <1>1, <2>1, RunAtIsRow DEF RunPc
  <2>3. /\ row.pc = "look"
      /\ row.order = run[r].order /\ row.ent = run[r].ent /\ row.next = run[r].next
      /\ row.sim = run[r].sim /\ row.outcome = run[r].outcome /\ row.status = run[r].status
      /\ row.binding = run[r].binding /\ row.ref = run[r].ref
    BY <1>1, <2>2 DEF RunRow
  <2>4. Serves(row) /\ Serves(run[r]) /\ Delivered(row) /\ row.next = 1
    BY <1>2, <2>3 DEF Serves, InService, Delivered, After
  <2>5. /\ sale' \in [Purchase -> SaleRow] /\ sale'[run[r].order].status = "fulfilled"
        /\ sale'[run[r].order].by = r
        /\ \A o \in Purchase \ {run[r].order} : sale'[o] = sale[o]
    BY <1>1, <2>1 DEF SaleTyped, SaleRow, SaleStatus
  <2>6. SaleTyped' /\ trampled \subseteq trampled'
    BY <1>1, <1>2, <2>1, <2>5 DEF SaleTyped
  <2>7. RowFits(row)'
    BY <1>1, <1>2, <2>3, <2>4, <2>5 DEF RowFits, InService, After
  <2>8. ASSUME row.order \notin trampled' PROVE BooksFit(row, books'[row.order])
    <3>1. BooksFit(run[r], books[row.order])
      BY <1>1, <2>3, <2>4, <2>6, <2>8 DEF OrderFits
    <3>. QED  BY <1>2, <2>1, <2>4, <3>1, NothingBooked
  <2>9. run[r].order \in DOMAIN saleRef
    BY <1>1, <1>2 DEF OrderFits
  <2>10. NoRun # r
    BY SaleAssumption
  <2>11. \A o \in Purchase : /\ sale[o].status \notin {"none", "pending"} =>
                                  sale'[o].status \notin {"none", "pending"}
                             /\ sale'[o].status # "none" => o \in DOMAIN saleRef
                             /\ sale'[o].status = "fulfilled" => sale'[o].by # NoRun
                             /\ sale'[o].by = sale[o].by
                                  \/ (sale'[o].by = r /\ row.order = o /\ Delivered(row))
    BY <1>1, <2>3, <2>4, <2>5, <2>9, <2>10 DEF OrderFits
  <2>. QED  BY <1>2, <2>1, <2>2, <2>3, <2>4, <2>6, <2>7, <2>8, <2>11, RunMoves
<1>. QED  BY <1>3, <1>4

\* The next booking is made, or is not due.
LEMMA BooksGo ==
  ASSUME SaleInv, NEW r \in Run, run[r].pc \in {"look", "insert"}, NextBooking(r),
         UNCHANGED <<sale, paid, processed, saleRef, saleLeft, trampled>>,
         books' \in [Purchase -> Page],
         \A o \in Purchase \ {run[r].order} : books'[o] = books[o],
         \A k \in 1..4 : k # run[r].next => books'[run[r].order][Bookings[k]] = books[run[r].order][Bookings[k]],
         run[r].order \notin trampled =>
           books'[run[r].order][Bookings[run[r].next]] =
             IF run[r].next = 2 /\ run[r].sim THEN "absent" ELSE Fee(r)
  PROVE  SaleInv'
<1>1. run \in [Run -> RunRow] /\ run[r] \in RunRow /\ RowFits(run[r]) /\ SaleTyped
      /\ run[r].order \in Purchase /\ (\A o \in Purchase : OrderFits(o))
  BY DEF SaleInv, RunRow
<1>2. /\ run[r].next \in 1..4 /\ run[r].outcome \in {"none", "succeeded"}
      /\ run[r].ent = "ACTIVE" /\ run[r].binding = "BOUND"
      /\ sale[run[r].order].status \notin {"none", "pending"}
  BY <1>1 DEF RowFits, Serves, InService, RunRow
<1>3. PICK pc \in {"settle", "look"} : pc = IF run[r].next = Len(Bookings) THEN "settle" ELSE "look"
  OBVIOUS
<1>4. PICK n \in Nat : n = run[r].next + 1
  BY <1>2
<1>5. run' = [run EXCEPT ![r] = [run[r] EXCEPT !.pc = pc, !.next = n]]
  BY <1>1, <1>3, <1>4 DEF NextBooking, RunRow
<1>6. [run[r] EXCEPT !.pc = pc, !.next = n] \in RunRow
  BY <1>1 DEF RunRow, RunPc
<1>7. PICK row \in RunRow : /\ row = [run[r] EXCEPT !.pc = pc, !.next = n]
                            /\ run' = [run EXCEPT ![r] = row]
  BY <1>5, <1>6
<1>8. /\ row.pc = pc /\ row.next = run[r].next + 1
      /\ row.order = run[r].order /\ row.ent = run[r].ent /\ row.sim = run[r].sim
      /\ row.outcome = run[r].outcome /\ row.status = run[r].status /\ row.binding = run[r].binding
      /\ row.ref = run[r].ref
  BY <1>1, <1>7, <1>4 DEF RunRow
<1>9. Serves(row) /\ Serves(run[r]) /\ Delivered(row)
  BY <1>2, <1>8 DEF Serves, InService, Delivered, After
<1>10. SaleTyped'
  BY <1>1 DEF SaleTyped
<1>11. pc = "look" => row.next <= 4
  BY <1>2, <1>3, <1>8, BookingNames
<1>12. RowFits(row)'
  BY <1>1, <1>2, <1>8, <1>9, <1>11 DEF RowFits, InService, After
<1>13. ASSUME row.order \notin trampled' PROVE BooksFit(row, books'[row.order])
  <2>1. BooksFit(run[r], books[row.order]) /\ row.order = run[r].order /\ row.sim = run[r].sim
    BY <1>1, <1>8, <1>9, <1>13 DEF OrderFits
  <2>2. SUFFICES ASSUME NEW k \in 1..4
                 PROVE  books'[row.order][Bookings[k]] =
                          IF k < row.next /\ (k = 2 => ~row.sim)
                          THEN (IF row.sim THEN "gross" ELSE "net") ELSE "absent"
    BY DEF BooksFit
  <2>3. CASE k = run[r].next
    BY <1>2, <1>8, <1>13, <2>1, <2>3 DEF Fee
  <2>4. CASE k # run[r].next BY <1>2, <1>8, <2>4, <2>1 DEF BooksFit
  <2>. QED  BY <2>3, <2>4
<1>14. \A o \in Purchase : /\ sale[o].status # "none" => o \in DOMAIN saleRef
                           /\ sale[o].status = "fulfilled" => sale[o].by # NoRun
  BY <1>1 DEF OrderFits
<1>. QED  BY <1>7, <1>8, <1>9, <1>10, <1>12, <1>13, <1>14, RunMoves

LEMMA LookUpInv ==
  ASSUME SaleInv, NEW r \in Run, LookUp(r)
  PROVE  SaleInv'
<1>1. run \in [Run -> RunRow] /\ run[r] \in RunRow /\ RowFits(run[r]) /\ SaleTyped
      /\ run[r].order \in Purchase /\ (\A o \in Purchase : OrderFits(o))
  BY DEF SaleInv, RunRow
<1>2. /\ run[r].pc = "look" /\ run[r].next \in 1..4 /\ run[r].outcome \in {"none", "succeeded"}
      /\ run[r].ent = "ACTIVE" /\ run[r].binding = "BOUND" /\ Serves(run[r])
      /\ sale[run[r].order].status \notin {"none", "pending"}
      /\ UNCHANGED <<sale, paid, processed, books, saleRef, saleLeft, trampled>>
  BY <1>1 DEF LookUp, RowFits, Serves, InService, RunRow
<1>3. Entry(r) = "fee" <=> run[r].next = 2
  BY <1>2, BookingNames DEF Entry
<1>4. Fee(r) = "gross" <=> run[r].sim
  BY <1>1 DEF Fee, RunRow
<1>5. CASE NextBooking(r) /\ (\/ Entry(r) = "fee" /\ Fee(r) = "gross"
                              \/ Entry(r) # "earning" /\ Booked(r) # "absent")
  BY <1>1, <1>2, <1>3, <1>4, <1>5, BooksGo DEF OrderFits, BooksFit, Booked, Entry, SaleTyped
<1>6. CASE RunAt(r, "insert") /\ ~(Entry(r) = "fee" /\ Fee(r) = "gross")
  <2>1. PICK row \in RunRow : row = [run[r] EXCEPT !.pc = "insert"] /\ run' = [run EXCEPT ![r] = row]
    BY <1>1, <1>6, RunAtIsRow DEF RunPc
  <2>2. /\ row.pc = "insert"
      /\ row.order = run[r].order /\ row.ent = run[r].ent /\ row.next = run[r].next
      /\ row.sim = run[r].sim /\ row.outcome = run[r].outcome /\ row.status = run[r].status
      /\ row.binding = run[r].binding /\ row.ref = run[r].ref
    BY <1>1, <2>1 DEF RunRow
  <2>3. Serves(row) /\ Delivered(row) /\ run[r].next <= 4
    BY <1>2, <2>2 DEF Serves, InService, Delivered, After
  <2>4. ~(row.next = 2 /\ row.sim)
    BY <1>3, <1>4, <1>6, <2>2
  <2>5. RowFits(row)
    BY <1>1, <1>2, <2>2, <2>3, <2>4 DEF RowFits, InService, After
  <2>6. processed' \subseteq Reference \X Outcome /\ saleLeft' \in [faults : Nat, crashes : Nat]
    BY <1>1, <1>2 DEF SaleTyped
  <2>. QED  BY <1>2, <2>1, <2>2, <2>3, <2>5, <2>6, RunGoes
<1>. QED  BY <1>5, <1>6 DEF LookUp

LEMMA InsertInv ==
  ASSUME SaleInv, NEW r \in Run, Insert(r)
  PROVE  SaleInv'
<1>1. run \in [Run -> RunRow] /\ run[r] \in RunRow /\ RowFits(run[r]) /\ SaleTyped
      /\ run[r].order \in Purchase /\ (\A o \in Purchase : OrderFits(o))
  BY DEF SaleInv, RunRow
<1>2. /\ run[r].pc = "insert" /\ run[r].next \in 1..4 /\ ~(run[r].next = 2 /\ run[r].sim)
      /\ UNCHANGED <<sale, paid, processed, saleRef, trampled>>
  BY <1>1 DEF Insert, RowFits, RunRow
<1>3. CASE RunAt(r, "settle") /\ UNCHANGED books /\ (UNCHANGED saleLeft \/ SaleFault)
  BY <1>1, <1>2, <1>3, RunStops DEF SaleTyped, SaleFault
<1>4. CASE books' = [books EXCEPT ![run[r].order][Entry(r)] = Fee(r)] /\ NextBooking(r) /\ UNCHANGED saleLeft
  BY <1>2, BookingNames, <1>1, <1>4, BooksGo DEF Entry, Fee, SaleTyped, Page
<1>. QED  BY <1>3, <1>4 DEF Insert

LEMMA RepairBindingInv ==
  ASSUME SaleInv, NEW r \in Run, RepairBinding(r)
  PROVE  SaleInv'
<1>1. run \in [Run -> RunRow] /\ run[r] \in RunRow /\ RowFits(run[r]) /\ SaleTyped
      /\ run[r].order \in Purchase /\ (\A p \in Purchase : OrderFits(p))
  BY DEF SaleInv, RunRow
<1>2. PICK b \in {"BOUND", "FAILED"} : run' = [run EXCEPT ![r].binding = b]
  BY DEF RepairBinding
<1>3. run[r].binding = "PROVISIONING"
      /\ UNCHANGED <<sale, paid, processed, books, saleRef, saleLeft, trampled>>
  BY DEF RepairBinding
<1>4. run' = [run EXCEPT ![r] = [run[r] EXCEPT !.binding = b]]
  BY <1>1, <1>2 DEF RunRow
<1>5. [run[r] EXCEPT !.binding = b] \in RunRow
  BY <1>1 DEF RunRow
<1>6. PICK row \in RunRow : row = [run[r] EXCEPT !.binding = b] /\ run' = [run EXCEPT ![r] = row]
  BY <1>4, <1>5
<1>7. /\ row.binding = b /\ row.pc = run[r].pc
      /\ row.order = run[r].order /\ row.ent = run[r].ent /\ row.next = run[r].next
      /\ row.sim = run[r].sim /\ row.outcome = run[r].outcome /\ row.status = run[r].status
      /\ row.ref = run[r].ref
  BY <1>1, <1>6 DEF RunRow
<1>8. ~Delivered(run[r]) /\ (Serves(row) <=> Serves(run[r]))
  BY <1>3, <1>7 DEF Delivered, Serves
<1>9. RowFits(row)
  BY <1>1, <1>3, <1>7, <1>8 DEF RowFits
<1>10. processed' \subseteq Reference \X Outcome /\ saleLeft' \in [faults : Nat, crashes : Nat]
  BY <1>1, <1>3 DEF SaleTyped
<1>. QED  BY <1>3, <1>6, <1>7, <1>8, <1>9, <1>10, RunGoes

LEMMA ReconcileEntitlementInv ==
  ASSUME SaleInv, NEW r \in Run, ReconcileEntitlement(r)
  PROVE  SaleInv'
<1>1. run \in [Run -> RunRow] /\ run[r] \in RunRow /\ RowFits(run[r]) /\ SaleTyped
      /\ run[r].order \in Purchase /\ (\A p \in Purchase : OrderFits(p))
  BY DEF SaleInv, RunRow
<1>2. PICK d \in BOOLEAN : run' = [run EXCEPT ![r].drift = d]
  BY DEF ReconcileEntitlement
<1>3. UNCHANGED <<sale, paid, processed, books, saleRef, saleLeft, trampled>>
  BY DEF ReconcileEntitlement
<1>4. run' = [run EXCEPT ![r] = [run[r] EXCEPT !.drift = d]]
  BY <1>1, <1>2 DEF RunRow
<1>5. [run[r] EXCEPT !.drift = d] \in RunRow
  BY <1>1 DEF RunRow
<1>6. PICK row \in RunRow : row = [run[r] EXCEPT !.drift = d] /\ run' = [run EXCEPT ![r] = row]
  BY <1>4, <1>5
<1>7. /\ row.pc = run[r].pc
      /\ row.order = run[r].order /\ row.ent = run[r].ent /\ row.next = run[r].next
      /\ row.sim = run[r].sim /\ row.outcome = run[r].outcome /\ row.status = run[r].status
      /\ row.binding = run[r].binding /\ row.ref = run[r].ref
  BY <1>1, <1>6 DEF RunRow
<1>8. (Delivered(row) <=> Delivered(run[r])) /\ (Serves(row) <=> Serves(run[r]))
  BY <1>7 DEF Delivered, Serves
<1>9. RowFits(row)
  BY <1>1, <1>7, <1>8 DEF RowFits
<1>10. processed' \subseteq Reference \X Outcome /\ saleLeft' \in [faults : Nat, crashes : Nat]
  BY <1>1, <1>3 DEF SaleTyped
<1>. QED  BY <1>3, <1>6, <1>7, <1>8, <1>9, <1>10, RunGoes

LEMMA RequestPaymentInv ==
  ASSUME SaleInv, NEW r \in Run, NEW o \in Purchase, RequestPayment(r, o)
  PROVE  SaleInv'
<1>1. run \in [Run -> RunRow] /\ run[r] \in RunRow /\ RowFits(run[r]) /\ SaleTyped
      /\ run[r].order \in Purchase /\ (\A p \in Purchase : OrderFits(p))
  BY DEF SaleInv, RunRow
<1>2. /\ run[r].pc = "idle" /\ run[r].ent = "none" /\ run[r].next = 1 /\ sale[o].status = "pending"
      /\ UNCHANGED <<sale, processed, books, saleRef, saleLeft, trampled>>
      /\ run[r].outcome = "none"
  BY <1>1 DEF RequestPayment, RowFits, After
<1>3. o \in DOMAIN saleRef /\ saleRef[o] \in Reference
  BY <1>1, <1>2 DEF OrderFits, SaleTyped
<1>4. paid' \in [Reference -> PaidState]
      /\ \A x \in Reference : paid[x] = "succeeded" => paid'[x] = "succeeded"
  BY <1>1, <1>3 DEF RequestPayment, SaleTyped, PaidState
<1>5. SaleTyped'
  BY <1>1, <1>2, <1>4 DEF SaleTyped
<1>6. run' = [run EXCEPT ![r] = [run[r] EXCEPT !.pc = "ask", !.order = o, !.status = "pending"]]
  BY <1>1 DEF RequestPayment, RunRow
<1>7. [run[r] EXCEPT !.pc = "ask", !.order = o, !.status = "pending"] \in RunRow
  BY <1>1 DEF RunRow, RunPc, SaleStatus
<1>8. PICK row \in RunRow :
        /\ row = [run[r] EXCEPT !.pc = "ask", !.order = o, !.status = "pending"]
        /\ run' = [run EXCEPT ![r] = row]
  BY <1>6, <1>7
<1>9. /\ row.pc = "ask" /\ row.order = o
      /\ row.ent = run[r].ent /\ row.next = run[r].next /\ row.sim = run[r].sim
      /\ row.outcome = run[r].outcome /\ row.binding = run[r].binding /\ row.ref = run[r].ref
  BY <1>1, <1>8 DEF RunRow
<1>10. ~Serves(row) /\ ~Serves(run[r]) /\ ~Delivered(run[r])
  BY <1>2, <1>9 DEF Serves, InService, Delivered
<1>11. RowFits(row)'
  BY <1>1, <1>2, <1>3, <1>9, <1>10 DEF RowFits, InService, After, Serves
<1>12. \A p \in Purchase : /\ sale[p].status # "none" => p \in DOMAIN saleRef
                           /\ sale[p].status = "fulfilled" => sale[p].by # NoRun
  BY <1>1 DEF OrderFits
<1>. QED  BY <1>2, <1>4, <1>5, <1>8, <1>10, <1>11, <1>12, RunMoves

LEMMA PressInv ==
  ASSUME SaleInv, NEW r \in Run, NEW o \in Purchase, Press(r, o)
  PROVE  SaleInv'
<1>1. run \in [Run -> RunRow] /\ run[r] \in RunRow /\ RowFits(run[r]) /\ SaleTyped
      /\ run[r].order \in Purchase /\ (\A p \in Purchase : OrderFits(p))
  BY DEF SaleInv, RunRow
<1>2. /\ run[r].pc = "idle" /\ run[r].ent = "none" /\ run[r].next = 1 /\ sale[o].status = "pending"
      /\ UNCHANGED <<sale, paid, processed, books, saleRef, saleLeft, trampled>>
      /\ run[r].outcome = "none"
  BY <1>1 DEF Press, RowFits, After
<1>3. o \in DOMAIN saleRef
  BY <1>1, <1>2 DEF OrderFits
<1>4. processed' \subseteq Reference \X Outcome /\ saleLeft' \in [faults : Nat, crashes : Nat]
  BY <1>1, <1>2 DEF SaleTyped
<1>6. run' = [run EXCEPT ![r] = [run[r] EXCEPT !.pc = "press", !.order = o, !.status = "pending"]]
  BY <1>1 DEF Press, RunRow
<1>7. [run[r] EXCEPT !.pc = "press", !.order = o, !.status = "pending"] \in RunRow
  BY <1>1 DEF RunRow, RunPc, SaleStatus
<1>8. PICK row \in RunRow :
        /\ row = [run[r] EXCEPT !.pc = "press", !.order = o, !.status = "pending"]
        /\ run' = [run EXCEPT ![r] = row]
  BY <1>6, <1>7
<1>9. /\ row.pc = "press" /\ row.order = o /\ row.status = "pending"
      /\ row.ent = run[r].ent /\ row.next = run[r].next /\ row.sim = run[r].sim
      /\ row.outcome = run[r].outcome /\ row.binding = run[r].binding /\ row.ref = run[r].ref
  BY <1>1, <1>8 DEF RunRow
<1>10. ~Serves(row) /\ ~Serves(run[r]) /\ ~Delivered(run[r])
  BY <1>2, <1>9 DEF Serves, InService, Delivered
<1>11. RowFits(row)
  BY <1>1, <1>2, <1>3, <1>9, <1>10 DEF RowFits, InService, After, Serves
<1>. QED  BY <1>2, <1>4, <1>8, <1>10, <1>11, RunGoes

LEMMA ReceiveInv ==
  ASSUME SaleInv, NEW r \in Run, NEW x \in Reference, NEW outcome \in Outcome, Receive(r, x, outcome)
  PROVE  SaleInv'
<1>1. run \in [Run -> RunRow] /\ run[r] \in RunRow /\ RowFits(run[r]) /\ SaleTyped
      /\ run[r].order \in Purchase /\ (\A p \in Purchase : OrderFits(p))
  BY DEF SaleInv, RunRow
<1>2. /\ run[r].pc = "idle" /\ run[r].ent = "none" /\ run[r].next = 1
      /\ UNCHANGED <<sale, paid, processed, books, saleRef, saleLeft, trampled>>
      /\ outcome = "succeeded" => paid[x] = "succeeded"
  BY <1>1 DEF Receive, RowFits, After, Emitted
<1>4. processed' \subseteq Reference \X Outcome /\ saleLeft' \in [faults : Nat, crashes : Nat]
  BY <1>1, <1>2 DEF SaleTyped
<1>6. run' = [run EXCEPT ![r] = [run[r] EXCEPT !.pc = "find", !.ref = x, !.outcome = outcome]]
  BY <1>1 DEF Receive, RunRow
<1>7. [run[r] EXCEPT !.pc = "find", !.ref = x, !.outcome = outcome] \in RunRow
  BY <1>1 DEF RunRow, RunPc
<1>8. PICK row \in RunRow :
        /\ row = [run[r] EXCEPT !.pc = "find", !.ref = x, !.outcome = outcome]
        /\ run' = [run EXCEPT ![r] = row]
  BY <1>6, <1>7
<1>9. /\ row.pc = "find" /\ row.ref = x /\ row.outcome = outcome
      /\ row.order = run[r].order /\ row.ent = run[r].ent /\ row.next = run[r].next
      /\ row.sim = run[r].sim /\ row.status = run[r].status /\ row.binding = run[r].binding
  BY <1>1, <1>8 DEF RunRow
<1>10. ~Serves(row) /\ ~Serves(run[r]) /\ ~Delivered(run[r])
  BY <1>2, <1>9 DEF Serves, InService, Delivered
<1>11. RowFits(row)
  BY <1>1, <1>2, <1>9, <1>10 DEF RowFits, InService, After, Serves
<1>. QED  BY <1>2, <1>4, <1>8, <1>10, <1>11, RunGoes

\* No request moves: what was paid stays paid, and no order becomes pending again.
LEMMA WorldMoves ==
  ASSUME SaleInv, UNCHANGED <<processed, run, books, saleRef, saleLeft, trampled>>,
         sale' \in [Purchase -> SaleRow], paid' \in [Reference -> PaidState],
         \A x \in Reference : paid[x] = "succeeded" => paid'[x] = "succeeded",
         \A o \in Purchase : /\ sale[o].status \notin {"none", "pending"} =>
                                  sale'[o].status \notin {"none", "pending"}
                             /\ sale'[o].status # "none" => o \in DOMAIN saleRef
                             /\ sale'[o].status = "fulfilled" => sale[o].status = "fulfilled"
                             /\ sale'[o].by = sale[o].by
  PROVE  SaleInv'
BY DEF SaleInv, SaleTyped, RunRow, RowFits, Serves, OrderFits, Delivered, BooksFit

LEMMA CreateOrderInv ==
  ASSUME SaleInv, NEW o \in Purchase, CreateOrder(o)
  PROVE  SaleInv'
<1>1. SaleTyped /\ (\A p \in Purchase : OrderFits(p))
  BY DEF SaleInv
<1>2. /\ sale' \in [Purchase -> SaleRow] /\ sale'[o].status = "pending"
      /\ \A p \in Purchase : sale'[p].by = sale[p].by
      /\ \A p \in Purchase \ {o} : sale'[p] = sale[p]
  BY <1>1, StatusWritten DEF CreateOrder, SaleStatus, SaleTyped
<1>3. \A p \in Purchase : /\ sale[p].status \notin {"none", "pending"} =>
                                  sale'[p].status \notin {"none", "pending"}
                          /\ sale'[p].status # "none" => p \in DOMAIN saleRef
                          /\ sale'[p].status = "fulfilled" => sale[p].status = "fulfilled"
                          /\ sale'[p].by = sale[p].by
  BY <1>1, <1>2 DEF OrderFits, CreateOrder
<1>. QED  BY <1>1, <1>2, <1>3, WorldMoves DEF CreateOrder, SaleTyped

LEMMA PaysInv ==
  ASSUME SaleInv, NEW x \in Reference, Pays(x)
  PROVE  SaleInv'
BY WorldMoves DEF SaleInv, Pays, SaleTyped, PaidState, Outcome, OrderFits

LEMMA SaleStep == SaleInv /\ SaleNext => SaleInv'
<1>. SUFFICES ASSUME SaleInv, SaleNext PROVE SaleInv'
  OBVIOUS
<1>1. ASSUME NEW r \in Run, RunStep(r) PROVE SaleInv'
  BY <1>1, StoreReferenceInv, FindOrderInv, MarkOrderInv, SettleEventInv, PayByButtonInv,
     FulfilInv, CreateEntitlementInv, ActivateEntitlementInv, CreateBindingInv,
     ProvisionBindingInv, FinishOrderInv, UndoOrderInv, LookUpInv, InsertInv DEF RunStep
<1>. QED
  BY <1>1, RunDiesInv, RepairBindingInv, ReconcileEntitlementInv, RequestPaymentInv, PressInv,
     ReceiveInv, CreateOrderInv, PaysInv DEF SaleNext

LEMMA SaleStays == SaleInv /\ UNCHANGED saleVars => SaleInv'
<1>. SUFFICES ASSUME SaleInv, UNCHANGED saleVars PROVE SaleInv'
  OBVIOUS
<1>1. SaleTyped /\ (\A p \in Purchase : OrderFits(p))
  BY DEF SaleInv
<1>2. \A p \in Purchase : sale[p].status # "none" => p \in DOMAIN saleRef
  BY <1>1 DEF OrderFits
<1>. QED  BY <1>1, <1>2, WorldMoves DEF saleVars, SaleTyped

-----------------------------------------------------------------------------
(* CommerceOrder: what the shop's reseller draws.                          *)

Recorded == {o \in Sold : earning[o].recorded}
Drawing(status) == {p \in Payout : payout[p].status = status}
GainsEarned == SumFunctionOnSet(Amounts, Gains)

\* An undisturbed call has added up no more than the gains less what it has read of the
\* payouts, which nobody changed since.
BalanceIsCovered(p) ==
  payout[p].balance <= (IF "earnings" \in payout[p].lacks THEN 0 ELSE GainsEarned)
                       - (IF "pending" \in payout[p].lacks THEN 0 ELSE Drawn("pending"))
                       - (IF "completed" \in payout[p].lacks THEN 0 ELSE Drawn("completed"))

PayoutInv ==
  /\ PayoutTypeOK
  /\ \A p \in Payout :
       /\ payout[p].pc # "done" => payout[p].status = "none"
       /\ payout[p].pc # "read" => payout[p].lacks = {}
       /\ payout[p].pc = "idle" => payout[p].balance = 0
  /\ \A p \in Payout : payout[p].pc = "read" /\ p \notin disturbed => BalanceIsCovered(p)
  /\ DrawnIsEarned

LEMMA SumsAreInts ==
  ASSUME PayoutTypeOK
  PROVE  /\ Earned \in Int /\ GainsEarned \in Int
         /\ \A status : Drawn(status) \in Int
         /\ \A o \in Sold : Amounts[o] = earning[o].amount /\ Amounts[o] \in Int
         /\ \A p \in Payout : Asked[p] = payout[p].asks /\ Asked[p] \in Int
BY PayoutAssumption, FS_Subset, SumIsInt DEF PayoutTypeOK, Amounts, Asked, Recorded, Gains, Earned,
   GainsEarned, Drawing, Drawn

\* Taking gains out of a sum of numbers leaves no more than the gains.
LEMMA GainsBound ==
  ASSUME NEW f, NEW S, IsFiniteSet(S), \A x \in S : f[x] \in Int
  PROVE  SumFunctionOnSet(f, S) <= SumFunctionOnSet(f, {x \in S : f[x] > 0})
<1>. DEFINE Pos(s) == {x \in s : f[x] > 0}
            W == {s \in SUBSET S : ~(SumFunctionOnSet(f, s) <= SumFunctionOnSet(f, Pos(s)))}
<1>1. SUFFICES ASSUME W # {} PROVE FALSE
  OBVIOUS
<1>2. PICK s \in W : IsFiniteSet(s) /\ \A x \in s : s \ {x} \notin W
  <2>1. W \subseteq SUBSET S
    OBVIOUS
  <2>. HIDE DEF W
  <2>. QED  BY <1>1, <2>1, SmallestSubset
<1>3. s # {} BY SumOfNothing
<1>4. PICK c \in s : TRUE
  BY <1>3
<1>. DEFINE r == s \ {c}
<1>5. /\ s \in SUBSET S /\ r \in SUBSET S /\ IsFiniteSet(r) /\ f[c] \in Int
      /\ Pos(s) \in SUBSET S /\ IsFiniteSet(Pos(s)) /\ IsFiniteSet(Pos(r))
      /\ \A x \in r : f[x] \in Int
  BY <1>2, <1>4, FS_Subset
<1>6. SumFunctionOnSet(f, s) = f[c] + SumFunctionOnSet(f, r)
  BY <1>2, <1>4, SumRemoves
<1>7. SumFunctionOnSet(f, r) <= SumFunctionOnSet(f, Pos(r))
  BY <1>2, <1>4, <1>5
<1>8. /\ SumFunctionOnSet(f, r) \in Int /\ SumFunctionOnSet(f, Pos(r)) \in Int
  <2>1. \A x \in Pos(r) : f[x] \in Int
    BY <1>5
  <2>. HIDE DEF r, Pos
  <2>. QED  BY <1>5, <2>1, SumIsInt
<1>9. SumFunctionOnSet(f, s) <= SumFunctionOnSet(f, Pos(s))
  <2>1. CASE f[c] > 0
    <3>1. Pos(r) = Pos(s) \ {c} /\ c \in Pos(s)
      BY <1>4, <2>1
    <3>2. \A x \in Pos(s) : f[x] \in Int
      BY <1>5
    <3>3. SumFunctionOnSet(f, Pos(s)) = f[c] + SumFunctionOnSet(f, Pos(s) \ {c})
      <4>. HIDE DEF Pos
      <4>. QED  BY <1>5, <3>1, <3>2, SumRemoves
    <3>. HIDE DEF Pos, r
    <3>. QED  BY <1>5, <1>6, <1>7, <1>8, <3>1, <3>3
  <2>2. CASE ~(f[c] > 0)
    <3>1. Pos(r) = Pos(s)
      BY <1>4, <2>2
    <3>. HIDE DEF Pos, r
    <3>. QED  BY <1>5, <1>6, <1>7, <1>8, <2>2, <3>1
  <2>. QED  BY <2>1, <2>2
<1>. QED  BY <1>2, <1>9

LEMMA EarnedIsGained ==
  ASSUME PayoutTypeOK
  PROVE  Earned <= GainsEarned
BY PayoutAssumption, FS_Subset, SumsAreInts, GainsBound DEF Recorded, Gains, Earned, GainsEarned

LEMMA PayoutInitInv ==
  ASSUME NEW of \in PayoutPlans, PayoutInitOf(of)
  PROVE  PayoutInv
<1>1. PayoutTypeOK
  BY PayoutAssumption DEF PayoutInitOf, PayoutTypeOK
<1>2. Gains = {} /\ Drawing("pending") = {} /\ Drawing("completed") = {}
  BY DEF PayoutInitOf, Gains, Drawing
<1>3. GainsEarned = 0 /\ Drawn("pending") = 0 /\ Drawn("completed") = 0
  BY <1>2, SumOfNothing DEF GainsEarned, Drawn, Drawing
<1>4. DrawnIsEarned
  BY <1>3 DEF DrawnIsEarned, GainsEarned
<1>. QED  BY <1>1, <1>4 DEF PayoutInv, PayoutInitOf

-----------------------------------------------------------------------------
\* While no payout changes its row's status, what is drawn is the same.
LEMMA DrawnStays ==
  ASSUME PayoutTypeOK, PayoutTypeOK', NEW status,
         \A p \in Payout : payout'[p].asks = payout[p].asks
                           /\ (payout'[p].status = status <=> payout[p].status = status)
  PROVE  Drawn(status)' = Drawn(status)
BY DEF Asked, Drawn

LEMMA DrawnAdds ==
  ASSUME PayoutTypeOK, PayoutTypeOK', NEW status, NEW p \in Payout,
         \A q \in Payout : payout'[q].asks = payout[q].asks
                           /\ (q # p => payout'[q].status = payout[q].status),
         payout[p].status # status, payout'[p].status = status
  PROVE  Drawn(status)' = Drawn(status) + payout[p].asks
<1>. DEFINE D == {q \in Payout : payout[q].status = status}
<1>1. Asked' = Asked /\ Asked[p] = payout[p].asks /\ \A q \in Payout : Asked[q] \in Int
  BY SumsAreInts DEF Asked
<1>2. {q \in Payout : payout'[q].status = status} = D \cup {p} /\ p \notin D
  OBVIOUS
<1>3. IsFiniteSet(D) /\ \A q \in D \cup {p} : Asked[q] \in Int
  BY <1>1, PayoutAssumption, FS_Subset
<1>4. SumFunctionOnSet(Asked, D \cup {p}) = SumFunctionOnSet(Asked, D) + Asked[p]
  <2>. HIDE DEF D
  <2>. QED  BY <1>2, <1>3, SumAdds
<1>. QED  BY <1>1, <1>2, <1>4 DEF Drawn

LEMMA DrawnRemoves ==
  ASSUME PayoutTypeOK, PayoutTypeOK', NEW status, NEW p \in Payout,
         \A q \in Payout : payout'[q].asks = payout[q].asks
                           /\ (q # p => payout'[q].status = payout[q].status),
         payout[p].status = status, payout'[p].status # status
  PROVE  Drawn(status) = payout[p].asks + Drawn(status)'
<1>. DEFINE D == {q \in Payout : payout[q].status = status}
<1>1. Asked' = Asked /\ Asked[p] = payout[p].asks /\ \A q \in Payout : Asked[q] \in Int
  BY SumsAreInts DEF Asked
<1>2. {q \in Payout : payout'[q].status = status} = D \ {p} /\ p \in D
  OBVIOUS
<1>3. IsFiniteSet(D) /\ \A q \in D : Asked[q] \in Int
  BY <1>1, PayoutAssumption, FS_Subset
<1>4. SumFunctionOnSet(Asked, D) = Asked[p] + SumFunctionOnSet(Asked, D \ {p})
  <2>. HIDE DEF D
  <2>. QED  BY <1>2, <1>3, SumRemoves
<1>. QED  BY <1>1, <1>2, <1>4 DEF Drawn

LEMMA EarningKeeps ==
  ASSUME PayoutInv, NEW o \in Sold, RecordEarning(o)
  PROVE  PayoutInv'
<1>1. PayoutTypeOK'
  <2>1. earning \in [Sold -> [recorded : BOOLEAN, amount : Int]]
    BY DEF PayoutInv, PayoutTypeOK
  <2>2. earning' \in [Sold -> [recorded : BOOLEAN, amount : Int]]
    BY <2>1 DEF RecordEarning
  <2>. QED  BY <2>2 DEF PayoutInv, PayoutTypeOK, RecordEarning
<1>2. UNCHANGED <<payout, disturbed>> /\ \A x \in Sold : earning'[x].amount = earning[x].amount
  BY DEF PayoutInv, PayoutTypeOK, RecordEarning
<1>3. Amounts' = Amounts
  BY <1>2 DEF Amounts
<1>4. Gains' = IF earning[o].amount > 0 THEN Gains \cup {o} ELSE Gains
  BY DEF PayoutInv, PayoutTypeOK, RecordEarning, Gains
<1>5. GainsEarned <= GainsEarned'
  <2>1. /\ GainsEarned \in Int /\ Amounts[o] = earning[o].amount
        /\ \A x \in Sold : Amounts[x] \in Int
    BY SumsAreInts DEF PayoutInv
  <2>2. IsFiniteSet(Gains) /\ \A x \in Gains \cup {o} : Amounts[x] \in Int
    BY <2>1, PayoutAssumption, FS_Subset DEF Gains
  <2>3. CASE Gains' = Gains
    BY <1>3, <2>1, <2>3 DEF GainsEarned
  <2>4. CASE Gains' = Gains \cup {o} /\ o \notin Gains /\ earning[o].amount > 0
    BY <2>2, <2>4, SumAdds, <1>3, <2>1 DEF GainsEarned
  <2>5. Gains' = Gains \/ (Gains' = Gains \cup {o} /\ o \notin Gains /\ earning[o].amount > 0)
    BY <1>4
  <2>. QED  BY <2>3, <2>4, <2>5
<1>6. Drawn("pending")' = Drawn("pending") /\ Drawn("completed")' = Drawn("completed")
  BY <1>2 DEF Drawn, Asked
<1>7. /\ GainsEarned \in Int /\ GainsEarned' \in Int
      /\ Drawn("pending") \in Int /\ Drawn("completed") \in Int
  BY SumsAreInts, PayoutAssumption, FS_Subset, SumIsInt, <1>3 DEF PayoutInv, Gains, GainsEarned
<1>8. \A p \in Payout : payout'[p].pc = "read" /\ p \notin disturbed' => BalanceIsCovered(p)'
  <2>. SUFFICES ASSUME NEW p \in Payout, payout[p].pc = "read", p \notin disturbed
                PROVE  BalanceIsCovered(p)'
    BY <1>2
  <2>1. BalanceIsCovered(p) /\ payout[p].balance \in Int
    BY DEF PayoutInv, PayoutTypeOK
  <2>. QED  BY <1>2, <1>5, <1>6, <1>7, <2>1 DEF BalanceIsCovered
<1>9. DrawnIsEarned'
  BY <1>2, <1>5, <1>6, <1>7 DEF Created, PayoutInv, DrawnIsEarned, GainsEarned
<1>. QED  BY <1>1, <1>2, <1>8, <1>9 DEF PayoutInv

\* A call that begins or goes on reading, or is refused: nobody's row changes its status.
LEMMA ReadingKeeps ==
  ASSUME PayoutInv, NEW p \in Payout, NEW row,
         row \in [pc : {"idle", "read", "done"}, asks : Int, balance : Int, lacks : SUBSET Part,
                  status : {"none", "refused", "pending", "completed"}],
         payout' = [payout EXCEPT ![p] = row], UNCHANGED <<earning, disturbed>>,
         row.asks = payout[p].asks,
         row.status # payout[p].status => payout[p].pc = "read" /\ row.status = "refused"
                                          /\ row.pc = "done",
         row.pc = "done" => row.lacks = {}, row.pc # "idle", row.pc # "done" => row.status = "none",
         row.pc = "read" /\ p \notin disturbed =>
           row.balance <= (IF "earnings" \in row.lacks THEN 0 ELSE GainsEarned)
                          - (IF "pending" \in row.lacks THEN 0 ELSE Drawn("pending"))
                          - (IF "completed" \in row.lacks THEN 0 ELSE Drawn("completed"))
  PROVE  PayoutInv'
<1>1. PayoutTypeOK /\ PayoutTypeOK'
  BY DEF PayoutInv, PayoutTypeOK
<1>2. payout'[p] = row /\ \A q \in Payout \ {p} : payout'[q] = payout[q]
  BY <1>1 DEF PayoutTypeOK
<1>3. payout[p].status # row.status => payout[p].status = "none"
  BY DEF PayoutInv
<1>4. \A q \in Payout : /\ payout'[q].asks = payout[q].asks
                        /\ payout'[q].status \in {"pending", "completed"}
                             <=> payout[q].status \in {"pending", "completed"}
                        /\ payout'[q].status = "pending" <=> payout[q].status = "pending"
                        /\ payout'[q].status = "completed" <=> payout[q].status = "completed"
  BY <1>2, <1>3
<1>5. Drawn("pending")' = Drawn("pending") /\ Drawn("completed")' = Drawn("completed")
  BY <1>1, <1>4, DrawnStays
<1>6. GainsEarned' = GainsEarned
  BY DEF GainsEarned, Amounts, Gains
<1>7. \A q \in Payout : payout'[q].pc = "read" /\ q \notin disturbed' => BalanceIsCovered(q)'
  <2>. SUFFICES ASSUME NEW q \in Payout, payout'[q].pc = "read", q \notin disturbed
                PROVE  BalanceIsCovered(q)'
    OBVIOUS
  <2>1. CASE q = p
    BY <1>2, <1>5, <1>6, <2>1 DEF BalanceIsCovered
  <2>2. CASE q # p BY <1>2, <2>2, <1>5, <1>6 DEF PayoutInv, BalanceIsCovered
  <2>. QED  BY <2>1, <2>2
<1>8. DrawnIsEarned'
  BY <1>1, <1>4, <1>5, <1>6 DEF Created, PayoutTypeOK, PayoutInv, DrawnIsEarned, GainsEarned
<1>. QED  BY <1>1, <1>2, <1>7, <1>8 DEF PayoutInv

LEMMA RequestKeeps ==
  ASSUME PayoutInv, NEW p \in Payout,
         RequestPayout(p) \/ \E piece \in Part : ReadPart(p, piece)
  PROVE  PayoutInv'
<1>1. PayoutTypeOK /\ Earned \in Int /\ GainsEarned \in Int /\ Earned <= GainsEarned
      /\ Drawn("pending") \in Int /\ Drawn("completed") \in Int
  BY SumsAreInts, EarnedIsGained DEF PayoutInv
<1>2. CASE RequestPayout(p)
  <2>. DEFINE b == [payout[p] EXCEPT !.pc = "read", !.lacks = Part]
  <2>1. PICK row : row = b
    OBVIOUS
  <2>2. payout' = [payout EXCEPT ![p] = row] /\ UNCHANGED <<earning, disturbed>>
        /\ payout[p].pc = "idle"
    BY <1>2, <2>1 DEF RequestPayout
  <2>3. /\ row \in [pc : {"idle", "read", "done"}, asks : Int, balance : Int, lacks : SUBSET Part,
                    status : {"none", "refused", "pending", "completed"}]
        /\ row.asks = payout[p].asks /\ row.status = payout[p].status /\ row.pc = "read"
        /\ row.balance = 0 /\ row.lacks = Part /\ row.status = "none"
    BY <1>1, <2>1, <2>2 DEF PayoutInv, PayoutTypeOK
  <2>4. "earnings" \in Part /\ "pending" \in Part /\ "completed" \in Part
    BY DEF Part
  <2>5. row.balance <= (IF "earnings" \in row.lacks THEN 0 ELSE GainsEarned)
                          - (IF "pending" \in row.lacks THEN 0 ELSE Drawn("pending"))
                          - (IF "completed" \in row.lacks THEN 0 ELSE Drawn("completed"))
    BY <2>3, <2>4
  <2>. HIDE DEF b
  <2>. QED  BY <2>2, <2>3, <2>5, ReadingKeeps
<1>3. ASSUME NEW piece \in Part, ReadPart(p, piece) PROVE PayoutInv'
  <2>1. PICK amount : amount = AmountOf(piece) /\ amount \in Int
    BY <1>1 DEF AmountOf, Part
  <2>. DEFINE b == [payout[p] EXCEPT !.lacks = @ \ {piece}, !.balance = @ + amount]
  <2>2. PICK row : row = b
    OBVIOUS
  <2>3. payout' = [payout EXCEPT ![p] = row] /\ UNCHANGED <<earning, disturbed>>
        /\ piece \in payout[p].lacks /\ payout[p].pc = "read" /\ payout[p].status = "none"
    BY <1>3, <2>1, <2>2 DEF ReadPart, PayoutInv, PayoutTypeOK
  <2>4. /\ row \in [pc : {"idle", "read", "done"}, asks : Int, balance : Int, lacks : SUBSET Part,
                    status : {"none", "refused", "pending", "completed"}]
        /\ row.asks = payout[p].asks /\ row.status = payout[p].status /\ row.pc = payout[p].pc
        /\ row.balance = payout[p].balance + amount /\ row.lacks = payout[p].lacks \ {piece}
    <3>1. payout[p] \in [pc : {"idle", "read", "done"}, asks : Int, balance : Int,
                         lacks : SUBSET Part,
                         status : {"none", "refused", "pending", "completed"}]
      BY DEF PayoutInv, PayoutTypeOK
    <3>2. PICK rest \in SUBSET Part, sum \in Int :
            rest = payout[p].lacks \ {piece} /\ sum = payout[p].balance + amount
      <4>1. payout[p].lacks \in SUBSET Part /\ payout[p].balance \in Int
        BY <3>1
      <4>2. payout[p].lacks \ {piece} \in SUBSET Part /\ payout[p].balance + amount \in Int
        BY <2>1, <4>1
      <4>. QED  BY <4>2
    <3>3. row = [payout[p] EXCEPT !.lacks = rest, !.balance = sum]
      BY <2>2, <3>2
    <3>4. /\ row \in [pc : {"idle", "read", "done"}, asks : Int, balance : Int,
                      lacks : SUBSET Part,
                      status : {"none", "refused", "pending", "completed"}]
          /\ row.balance = sum /\ row.lacks = rest
          /\ row.asks = payout[p].asks /\ row.status = payout[p].status /\ row.pc = payout[p].pc
      <4>. HIDE DEF b
      <4>. QED  BY <3>1, <3>3
    <3>. QED  BY <3>2, <3>4
  <2>. HIDE DEF b
  <2>5. p \notin disturbed =>
          row.balance <= (IF "earnings" \in row.lacks THEN 0 ELSE GainsEarned)
                          - (IF "pending" \in row.lacks THEN 0 ELSE Drawn("pending"))
                          - (IF "completed" \in row.lacks THEN 0 ELSE Drawn("completed"))
    <3>. SUFFICES ASSUME p \notin disturbed
                  PROVE  row.balance <= (IF "earnings" \in row.lacks THEN 0 ELSE GainsEarned)
                          - (IF "pending" \in row.lacks THEN 0 ELSE Drawn("pending"))
                          - (IF "completed" \in row.lacks THEN 0 ELSE Drawn("completed"))
      OBVIOUS
    <3>1. BalanceIsCovered(p) /\ payout[p].balance \in Int
      BY <1>1, <2>3 DEF PayoutInv, PayoutTypeOK
    <3>2. CASE piece = "earnings"
      BY <1>1, <2>1, <2>3, <2>4, <3>1, <3>2 DEF BalanceIsCovered, AmountOf
    <3>3. CASE piece = "pending"
      BY <1>1, <2>1, <2>3, <2>4, <3>1, <3>3 DEF BalanceIsCovered, AmountOf
    <3>4. CASE piece = "completed"
      BY <1>1, <2>1, <2>3, <2>4, <3>1, <3>4 DEF BalanceIsCovered, AmountOf
    <3>. QED  BY <3>2, <3>3, <3>4 DEF Part
  <2>. QED  BY <2>3, <2>4, <2>5, ReadingKeeps
<1>. QED  BY <1>2, <1>3

LEMMA CreateKeeps ==
  ASSUME PayoutInv, NEW p \in Payout, CreatePayout(p)
  PROVE  PayoutInv'
<1>1. PayoutTypeOK /\ GainsEarned \in Int /\ Drawn("pending") \in Int /\ Drawn("completed") \in Int
      /\ payout[p].asks \in Int /\ payout[p].balance \in Int
  BY SumsAreInts DEF PayoutInv, PayoutTypeOK
<1>2. CASE payout[p].balance < payout[p].asks
  <2>1. PICK row : row = [payout[p] EXCEPT !.pc = "done", !.status = "refused"]
    OBVIOUS
  <2>2. payout' = [payout EXCEPT ![p] = row] /\ UNCHANGED <<earning, disturbed>>
        /\ payout[p].pc = "read" /\ payout[p].lacks = {}
    BY <1>2, <2>1 DEF CreatePayout
  <2>3. /\ row \in [pc : {"idle", "read", "done"}, asks : Int, balance : Int, lacks : SUBSET Part,
                    status : {"none", "refused", "pending", "completed"}]
        /\ row.asks = payout[p].asks /\ row.status = "refused" /\ row.pc = "done" /\ row.lacks = {}
    BY <1>1, <2>1, <2>2 DEF PayoutTypeOK
  <2>. QED  BY <2>2, <2>3, ReadingKeeps
<1>3. CASE ~(payout[p].balance < payout[p].asks)
  <2>1. /\ payout' = [payout EXCEPT ![p].pc = "done", ![p].status = "pending"]
        /\ disturbed' = disturbed \cup {q \in Payout \ {p} : payout[q].pc = "read"}
        /\ UNCHANGED earning
        /\ payout[p].pc = "read" /\ payout[p].lacks = {} /\ payout[p].status = "none"
    BY <1>3 DEF CreatePayout, DisturbsOthers, PayoutInv
  <2>2. PayoutTypeOK'
    BY <1>1, <2>1 DEF PayoutTypeOK
  <2>3. /\ \A q \in Payout : payout'[q].asks = payout[q].asks
                             /\ (q # p => payout'[q] = payout[q])
        /\ payout'[p].status = "pending" /\ payout'[p].pc = "done" /\ payout'[p].lacks = {}
    BY <1>1, <2>1 DEF PayoutTypeOK
  <2>4. Drawn("pending")' = Drawn("pending") + payout[p].asks
    BY <1>1, <2>1, <2>2, <2>3, DrawnAdds
  <2>5. Drawn("completed")' = Drawn("completed")
    BY <1>1, <2>1, <2>2, <2>3, DrawnStays
  <2>6. GainsEarned' = GainsEarned
    BY <2>1 DEF GainsEarned, Amounts, Gains
  <2>7. \A q \in Payout : payout'[q].pc = "read" => q \in disturbed'
    BY <2>1, <2>3
  <2>8. DrawnIsEarned'
    <3>. SUFFICES ASSUME {q \in disturbed' : Created(q)'} = {}
                  PROVE  Drawn("pending")' + Drawn("completed")' <= GainsEarned'
      BY DEF DrawnIsEarned, GainsEarned
    <3>1. p \notin disturbed
      BY <2>1, <2>3 DEF Created
    <3>2. payout[p].balance <= GainsEarned - Drawn("pending") - Drawn("completed")
      BY <2>1, <3>1 DEF PayoutInv, BalanceIsCovered
    <3>. QED  BY <1>1, <1>3, <2>4, <2>5, <2>6, <3>2
  <2>. QED  BY <2>2, <2>3, <2>7, <2>8 DEF PayoutInv
<1>. QED  BY <1>2, <1>3

LEMMA ProcessKeeps ==
  ASSUME PayoutInv, NEW p \in Payout, ProcessPayout(p)
  PROVE  PayoutInv'
<1>1. PayoutTypeOK /\ GainsEarned \in Int /\ Drawn("pending") \in Int /\ Drawn("completed") \in Int
      /\ payout[p].asks \in Int
  BY SumsAreInts DEF PayoutInv, PayoutTypeOK
<1>2. /\ payout' = [payout EXCEPT ![p].status = "completed"]
      /\ disturbed' = disturbed \cup {q \in Payout \ {p} : payout[q].pc = "read"}
      /\ UNCHANGED earning /\ payout[p].status = "pending" /\ payout[p].pc = "done"
  BY DEF ProcessPayout, DisturbsOthers, PayoutInv, PayoutTypeOK
<1>3. PayoutTypeOK'
  BY <1>1, <1>2 DEF PayoutTypeOK
<1>4. /\ \A q \in Payout : payout'[q].asks = payout[q].asks /\ payout'[q].pc = payout[q].pc
                           /\ (q # p => payout'[q] = payout[q])
      /\ payout'[p].status = "completed" /\ payout'[p].pc = "done"
      /\ payout'[p].lacks = payout[p].lacks
  BY <1>1, <1>2 DEF PayoutTypeOK
<1>5. Drawn("pending") = payout[p].asks + Drawn("pending")'
  BY <1>1, <1>2, <1>3, <1>4, DrawnRemoves
<1>6. Drawn("completed")' = Drawn("completed") + payout[p].asks
  BY <1>1, <1>2, <1>3, <1>4, DrawnAdds
<1>7. Drawn("pending")' \in Int
  BY <1>1, <1>4, SumsAreInts, PayoutAssumption, FS_Subset, SumIsInt DEF Asked, Drawn
<1>8. GainsEarned' = GainsEarned
  BY <1>2 DEF GainsEarned, Amounts, Gains
<1>9. DrawnIsEarned'
  <2>. SUFFICES ASSUME {q \in disturbed' : Created(q)'} = {}
                PROVE  Drawn("pending")' + Drawn("completed")' <= GainsEarned'
    BY DEF DrawnIsEarned, GainsEarned
  <2>1. {q \in disturbed : Created(q)} = {}
    BY <1>1, <1>2, <1>4 DEF Created, PayoutTypeOK
  <2>2. Drawn("pending") + Drawn("completed") <= GainsEarned
    BY <2>1 DEF PayoutInv, DrawnIsEarned, GainsEarned
  <2>. QED  BY <1>1, <1>5, <1>6, <1>7, <1>8, <2>2
<1>10. \A q \in Payout : payout'[q].pc = "read" => q \in disturbed'
  BY <1>2, <1>4
<1>. QED  BY <1>3, <1>4, <1>9, <1>10 DEF PayoutInv

LEMMA PayoutStays == PayoutInv /\ UNCHANGED payoutVars => PayoutInv'
<1>. SUFFICES ASSUME PayoutInv, UNCHANGED payoutVars PROVE PayoutInv'
  OBVIOUS
<1>1. PayoutTypeOK'
  BY DEF PayoutInv, PayoutTypeOK, payoutVars
<1>2. GainsEarned' = GainsEarned /\ \A status : Drawn(status)' = Drawn(status)
  BY DEF GainsEarned, Amounts, Gains, Drawn, Asked, payoutVars
<1>3. DrawnIsEarned' /\ \A p \in Payout : BalanceIsCovered(p) => BalanceIsCovered(p)'
  BY <1>2 DEF PayoutInv, DrawnIsEarned, GainsEarned, BalanceIsCovered, Created, payoutVars
<1>. QED  BY <1>1, <1>3 DEF PayoutInv, payoutVars

LEMMA PayoutStep == PayoutInv /\ [PayoutNext]_payoutVars => PayoutInv'
  BY EarningKeeps, RequestKeeps, CreateKeeps, ProcessKeeps, PayoutStays DEF PayoutNext

-----------------------------------------------------------------------------
(* The parts together.                                                     *)

BillingInv == SaasInv /\ NumberInv /\ SaleInv /\ PayoutInv

LEMMA BillingInit == Init => BillingInv
<1>. SUFFICES ASSUME Init PROVE BillingInv
  OBVIOUS
<1>1. SaasInv BY SaasInitInv, SaasAssumption DEF Init, SaasInit
<1>2. NumberInv BY NumberInitInv, NumberAssumption DEF Init, NumberInit
<1>3. SaleInv BY SaleInitInv, SaleAssumption DEF Init, SaleInit
<1>4. PayoutInv BY PayoutInitInv, PayoutAssumption DEF Init, PayoutInit
<1>. QED  BY <1>1, <1>2, <1>3, <1>4 DEF BillingInv

\* One part moves at a time.
LEMMA BillingStep == BillingInv /\ [Next]_vars => BillingInv'
<1>. SUFFICES ASSUME BillingInv, [Next]_vars PROVE BillingInv'
  OBVIOUS
<1>1. SaasInv /\ NumberInv /\ SaleInv /\ PayoutInv
  BY DEF BillingInv
<1>2. CASE Saas(SaasNext)
  BY <1>2, <1>1, SaasStep, NumberStays, SaleStays, PayoutStays DEF Saas, BillingInv
<1>3. CASE Number(NumberNext)
  BY <1>3, <1>1, SaasStays, NumberStep, SaleStays, PayoutStays DEF Number, BillingInv
<1>4. CASE Sells(SaleNext)
  BY <1>4, <1>1, SaasStays, NumberStays, SaleStep, PayoutStays DEF Sells, BillingInv
<1>5. CASE Draws(PayoutNext)
  BY <1>5, <1>1, SaasStays, NumberStays, SaleStays, PayoutStep DEF Draws, BillingInv
<1>6. CASE UNCHANGED vars
  BY <1>6, <1>1, SaasStays, NumberStays, SaleStays, PayoutStays DEF vars, BillingInv
<1>. QED  BY <1>2, <1>3, <1>4, <1>5, <1>6 DEF Next

LEMMA BillingKept == Spec => []BillingInv
<1>. QED  BY BillingInit, BillingStep, PTL DEF Spec

(* The rows hold values of their columns, whoever writes them in whatever order. *)
THEOREM TypeCorrect == Spec => []TypeOK
<1>1. BillingInv => TypeOK
  BY NumberInvGivesType, SaleInvGivesType DEF BillingInv, SaasInv, PayoutInv, TypeOK
<1>. QED  BY <1>1, BillingKept, PTL

(* However many workers, webhooks and customers race, a tenant's invoice and ledger and a *)
(* customer's number are extended only for a payment that succeeded, or for credit spent. *)
THEOREM NobodyIsServedUnpaid == Spec => []ServedIsPaid
<1>1. BillingInv => ServedIsPaid
  BY NumberInvGivesType DEF BillingInv, SaasInv, SaasFacts, ServedIsPaid
<1>. QED  BY <1>1, BillingKept, PTL

(* However many callers claim, retry and repair one use of a promotion or a referral, *)
(* its recipients hold its reward once.                                               *)
THEOREM RewardsAreGrantedOnce == Spec => []GrantedOnce
<1>1. BillingInv => GrantedOnce
  BY NumberInvGivesType DEF BillingInv
<1>. QED  BY <1>1, BillingKept, PTL

(* A fulfilled order names a bound resource and was paid, in whatever order payments,   *)
(* webhooks, buttons and crashes come; where no request wrote over another's status it  *)
(* was served once and its books agree; and what a shop has drawn is covered by what it *)
(* has earned, unless two payouts were requested at once.                               *)
THEOREM ShopsAreSquare == Spec => []ShopIsSquare
<1>1. BillingInv => ShopIsSquare
  BY SaleInvGivesSold DEF BillingInv, PayoutInv, ShopIsSquare
<1>. QED  BY <1>1, BillingKept, PTL
=============================================================================
