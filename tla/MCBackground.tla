------------------------------ MODULE MCBackground ------------------------------
(***************************************************************************)
(* Components that share no state, each explored on its own: a behaviour   *)
(* runs the one that `part` names and leaves the others in an initial      *)
(* state. A run of this module is as many runs as it has parts.            *)
(***************************************************************************)
EXTENDS IdempotencyClaim, IntentEvents, OperationRecovery, MobileOutboxes,
        ConnectivityDecision, RateLimit, EsimSupplier

CONSTANTS
  p1, p2,      \* one name for the first, one for the second of every part
  r1, r2,
  q1, q2, q3

VARIABLE part
vars == <<part, opVars, evVars, recVars, outboxVars, observationVars, decisionVars,
          rateVars, supplierVars>>

-----------------------------------------------------------------------------

Bounds(lapses, faults) == [lapses |-> lapses, faults |-> faults]
SomeBounds == {Bounds(2, 0), Bounds(1, 1), Bounds(0, 2)}

(* The changes of an intent, with bounds on lapses and faults.             *)

Asking(kind, key, expects) == [kind |-> kind, key |-> key, expects |-> expects]
First == Asking("supersede", "k1", NoVersion)
Retry == First
Second == Asking("supersede", "k2", 1)
Stop == Asking("cancel", NoKey, NoVersion)
Refused == Asking("cancel", NoKey, 0)

Changes(second, lapses, faults) ==
  [asks |-> [c \in Change |-> IF c = p1 THEN First ELSE second],
   lapses |-> lapses, faults |-> faults]

SomeChanges == {Changes(Retry, 0, 0), Changes(Second, 0, 1), Changes(Stop, 0, 0),
                Changes(Refused, 1, 0), Changes(Refused, 0, 2)}

\* The operations on a binding.
Operations(kind1, kind2, before, hasId, slow, faults) ==
  [kind |-> [o \in Operation |-> IF o = p1 THEN kind1 ELSE kind2], router |-> before,
   known |-> hasId, bounds |-> [slow |-> slow, faults |-> faults]]

SomeOperations ==
  {Operations("provision", "release", "absent", FALSE, 1, 1),
   Operations("provision", "provision", "absent", FALSE, 0, 2),
   Operations("provision", "release", "absent", TRUE, 0, 1),
   Operations("suspend", "resume", "active", TRUE, 1, 1),
   Operations("suspend", "release", "active", TRUE, 0, 2),
   Operations("resume", "suspend", "inactive", TRUE, 1, 1)}

(* What the user queues on the phone.                                      *)

Queued(kind, expects) == [kind |-> kind, expects |-> expects]
Queue(one, other, faults, lapses) ==
  [what |-> [m \in Mutation |-> IF m = p1 THEN one ELSE other],
   left |-> [faults |-> faults, lapses |-> lapses]]

SomeQueues ==
  {Queue(Queued("CREATE", 0), Queued("SUPERSEDE", 1), f, 2 - f) : f \in 0..2}
  \cup {Queue(Queued("SUPERSEDE", 1), Queued("CANCEL", 2), f, 2 - f) : f \in 1..2}
  \cup {Queue(Queued("CREATE", 0), Queued("CREATE", 0), 2, 0)}

SomeObservations == {[observations |-> 4, faults |-> 0], [observations |-> 3, faults |-> 1],
                     [observations |-> 2, faults |-> 2]}

(* Reports of health, policies and edits a decision is made among.         *)

Left(ticks, repeats, faults) == [ticks |-> ticks, repeats |-> repeats, faults |-> faults]
Seen(bad, trust, at) == [bad |-> bad, trust |-> trust, at |-> at]
Bad(at) == Seen(TRUE, "LIMITED", at)
Junk(at) == Seen(TRUE, "UNTRUSTED", at)
Good(at) == Seen(FALSE, "TRUSTED", at)
Reports(one, two, three, left) ==
  [what |-> [r \in Report |-> CASE r = r1 -> one [] r = r2 -> two [] OTHER -> three],
   left |-> left]

Row(preset, mode, limit) == [preset |-> preset, mode |-> mode, limit |-> limit, version |-> 1,
                             hysteresis |-> POLICY_PRESETS[preset].hysteresis]
Manual == Row("MANUAL", "manual", 200)

\* Of the two spots that may be had the wider is chosen; the cell is offered first.
Spot(type, reliability, bandwidth, state) ==
  [type |-> type, reliability |-> reliability, bandwidth |-> bandwidth, state |-> state,
   active |-> type # "satellite"]
Supply == {Spot("wifi", 60, 200, "AVAILABLE"), Spot("wifi", 75, 0, "AVAILABLE"),
           Spot("wifi", 99, 0, "RESERVED"), Spot("satellite", 99, 0, "AVAILABLE"),
           Spot("cell", 70, 0, "AVAILABLE")}
Offer(type, score, price) == [type |-> type, score |-> score, price |-> price]
Offers == <<Offer("cell", 95, 50), Offer("wifi", 90, 300), Offer("wifi", 80, 100)>>

\* A session that is 60 s old at tick 1, and may be switched then.
Watching(reports) ==
  [health |-> reports, policy |-> Row("CHEAPEST", "automatic", 500),
   edits |-> [e \in Edit |-> Unset], intent |-> FALSE, supply |-> Supply, ranked |-> Offers,
   session |-> [state |-> "ACTIVE", settled |-> reports.left.ticks, type |-> "wifi"],
   type |-> Unset, budget |-> Unset]

Wish(preset, mode, limit) == [preset |-> preset, mode |-> mode, limit |-> limit,
                              context |-> Unset, observed |-> 0]
Device(wish, saver, work, at) ==
  [wish EXCEPT !.context = [saver |-> saver, work |-> work], !.observed = at]
Nothing == Wish(Unset, Unset, Unset)
Lower == Wish(Unset, Unset, 100)
Saving == Device(Nothing, TRUE, FALSE, 2)
Working == Device(Wish("WORK", "automatic", Unset), FALSE, TRUE, 1)

\* A user without a session, whose policy is edited while an intent is evaluated.
Editing(row, one, other) ==
  [health |-> Reports(Good(9), Good(9), Good(9), Left(0, 0, 0)), policy |-> row,
   edits |-> [e \in Edit |-> IF e = p1 THEN one ELSE other], intent |-> TRUE,
   supply |-> Supply, ranked |-> Offers, type |-> "wifi", budget |-> 350,
   session |-> [state |-> "RESERVED", settled |-> 0, type |-> "wifi"]]

\* A session in trouble, beside a user who asks for a cell that costs what it may.
InTrouble(budget) ==
  [Watching(Reports(Bad(0), Good(9), Good(9), Left(0, 0, 0))) EXCEPT
     !.session.state = "DEGRADED", !.intent = TRUE, !.type = "cell", !.budget = budget]

SomeDecisions ==
  {Watching(Reports(Bad(0), Bad(1), Good(0), Left(1, 0, 0))),
   Watching(Reports(Bad(0), Good(1), Good(0), Left(1, 0, 1))),
   Watching(Reports(Bad(0), Good(0), Good(0), Left(0, 1, 0))),
   Watching(Reports(Bad(0), Bad(0), Bad(0), Left(0, 0, 0))),
   Watching(Reports(Bad(0), Junk(0), Good(0), Left(0, 0, 0))),
   InTrouble(40), InTrouble(60)}
  \cup {Editing(row, edits[1], edits[2]) :
          row \in {Unset, Manual, Row("RELIABLE", "automatic", 400)},
          edits \in {<<Wish("CHEAPEST", Unset, Unset), Lower>>, <<Lower, Working>>,
                     <<Saving, Working>>,
                     <<Saving, Device(Wish(Unset, "manual", Unset), FALSE, FALSE, 1)>>}}

(* Requests: of one key and its tenant, of a sensitive path besides.       *)

LimitOfScope == [s \in Scope |-> IF s \in {"key2", "tenant"} THEN 2 ELSE 1]
Requests(faults) ==
  [scopes |-> [q \in Asker |-> CASE q = q1 -> <<"key1", "tenant">>
                                 [] q = q2 -> <<"key1", "tenant", "path">>
                                 [] q = q3 -> <<"key2", "tenant", "path">>
                                 [] OTHER -> <<"tenant">>],
   sensitive |-> {q2, q3}, faults |-> faults]

SomeRequests == {Requests(faults) : faults \in 0..1}

(* Calls to the eSIM supplier for one binding, whose profile is there or not. *)

Calls(one, two, three, there, conflicts, timeouts, errors) ==
  [kind |-> [c \in Call |-> CASE c = q1 -> one [] c = q2 -> two [] OTHER -> three],
   there |-> there, strict |-> conflicts,
   left |-> [timeouts |-> timeouts, errors |-> errors]]

SomeCalls ==
  {Calls("provision", "provision", "release", FALSE, TRUE, 2, 0),
   Calls("provision", "release", "provision", TRUE, FALSE, 2, 0),
   Calls("suspend", "resume", "release", TRUE, TRUE, 1, 1),
   Calls("provision", "release", "suspend", TRUE, TRUE, 1, 0),
   Calls("provision", "reconcile", "suspend", FALSE, TRUE, 1, 1)}

-----------------------------------------------------------------------------

AnyOf(set) == CHOOSE x \in set : TRUE

Init ==
  /\ part \in {"claim", "intent", "operation", "outbox", "observations", "decision",
              "rate", "supplier"}
  /\ IF part = "claim" THEN OpInit ELSE OpInitOf(AnyOf(OpBounds))
  /\ IF part = "intent" THEN EventInit ELSE EventInitOf(AnyOf(ChangePlans))
  /\ IF part = "operation" THEN RecInit ELSE RecInitOf(AnyOf(OperationPlans))
  /\ IF part = "outbox" THEN OutboxInit ELSE OutboxInitOf(AnyOf(OutboxPlans))
  /\ IF part = "observations" THEN ObservationInit
     ELSE ObservationInitOf(AnyOf(ObservationPlans))
  /\ IF part = "decision" THEN DecisionInit ELSE DecisionInitOf(AnyOf(DecisionPlans))
  /\ IF part = "rate" THEN RateInit ELSE RateInitOf(AnyOf(RatePlans))
  /\ IF part = "supplier" THEN SupplierInit ELSE SupplierInitOf(AnyOf(SupplierPlans))

\* The parts' variables, in three groups.
Phone == <<outboxVars, observationVars>>
Server == <<opVars, evVars, recVars>>
Control == <<decisionVars, rateVars, supplierVars>>

Claims(A) ==
  part = "claim" /\ A /\ UNCHANGED <<part, evVars, recVars, Phone, Control>>
Intents(A) ==
  part = "intent" /\ A /\ UNCHANGED <<part, opVars, recVars, Phone, Control>>
Operating(A) ==
  part = "operation" /\ A /\ UNCHANGED <<part, opVars, evVars, Phone, Control>>
Queues(A) ==
  part = "outbox" /\ A /\ UNCHANGED <<part, Server, observationVars, Control>>
Observes(A) ==
  part = "observations" /\ A /\ UNCHANGED <<part, Server, outboxVars, Control>>
Deciding(A) ==
  part = "decision" /\ A /\ UNCHANGED <<part, Server, Phone, rateVars, supplierVars>>
Limits(A) ==
  part = "rate" /\ A /\ UNCHANGED <<part, Server, Phone, decisionVars, supplierVars>>
Supplies(A) ==
  part = "supplier" /\ A /\ UNCHANGED <<part, Server, Phone, decisionVars, rateVars>>

Next == \/ Claims(OpNext) \/ Intents(EventNext) \/ Operating(RecNext)
        \/ Queues(OutboxNext) \/ Observes(ObservationNext) \/ Deciding(DecisionNext)
        \/ Limits(RateNext) \/ Supplies(SupplierNext)

\* Callers finish what they began, cron jobs run again and again, and the app that
\* holds something in an outbox is opened again; nothing is assumed of crashes, lapses
\* of a lease that is renewed, late workers, or requests whose sender gave up.
\* One conjunct may name an action of each part, for only one part's can be enabled.
Fairness ==
  /\ \A p \in {p1, p2} :
       /\ WF_vars(\/ Intents(Changing(p)) \/ Operating(Passing(p))
                  \/ Queues(Flushing(p)) \/ Observes(Uploading(p)))
       /\ WF_vars(\/ Intents(Evaluating(p)) \/ Operating(Recovering(p))
                  \/ Queues(LoadPending(p)) \/ Observes(StartUpload(p)))
       /\ WF_vars(Intents(ClaimSome(p)) \/ Queues(ClaimAges(p)))
  /\ WF_vars(Intents(LapseSome) \/ Operating(ReclaimExpiredRecoveryClaims))
  /\ WF_vars(Intents(ReclaimEvent))

Spec == Init /\ [][Next]_vars /\ Fairness

\* The rows hold values of their columns.
TypeOK == /\ OpTypeOK /\ EventTypeOK /\ RecTypeOK
          /\ OutboxTypeOK /\ ObservationTypeOK /\ DecisionTypeOK
          /\ RateTypeOK /\ SupplierTypeOK

\* What is queued is created, and what is stored is delivered as long as no
\* observation was lost before it: flushes that were killed or overlap stop neither.
OutboxesDrain == QueuedIsCreated /\ StoredIsDelivered

\* ChangeEvaluated, of the behaviours in which an intent changes at all.
ChangeEvaluatedIfRun == []<>(part = "intent" => AllEvaluated)

\* What was recorded is dealt with: the change of an intent is evaluated, the record of a
\* provider operation gets its one verdict, whoever crashed on the way.
ChangesAndVerdictsCome == ChangeEvaluatedIfRun /\ VerdictComesOnce
===============================================================================
