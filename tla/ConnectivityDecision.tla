-------------------------- MODULE ConnectivityDecision --------------------------
(***************************************************************************)
(* The health of one resource, and the decisions the control plane makes   *)
(* of it: what an event makes of the user's policy, the context of the     *)
(* user's device and the health of the active resource, while the user     *)
(* edits the policy, devices post contexts out of order and reports of     *)
(* health arrive. Rows are read and written without a lock, each in a step *)
(* of its own.                                                             *)
(*                                                                         *)
(* Source: src/src/lib/control-plane (measurement-store, health-derivation,*)
(* freshness, observation-validation; policy-engine, effective-policy,     *)
(* decision-engine) and the routes policies and edge/policy-context.       *)
(* Capabilities, resources and offers do not change here; scores,          *)
(* reliability and hysteresis are in hundredths.                           *)
(***************************************************************************)
EXTENDS Integers, FiniteSets, Sequences

-----------------------------------------------------------------------------
(* Health: reports are validated and stored once each, and after each the  *)
(* snapshot is derived from the newest ones and written over the old, with *)
(* no lock between the read and the write; events tell of the measurement  *)
(* and of the change. Time advances in ticks; a report bears the tick it   *)
(* was taken at, and is bad (quality 0) or good (100). An event may be     *)
(* evaluated again (IntentEvents): rows are not removed.                   *)

CONSTANTS
  Report,           \* measurements, as told apart by their deduplication key
  Ingester,         \* calls of ingestMeasurement
  HealthPlans,      \* what the reports are, with the bounds
  SAMPLE_N, MIN_DEGRADED_COUNT,                           \* the last N, M of N
  FRESH_TICKS, STALE_TICKS, WINDOW_TICKS, MAX_AGE_TICKS,  \* limits on the age
  MAX_PER_WINDOW                                          \* reports of a device

ASSUME HealthLimits ==
  /\ {SAMPLE_N, MIN_DEGRADED_COUNT, MAX_PER_WINDOW} \subseteq Nat \ {0}
  /\ {FRESH_TICKS, STALE_TICKS, WINDOW_TICKS, MAX_AGE_TICKS} \subseteq Nat
  /\ 0 < FRESH_TICKS /\ FRESH_TICKS < STALE_TICKS
  /\ STALE_TICKS <= WINDOW_TICKS /\ WINDOW_TICKS <= MAX_AGE_TICKS

VARIABLES
  clock,
  stored,     \* per report: rows of it, and the trust they were given
  health,     \* the ResourceHealth row
  ingest,     \* per ingester: program counter, its report, what it read and derived
  events,      \* types of the ReevaluationEvent rows there are
  hePlan

healthVars == <<clock, stored, health, ingest, events, hePlan>>

Trust == {"TRUSTED", "LIMITED", "UNTRUSTED"}
HealthPlanRows == [what : [Report -> [bad : BOOLEAN, trust : Trust, at : Nat]],
                   left : [ticks : Nat, repeats : Nat, faults : Nat]]

ASSUME HealthAssumption == IsFiniteSet(Report) /\ Report # {} /\ HealthPlans \subseteq HealthPlanRows

What(r) == hePlan.what[r]
NoHealth == [status |-> "NONE", samples |-> 0, degraded |-> 0, quality |-> 0,
             freshness |-> "UNKNOWN"]
NoIngest(r) == [pc |-> "idle", report |-> r, previous |-> "NONE", derived |-> NoHealth]
SomeReport == CHOOSE r \in Report : TRUE

Snapshot == [status : {"NONE", "UNKNOWN", "HEALTHY", "DEGRADED"}, samples : 0..SAMPLE_N,
             degraded : 0..SAMPLE_N, quality : 0..100,
             freshness : {"UNKNOWN", "FRESH", "STALE", "EXPIRED"}]

HealthTypeOK ==
  /\ clock \in Nat
  /\ stored \in [Report -> [rows : Nat, trust : Trust]]
  /\ health \in Snapshot
  /\ ingest \in [Ingester -> [pc : {"idle", "store", "previous", "derive", "persist", "emit"},
                              report : Report, derived : Snapshot,
                              previous : {"NONE", "UNKNOWN", "HEALTHY", "DEGRADED"}]]
  /\ events \subseteq {"MEASUREMENT_RECEIVED", "RESOURCE_DEGRADED", "RESOURCE_RECOVERED",
                     "INTENT_CHANGED"}

HealthInitOf(plan) ==
  /\ clock = 0
  /\ stored = [r \in Report |-> [rows |-> 0, trust |-> "UNTRUSTED"]]
  /\ health = NoHealth
  /\ ingest = [i \in Ingester |-> NoIngest(SomeReport)]
  /\ events = {}
  /\ hePlan = plan

HealthInit == \E plan \in HealthPlans : HealthInitOf(plan)

\* Bounds: ticks, faults, and deliveries of a report already stored.
SpendHealth(what) == /\ hePlan.left[what] > 0
                     /\ hePlan' = [hePlan EXCEPT !.left[what] = @ - 1]

Tick ==
  /\ SpendHealth("ticks") /\ clock' = clock + 1
  /\ UNCHANGED <<stored, health, ingest, events>>

-----------------------------------------------------------------------------
(* Freshness and validation.                                               *)

Age(r) == clock - What(r).at
Freshness(r) == CASE Age(r) < FRESH_TICKS -> "FRESH"
                  [] Age(r) >= FRESH_TICKS /\ Age(r) < STALE_TICKS -> "STALE"
                  [] OTHER -> "EXPIRED"
ContributesToHealth(r) == Freshness(r) \in {"FRESH", "STALE"}

Recent == {r \in Report : stored[r].rows > 0 /\ What(r).trust = "LIMITED"
                          /\ Age(r) <= FRESH_TICKS}

\* What a device says is of limited trust, unless it is too old or too much of it;
\* what it cannot have seen is UNTRUSTED in the plan already.
ValidatedTrust(r) ==
  IF What(r).trust = "LIMITED"
     /\ (Age(r) > MAX_AGE_TICKS \/ Cardinality(Recent \cup {r}) > MAX_PER_WINDOW)
    THEN "UNTRUSTED" ELSE What(r).trust

-----------------------------------------------------------------------------
(* deriveResourceHealth.                                                   *)

InWindow == {r \in Report : stored[r].rows > 0 /\ Age(r) <= WINDOW_TICKS}
Samples(set) == {s \in set \X (1..2) : s[2] <= stored[s[1]].rows}

\* The newest SAMPLE_N rows; the order of rows of one moment is left open.
NewestRows ==
  LET all == Samples(InWindow) IN
  {some \in SUBSET all :
     /\ Cardinality(some) = IF Cardinality(all) < SAMPLE_N THEN Cardinality(all) ELSE SAMPLE_N
     /\ \A in \in some, out \in all \ some : Age(in[1]) <= Age(out[1])}

ContributingAny(rows) ==      \* mutant: trust does not matter
  {s \in rows : ContributesToHealth(s[1])}
Contributing(rows) ==
  {s \in rows : stored[s[1]].trust # "UNTRUSTED" /\ ContributesToHealth(s[1])}

Derived(rows) ==
  LET used == Contributing(rows)
      bad == {s \in used : What(s[1]).bad}
      newest == CHOOSE s \in used : \A t \in used : Age(s[1]) <= Age(t[1]) IN
  CASE rows = {} -> [NoHealth EXCEPT !.status = "UNKNOWN"]
    [] rows # {} /\ used = {} -> [NoHealth EXCEPT !.status = "UNKNOWN",
                                                  !.freshness = "EXPIRED"]
    [] OTHER -> [status |-> IF Cardinality(bad) >= MIN_DEGRADED_COUNT THEN "DEGRADED"
                            ELSE "HEALTHY",
                 samples |-> Cardinality(used), degraded |-> Cardinality(bad),
                 quality |-> (100 * (Cardinality(used) - Cardinality(bad)))
                             \div Cardinality(used),
                 freshness |-> Freshness(newest[1])]

-----------------------------------------------------------------------------
(* ingestMeasurement.                                                      *)

IngestAt(i, pc) == ingest[i].pc = pc
Subject(i) == ingest[i].report

\* A delivery, or one more of a report that was delivered.
DeliverReport(i, r) ==
  /\ IngestAt(i, "idle") /\ clock >= What(r).at
  /\ IF stored[r].rows > 0 \/ \E j \in Ingester : ~IngestAt(j, "idle") /\ Subject(j) = r
       THEN SpendHealth("repeats") ELSE UNCHANGED hePlan
  /\ ingest' = [ingest EXCEPT ![i] = [NoIngest(r) EXCEPT !.pc = "store"]]
  /\ UNCHANGED <<clock, stored, health, events>>

Stored(i) ==
  stored' = [stored EXCEPT ![Subject(i)] =
               [rows |-> stored[Subject(i)].rows + 1, trust |-> ValidatedTrust(Subject(i))]]

StoreAgain(i) ==            \* mutant: a second row of the same measurement
  /\ IngestAt(i, "store") /\ Stored(i)
  /\ ingest' = [ingest EXCEPT ![i].pc = "previous"]
  /\ UNCHANGED <<clock, health, events, hePlan>>

\* The deduplication key is unique: a duplicate derives nothing and tells nothing.
Store(i) ==
  /\ IngestAt(i, "store")
  /\ IF stored[Subject(i)].rows > 0
       THEN ingest' = [ingest EXCEPT ![i] = NoIngest(SomeReport)] /\ UNCHANGED stored
       ELSE ingest' = [ingest EXCEPT ![i].pc = "previous"] /\ Stored(i)
  /\ UNCHANGED <<clock, health, events, hePlan>>

ReadPrevious(i) ==
  /\ IngestAt(i, "previous")
  /\ ingest' = [ingest EXCEPT ![i].pc = "derive", ![i].previous = health.status]
  /\ UNCHANGED <<clock, stored, health, events, hePlan>>

DeriveResourceHealth(i) ==
  /\ IngestAt(i, "derive")
  /\ \E rows \in NewestRows :
       ingest' = [ingest EXCEPT ![i].pc = "persist", ![i].derived = Derived(rows)]
  /\ UNCHANGED <<clock, stored, health, events, hePlan>>

PersistHealth(i) ==
  /\ IngestAt(i, "persist")
  /\ health' = ingest[i].derived
  /\ ingest' = [ingest EXCEPT ![i].pc = "emit"]
  /\ UNCHANGED <<clock, stored, events, hePlan>>

\* Two rows; the process may die between them.
EmitEvents(i) ==
  LET was == ingest[i].previous  is == ingest[i].derived.status
      change == CASE is = "DEGRADED" /\ was # "DEGRADED" -> {"RESOURCE_DEGRADED"}
                  [] is = "HEALTHY" /\ was = "DEGRADED" -> {"RESOURCE_RECOVERED"}
                  [] OTHER -> {} IN
  /\ IngestAt(i, "emit")
  /\ \/ events' = events \cup {"MEASUREMENT_RECEIVED"} \cup change /\ UNCHANGED hePlan
     \/ events' = events \cup {"MEASUREMENT_RECEIVED"} /\ SpendHealth("faults")
  /\ ingest' = [ingest EXCEPT ![i] = NoIngest(SomeReport)]
  /\ UNCHANGED <<clock, stored, health>>

IngesterDies(i) ==
  /\ ~IngestAt(i, "idle") /\ SpendHealth("faults")
  /\ ingest' = [ingest EXCEPT ![i] = NoIngest(SomeReport)]
  /\ UNCHANGED <<clock, stored, health, events>>

Ingesting(i) == \/ Store(i) \/ ReadPrevious(i) \/ DeriveResourceHealth(i)
                \/ PersistHealth(i) \/ EmitEvents(i)

HealthNext ==
  \/ Tick
  \/ \E i \in Ingester : Ingesting(i) \/ IngesterDies(i) \/ \E r \in Report : DeliverReport(i, r)

-----------------------------------------------------------------------------
(* What a degraded snapshot must rest on.                                  *)

Believed(r) == stored[r].rows > 0 /\ stored[r].trust # "UNTRUSTED"

\* Some MIN_DEGRADED_COUNT different bad reports that are believed, all taken
\* within the time a report may contribute.
EvidenceOfDegradation ==
  \E some \in SUBSET {r \in Report : Believed(r) /\ What(r).bad} :
    /\ Cardinality(some) = MIN_DEGRADED_COUNT
    /\ \A r, s \in some : What(r).at - What(s).at < STALE_TICKS

-----------------------------------------------------------------------------
(* Decisions.                                                              *)

CONSTANTS
  Edit,            \* requests that change the policy or the device's context
  Decider,         \* evaluations of an event
  DecisionPlans,   \* what the edits ask, the session, the resources there are, the
                   \* ranked offers, the intent's type and budget, the first policy
  MIN_SAMPLES_FOR_SWITCH,
  Unset            \* no such row, or a field a request leaves alone

VARIABLES
  policies,    \* the user's ConnectivityPolicy rows, by id
  context,     \* the device row: its context, and when it was observed
  edit,        \* per request: program counter and the policy row it read
  decider,     \* per evaluation: program counter, policy and context it read
  decision,    \* ConnectivityDecision rows
  policyRows,  \* history: every policy row there ever was
  dePlan

decisionVars == <<healthVars, policies, context, edit, decider, decision, policyRows, dePlan>>
decidingVars == <<policies, context, edit, decider, decision, policyRows, dePlan>>

\* POLICY_PRESETS: mode, spend limit, and hysteresis in hundredths.
Params(mode, limit, hysteresis) == [mode |-> mode, limit |-> limit, hysteresis |-> hysteresis]
POLICY_PRESETS ==
  [CHEAPEST |-> Params("automatic", 500, 5), RELIABLE |-> Params("automatic", 2000, 20),
   WORK |-> Params("automatic", 1000, 15), BATTERY |-> Params("automatic", 300, 25),
   UNLIMITED |-> Params("automatic", 10000, 10), MANUAL |-> Params("manual", 0, 15)]
Preset == DOMAIN POLICY_PRESETS

PolicyRow == [mode : {"automatic", "manual"}, limit : Nat, hysteresis : 0..100,
              preset : Preset \cup {Unset}, version : Nat]
Context == [saver : BOOLEAN, work : BOOLEAN]

\* getPolicy of a user who has no row.
DefaultPolicy == [mode |-> "manual", limit |-> 0, hysteresis |-> 15, preset |-> Unset,
                  version |-> 0]

Undecided == [pc |-> "idle", row |-> DefaultPolicy, value |-> Unset, intent |-> FALSE,
              made |-> Unset]
DecisionAction == {"WAIT", "KEEP", "SWITCH", "ACTIVATE", "ASK_USER"}
DecisionRecord == [action : DecisionAction, version : Nat, intent : BOOLEAN,
                   price : Nat \cup {Unset}, state : {"PENDING", "SKIPPED"}]

DecisionTypeOK ==
  /\ HealthTypeOK
  /\ policies \in [1..Cardinality(Edit) + 1 -> PolicyRow \cup {Unset}]
  /\ context \in [value : Context \cup {Unset}, observed : Nat]
  /\ edit \in [Edit -> [pc : {"ready", "context", "read", "write", "done"},
                        id : DOMAIN policies, row : PolicyRow \cup {Unset}]]
  /\ decision \subseteq DecisionRecord
  /\ decider \in [Decider -> [pc : {"idle", "context", "decide", "mark"}, row : PolicyRow,
                              value : Context \cup {Unset}, intent : BOOLEAN,
                              made : decision \cup {Unset}]]

\* A request for another policy or with a device's context, and the resources there are.
EditRows == [preset : Preset \cup {Unset}, mode : {"automatic", "manual", Unset},
             limit : Nat \cup {Unset}, context : Context \cup {Unset}, observed : Nat]

ASSUME DecisionAssumption ==
  /\ MIN_SAMPLES_FOR_SWITCH \in Nat /\ IsFiniteSet(Edit)
  /\ \A plan \in DecisionPlans :
       /\ plan.health \in HealthPlanRows /\ plan.policy \in PolicyRow \cup {Unset}
       /\ plan.edits \in [Edit -> EditRows \cup {Unset}]
       /\ IsFiniteSet(plan.supply)
       /\ \A r \in plan.supply : r.reliability \in Nat /\ r.bandwidth \in Nat

DecisionInitOf(plan) ==
  /\ HealthInitOf(plan.health)
  /\ policies = [id \in 1..Cardinality(Edit) + 1 |-> IF id = 1 THEN plan.policy ELSE Unset]
  /\ context = [value |-> Unset, observed |-> 0]
  /\ edit = [e \in Edit |-> [pc |-> IF plan.edits[e] = Unset THEN "done" ELSE "ready",
                           id |-> 1, row |-> Unset]]
  /\ decider = [d \in Decider |-> Undecided]
  /\ decision = {}
  /\ policyRows = {plan.policy} \ {Unset}
  /\ dePlan = plan

DecisionInit == \E plan \in DecisionPlans : DecisionInitOf(plan)

-----------------------------------------------------------------------------
(* Changes of the policy and of the device's context.                      *)

Asked(e) == dePlan.edits[e]
Or(value, otherwise) == IF value = Unset THEN otherwise ELSE value
EditAt(e, pc) == edit[e].pc = pc
Overrides(e) == Asked(e).preset # Unset \/ Asked(e).mode # Unset

\* POST policy-context: an observation older than the stored one is refused.
CheckContext(e) ==
  /\ EditAt(e, "ready") /\ Asked(e).context # Unset
  /\ edit' = [edit EXCEPT ![e].pc = IF Asked(e).observed < context.observed THEN "done"
                                    ELSE "context"]
  /\ UNCHANGED <<healthVars, policies, context, decider, decision, policyRows, dePlan>>

WriteContext(e) ==
  /\ EditAt(e, "context")
  /\ context' = [value |-> Asked(e).context, observed |-> Asked(e).observed]
  /\ edit' = [edit EXCEPT ![e].pc = IF Overrides(e) THEN "read" ELSE "done"]
  /\ UNCHANGED <<healthVars, policies, decider, decision, policyRows, dePlan>>

UserRows == {id \in DOMAIN policies : policies[id] # Unset}
FreshId == CHOOSE id \in DOMAIN policies \ UserRows : TRUE

\* findFirst without an order: any row of the user, if there is one.
ReadPolicyRow(e) ==
  /\ EditAt(e, "read") \/ (EditAt(e, "ready") /\ Asked(e).context = Unset)
  /\ \/ \E id \in UserRows :
          edit' = [edit EXCEPT ![e] = [pc |-> "write", id |-> id, row |-> policies[id]]]
     \/ UserRows = {} /\ edit' = [edit EXCEPT ![e] = [pc |-> "write", id |-> 1, row |-> Unset]]
  /\ UNCHANGED <<healthVars, policies, context, decider, decision, policyRows, dePlan>>

\* createOrUpdatePolicy: the whole row, made of the preset asked for, else of what
\* was read, else of MANUAL.
NewRow(asked, read) ==
  LET base == CASE asked.preset # Unset -> POLICY_PRESETS[asked.preset]
                [] asked.preset = Unset /\ read # Unset -> read
                [] OTHER -> POLICY_PRESETS["MANUAL"] IN
  [mode |-> Or(asked.mode, base.mode), limit |-> Or(asked.limit, base.limit),
   hysteresis |-> base.hysteresis,
   preset |-> Or(asked.preset, IF read = Unset THEN Unset ELSE read.preset),
   version |-> IF read = Unset THEN 1 ELSE read.version + 1]

WritePolicyRow(e) ==
  LET row == NewRow(Asked(e), edit[e].row)
      id == IF edit[e].row = Unset THEN FreshId ELSE edit[e].id IN
  /\ EditAt(e, "write")
  /\ policies' = [policies EXCEPT ![id] = row]
  /\ policyRows' = policyRows \cup {row}
  /\ edit' = [edit EXCEPT ![e].pc = "done", ![e].row = Unset]
  /\ UNCHANGED <<healthVars, context, decider, decision, dePlan>>

-----------------------------------------------------------------------------
(* makeDecision.                                                           *)

DeciderAt(d, pc) == decider[d].pc = pc

\* getPolicy: findFirst again, or the default.
PolicyRead == IF UserRows = {} THEN {DefaultPolicy} ELSE {policies[id] : id \in UserRows}

EndDecision(d) == decider' = [decider EXCEPT ![d] = Undecided]

\* findSessionForResource, and the states in which a session's own event counts.
LiveSession == dePlan.session.state \in {"ACTIVE", "DEGRADED", "SWITCHING"}

\* isReevaluationNecessary: a change of the intent always is, with a session or not.
Necessary(e) == e = "INTENT_CHANGED" \/ LiveSession

\* An event is claimed whose evaluation is necessary; only the event of an intent
\* brings the intent's version, type and budget.
BeginDecision(d) ==
  /\ DeciderAt(d, "idle")
  /\ \E e \in events, row \in PolicyRead :
       /\ Necessary(e)
       /\ decider' = [decider EXCEPT ![d] = [@ EXCEPT !.pc = "context", !.row = row,
                                                      !.intent = e = "INTENT_CHANGED"]]
  /\ UNCHANGED <<healthVars, policies, context, edit, decision, policyRows, dePlan>>

\* The intent may be superseded, cancelled or expired by now: then the decision is to
\* wait, and is stored as settled. An event of the resource does not ask.
IntentExpired(d) ==
  /\ DeciderAt(d, "context") /\ decider[d].intent
  /\ decision' = decision \cup {[action |-> "WAIT", version |-> 0, intent |-> TRUE,
                                 price |-> Unset, state |-> "SKIPPED"]}
  /\ EndDecision(d)
  /\ UNCHANGED <<healthVars, policies, context, edit, policyRows, dePlan>>

\* Only the event of an intent names a device.
ReadContext(d) ==
  /\ DeciderAt(d, "context")
  /\ decider' = [decider EXCEPT ![d].pc = "decide",
                                ![d].value = IF decider[d].intent THEN context.value ELSE Unset]
  /\ UNCHANGED <<healthVars, policies, context, edit, decision, policyRows, dePlan>>

EffectivePreset(row, value) ==
  CASE value # Unset /\ value.saver -> "BATTERY"
    [] value # Unset /\ ~value.saver /\ value.work
         /\ row.preset \notin {"CHEAPEST", "BATTERY"} -> "WORK"
    [] OTHER -> Or(row.preset, "MANUAL")

EffectivePresetLimit(row, value) ==   \* mutant: the preset brings its spend limit
  LET preset == EffectivePreset(row, value) IN
  IF preset = row.preset THEN row
  ELSE [row EXCEPT !.mode = POLICY_PRESETS[preset].mode,
                   !.hysteresis = POLICY_PRESETS[preset].hysteresis,
                   !.limit = POLICY_PRESETS[preset].limit]

\* deriveEffectivePolicy: another preset than the base keeps the user's limit.
EffectivePolicy(row, value) ==
  LET preset == EffectivePreset(row, value) IN
  IF preset = row.preset THEN row
  ELSE [row EXCEPT !.mode = POLICY_PRESETS[preset].mode,
                   !.hysteresis = POLICY_PRESETS[preset].hysteresis]

\* The type the decision is about: the intent's, else that of the session's resource.
TypeOf(intent) == IF intent THEN dePlan.type ELSE dePlan.session.type
Type(d) == TypeOf(decider[d].intent)
OfType(type, x) == type \in {Unset, x.type}

\* discoverCapabilities and discoverResources.
Discovered(type) == {r \in dePlan.supply : r.active /\ OfType(type, r)}
Available(r) == r.state = "AVAILABLE"

\* Free bandwidth (in Mbps) raises the score of a resource above its capability's.
ResourceScore(r) ==
  LET raised == r.reliability + r.bandwidth \div 10 IN IF raised > 100 THEN 100 ELSE raised
Candidates(type) == {r \in Discovered(type) : Available(r)}
Better(r, o) == \/ ResourceScore(r) > ResourceScore(o)
                \/ ResourceScore(r) = ResourceScore(o) /\ r.reliability >= o.reliability
BestCandidate(type) == CHOOSE r \in Candidates(type) : \A o \in Candidates(type) : Better(r, o)

\* rankOffers, and the offer for the kind of resource that was chosen.
Ranked(type) == SelectSeq(dePlan.ranked, LAMBDA offer : OfType(type, offer))
Matching(type) == Ranked(BestCandidate(type).type)
Score(type) == IF Matching(type) = <<>> THEN BestCandidate(type).reliability
               ELSE Matching(type)[1].score

\* The price of the offer that is stored with the decision, if there is a resource and
\* an offer for its kind ...
TargetPrice(type) ==
  IF Candidates(type) = {} \/ Matching(type) = <<>> THEN Unset ELSE Matching(type)[1].price

\* ... and what the policy and the budget are asked about: the offer ranked first.
TopPrice(type) == IF Ranked(type) = <<>> THEN 0 ELSE Ranked(type)[1].price

\* evaluatePolicy.
PolicyAllows(policy, action, price) ==
  /\ policy.mode = "automatic"
  /\ action = "ACTIVATE" => price <= policy.limit

\* A budget of the intent binds where an offer has a price; only an intent has one.
WithinBudget(d) ==
  \/ ~decider[d].intent \/ dePlan.budget = Unset
  \/ TopPrice(Type(d)) <= dePlan.budget

MayTriggerAutomaticSwitch == health.freshness = "FRESH"

SwitchHasty(policy, score) ==          \* mutant: no minimum of samples
  /\ health.status = "DEGRADED" /\ MayTriggerAutomaticSwitch
  /\ score - health.quality > policy.hysteresis

SwitchIsDue(policy, score) ==
  /\ health.status = "DEGRADED" /\ MayTriggerAutomaticSwitch
  /\ health.samples >= MIN_SAMPLES_FOR_SWITCH
  /\ score - health.quality > policy.hysteresis

\* Dwell time and cooldown are over at `settled`; without an active session the
\* best resource is to be activated.
Wanted(d, policy) ==
  CASE Candidates(Type(d)) = {} -> "WAIT"
    [] Candidates(Type(d)) # {} /\ dePlan.session.state # "ACTIVE" ->
         IF WithinBudget(d) THEN "ACTIVATE" ELSE "ASK_USER"
    [] OTHER -> IF clock >= dePlan.session.settled /\ SwitchIsDue(policy, Score(Type(d)))
                THEN "SWITCH" ELSE "KEEP"

\* The decision is stored with its target offer, as PENDING like every new row ...
Decide(d) ==
  LET policy == EffectivePolicy(decider[d].row, decider[d].value)
      wanted == Wanted(d, policy)
      action == IF wanted \in {"SWITCH", "ACTIVATE"}
                   /\ ~PolicyAllows(policy, wanted, TopPrice(Type(d)))
                  THEN "ASK_USER" ELSE wanted
      made == [action |-> action, version |-> policy.version, intent |-> decider[d].intent,
               price |-> TargetPrice(Type(d)), state |-> "PENDING"] IN
  /\ DeciderAt(d, "decide")
  /\ decision' = decision \cup {made}
  /\ decider' = [decider EXCEPT ![d] = [Undecided EXCEPT !.pc = "mark", !.made = made]]
  /\ UNCHANGED <<healthVars, policies, context, edit, policyRows, dePlan>>

\* ... and then marked: nothing is to be done for most, the rest is for the executor.
MarkDecision(d) ==
  LET made == decider[d].made IN
  /\ DeciderAt(d, "mark")
  /\ decision' = IF made.action \in {"KEEP", "WAIT", "ASK_USER"}
                   THEN (decision \ {made}) \cup {[made EXCEPT !.state = "SKIPPED"]}
                   ELSE decision
  /\ EndDecision(d)
  /\ UNCHANGED <<healthVars, policies, context, edit, policyRows, dePlan>>

\* The user created or superseded an intent.
IntentChanged ==
  /\ dePlan.intent
  /\ events' = events \cup {"INTENT_CHANGED"}
  /\ UNCHANGED <<clock, stored, health, ingest, hePlan>> /\ UNCHANGED decidingVars

DecisionNext ==
  \/ HealthNext /\ UNCHANGED decidingVars
  \/ IntentChanged
  \/ \E e \in Edit : \/ CheckContext(e) \/ WriteContext(e)
                     \/ ReadPolicyRow(e) \/ WritePolicyRow(e)
  \/ \E d \in Decider : \/ BeginDecision(d) \/ IntentExpired(d)
                        \/ ReadContext(d) \/ Decide(d) \/ MarkDecision(d)

DecisionSpec == DecisionInit /\ [][DecisionNext]_decisionVars

-----------------------------------------------------------------------------
(* Properties.                                                             *)

\* A session is switched away from its resource only on the evidence of several
\* different observations that are believed: not of one bad report however often
\* it was delivered, not of any number that nobody vouches for, whatever was
\* derived at the same time from older reads (decision-engine.ts:254, M of N).
SwitchIsJustified ==
  (\E made \in decision : made.action = "SWITCH") =>
    /\ EvidenceOfDegradation
    /\ Cardinality({r \in Report : Believed(r)}) >= MIN_SAMPLES_FOR_SWITCH

\* What is activated without asking costs, at the offer stored with the decision, no more
\* than the user allowed in a version of the policy, and than the intent's budget if it is
\* an intent's: no context of a device raises the limit (effective-policy.ts:143 "preserve
\* user's spend limit"). Where no kind of resource was named, the offer asked about may be
\* for another kind than the one that is chosen, and nothing bounds its price.
SpendsWithinLimit ==
  \A made \in decision :
    made.action = "ACTIVATE" /\ made.price # Unset /\ TypeOf(made.intent) # Unset =>
      /\ \E row \in policyRows \cup {DefaultPolicy} :
           row.version = made.version /\ made.price <= row.limit
      /\ made.intent /\ dePlan.budget # Unset => made.price <= dePlan.budget

DecisionIsJustified == SwitchIsJustified /\ SpendsWithinLimit
===============================================================================
