----------------------------- MODULE MobileOutboxes -----------------------------
(***************************************************************************)
(* The two durable outboxes of the phone, and the server's end of each.    *)
(*                                                                         *)
(* Intents: flushes that overlap (app start, foreground, every minute)     *)
(* claim an entry for five minutes, send it, and remove or fail it;        *)
(* answers are lost, requests arrive after their sender gave up, the app   *)
(* is killed.  IntentEvents has the server's read and write of one change  *)
(* as steps of their own; here a request takes effect in one step.         *)
(*                                                                         *)
(* Observations: numbered and stored in an outbox that holds the newest    *)
(* few, uploaded in batches, recorded by the server one at a time and      *)
(* acknowledged by a watermark; the outbox forgets what is below it, and   *)
(* what the server refused.  An observation is its sequence number: the    *)
(* phone gives no two the same.                                            *)
(*                                                                         *)
(* Source: src/apps/mobile/lib/connectivity (intent-outbox, intent-client, *)
(* outbox, observation, sync), the create path of intent-service.ts and    *)
(* edge-ingestion.ts of src/src/lib/control-plane.                         *)
(***************************************************************************)
EXTENDS Naturals, Sequences, FiniteSets

-----------------------------------------------------------------------------
(* Intent mutations.                                                       *)

CONSTANTS
  Mutation,       \* operations the user queues, each with its idempotency key
  OutboxPlans,    \* what they are (kind, expected version), with the bounds
  Flush,          \* calls of flushIntentOutbox
  NoMutation

\* Each mutation is a CREATE, or changes the one intent of the chain.
ASSUME OutboxAssumption ==
  /\ NoMutation \notin Mutation
  /\ OutboxPlans \subseteq
       [what : [Mutation -> [kind : {"CREATE", "SUPERSEDE", "CANCEL"}, expects : Nat]],
        left : [faults : Nat, lapses : Nat]]

VARIABLES
  outbox,     \* the stored array, with the entries that were removed: mutations in
              \* the order they were queued
  entry,      \* per mutation: status of its entry, and whether its claim is fresh
  flush,      \* per flush: program counter and the entries it loaded and has left
  created,    \* intents made by CREATE, by idempotency key
  chain,      \* versions of the intent that SUPERSEDE and CANCEL are about
  wire,       \* requests still under way whose sender gave up
  applied,    \* history: how often the server took a mutation's effect
  obPlan      \* what the mutations are, and the bounds left

outboxVars == <<outbox, entry, flush, created, chain, wire, applied, obPlan>>

Plan(m) == obPlan.what[m]
Unsent == [status |-> "unsent", fresh |-> FALSE]
AtRest == [pc |-> "idle", todo |-> {}]

OutboxTypeOK ==
  /\ outbox \in Seq(Mutation)
  /\ entry \in [Mutation -> [status : {"unsent", "PENDING", "CLAIMED", "FAILED", "gone"},
                             fresh : BOOLEAN]]
  /\ flush \in [Flush -> [pc : {"idle", "claim", "send", "ok", "failed"},
                          todo : SUBSET Mutation]]
  /\ \A f \in Flush : (flush[f].pc = "idle") = (flush[f].todo = {})
  /\ created \subseteq Mutation /\ wire \subseteq Mutation
  /\ chain \in Seq([status : {"ACTIVE", "SUPERSEDED", "CANCELLED"},
                    key : Mutation \cup {NoMutation}])
  /\ applied \in [Mutation -> Nat]

OutboxInitOf(plan) ==
  /\ outbox = << >>
  /\ entry = [m \in Mutation |-> Unsent]
  /\ flush = [f \in Flush |-> AtRest]
  /\ created = {} /\ wire = {}
  /\ chain = <<[status |-> "ACTIVE", key |-> NoMutation]>>
  /\ applied = [m \in Mutation |-> 0]
  /\ obPlan = plan

OutboxInit == \E plan \in OutboxPlans : OutboxInitOf(plan)

Spend(what) == /\ obPlan.left[what] > 0
               /\ obPlan' = [obPlan EXCEPT !.left[what] = @ - 1]

-----------------------------------------------------------------------------
(* The server.                                                             *)

Fits(m) == chain[Len(chain)].status = "ACTIVE" /\ Plan(m).expects = Len(chain)
KeyTaken(m) == m \in created \/ \E v \in DOMAIN chain : chain[v].key = m

\* A key that made something before answers with what it made; a cancellation
\* bears a key too, which the server does not look at.
Repeats(m) == Plan(m).kind # "CANCEL" /\ KeyTaken(m)
Accepts(m) == Plan(m).kind = "CREATE" \/ Repeats(m) \/ Fits(m)

HandleKeyless(m) ==         \* mutant: the idempotency key is not looked up
  /\ created' = IF Plan(m).kind = "CREATE" THEN created \cup {m} ELSE created
  /\ chain' = CASE Plan(m).kind = "SUPERSEDE" /\ Fits(m) ->
                     Append([chain EXCEPT ![Len(chain)].status = "SUPERSEDED"],
                            [status |-> "ACTIVE", key |-> m])
                [] Plan(m).kind = "CANCEL" /\ Fits(m) ->
                     [chain EXCEPT ![Len(chain)].status = "CANCELLED"]
                [] OTHER -> chain
  /\ applied' = IF Accepts(m) THEN [applied EXCEPT ![m] = @ + 1] ELSE applied

Handle(m) ==
  LET effective == Accepts(m) /\ ~Repeats(m) IN
  /\ created' = IF effective /\ Plan(m).kind = "CREATE" THEN created \cup {m} ELSE created
  /\ chain' = CASE effective /\ Plan(m).kind = "SUPERSEDE" ->
                     Append([chain EXCEPT ![Len(chain)].status = "SUPERSEDED"],
                            [status |-> "ACTIVE", key |-> m])
                [] effective /\ Plan(m).kind = "CANCEL" ->
                     [chain EXCEPT ![Len(chain)].status = "CANCELLED"]
                [] OTHER -> chain
  /\ applied' = IF effective THEN [applied EXCEPT ![m] = @ + 1] ELSE applied

ArriveLate(m) ==
  /\ m \in wire /\ wire' = wire \ {m}
  /\ Handle(m)
  /\ UNCHANGED <<outbox, entry, flush, obPlan>>

-----------------------------------------------------------------------------
(* The outbox: each step is one turn of its mutex.                         *)

EnqueueIntent(m) ==
  /\ entry[m].status = "unsent"
  /\ outbox' = Append(outbox, m)
  /\ entry' = [entry EXCEPT ![m].status = "PENDING"]
  /\ UNCHANGED <<flush, created, chain, wire, applied, obPlan>>

EverQueued == {outbox[i] : i \in DOMAIN outbox}
Stale(m) == entry[m].status = "CLAIMED" /\ ~entry[m].fresh
LoadableOnce(m) == entry[m].status \in {"PENDING", "FAILED"}   \* mutant: no lease on claims
Loadable(m) == entry[m].status \in {"PENDING", "FAILED"} \/ Stale(m)

\* loadPendingIntentOperations; a claim that ran out is written back as PENDING.
LoadPending(f) ==
  LET due == {m \in EverQueued : Loadable(m)} IN
  /\ flush[f].pc = "idle" /\ due # {}
  /\ flush' = [flush EXCEPT ![f] = [pc |-> "claim", todo |-> due]]
  /\ entry' = [m \in Mutation |-> IF Stale(m) THEN [entry[m] EXCEPT !.status = "PENDING"]
                                  ELSE entry[m]]
  /\ UNCHANGED <<outbox, created, chain, wire, applied, obPlan>>

At(f, pc) == flush[f].pc = pc
\* The entries are sent in the order of the array.
Place(f) == CHOOSE i \in DOMAIN outbox :
              /\ outbox[i] \in flush[f].todo
              /\ \A j \in DOMAIN outbox : outbox[j] \in flush[f].todo => i <= j
Current(f) == outbox[Place(f)]
Go(f, pc) == flush' = [flush EXCEPT ![f].pc = pc]
NextEntry(f) ==
  LET rest == flush[f].todo \ {Current(f)} IN
  flush' = [flush EXCEPT ![f] = IF rest = {} THEN AtRest
                                ELSE [pc |-> "claim", todo |-> rest]]

\* Another flush may have the entry, or may have seen it through.
ClaimEntry(f) ==
  LET m == Current(f) IN
  /\ At(f, "claim")
  /\ IF entry[m].status = "gone" \/ (entry[m].status = "CLAIMED" /\ entry[m].fresh)
       THEN NextEntry(f) /\ UNCHANGED entry
       ELSE /\ entry' = [entry EXCEPT ![m] = [status |-> "CLAIMED", fresh |-> TRUE]]
            /\ Go(f, "send")
  /\ UNCHANGED <<outbox, created, chain, wire, applied, obPlan>>

SyncOperation(f) ==
  /\ At(f, "send")
  /\ Handle(Current(f))
  /\ Go(f, IF Accepts(Current(f)) THEN "ok" ELSE "failed")
  /\ UNCHANGED <<outbox, entry, wire, obPlan>>

\* The request fails: it arrives later, never, or its answer is lost.
RequestFails(f) ==
  /\ flush[f].pc \in {"send", "ok"} /\ Spend("faults")
  /\ Go(f, "failed")
  /\ \/ UNCHANGED wire
     \/ At(f, "send") /\ wire' = wire \cup {Current(f)}
  /\ UNCHANGED <<outbox, entry, created, chain, applied>>

\* Mutant: any answer of the server counts as success.
AcknowledgeAny(f) ==
  LET m == Current(f) IN
  /\ flush[f].pc \in {"ok", "failed"}
  /\ entry' = [entry EXCEPT ![m] = [status |-> "gone", fresh |-> FALSE]]
  /\ NextEntry(f)
  /\ UNCHANGED <<outbox, created, chain, wire, applied, obPlan>>

AcknowledgeIntent(f) ==
  LET m == Current(f) IN
  /\ At(f, "ok")
  /\ entry' = [entry EXCEPT ![m] = [status |-> "gone", fresh |-> FALSE]]
  /\ NextEntry(f)
  /\ UNCHANGED <<outbox, created, chain, wire, applied, obPlan>>

\* Whoever holds the entry by now.
FailIntent(f) ==
  LET m == Current(f) IN
  /\ At(f, "failed")
  /\ entry' = IF entry[m].status = "gone" THEN entry
              ELSE [entry EXCEPT ![m] = [status |-> "FAILED", fresh |-> FALSE]]
  /\ NextEntry(f)
  /\ UNCHANGED <<outbox, created, chain, wire, applied, obPlan>>

ClaimAges(m) ==
  /\ entry[m].status = "CLAIMED" /\ entry[m].fresh
  /\ IF \E f \in Flush : flush[f].pc \in {"send", "ok", "failed"} /\ Current(f) = m
       THEN Spend("lapses") ELSE UNCHANGED obPlan
  /\ entry' = [entry EXCEPT ![m].fresh = FALSE]
  /\ UNCHANGED <<outbox, flush, created, chain, wire, applied>>

\* The app is killed: what it stored stays, what it sent may still arrive.
AppKilled ==
  LET sent == {Current(f) : f \in {g \in Flush : At(g, "send")}} IN
  /\ \E f \in Flush : flush[f].pc # "idle"
  /\ Spend("faults")
  /\ flush' = [f \in Flush |-> AtRest]
  /\ \E some \in SUBSET sent : wire' = wire \cup some
  /\ UNCHANGED <<outbox, entry, created, chain, applied>>

Flushing(f) == ClaimEntry(f) \/ SyncOperation(f) \/ AcknowledgeIntent(f) \/ FailIntent(f)

OutboxNext ==
  \/ \E m \in Mutation : EnqueueIntent(m) \/ ClaimAges(m) \/ ArriveLate(m)
  \/ \E f \in Flush : LoadPending(f) \/ Flushing(f) \/ RequestFails(f)
  \/ AppKilled

-----------------------------------------------------------------------------
(* Properties.                                                             *)

\* Whatever is lost, delayed, sent twice by overlapping flushes or interrupted,
\* a mutation takes effect once at most, and its entry leaves the outbox only
\* when it has (intent-outbox.ts:4 "durable local outbox").
QueuedOnce ==
  \A m \in Mutation :
    /\ applied[m] <= 1
    /\ entry[m].status = "gone" => applied[m] = 1

OutboxSpec == OutboxInit /\ [][OutboxNext]_outboxVars

\* An intent the user asked for offline is created in the end: no flush that
\* was killed, no claim that was left behind keeps it in the outbox.
QueuedIsCreated ==
  []<>(\A m \in Mutation :
         entry[m].status # "unsent" /\ Plan(m).kind = "CREATE" => m \in created)

-----------------------------------------------------------------------------
(* Observations.                                                           *)

CONSTANTS
  Uploader,            \* calls of flushOutbox, each with the request it makes
  ObservationPlans,    \* bounds: observations, faults
  MAX_OBSERVATIONS,
  MAX_BATCH_SIZE

ASSUME ObservationLimits ==
  /\ {MAX_OBSERVATIONS, MAX_BATCH_SIZE} \subseteq Nat \ {0}
  /\ ObservationPlans \subseteq [observations : Nat, faults : Nat]

VARIABLES
  sequence,   \* the stored counter
  box,        \* the outbox, as the set of its sequence numbers
  upload,     \* per uploader: program counter, batch still to ingest, refused, watermark
  recorded,   \* EdgeObservationRecord rows
  projected,  \* per record: ConnectivityMeasurement rows made of it
  lost,       \* history: numbers evicted, refused, or never stored
  obsLeft     \* bounds left

observationVars == <<sequence, box, upload, recorded, projected, lost, obsLeft>>

NotUploading == [pc |-> "idle", sent |-> {}, todo |-> {}, refused |-> {}, through |-> 0]

ObservationTypeOK ==
  /\ sequence \in Nat
  /\ box \subseteq 1..sequence /\ Cardinality(box) <= MAX_OBSERVATIONS
  /\ upload \in [Uploader ->
       [pc : {"idle", "check", "create", "project", "answer", "ack", "refuse"},
        sent : SUBSET (1..sequence), todo : SUBSET (1..sequence),
        refused : SUBSET (1..sequence), through : 0..sequence]]
  /\ recorded \subseteq 1..sequence /\ lost \subseteq 1..sequence
  /\ projected \in [1..sequence -> Nat]
  /\ obsLeft \in [observations : Nat, faults : Nat]

ObservationInitOf(bounds) ==
  /\ sequence = 0 /\ box = {} /\ recorded = {} /\ lost = {}
  /\ upload = [f \in Uploader |-> NotUploading]
  /\ projected = << >>
  /\ obsLeft = bounds

ObservationInit == \E bounds \in ObservationPlans : ObservationInitOf(bounds)

Fault == obsLeft.faults > 0 /\ obsLeft' = [obsLeft EXCEPT !.faults = @ - 1]

-----------------------------------------------------------------------------
(* The phone.                                                              *)

Least(set) == CHOOSE n \in set : \A k \in set : n <= k
Later(set, n) == {k \in set : k > n}
NewestOf(set) == {n \in set : Cardinality(Later(set, n)) < MAX_OBSERVATIONS}
OldestOf(set) == {n \in set : Cardinality(set \ Later(set, n)) <= MAX_BATCH_SIZE}

\* allocateSequenceAndEnqueue: the counter is stored, then the outbox without what
\* is too much (and, as a fault would have it, without what is a day old).
RecordObservation ==
  LET n == sequence + 1  kept == NewestOf(box \cup {n}) IN
  /\ obsLeft.observations > 0
  /\ sequence' = n
  /\ projected' = Append(projected, 0)
  /\ \/ /\ box' = kept /\ lost' = lost \cup (box \ kept)
        /\ obsLeft' = [obsLeft EXCEPT !.observations = @ - 1]
     \/ /\ obsLeft.faults > 0 /\ \E old \in box :
             /\ box' = Later(kept, old) /\ lost' = lost \cup (box \ box')
        /\ obsLeft' = [observations |-> obsLeft.observations - 1,
                       faults |-> obsLeft.faults - 1]
  /\ UNCHANGED <<upload, recorded>>

\* The app dies between the two writes, and with it the flushes.
RecordDies ==
  /\ obsLeft.observations > 0 /\ obsLeft.faults > 0
  /\ sequence' = sequence + 1
  /\ projected' = Append(projected, 0)
  /\ lost' = lost \cup {sequence + 1}
  /\ upload' = [f \in Uploader |-> NotUploading]
  /\ obsLeft' = [observations |-> obsLeft.observations - 1, faults |-> obsLeft.faults - 1]
  /\ UNCHANGED <<box, recorded>>

StartUpload(f) ==
  /\ upload[f].pc = "idle" /\ box # {}
  /\ LET batch == OldestOf(box) IN
     upload' = [upload EXCEPT ![f] = [NotUploading EXCEPT !.pc = "check", !.sent = batch,
                                                          !.todo = batch]]
  /\ UNCHANGED <<sequence, box, recorded, projected, lost, obsLeft>>

DropAcknowledged(f) ==
  /\ upload[f].pc = "ack"
  /\ box' = {n \in box : n \notin upload[f].sent \/ n > upload[f].through}
  /\ upload' = [upload EXCEPT ![f].pc = "refuse"]
  /\ UNCHANGED <<sequence, recorded, projected, lost, obsLeft>>

\* "Don't retry poison": also what the server failed to store.
DropRefused(f) ==
  /\ upload[f].pc = "refuse"
  /\ box' = box \ upload[f].refused
  /\ lost' = lost \cup (upload[f].refused \ recorded)
  /\ upload' = [upload EXCEPT ![f] = NotUploading]
  /\ UNCHANGED <<sequence, recorded, projected, obsLeft>>

\* No answer comes: the upload failed, or the app was killed.
UploadFails(f) ==
  /\ upload[f].pc # "idle" /\ Fault
  /\ upload' = [upload EXCEPT ![f] = NotUploading]
  /\ UNCHANGED <<sequence, box, recorded, projected, lost>>

-----------------------------------------------------------------------------
(* The server: ingestEdgeObservationBatch in the order of the batch.       *)

Item(f) == Least(upload[f].todo)
ItemDone(f, refused) ==
  LET rest == upload[f].todo \ {Item(f)} IN
  upload' = [upload EXCEPT ![f].todo = rest, ![f].refused = @ \cup refused,
                           ![f].pc = IF rest = {} THEN "answer" ELSE "check"]

CheckDuplicate(f) ==
  /\ upload[f].pc = "check"
  /\ IF Item(f) \in recorded THEN ItemDone(f, {})
     ELSE upload' = [upload EXCEPT ![f].pc = "create"]
  /\ UNCHANGED <<sequence, box, recorded, projected, lost, obsLeft>>

CreateAgain(f) ==           \* mutant: the loser of the race goes on as if it had won
  /\ upload[f].pc = "create"
  /\ \/ /\ recorded' = recorded \cup {Item(f)}
        /\ upload' = [upload EXCEPT ![f].pc = "project"] /\ UNCHANGED obsLeft
     \/ Fault /\ ItemDone(f, {Item(f)}) /\ UNCHANGED recorded
  /\ UNCHANGED <<sequence, box, projected, lost>>

\* The number is unique: who comes second answers "duplicate". Any other error
\* of the database makes the observation a rejected one.
CreateRecord(f) ==
  /\ upload[f].pc = "create"
  /\ \/ IF Item(f) \in recorded THEN ItemDone(f, {}) /\ UNCHANGED <<recorded, obsLeft>>
        ELSE /\ recorded' = recorded \cup {Item(f)}
             /\ upload' = [upload EXCEPT ![f].pc = "project"] /\ UNCHANGED obsLeft
     \/ Fault /\ ItemDone(f, {Item(f)}) /\ UNCHANGED recorded
  /\ UNCHANGED <<sequence, box, projected, lost>>

\* A measurement that fails does not take the observation back.
Project(f) ==
  /\ upload[f].pc = "project"
  /\ \/ projected' = [projected EXCEPT ![Item(f)] = @ + 1] /\ UNCHANGED obsLeft
     \/ Fault /\ UNCHANGED projected
  /\ ItemDone(f, {})
  /\ UNCHANGED <<sequence, box, recorded, lost>>

\* computeContiguousThroughSequence.
HighestRecorded ==          \* mutant: gaps do not stop the watermark
  IF recorded = {} THEN 0 ELSE CHOOSE n \in recorded : \A k \in recorded : k <= n
ContiguousThrough == Least({n \in 0..sequence : n + 1 \notin recorded})

AnswerBatch(f) ==
  /\ upload[f].pc = "answer"
  /\ upload' = [upload EXCEPT ![f].pc = "ack", ![f].through = ContiguousThrough]
  /\ UNCHANGED <<sequence, box, recorded, projected, lost, obsLeft>>

Uploading(f) == \/ CheckDuplicate(f) \/ CreateRecord(f) \/ Project(f) \/ AnswerBatch(f)
                \/ DropAcknowledged(f) \/ DropRefused(f)

ObservationNext ==
  \/ RecordObservation \/ RecordDies
  \/ \E f \in Uploader : StartUpload(f) \/ Uploading(f) \/ UploadFails(f)

-----------------------------------------------------------------------------
(* Properties.                                                             *)

\* Flushes that overlap and answers that come late or never make the outbox
\* forget nothing that the server has not recorded (edge-ingestion.ts:459 "the
\* client can safely delete"), except what it says of itself: what it evicted,
\* what was refused; and no observation is measured twice.
ForgottenIsRecorded ==
  \A n \in 1..sequence : /\ n \in box \cup recorded \cup lost
                         /\ projected[n] <= 1

ObservationSpec == ObservationInit /\ [][ObservationNext]_observationVars

\* The phone runs both.
PhoneInit == OutboxInit /\ ObservationInit
PhoneNext == \/ OutboxNext /\ UNCHANGED observationVars
             \/ ObservationNext /\ UNCHANGED outboxVars
PhoneSpec == PhoneInit /\ [][PhoneNext]_<<outboxVars, observationVars>>

\* Neither of the phone's outboxes forgets what the server has not taken: a mutation
\* leaves when it had its one effect, an observation when it is recorded.
OutboxesForgetNothing == QueuedOnce /\ ForgottenIsRecorded

\* As long as no number was lost, every stored observation is recorded and leaves
\* the outbox. After a gap it need not: the watermark stays below the gap.
StoredIsDelivered == []<>(box = {} \/ lost # {})
=================================================================================
