--------------------------- MODULE OperationRecovery ---------------------------
(***************************************************************************)
(* The durable record of each provider operation on one binding: started   *)
(* before the router is called, completed after it, and, when the process  *)
(* died or the completion was lost, decided by the recovery job from what  *)
(* the router says.                                                        *)
(*                                                                         *)
(* Source: src/src/lib/observability (incident-lookup,                     *)
(* provider-operation-recovery), src/src/lib/connectivity/providers/       *)
(* mikrotik (adapter, routeros-client, transport).                         *)
(***************************************************************************)
EXTENDS Naturals

CONSTANTS
  Operation,      \* calls of the adapter's provision, suspend, resume and release
  OperationPlans, \* their kinds, the router and the binding they find, the bounds
  Recoverer,      \* runs of recoverStaleProviderOperations
  NoRecoverer     \* recoveryClaimId NULL

ASSUME RecAssumption == \A plan \in OperationPlans :
  /\ plan.router \in {"absent", "inactive", "active"} /\ plan.known \in BOOLEAN
  /\ plan.kind \in [Operation -> {"provision", "suspend", "resume", "release"}]
  /\ plan.bounds \in [slow : Nat, faults : Nat]

VARIABLES
  router,    \* the hotspot user at the router
  known,     \* does the binding hold its id?
  call,      \* per operation: kind, program counter, outcome at hand, and whether
             \* the binding it was given had an id
  record,    \* ProviderOperationRecord of each operation
  run,       \* per recoverer: program counter, record, what it was told
  achieved,  \* history: operations whose goal held at the router since they started
  refused,   \* history: operations that changed nothing at the router
  recLeft    \* bounds left: workers that outlast the threshold; crashes and faults

recVars == <<router, known, call, record, run, achieved, refused, recLeft>>

RouterState == {"absent", "inactive", "active"}
Kind == {"provision", "suspend", "resume", "release"}
Terminal == {"SUCCEEDED", "FAILED_RETRYABLE", "FAILED_PERMANENT", "AMBIGUOUS"}
Truth == {"not_found", "inactive", "active", "unavailable"}

CallRow == [kind : Kind, outcome : Terminal, knew : BOOLEAN,
            pc : {"new", "call", "complete", "done", "dead"}]
RecordRow == [state : Terminal \cup {"none", "STARTED"}, old : BOOLEAN,
              claim : Recoverer \cup {NoRecoverer}, live : BOOLEAN]
RunRow == [pc : {"idle", "query", "store"}, truth : Truth, op : Operation \cup {NoRecoverer}]

RecTypeOK ==
  /\ router \in RouterState /\ known \in BOOLEAN
  /\ call \in [Operation -> CallRow] /\ record \in [Operation -> RecordRow]
  /\ run \in [Recoverer -> RunRow]
  /\ achieved \subseteq Operation /\ refused \subseteq Operation
  /\ recLeft \in [slow : Nat, faults : Nat]

Resting(k) == run' = [run EXCEPT ![k].pc = "idle", ![k].op = NoRecoverer]

RecInitOf(plan) ==
  /\ router = plan.router /\ known = plan.known
  /\ call = [o \in Operation |-> [kind |-> plan.kind[o], outcome |-> "SUCCEEDED",
                                  knew |-> FALSE, pc |-> "new"]]
  /\ record = [o \in Operation |-> [state |-> "none", old |-> FALSE,
                                    claim |-> NoRecoverer, live |-> FALSE]]
  /\ run = [k \in Recoverer |-> [pc |-> "idle", op |-> NoRecoverer, truth |-> "unavailable"]]
  /\ achieved = {} /\ refused = {}
  /\ recLeft = plan.bounds

RecInit == \E plan \in OperationPlans : RecInitOf(plan)

RecFault == recLeft.faults > 0 /\ recLeft' = [recLeft EXCEPT !.faults = @ - 1]

-----------------------------------------------------------------------------
(* An operation of the adapter.                                            *)

\* What an operation is for. A PATCH or DELETE of an absent user answers 404,
\* which the transport takes for a success.
Goal(kind) == CASE kind = "provision" -> {"inactive", "active"}
                [] kind = "suspend"   -> {"absent", "inactive"}
                [] kind = "resume"    -> {"absent", "active"}
                [] kind = "release"   -> {"absent"}

\* createResource takes the user it finds, whatever its state.
CreateResource == IF router = "absent" THEN "active" ELSE router
SuspendResource == IF router = "absent" THEN "absent" ELSE "inactive"
ResumeResource == IF router = "absent" THEN "absent" ELSE "active"
DeleteResource == "absent"

Pending(o) == record[o].state = "STARTED"
GoalSeen == achieved' = achieved \cup
              {o \in Operation : record'[o].state # "none" /\ router' \in Goal(call[o].kind)}
CallAt(o, pc, outcome) == call' = [call EXCEPT ![o].pc = pc, ![o].outcome = outcome,
                                    ![o].knew = IF call[o].pc = "new" THEN known ELSE @]

\* The record comes first, with the binding as it is now ...
Recorded(o) == record' = [record EXCEPT ![o].state = "STARTED"]

\* ... and no record, no operation.
NotRecorded(o) == UNCHANGED record /\ CallAt(o, "done", "FAILED_PERMANENT")

Starts(o, kind, needsId, withoutId) ==
  /\ call[o].pc = "new" /\ call[o].kind = kind
  /\ \/ /\ Recorded(o) /\ UNCHANGED recLeft
        /\ IF known \/ ~needsId
             THEN CallAt(o, "call", "SUCCEEDED") /\ UNCHANGED refused
             ELSE CallAt(o, "complete", withoutId) /\ refused' = refused \cup {o}
     \/ NotRecorded(o) /\ RecFault /\ UNCHANGED refused
  /\ UNCHANGED <<router, known, run>> /\ GoalSeen

\* Without an id there is nothing to suspend or resume, and nothing to release.
StartProvision(o) == Starts(o, "provision", FALSE, "SUCCEEDED")
StartSuspend(o) == Starts(o, "suspend", TRUE, "FAILED_PERMANENT")
StartResume(o) == Starts(o, "resume", TRUE, "FAILED_PERMANENT")
StartRelease(o) == Starts(o, "release", TRUE, "SUCCEEDED")

\* classifyError: a refusal is permanent or worth a retry, a timeout retryable,
\* whether or not the router did what it was asked.
Refusals == {"FAILED_PERMANENT", "FAILED_RETRYABLE"}
TimedOut == "FAILED_RETRYABLE"

AsksRouter(o, kind, after) ==
  /\ call[o].pc = "call" /\ call[o].kind = kind
  /\ \/ /\ router' = after /\ CallAt(o, "complete", "SUCCEEDED")
        /\ UNCHANGED <<refused, recLeft>>
     \/ /\ RecFault /\ UNCHANGED router /\ refused' = refused \cup {o}
        /\ \E outcome \in Refusals : CallAt(o, "complete", outcome)
     \/ /\ RecFault /\ router' = after /\ CallAt(o, "complete", TimedOut)
        /\ UNCHANGED refused
  /\ UNCHANGED <<known, record, run>> /\ GoalSeen

Provision(o) == AsksRouter(o, "provision", CreateResource)
Suspend(o) == AsksRouter(o, "suspend", SuspendResource)
Resume(o) == AsksRouter(o, "resume", ResumeResource)
Release(o) == AsksRouter(o, "release", DeleteResource)

\* completeProviderOperation: only a STARTED record is written, an error of the
\* database is swallowed; the caller then commits a provisioned id.
CompleteProviderOperation(o) ==
  /\ call[o].pc = "complete"
  /\ \/ /\ UNCHANGED recLeft
        /\ record' = IF Pending(o) THEN [record EXCEPT ![o].state = call[o].outcome]
                                   ELSE record
     \/ RecFault /\ UNCHANGED record
  /\ known' = (known \/ (call[o].kind = "provision" /\ call[o].outcome = "SUCCEEDED"))
  /\ CallAt(o, "done", call[o].outcome)
  /\ UNCHANGED <<router, run, achieved, refused>>

WorkerDies(o) ==
  /\ call[o].pc \in {"call", "complete"} /\ RecFault
  /\ CallAt(o, "dead", call[o].outcome)
  /\ refused' = IF call[o].pc = "call" THEN refused \cup {o} ELSE refused
  /\ UNCHANGED <<router, known, record, run, achieved>>

-----------------------------------------------------------------------------
(* Recovery.                                                               *)

\* STARTED_RECOVERY_AFTER_MS goes by; few workers take that long.
RecordAges(o) ==
  LET slow == call[o].pc \in {"call", "complete"} IN
  /\ Pending(o) /\ ~record[o].old /\ (slow => recLeft.slow > 0)
  /\ record' = [record EXCEPT ![o].old = TRUE]
  /\ recLeft' = IF slow THEN [recLeft EXCEPT !.slow = @ - 1] ELSE recLeft
  /\ UNCHANGED <<router, known, call, run, achieved, refused>>

Unclaimed(o) == record[o].claim = NoRecoverer
Expired(o) == ~Unclaimed(o) /\ ~record[o].live

ClaimRecord(k, o) ==
  /\ run[k].pc = "idle"
  /\ Pending(o) /\ record[o].old /\ (Unclaimed(o) \/ Expired(o))
  /\ record' = [record EXCEPT ![o].claim = k, ![o].live = TRUE]
  /\ run' = [run EXCEPT ![k].pc = "query", ![k].op = o]
  /\ UNCHANGED <<router, known, call, achieved, refused, recLeft>>

\* queryProviderTruth: reconcile() answers not_found for a binding without an id
\* and does not ask the router.
QueryProviderTruth(k) ==
  /\ run[k].pc = "query"
  /\ \/ /\ UNCHANGED recLeft
        /\ run' = [run EXCEPT ![k].pc = "store",
                     ![k].truth = IF ~known \/ router = "absent" THEN "not_found" ELSE router]
     \/ /\ RecFault
        /\ run' = [run EXCEPT ![k].pc = "store", ![k].truth = "unavailable"]
  /\ UNCHANGED <<router, known, call, record, achieved, refused>>

ClassifyLeniently(kind, truth) ==  \* mutant: a resource that exists is a success
  CASE truth = "unavailable" -> "STARTED"
    [] truth = "not_found"   -> CASE kind = "release"   -> "SUCCEEDED"
                                  [] kind = "provision" -> "FAILED_PERMANENT"
                                  [] OTHER              -> "AMBIGUOUS"
    [] OTHER                 -> "SUCCEEDED"

ClassifyCautiously(kind, truth) ==  \* mutant: a missing resource decides nothing
  CASE truth = "unavailable" -> "STARTED"
    [] truth = "not_found"   -> CASE kind = "release"   -> "SUCCEEDED"
                                  [] kind = "provision" -> "FAILED_PERMANENT"
                                  [] OTHER              -> "STARTED"
    [] truth = "active" /\ kind = "suspend" -> "FAILED_RETRYABLE"
    [] kind = "release"                     -> "FAILED_RETRYABLE"
    [] OTHER                                -> "SUCCEEDED"

\* classifyTruthResult; STARTED: not terminal.
ClassifyTruthResult(kind, truth) ==
  CASE truth = "unavailable" -> "STARTED"
    [] truth = "not_found"   -> CASE kind = "release"   -> "SUCCEEDED"
                                  [] kind = "provision" -> "FAILED_PERMANENT"
                                  [] OTHER              -> "AMBIGUOUS"
    [] truth = "active" /\ kind = "suspend" -> "FAILED_RETRYABLE"
    [] kind = "release"                     -> "FAILED_RETRYABLE"
    [] OTHER                                -> "SUCCEEDED"

\* The fenced update: the verdict, or only the claim given back; an error of it
\* gives the claim back too.
StoreTruth(k) ==
  LET o == run[k].op
      verdict == ClassifyTruthResult(call[o].kind, run[k].truth) IN
  /\ run[k].pc = "store"
  /\ \E state \in {verdict, "STARTED"} :
       /\ IF state = verdict THEN UNCHANGED recLeft ELSE RecFault
       /\ record' = IF Pending(o) /\ record[o].claim = k
                      THEN [record EXCEPT ![o].state = state, ![o].claim = NoRecoverer,
                                          ![o].live = FALSE]
                      ELSE record
  /\ Resting(k)
  /\ UNCHANGED <<router, known, call, achieved, refused>>

RecovererDies(k) ==
  /\ run[k].pc # "idle" /\ RecFault
  /\ Resting(k)
  /\ UNCHANGED <<router, known, call, record, achieved, refused>>

RecoveryLeaseLapses(o) ==
  LET alive == \E k \in Recoverer : run[k].op = o /\ record[o].claim = k IN
  /\ ~Unclaimed(o) /\ record[o].live /\ (alive => recLeft.slow > 0)
  /\ record' = [record EXCEPT ![o].live = FALSE]
  /\ recLeft' = IF alive THEN [recLeft EXCEPT !.slow = @ - 1] ELSE recLeft
  /\ UNCHANGED <<router, known, call, run, achieved, refused>>

ReclaimExpiredRecoveryClaims ==
  /\ \E o \in Operation : Pending(o) /\ Expired(o)
  /\ record' = [o \in Operation |-> IF Pending(o) /\ Expired(o)
                  THEN [record[o] EXCEPT !.claim = NoRecoverer] ELSE record[o]]
  /\ UNCHANGED <<router, known, call, run, achieved, refused, recLeft>>

Recovering(k) == \/ \E o \in Operation : ClaimRecord(k, o)
                 \/ QueryProviderTruth(k) \/ StoreTruth(k)
Passing(o) == RecordAges(o) \/ RecoveryLeaseLapses(o)

RecNext ==
  \/ \E o \in Operation : \/ StartProvision(o) \/ StartSuspend(o) \/ StartResume(o)
                          \/ StartRelease(o) \/ Provision(o) \/ Suspend(o) \/ Resume(o)
                          \/ Release(o) \/ CompleteProviderOperation(o)
                          \/ WorkerDies(o) \/ Passing(o)
  \/ \E k \in Recoverer : Recovering(k) \/ RecovererDies(k)
  \/ ReclaimExpiredRecoveryClaims

RecSpec == RecInit /\ [][RecNext]_recVars

-----------------------------------------------------------------------------
(* Properties.                                                             *)

\* A verdict is true, whoever gave it and however often the worker, the job and
\* other operations crossed each other: SUCCEEDED means that the router had what
\* was asked for at some time since the start, FAILED_PERMANENT that the call
\* changed nothing ("It MUST NOT mean: FAILED, SUCCEEDED", provider-operation-
\* recovery.ts:13). Excepted are the verdicts the code gives without knowing: any
\* resume found to exist and any release of a binding without an id succeeded, and
\* a provision failed whose user has gone since or whose id was never committed.
VerdictIsTrue == \A o \in Operation :
  LET kind == call[o].kind IN
  /\ record[o].state = "SUCCEEDED" => \/ o \in achieved \/ kind = "resume"
                                      \/ kind = "release" /\ ~call[o].knew
  /\ record[o].state = "FAILED_PERMANENT" => o \in refused \/ kind = "provision"

\* A verdict is final: a late worker does not replace what recovery wrote, nor a
\* late recovery what the worker wrote (incident-lookup.ts:1172 "state: STARTED").
VerdictIsFinal ==
  [][\A o \in Operation : record[o].state \in Terminal =>
                            record'[o].state = record[o].state]_recVars

\* No record stays STARTED after its operation ended, for whatever reason.
StartedSettles ==
  []<>(\A o \in Operation : call[o].pc \in {"done", "dead"} => ~Pending(o))

\* A record gets one verdict, and gets it sooner or later.
VerdictComesOnce == VerdictIsFinal /\ StartedSettles
===============================================================================
