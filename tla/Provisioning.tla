------------------------------ MODULE Provisioning ------------------------------
(***************************************************************************)
(* The provisioning of ONE provider resource binding: the row's state      *)
(* machine, the claim with its attempt identity and lease, the provider    *)
(* call with its heartbeat and timeout, the recovery worker, the           *)
(* observation-driven reconciliation and the operator's transitions.       *)
(*                                                                         *)
(* Source: src/src/lib/connectivity/entitlement.ts (the kernel) and        *)
(* src/src/lib/connectivity/providers/mikrotik (adapter, RouterOS client). *)
(* One database statement, one provider request, one timer is one step; a  *)
(* process may be anywhere between two of them when another one moves.     *)
(***************************************************************************)
EXTENDS Naturals, FiniteSets

CONSTANTS
  Worker,        \* calls of provisionBinding / reconcileProvisioning
  Lease,         \* provisioningLeaseMs
  Heartbeat,     \* provisioningHeartbeatIntervalMs
  OpTimeout,     \* providerOperationTimeoutMs
  None,          \* a NULL column
  Punctual,      \* TRUE: no statement or timer of a live worker is overdue
  Reconciler,    \* TRUE: reconcileBindingWithProvider also runs
  OperatorMoves, \* the <<from, to>> pairs tenant operators ask for
  MaxClock, MaxFaults, MaxCrashes, MaxExternal   \* bounds of an instance

BindingState ==
  {"UNBOUND", "PROVISIONING", "BOUND", "DEGRADED", "FAILED", "RELEASED"}

BINDING_TRANSITIONS ==
  [s \in BindingState |->
     CASE s = "UNBOUND"      -> {"PROVISIONING", "FAILED"}
       [] s = "PROVISIONING" -> {"BOUND", "FAILED"}
       [] s = "BOUND"        -> {"DEGRADED", "FAILED", "RELEASED"}
       [] s = "DEGRADED"     -> {"BOUND", "FAILED", "RELEASED"}
       [] s = "FAILED"       -> {"PROVISIONING", "RELEASED"}
       [] s = "RELEASED"     -> {}]

\* The kernel keeps a second, separate matrix for reconciliation.
RECONCILIATION_LEGAL_TRANSITIONS ==
  [s \in BindingState |->
     CASE s = "BOUND"        -> {"DEGRADED", "FAILED", "RELEASED"}
       [] s = "DEGRADED"     -> {"BOUND", "FAILED", "RELEASED"}
       [] s = "PROVISIONING" -> {"BOUND", "FAILED"}
       [] s = "UNBOUND"      -> {"PROVISIONING", "FAILED"}
       [] s = "FAILED"       -> {"PROVISIONING", "RELEASED"}
       [] s = "RELEASED"     -> {}]

ASSUME TimingAssumption ==
  /\ Lease \in Nat /\ Heartbeat \in Nat \ {0} /\ OpTimeout \in Nat
  /\ Heartbeat < Lease /\ OpTimeout < Lease
ASSUME BoundAssumption ==
  MaxClock \in Nat /\ MaxFaults \in Nat /\ MaxCrashes \in Nat /\ MaxExternal \in Nat
ASSUME NoneAssumption == None \notin Nat
ASSUME ModeAssumption == Punctual \in BOOLEAN /\ Reconciler \in BOOLEAN

VARIABLES
  row,          \* ProviderResourceBinding
  router,       \* the hotspot user of this binding's username at the router
  wire,         \* PUTs sent whose sender gave up before the router saw them
  clock,
  nextAttempt,  \* attempt identities not generated yet start here
  wk,           \* a worker's program counter and locals
  op,           \* a worker's provider call, which outlives its timeout
  rec,          \* the one reconcileBindingWithProvider call
  settled,      \* history: attempts whose finalization was applied
  spent         \* how much of each bound is used

vars == <<row, router, wire, clock, nextAttempt, wk, op, rec, settled, spent>>

Recon == {"RECONCILED", "RECONCILIATION_REQUIRED", "MANUAL_INTERVENTION_REQUIRED"}
Outcome == {"success", "failed", "already_provisioned", "already_healthy",
            "claim_lost", "threw"}
Pc == {"idle", "resolve", "claim", "claimRead", "takeover", "verify", "running",
       "finalize", "finalizeFail", "catchFail", "done"}
Beating == {"running", "finalize", "finalizeFail", "catchFail"}
Stage == {"none", "getId", "get", "getAgain", "put", "conflict", "uncertain",
          "put2", "ok", "fail"}

Idle == [pc |-> "idle", att |-> None, snap |-> None, seen |-> None, t0 |-> 0,
         started |-> 0, beat |-> 0, hb |-> None, lost |-> FALSE, ret |-> None]
NoCall == [stage |-> "none", id |-> None]
NoRec == [pc |-> "idle", status |-> "UNBOUND", resource |-> None, result |-> None]

OrNone(S) == S \cup {None}

Binding == [status : BindingState, attempt : OrNone(Nat), expires : OrNone(Nat),
            resource : OrNone(Nat), recon : OrNone(Recon)]
Local == [pc : Pc, att : OrNone(Nat), snap : OrNone(Nat), seen : OrNone(Nat),
          t0 : Nat, started : Nat, beat : Nat, hb : OrNone(Nat), lost : BOOLEAN,
          ret : OrNone(Outcome)]
Call == [stage : Stage, id : OrNone(Nat)]
Observation == [pc : {"idle", "snapshot", "observed"}, status : BindingState,
                resource : OrNone(Nat),
                result : OrNone({"in_sync", "drift_detected", "resource_missing",
                                 "failed_retryable", "failed_permanent"})]

TypeOK ==
  /\ row \in Binding
  /\ router \in [id : OrNone(Nat), active : BOOLEAN, next : Nat]
  /\ wire \in Nat /\ clock \in Nat /\ nextAttempt \in Nat
  /\ wk \in [Worker -> Local]
  /\ op \in [Worker -> Call]
  /\ rec \in Observation
  /\ settled \in SUBSET Nat
  /\ spent \in [faults : Nat, crashes : Nat, external : Nat]

Init ==
  /\ row = [status |-> "UNBOUND", attempt |-> None, expires |-> None,
            resource |-> None, recon |-> None]
  /\ router = [id |-> None, active |-> FALSE, next |-> 0]
  /\ wire = 0 /\ clock = 0 /\ nextAttempt = 0
  /\ wk = [w \in Worker |-> Idle]
  /\ op = [w \in Worker |-> NoCall]
  /\ rec = NoRec
  /\ settled = {}
  /\ spent = [faults |-> 0, crashes |-> 0, external |-> 0]

-----------------------------------------------------------------------------
\* Steps of a worker

Locals(w, r) == wk' = [wk EXCEPT ![w] = r]
Goto(w, pc) == Locals(w, [wk[w] EXCEPT !.pc = pc])
\* Returning stops the heartbeat; the call's result, if any, is consumed.
\* (A local nobody reads any more goes back to its initial value.)
Return(w, outcome) ==
  /\ Locals(w, [Idle EXCEPT !.pc = "done", !.ret = outcome])
  /\ op' = [op EXCEPT ![w] = IF @.stage \in {"ok", "fail"} THEN NoCall ELSE @]

Fault == /\ spent.faults < MaxFaults
         /\ spent' = [spent EXCEPT !.faults = @ + 1]

ExpiredOnlyNull(e, now) == e = None      \* mutant: a passed lease still blocks
LeaseForgotten(now) == now               \* mutant: the claim expires at once

Expired(e, now) == e = None \/ e < now   \* the takeover's WHERE
Active(e, now) == e # None /\ e > now    \* "another worker owns it"
LeaseFrom(now) == now + Lease

\* A caller asks for provisioning (fulfilment, kernel bridge).
ProvisionBinding(w) ==
  /\ wk[w].pc = "idle" /\ op[w] = NoCall
  /\ Goto(w, "resolve")
  /\ UNCHANGED <<row, router, wire, clock, nextAttempt, op, rec, settled, spent>>

\* The recovery worker looks at the row first and leaves a healthy one alone.
ReconcileProvisioning(w) ==
  /\ wk[w].pc = "idle" /\ op[w] = NoCall
  /\ IF \/ row.status = "BOUND"
        \/ row.status = "PROVISIONING" /\ Active(row.expires, clock)
       THEN Return(w, "already_healthy")
       ELSE Goto(w, "resolve") /\ UNCHANGED op
  /\ UNCHANGED <<row, router, wire, clock, nextAttempt, rec, settled, spent>>

\* resolveBindingRuntime may throw; a BOUND snapshot is an idempotent success.
\* Otherwise claimProvisioning starts, and reads its clock at once.
Resolve(w) ==
  /\ wk[w].pc = "resolve"
  /\ \/ Fault /\ Return(w, "threw")
     \/ /\ row.status = "BOUND"
        /\ Return(w, "already_provisioned") /\ UNCHANGED spent
     \/ /\ row.status # "BOUND"
        /\ Locals(w, [wk[w] EXCEPT !.pc = "claim", !.snap = row.resource,
                                   !.t0 = clock])
        /\ UNCHANGED <<op, spent>>
  /\ UNCHANGED <<row, router, wire, clock, nextAttempt, rec, settled>>

\* A granted claim stamps a fresh attempt and a lease counted from t0.
Granted(w) ==
  /\ nextAttempt' = nextAttempt + 1
  /\ Locals(w, [wk[w] EXCEPT !.pc = "verify", !.att = nextAttempt,
                             !.seen = None, !.t0 = 0])
  /\ UNCHANGED op

ClaimUnbound(w) ==
  /\ wk[w].pc = "claim"
  /\ IF row.status = "UNBOUND"
       THEN /\ row' = [row EXCEPT !.status = "PROVISIONING",
                                  !.attempt = nextAttempt,
                                  !.expires = LeaseFrom(wk[w].t0)]
            /\ Granted(w)
       ELSE Goto(w, "claimRead") /\ UNCHANGED <<row, nextAttempt, op>>
  /\ UNCHANGED <<router, wire, clock, rec, settled, spent>>

ClaimRead(w) ==
  /\ wk[w].pc = "claimRead"
  /\ IF row.status # "PROVISIONING" \/ Active(row.expires, wk[w].t0)
       THEN Return(w, "claim_lost")
       ELSE /\ Locals(w, [wk[w] EXCEPT !.pc = "takeover", !.seen = row.attempt])
            /\ UNCHANGED op
  /\ UNCHANGED <<row, router, wire, clock, nextAttempt, rec, settled, spent>>

MayTakeOver(w) ==
  /\ row.status = "PROVISIONING"
  /\ row.attempt = wk[w].seen
  /\ Expired(row.expires, wk[w].t0)

TakeOver(w) ==
  /\ wk[w].pc = "takeover"
  /\ IF MayTakeOver(w)
       THEN /\ row' = [row EXCEPT !.attempt = nextAttempt,
                                  !.expires = LeaseFrom(wk[w].t0),
                                  !.recon = "RECONCILIATION_REQUIRED"]
            /\ Granted(w)
       ELSE Return(w, "claim_lost") /\ UNCHANGED <<row, nextAttempt>>
  /\ UNCHANGED <<router, wire, clock, rec, settled, spent>>

OwnsByStatus(w) == row.status = "PROVISIONING"   \* mutant: no attempt fence

\* The attempt is still the row's: the WHERE of every owner's update.
Owns(w) == row.status = "PROVISIONING" /\ row.attempt = wk[w].att

VerifyOwnership(w) ==
  /\ wk[w].pc = "verify"
  /\ IF Owns(w) /\ ~(row.expires # None /\ row.expires < clock)
       THEN /\ Locals(w, [wk[w] EXCEPT !.pc = "running", !.started = clock,
                                       !.beat = clock + Heartbeat])
            /\ op' = [op EXCEPT ![w] = [stage |-> IF wk[w].snap = None
                                                    THEN "get" ELSE "getId",
                                        id |-> None]]
       ELSE Return(w, "claim_lost")
  /\ UNCHANGED <<row, router, wire, clock, nextAttempt, rec, settled, spent>>

\* setInterval fires; the extension captures its clock, unless one is in flight.
HeartbeatFires(w) ==
  /\ wk[w].pc \in Beating /\ clock >= wk[w].beat
  /\ Locals(w, [wk[w] EXCEPT !.hb = IF @ = None THEN clock ELSE @,
                             !.beat = clock + Heartbeat])
  /\ UNCHANGED <<row, router, wire, clock, nextAttempt, op, rec, settled, spent>>

\* ... and the UPDATE reaches the database, or the query fails harmlessly.
ExtendLease(w) ==
  /\ wk[w].pc \in Beating /\ wk[w].hb # None
  /\ \/ /\ Owns(w) /\ Active(row.expires, wk[w].hb)
        /\ row' = [row EXCEPT !.expires = LeaseFrom(wk[w].hb)]
        /\ Locals(w, [wk[w] EXCEPT !.hb = None]) /\ UNCHANGED spent
     \/ /\ ~(Owns(w) /\ Active(row.expires, wk[w].hb))
        /\ Locals(w, [wk[w] EXCEPT !.hb = None, !.lost = TRUE])
        /\ UNCHANGED <<row, spent>>
     \/ /\ Fault /\ Locals(w, [wk[w] EXCEPT !.hb = None]) /\ UNCHANGED row
  /\ UNCHANGED <<router, wire, clock, nextAttempt, op, rec, settled>>

-----------------------------------------------------------------------------
\* The provider call: adapter.provision and createResource. The router keeps
\* usernames unique, so a PUT of a name that exists answers 409.

CreateIfAbsent ==
  router' = IF router.id = None
              THEN [id |-> router.next, active |-> TRUE, next |-> router.next + 1]
              ELSE router

\* A call whose worker stopped waiting has nobody to tell its outcome to.
Ends(w, stage, id) ==
  op' = [op EXCEPT ![w] = IF wk[w].pc = "running"
                            THEN [stage |-> stage, id |-> id] ELSE NoCall]
Next_(w, stage) == op' = [op EXCEPT ![w].stage = stage]

\* GET by id, when the binding already names a resource; gone means create.
GetById(w) ==
  /\ op[w].stage = "getId"
  /\ \/ Fault /\ Ends(w, "fail", None)
     \/ /\ IF router.id # None /\ router.id = wk[w].snap
             THEN Ends(w, "ok", router.id) ELSE Next_(w, "get")
        /\ UNCHANGED spent
  /\ UNCHANGED <<row, router, wire, clock, nextAttempt, wk, rec, settled>>

\* GET by username. A transient failure is retried once; then fail closed.
LookUp(w) ==
  /\ op[w].stage \in {"get", "getAgain"}
  /\ \/ Fault /\ op[w].stage = "get" /\ Next_(w, "getAgain")
     \/ Fault /\ Ends(w, "fail", None)
     \/ /\ IF router.id # None THEN Ends(w, "ok", router.id) ELSE Next_(w, "put")
        /\ UNCHANGED spent
  /\ UNCHANGED <<row, router, wire, clock, nextAttempt, wk, rec, settled>>

ConvergeOnTrust(w) ==   \* mutant: a failed GET counts as "created"
  /\ op[w].stage \in {"conflict", "uncertain"}
  /\ \/ Fault /\ Ends(w, "ok", router.next)
     \/ router.id # None /\ Ends(w, "ok", router.id) /\ UNCHANGED spent
  /\ UNCHANGED <<row, router, wire, clock, nextAttempt, wk, rec, settled>>

\* A PUT with no usable answer was applied, is still on the wire, or is lost.
PutUncertain ==
  Fault /\ \/ CreateIfAbsent /\ UNCHANGED wire
           \/ wire' = wire + 1 /\ UNCHANGED router
           \/ UNCHANGED <<router, wire>>

Put(w) ==
  /\ op[w].stage = "put"
  /\ \/ /\ router.id = None /\ CreateIfAbsent
        /\ Ends(w, "ok", router.next) /\ UNCHANGED <<wire, spent>>
     \/ /\ router.id # None
        /\ Next_(w, "conflict") /\ UNCHANGED <<router, wire, spent>>
     \/ PutUncertain /\ Next_(w, "uncertain")
     \/ Fault /\ Ends(w, "fail", None) /\ UNCHANGED <<router, wire>>
  /\ UNCHANGED <<row, clock, nextAttempt, wk, rec, settled>>

\* After a 409 or an uncertain PUT, a GET decides. Only absence after an
\* uncertain PUT permits the second PUT.
Converge(w) ==
  /\ op[w].stage \in {"conflict", "uncertain"}
  /\ \/ Fault /\ Ends(w, "fail", None)
     \/ /\ router.id # None /\ Ends(w, "ok", router.id) /\ UNCHANGED spent
     \/ /\ router.id = None /\ UNCHANGED spent
        /\ IF op[w].stage = "conflict" THEN Ends(w, "fail", None)
                                       ELSE Next_(w, "put2")
  /\ UNCHANGED <<row, router, wire, clock, nextAttempt, wk, rec, settled>>

\* The second PUT has no convergence of its own: every error is thrown.
PutAgain(w) ==
  /\ op[w].stage = "put2"
  /\ \/ /\ router.id = None /\ CreateIfAbsent
        /\ Ends(w, "ok", router.next) /\ UNCHANGED <<wire, spent>>
     \/ /\ router.id # None
        /\ Ends(w, "fail", None) /\ UNCHANGED <<router, wire, spent>>
     \/ PutUncertain /\ Ends(w, "fail", None)
  /\ UNCHANGED <<row, clock, nextAttempt, wk, rec, settled>>

LatePut ==
  /\ wire > 0 /\ wire' = wire - 1
  /\ CreateIfAbsent
  /\ UNCHANGED <<row, clock, nextAttempt, wk, op, rec, settled, spent>>

-----------------------------------------------------------------------------
\* Promise.race and the claim-guarded finalization

ProviderReturns(w) ==
  /\ wk[w].pc = "running" /\ op[w].stage \in {"ok", "fail"}
  /\ IF wk[w].lost
       THEN Return(w, "claim_lost")
       ELSE /\ Locals(w, [wk[w] EXCEPT !.started = 0,
                 !.pc = IF op[w].stage = "ok" THEN "finalize" ELSE "finalizeFail"])
            /\ UNCHANGED op
  /\ UNCHANGED <<row, router, wire, clock, nextAttempt, rec, settled, spent>>

\* The timeout rejects the race: the catch block records FAILED.
TimeoutFires(w) ==
  /\ wk[w].pc = "running" /\ op[w].stage \notin {"ok", "fail"}
  /\ clock >= wk[w].started + OpTimeout
  /\ Locals(w, [wk[w] EXCEPT !.pc = "catchFail", !.started = 0])
  /\ UNCHANGED <<row, router, wire, clock, nextAttempt, op, rec, settled, spent>>

FinalizeProgress(w, to, res) ==   \* mutant: provisioningState into status
  IF Owns(w)
    THEN row' = [row EXCEPT !.status = "COMPLETED"] /\ settled' = settled
    ELSE UNCHANGED <<row, settled>>

ClaimGuardedTransition(w, to, res) ==
  IF Owns(w)
    THEN /\ row' = [status |-> to, attempt |-> None, expires |-> None,
                    resource |-> res, recon |-> None]
         /\ settled' = settled \cup {wk[w].att}
    ELSE UNCHANGED <<row, settled>>

\* The statement may fail before or after it is applied; the try block's
\* failure falls into the catch block, the catch block's own leaves the call.
Finalize(w, to, res, outcome) ==
  \/ /\ ClaimGuardedTransition(w, to, res)
     /\ Return(w, IF Owns(w) THEN outcome ELSE "claim_lost") /\ UNCHANGED spent
  \/ /\ Fault
     /\ \/ UNCHANGED <<row, settled>>
        \/ ClaimGuardedTransition(w, to, res)
     /\ IF wk[w].pc = "catchFail" THEN Return(w, "threw")
                                  ELSE Goto(w, "catchFail") /\ UNCHANGED op

FinalizeSuccess(w) ==
  /\ wk[w].pc = "finalize"
  /\ Finalize(w, "BOUND", op[w].id, "success")
  /\ UNCHANGED <<router, wire, clock, nextAttempt, rec>>

FinalizeFailure(w) ==
  /\ wk[w].pc \in {"finalizeFail", "catchFail"}
  /\ Finalize(w, "FAILED", row.resource, "failed")
  /\ UNCHANGED <<router, wire, clock, nextAttempt, rec>>

CallerReads(w) ==
  /\ wk[w].pc = "done"
  /\ Locals(w, Idle)
  /\ UNCHANGED <<row, router, wire, clock, nextAttempt, op, rec, settled, spent>>

-----------------------------------------------------------------------------
\* reconcileBindingWithProvider: snapshot, observe, commit if the status is
\* the one observed.

AdapterReconcile(status, res) ==
  CASE res = None                               -> "in_sync"
    [] res # None /\ router.id # res            -> "resource_missing"
    [] res # None /\ router.id = res
       /\ ~router.active /\ status = "BOUND"    -> "drift_detected"
    [] OTHER                                    -> "in_sync"

IsLegalAlways(from, to) == TRUE   \* mutant: the adapter's word is taken

IsLegal(from, to) == to \in RECONCILIATION_LEGAL_TRANSITIONS[from]

\* The kernel's decision: the state to move to, and the durable marker.
MapReconciliationResult(status, result) ==
  LET to == IF result = "drift_detected" THEN "DEGRADED" ELSE "FAILED"
      moves == /\ result \in {"drift_detected", "resource_missing", "failed_permanent"}
               /\ IsLegal(status, to)
  IN [target |-> IF moves THEN to ELSE status,
      recon  |-> CASE result = "in_sync"          -> "RECONCILED"
                   [] result = "failed_retryable" -> "RECONCILIATION_REQUIRED"
                   [] result = "failed_permanent" -> "MANUAL_INTERVENTION_REQUIRED"
                   [] OTHER -> IF moves THEN "RECONCILED"
                                        ELSE "MANUAL_INTERVENTION_REQUIRED"]

RecSnapshot ==
  /\ Reconciler /\ rec.pc = "idle"
  /\ rec' = [pc |-> "snapshot", status |-> row.status, resource |-> row.resource,
             result |-> None]
  /\ UNCHANGED <<row, router, wire, clock, nextAttempt, wk, op, settled, spent>>

\* A provider error is classified; a failing audit insert is failed_permanent.
RecObserve ==
  /\ rec.pc = "snapshot"
  /\ \E result \in {AdapterReconcile(rec.status, rec.resource),
                    "failed_retryable", "failed_permanent"} :
       /\ IF result \in {"failed_retryable", "failed_permanent"}
            THEN Fault ELSE UNCHANGED spent
       /\ rec' = [rec EXCEPT !.pc = "observed", !.result = result]
  /\ UNCHANGED <<row, router, wire, clock, nextAttempt, wk, op, settled>>

RecCommit ==
  /\ rec.pc = "observed" /\ rec' = NoRec
  /\ LET d == MapReconciliationResult(rec.status, rec.result)
     IN row' = IF row.status = rec.status
                 THEN [row EXCEPT !.status = d.target, !.recon = d.recon]
                 ELSE row
  /\ UNCHANGED <<router, wire, clock, nextAttempt, wk, op, settled, spent>>

-----------------------------------------------------------------------------
\* The rest of the world

\* transitionBinding: legal moves only, guarded by the status it read. The
\* attempt and its lease stay on the row.
TransitionBinding ==
  /\ \E to \in BINDING_TRANSITIONS[row.status] :
       /\ <<row.status, to>> \in OperatorMoves
       /\ row' = [row EXCEPT !.status = to]
  /\ UNCHANGED <<router, wire, clock, nextAttempt, wk, op, rec, settled, spent>>

\* A process dies; what it had put on the wire may still arrive.
Crash(w) ==
  /\ wk[w].pc # "idle" \/ op[w] # NoCall
  /\ spent.crashes < MaxCrashes
  /\ spent' = [spent EXCEPT !.crashes = @ + 1]
  /\ Locals(w, Idle) /\ op' = [op EXCEPT ![w] = NoCall]
  /\ \/ UNCHANGED wire
     \/ op[w].stage \in {"put", "put2"} /\ wire' = wire + 1
  /\ UNCHANGED <<row, router, clock, nextAttempt, rec, settled>>

\* Somebody deletes, disables or enables the user at the router.
RouterChanges ==
  /\ router.id # None /\ spent.external < MaxExternal
  /\ spent' = [spent EXCEPT !.external = @ + 1]
  /\ \/ router' = [router EXCEPT !.id = None, !.active = FALSE]
     \/ router' = [router EXCEPT !.active = ~@]
  /\ UNCHANGED <<row, wire, clock, nextAttempt, wk, op, rec, settled>>

Overdue(w) ==
  \/ wk[w].pc \notin {"idle", "done", "running"}
  \/ /\ wk[w].pc \in Beating
     /\ wk[w].hb # None \/ clock >= wk[w].beat
  \/ /\ wk[w].pc = "running"
     /\ op[w].stage \in {"ok", "fail"} \/ clock >= wk[w].started + OpTimeout

Tick ==
  /\ clock < MaxClock
  /\ Punctual => \A w \in Worker : ~Overdue(w)
  /\ clock' = clock + 1
  /\ UNCHANGED <<row, router, wire, nextAttempt, wk, op, rec, settled, spent>>

-----------------------------------------------------------------------------
Claiming(w) == \/ ProvisionBinding(w) \/ ReconcileProvisioning(w) \/ Resolve(w)
               \/ ClaimUnbound(w) \/ ClaimRead(w) \/ TakeOver(w)
               \/ VerifyOwnership(w)
Calling(w) == \/ GetById(w) \/ LookUp(w) \/ Put(w) \/ Converge(w) \/ PutAgain(w)
Waiting(w) == \/ HeartbeatFires(w) \/ ExtendLease(w) \/ ProviderReturns(w)
              \/ TimeoutFires(w) \/ FinalizeSuccess(w) \/ FinalizeFailure(w)
              \/ CallerReads(w)
Reconciling == RecSnapshot \/ RecObserve \/ RecCommit
Environment == \/ LatePut \/ TransitionBinding \/ RouterChanges \/ Tick

Next == \/ \E w \in Worker : Claiming(w) \/ Calling(w) \/ Waiting(w) \/ Crash(w)
        \/ Reconciling
        \/ Environment

Spec == Init /\ [][Next]_vars

\* What the process provides while it lives: its statements, its requests and
\* its timers get their turn. Somebody keeps re-driving recovery: src/ has no
\* schedule for it, so this is the deployment's part. Only finitely many calls
\* fit between two clock readings, so time reaches the horizon.
Fairness ==
  /\ \A w \in Worker : WF_vars(Claiming(w)) /\ WF_vars(Calling(w)) /\ WF_vars(Waiting(w))
  /\ <>(clock = MaxClock)

FairSpec == Spec /\ Fairness

-----------------------------------------------------------------------------
\* Safety

\* Whatever path moves the binding (claim, finalization, reconciliation,
\* operator), and whatever it interleaves with, the move is one that
\* BINDING_TRANSITIONS allows (entitlement.ts:99 "Any transition not listed
\* here is rejected").
LegalTransitions ==
  [][row'.status # row.status => row'.status \in BINDING_TRANSITIONS[row.status]]_vars

\* Nobody meddling at the router, a binding that customers may use names the
\* resource the router has, through timeouts, uncertain and late PUTs, crashes
\* and takeovers (entitlement.ts:2031-2048, scenarios A to D).
BoundMeansProvisioned ==
  row.status \in {"BOUND", "DEGRADED"} /\ spent.external = 0
    => row.resource # None /\ row.resource = router.id

\* "A non-crashed worker never loses its lease while legitimately executing a
\* provider operation" (entitlement.ts:1546-1548), given punctual timers and no
\* operator: it holds the row, with a live lease, until it finalizes.
LiveWorkerKeepsClaim ==
  \A w \in Worker : wk[w].pc \in {"running", "finalize", "finalizeFail"}
    => Owns(w) /\ row.expires # None /\ row.expires >= clock /\ ~wk[w].lost

-----------------------------------------------------------------------------
\* Liveness

\* A binding claimed at time 0 is settled although its claimer may crash at any
\* step, if recovery is re-driven (entitlement.ts:1548-1549 "a crashed worker's
\* lease expires naturally so another worker can take over").  A failed statement
\* may cost one more lease than the horizon holds.
ClaimSettles ==
  (row.status = "PROVISIONING" /\ clock = 0)
    ~> (row.status # "PROVISIONING" \/ spent.faults > 0)

-----------------------------------------------------------------------------
\* Refinement: the row's attempts behave as the abstract claim.

Superseded == (0 .. nextAttempt - 1) \ (settled \cup {row.attempt})

Fence == INSTANCE AttemptFence WITH
           holder <- row.attempt, superseded <- Superseded, settled <- settled

\* At most one attempt is held; a superseded one never finalizes and never
\* comes back (claimProvisioning, claimGuardedTransition).
FenceSpec == Fence!Spec
===============================================================================
