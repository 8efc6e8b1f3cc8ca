--------------------------- MODULE SessionExecution ---------------------------
(***************************************************************************)
(* The execution of connectivity decisions and actions: the decision's     *)
(* claim and attempts, the session's execution slot with its lease and     *)
(* heartbeat, the action's state machine, the reserve / bind / mark /      *)
(* verify / move / release sequence of ACTIVATE and SWITCH, the API route  *)
(* that runs an action without a slot, and the cron jobs that reclaim.     *)
(*                                                                         *)
(* Source: src/src/lib/control-plane (decision-executor, action-executor,  *)
(* session-execution-slot, session-manager, capability-registry).  One     *)
(* statement or transaction is one step.  Time appears as leases that are  *)
(* live or lapsed: a lease may lapse at any moment.                        *)
(***************************************************************************)
EXTENDS Naturals, FiniteSets

CONSTANTS
  Session, Resource,
  Job,           \* decisions, and actions asked for through the API
  Call,          \* processes running executeDecision or the actions route
  None,          \* a NULL column
  Ghost,         \* a claim whose process is gone
  MAX_ATTEMPTS,  \* DECISION_MAX_ATTEMPTS
  Plans          \* the cases of an instance: jobs, starting state, bounds

SessionState == {"PLANNED", "DISCOVERING", "RESERVED", "ACTIVE", "DEGRADED",
                 "SWITCHING", "ENDED", "FAILED"}

SESSION_TRANSITIONS ==
  [s \in SessionState |->
     CASE s = "PLANNED"     -> {"DISCOVERING", "ENDED", "FAILED"}
       [] s = "DISCOVERING" -> {"RESERVED", "ACTIVE", "FAILED", "ENDED"}
       [] s = "RESERVED"    -> {"ACTIVE", "FAILED", "ENDED"}
       [] s = "ACTIVE"      -> {"DEGRADED", "SWITCHING", "ENDED", "FAILED"}
       [] s = "DEGRADED"    -> {"ACTIVE", "SWITCHING", "ENDED", "FAILED"}
       [] s = "SWITCHING"   -> {"ACTIVE", "DEGRADED", "FAILED", "ENDED"}
       [] s = "ENDED"       -> {}
       [] s = "FAILED"      -> {"PLANNED", "ENDED"}]

Recon == "RECONCILIATION_REQUIRED"
ActionState == {"none", "PLANNED", "AUTHORIZED", "EXECUTING", "SUCCEEDED",
                "FAILED", Recon}

\* UNKNOWN and RECOVERY_CLAIMED are left out: no caller in src/ enters them.
ACTION_TRANSITIONS ==
  [a \in ActionState |->
     CASE a = "PLANNED"    -> {"AUTHORIZED", "FAILED"}
       [] a = "AUTHORIZED" -> {"EXECUTING", "FAILED", "PLANNED"}
       [] a = "EXECUTING"  -> {"SUCCEEDED", "FAILED", Recon}
       [] a = "FAILED"     -> {"PLANNED", Recon}
       [] a = Recon        -> {"SUCCEEDED", "FAILED", "PLANNED"}
       [] OTHER            -> {}]

Open == {"PENDING", "EXECUTION_CLAIMED", "EXECUTING"}
Final == {"EXECUTED", "FAILED", Recon, "SKIPPED", "DEAD_LETTER"}

VARIABLES
  job,      \* per job: is it an API action, its session, type and target
  dec,      \* ConnectivityDecision, the execution columns
  act,      \* ConnectivityAction.state: one row per job (idempotency key)
  sess,     \* ConnectivitySession: state, active resource, slot and its lease
  res,      \* ProtocolResource: state and reservedBy
  gone,     \* jobs whose intent expired, was superseded or cancelled
  call,     \* a process: program counter and locals
  cron,     \* executePendingDecisions of the cron route
  reserves, \* history: how often a job's action reserved its target
  left      \* what is left of each bound of the plan

vars == <<job, dec, act, sess, res, gone, call, cron, reserves, left>>

OrNone(S) == S \cup {None}
Id == Call \cup {Ghost, None}

Pc == {"idle", "deadLetter", "claim", "mark", "slot", "requeue",
       "authority", "create", "load", "transit", "catch", "verify1", "switching",
       "reserve", "bridge", "verify2", "markInUse", "usable", "giveBack", "revert",
       "verify3", "update", "discover", "activate", "verify4", "releaseOld",
       "invariant", "simple", "simpleMove", "record", "freeSlot"}
Goal == {"none", "AUTHORIZED", "EXECUTING", "SUCCEEDED", "FAILED", Recon, "VIOLATED",
         "DEGRADED", "ACTIVE", "ENDED"}
\* The setInterval of executeDecision runs from the slot's claim to its release.
Beating == Pc \ {"idle", "deadLetter", "claim", "mark", "slot", "requeue",
                 "freeSlot"}

Idle == [pc |-> "idle", job |-> None, from |-> None, prev |-> None,
         seen |-> None, lost |-> FALSE, goal |-> "none"]
NoCron == [pc |-> "idle", job |-> None]

JobType == {"ACTIVATE", "SWITCH", "SUSPEND", "RESUME", "RELEASE"}
JobRow == [api : BOOLEAN, session : Session, type : JobType, target : Resource]

TypeOK ==
  /\ job \in [Job -> JobRow]
  /\ dec \in [Job -> [state : Open \cup Final, claim : Id, live : BOOLEAN,
                      attempts : Nat]]
  /\ act \in [Job -> ActionState]
  /\ sess \in [Session -> [state : SessionState, active : OrNone(Resource),
                           claim : Id, live : BOOLEAN]]
  /\ res \in [Resource -> [state : {"AVAILABLE", "RESERVED", "IN_USE"},
                           by : OrNone(Session)]]
  /\ gone \subseteq Job
  /\ call \in [Call -> [pc : Pc, job : OrNone(Job),
                        from : OrNone(SessionState), prev : OrNone(Resource),
                        seen : OrNone(ActionState \cup SessionState),
                        lost : BOOLEAN, goal : Goal]]
  /\ cron \in [pc : {"idle", "claim", "mark"}, job : OrNone(Job)]
  /\ reserves \in [Job -> Nat]
  /\ left \in [lapses : Nat, crashes : Nat, faults : Nat, pump : BOOLEAN]

ASSUME NullAssumption ==
  /\ None \notin Session \cup Resource \cup Job \cup Call \cup SessionState \cup ActionState
  /\ Ghost \notin Call \cup {None}

\* A plan gives every job its row and every session a state the program can
\* have left it in: not started, or ACTIVE / DEGRADED on a resource it holds. A
\* decision starts PENDING, or SKIPPED when the engine said KEEP or WAIT; what it
\* asks for is an ACTIVATE or a SWITCH (decision-engine).
ASSUME PlanAssumption ==
  /\ IsFiniteSet(Job)
  /\ \A p \in Plans :
       /\ p.jobs \in [Job -> JobRow]
       /\ \A j \in Job : p.jobs[j].api \/ p.jobs[j].type \in {"ACTIVATE", "SWITCH"}
       /\ p.state \in [Session -> SessionState] /\ p.active \in [Session -> OrNone(Resource)]
       /\ \A s \in Session :
            /\ p.state[s] \in {"ACTIVE", "DEGRADED", "SWITCHING"} => p.active[s] # None
            /\ \A t \in Session : p.active[s] = p.active[t] => s = t \/ p.active[s] = None
       /\ p.decision \in [Job -> Open \cup Final]
       /\ p.bounds \in [lapses : Nat, crashes : Nat, faults : Nat, pump : BOOLEAN]

Init ==
  \E p \in Plans :
    /\ job = p.jobs
    /\ sess = [s \in Session |-> [state |-> p.state[s], active |-> p.active[s],
                                  claim |-> None, live |-> FALSE]]
    /\ res = [r \in Resource |->
                IF \E s \in Session : p.active[s] = r
                  THEN [state |-> "IN_USE",
                        by |-> CHOOSE s \in Session : p.active[s] = r]
                  ELSE [state |-> "AVAILABLE", by |-> None]]
    /\ dec = [j \in Job |-> [state |-> p.decision[j], claim |-> None,
                             live |-> FALSE, attempts |-> 0]]
    /\ act = [j \in Job |-> "none"]
    /\ gone = {}
    /\ call = [c \in Call |-> Idle]
    /\ cron = NoCron
    /\ reserves = [j \in Job |-> 0]
    /\ left = p.bounds

-----------------------------------------------------------------------------
\* Helpers of a call

J(c) == call[c].job
S(c) == job[J(c)].session
Target(c) == job[J(c)].target
Switching(c) == job[J(c)].type = "SWITCH"
Fenced(c) == ~job[J(c)].api       \* a slot context was passed to executeAction

Locals(c, l) == call' = [call EXCEPT ![c] = l]
Goto(c, pc) == Locals(c, [call[c] EXCEPT !.pc = pc])
Return(c) == Locals(c, Idle)
\* The action's next state, and where it is written: in the try block ...
Aim(c, goal) == Locals(c, [call[c] EXCEPT !.pc = "transit", !.goal = goal, !.seen = None])
\* ... or in the catch block, after an Error or a SlotOwnershipLostError.
Raise(c, goal) == Locals(c, [call[c] EXCEPT !.pc = "catch", !.goal = goal, !.seen = None])

Fault == /\ left.faults > 0
         /\ left' = [left EXCEPT !.faults = @ - 1]

\* A call's claim identity is the call. What a call that ended left in a row
\* belongs to nobody once the process takes up another one.
Disowned(c, rows) ==
  [k \in DOMAIN rows |-> IF rows[k].claim = c THEN [rows[k] EXCEPT !.claim = Ghost]
                                              ELSE rows[k]]

\* The WHERE of fencedSessionUpdate, fencedTransitionSessionState and of
\* withValidSessionExecutionLease: the claim is the row's and its lease is live.
Holds(c) == sess[S(c)].claim = c /\ sess[S(c)].live

MayMove(c) == Fenced(c) => Holds(c)
\* Resource transactions also check the intent's fence: the intent is still
\* ACTIVE, unexpired and fenced by this decision.
Authorized(c) == J(c) \notin gone
MayTouch(c) == Fenced(c) => Holds(c) /\ Authorized(c)

-----------------------------------------------------------------------------
\* executeDecision: from reading the row to holding the slot

Claimable(j) == \/ dec[j].state = "PENDING"
                \/ dec[j].state = "EXECUTION_CLAIMED" /\ ~dec[j].live
Exhausted(j) == dec[j].attempts >= MAX_ATTEMPTS

OwnsDecision(c) == dec[J(c)].state = "EXECUTING" /\ dec[J(c)].claim = c

ReadDecision(c) ==
  /\ call[c].pc = "idle"
  /\ \E j \in Job :
       /\ ~job[j].api /\ dec[j].state \in {"PENDING", "EXECUTION_CLAIMED"}
       /\ dec[j].attempts <= MAX_ATTEMPTS      \* a bound: see ClaimDecision
       /\ Locals(c, [Idle EXCEPT !.job = j,
            !.pc = IF Exhausted(j) /\ dec[j].state = "PENDING"
                     THEN "deadLetter" ELSE "claim"])
  /\ dec' = Disowned(c, dec) /\ sess' = Disowned(c, sess)
  /\ UNCHANGED <<job, act, res, gone, cron, reserves, left>>

DeadLetter(c) ==
  /\ call[c].pc = "deadLetter"
  /\ dec' = IF dec[J(c)].state = "PENDING" /\ Exhausted(J(c))
              THEN [dec EXCEPT ![J(c)].state = "DEAD_LETTER"] ELSE dec
  /\ Return(c)
  /\ UNCHANGED <<job, act, sess, res, gone, cron, reserves, left>>

ClaimRow(j, id) ==
  dec' = [dec EXCEPT ![j] = [state |-> "EXECUTION_CLAIMED", claim |-> id,
                             live |-> TRUE, attempts |-> @.attempts + 1]]

\* A reader that saw EXECUTION_CLAIMED, or a count that is stale, may claim a
\* decision whose attempts are used up: the count may pass MAX_ATTEMPTS.
ClaimDecision(c) ==
  /\ call[c].pc = "claim"
  /\ IF Claimable(J(c))
       THEN ClaimRow(J(c), c) /\ Goto(c, "mark")
       ELSE Return(c) /\ UNCHANGED dec
  /\ UNCHANGED <<job, act, sess, res, gone, cron, reserves, left>>

\* The EXECUTING mark names the row only: whatever state it is in by now.
MarkExecuting(c) ==
  /\ call[c].pc = "mark"
  /\ dec' = [dec EXCEPT ![J(c)].state = "EXECUTING"]
  /\ Goto(c, "slot")
  /\ UNCHANGED <<job, act, sess, res, gone, cron, reserves, left>>

SkipIfOwned(c) ==
  dec' = IF OwnsDecision(c) THEN [dec EXCEPT ![J(c)].state = "SKIPPED"] ELSE dec

\* Nobody's, or its lease ran out.
SlotFree(s) == sess[s].claim = None \/ ~sess[s].live

\* The intent is looked at, then the slot is asked for.
AcquireSlot(c) ==
  /\ call[c].pc = "slot"
  /\ \/ J(c) \in gone /\ SkipIfOwned(c) /\ Return(c) /\ UNCHANGED sess
     \/ /\ J(c) \notin gone /\ UNCHANGED dec
        /\ IF SlotFree(S(c))
             THEN /\ sess' = [sess EXCEPT ![S(c)].claim = c, ![S(c)].live = TRUE]
                  /\ Goto(c, "authority")
             ELSE Goto(c, "requeue") /\ UNCHANGED sess
  /\ UNCHANGED <<job, act, res, gone, cron, reserves, left>>

\* Session busy: back to PENDING, if the claim is still this call's.
Requeue(c) ==
  /\ call[c].pc = "requeue"
  /\ dec' = IF OwnsDecision(c)
              THEN [dec EXCEPT ![J(c)].state = "PENDING", ![J(c)].claim = None]
              ELSE dec
  /\ Return(c)
  /\ UNCHANGED <<job, act, sess, res, gone, cron, reserves, left>>

\* verifyIntentAuthorityAtBoundary: refused when the intent is gone, or when
\* another decision of the same intent holds its fence.
VerifyAuthority(c) ==
  /\ call[c].pc = "authority"
  /\ \/ J(c) \notin gone /\ Goto(c, "create") /\ UNCHANGED <<dec, left>>
     \/ /\ \/ J(c) \in gone /\ UNCHANGED left
           \/ J(c) \notin gone /\ Fault
        /\ SkipIfOwned(c) /\ Goto(c, "freeSlot")
  /\ UNCHANGED <<job, act, sess, res, gone, cron, reserves>>

CreateAlways(c) ==     \* mutant: the idempotency key finds nothing
  /\ call[c].pc = "create"
  /\ act' = [act EXCEPT ![J(c)] = "PLANNED"]
  /\ Goto(c, "load")
  /\ UNCHANGED <<job, dec, sess, res, gone, cron, reserves, left>>

\* createAction: the key "decexec-<decision>" returns the row that exists.
CreateAction(c) ==
  /\ call[c].pc = "create"
  /\ act' = [act EXCEPT ![J(c)] = IF @ = "none" THEN "PLANNED" ELSE @]
  /\ Goto(c, "load")
  /\ UNCHANGED <<job, dec, sess, res, gone, cron, reserves, left>>

\* POST /connectivity/actions with execute: no decision, no slot, no intent.
PostAction(c) ==
  /\ call[c].pc = "idle"
  /\ \E j \in Job :
       /\ job[j].api /\ act[j] = "none"
       /\ act' = [act EXCEPT ![j] = "PLANNED"]
       /\ Locals(c, [Idle EXCEPT !.pc = "load", !.job = j])
  /\ dec' = Disowned(c, dec) /\ sess' = Disowned(c, sess)
  /\ UNCHANGED <<job, res, gone, cron, reserves, left>>

-----------------------------------------------------------------------------
\* executeAction. The session is read once, with the action.

LoadAction(c) ==
  /\ call[c].pc = "load"
  /\ IF act[J(c)] # "PLANNED"
       THEN Locals(c, [call[c] EXCEPT !.pc = "record", !.goal = "FAILED"])
       ELSE Locals(c, [call[c] EXCEPT !.pc = "transit", !.goal = "AUTHORIZED",
                         !.from = sess[S(c)].state, !.prev = sess[S(c)].active])
  /\ UNCHANGED <<job, dec, act, sess, res, gone, cron, reserves, left>>

ActionOf(goal) == IF goal = "VIOLATED" THEN Recon ELSE goal

\* transitionActionState reads the state and checks the move ...
TransitRead(c) ==
  /\ call[c].pc \in {"transit", "catch"} /\ call[c].seen = None
  /\ IF ActionOf(call[c].goal) \in ACTION_TRANSITIONS[act[J(c)]]
       THEN Locals(c, [call[c] EXCEPT !.seen = act[J(c)]])
       ELSE IF call[c].pc = "transit"
              THEN Raise(c, "FAILED")
              ELSE Locals(c, [call[c] EXCEPT !.pc = "record", !.goal = "FAILED"])
  /\ UNCHANGED <<job, dec, act, sess, res, gone, cron, reserves, left>>

Started(c) ==
  CASE job[J(c)].type = "ACTIVATE"                      -> "verify1"
    [] Switching(c) /\ call[c].from \in {"ACTIVE", "DEGRADED"} -> "verify1"
    [] Switching(c) /\ call[c].from \notin {"ACTIVE", "DEGRADED"} -> "catch"
    [] OTHER                                            -> "simple"

\* ... and then writes it, whatever the state is by now.
TransitWrite(c) ==
  /\ call[c].pc \in {"transit", "catch"} /\ call[c].seen # None
  /\ act' = [act EXCEPT ![J(c)] = ActionOf(call[c].goal)]
  /\ Locals(c, [call[c] EXCEPT !.seen = None,
       !.pc = CASE call[c].goal = "AUTHORIZED" -> "transit"
                [] call[c].goal = "EXECUTING"  -> Started(c)
                [] OTHER                       -> "record",
       !.goal = CASE @ = "AUTHORIZED" -> "EXECUTING"
                  [] @ = "EXECUTING"  -> IF Started(c) = "catch" THEN "FAILED" ELSE "none"
                  [] @ = "VIOLATED"   -> "FAILED"
                  [] OTHER            -> @])
  /\ UNCHANGED <<job, dec, sess, res, gone, cron, reserves, left>>

\* verifySlotOwnership, before each mutating stage.
Verified(c, pc, then) ==
  /\ call[c].pc = pc
  /\ IF Fenced(c) /\ (call[c].lost \/ ~Holds(c)) THEN Raise(c, Recon) ELSE Goto(c, then)
  /\ UNCHANGED <<job, dec, act, sess, res, gone, cron, reserves, left>>

VerifySlot(c) ==
  \/ Verified(c, "verify1", IF Switching(c) THEN "switching" ELSE "reserve")
  \/ Verified(c, "verify2", "markInUse")
  \/ Verified(c, "verify3", "update")
  \/ Verified(c, "verify4", "releaseOld")

\* A change of the session's state: one guarded UPDATE under a slot, a read,
\* a check against SESSION_TRANSITIONS and an unguarded write without one.
Moves(c, allowed, to, then, refused) ==
  LET s == S(c) IN
  \/ /\ Fenced(c)
     /\ IF Holds(c) /\ sess[s].state \in allowed
          THEN /\ sess' = [sess EXCEPT ![s].state = to]
               /\ Locals(c, then)
          ELSE Locals(c, refused) /\ UNCHANGED sess
  \/ /\ ~Fenced(c) /\ call[c].seen = None /\ UNCHANGED sess
     /\ IF to \in SESSION_TRANSITIONS[sess[s].state]
          THEN Locals(c, [call[c] EXCEPT !.seen = sess[s].state])
          ELSE Raise(c, "FAILED")
  \/ /\ ~Fenced(c) /\ call[c].seen # None
     /\ sess' = [sess EXCEPT ![s].state = to]
     /\ Locals(c, [then EXCEPT !.seen = None])

At(c, pc) == [call[c] EXCEPT !.pc = pc]
Lost(c) == [call[c] EXCEPT !.pc = "catch", !.goal = Recon]

BeginSwitch(c) ==
  /\ call[c].pc = "switching"
  /\ Moves(c, {"ACTIVE", "DEGRADED"}, "SWITCHING", At(c, "reserve"), Lost(c))
  /\ UNCHANGED <<job, dec, act, res, gone, cron, reserves, left>>

\* Nothing is reserved, or it was given back: a SWITCH puts the state back.
Fails(c, goal) ==
  IF Switching(c) THEN Locals(c, [call[c] EXCEPT !.pc = "revert", !.goal = goal])
  ELSE IF goal = Recon THEN Aim(c, Recon)
  ELSE Raise(c, goal)

ReserveAnyway(c) ==      \* mutant: the resource's state is not looked at
  /\ call[c].pc = "reserve"
  /\ IF MayTouch(c)
       THEN /\ res' = [res EXCEPT ![Target(c)] = [state |-> "RESERVED", by |-> S(c)]]
            /\ reserves' = [reserves EXCEPT ![J(c)] = @ + 1]
            /\ Goto(c, "bridge")
       ELSE Fails(c, "FAILED") /\ UNCHANGED <<res, reserves>>
  /\ UNCHANGED <<job, dec, act, sess, gone, cron, left>>

Available(r) == res[r].state = "AVAILABLE"
Reservable(c) == MayTouch(c) /\ Available(Target(c))

ReserveTarget(c) ==
  /\ call[c].pc = "reserve"
  /\ IF Reservable(c)
       THEN /\ res' = [res EXCEPT ![Target(c)] = [state |-> "RESERVED", by |-> S(c)]]
            /\ reserves' = [reserves EXCEPT ![J(c)] = @ + 1]
            /\ Goto(c, "bridge")
       ELSE Fails(c, "FAILED") /\ UNCHANGED <<res, reserves>>
  /\ UNCHANGED <<job, dec, act, sess, gone, cron, left>>

\* resolveResourceBinding provisions or reconciles a binding (Provisioning).
ResolveBinding(c) ==
  /\ call[c].pc = "bridge"
  /\ \/ Goto(c, "verify2") /\ UNCHANGED left
     \/ Fault /\ Locals(c, [call[c] EXCEPT !.pc = "giveBack", !.goal = "FAILED"])
  /\ UNCHANGED <<job, dec, act, sess, res, gone, cron, reserves>>

ReservedBy(r, s) == res[r] = [state |-> "RESERVED", by |-> s]
Reserved(c) == MayTouch(c) /\ ReservedBy(Target(c), S(c))

MarkInUse(c) ==
  /\ call[c].pc = "markInUse"
  /\ IF Reserved(c)
       THEN /\ res' = [res EXCEPT ![Target(c)].state = "IN_USE"]
            /\ Goto(c, "usable")
       ELSE /\ Locals(c, [call[c] EXCEPT !.pc = "giveBack", !.goal = "FAILED"])
            /\ UNCHANGED res
  /\ UNCHANGED <<job, dec, act, sess, gone, cron, reserves, left>>

UsedBy(r, s) == res[r] = [state |-> "IN_USE", by |-> s]

\* verifyResourceUsable: NOT_USABLE and UNKNOWN both end in reconciliation.
VerifyUsable(c) ==
  /\ call[c].pc = "usable"
  /\ \/ UsedBy(Target(c), S(c)) /\ Goto(c, "verify3") /\ UNCHANGED left
     \/ /\ \/ ~UsedBy(Target(c), S(c)) /\ UNCHANGED left
           \/ UsedBy(Target(c), S(c)) /\ Fault
        /\ Locals(c, [call[c] EXCEPT !.pc = "giveBack", !.goal = Recon])
  /\ UNCHANGED <<job, dec, act, sess, res, gone, cron, reserves>>

OwnedBy(r, s) == res[r].by = s
Released(c, r) == /\ MayTouch(c) /\ OwnedBy(r, S(c))
                  /\ res' = [res EXCEPT ![r] = [state |-> "AVAILABLE", by |-> None]]
NotReleased(c, r) == ~(MayTouch(c) /\ OwnedBy(r, S(c))) /\ UNCHANGED res

\* Whether the target was released is not looked at.
GiveBack(c) ==
  /\ call[c].pc = "giveBack"
  /\ Released(c, Target(c)) \/ NotReleased(c, Target(c))
  /\ Fails(c, call[c].goal)
  /\ UNCHANGED <<job, dec, act, sess, gone, cron, reserves, left>>

\* Nor, under a slot, whether the state went back.
Revert(c) ==
  /\ call[c].pc = "revert"
  /\ LET back == IF call[c].from = "DEGRADED" THEN "DEGRADED" ELSE "ACTIVE"
         then == [call[c] EXCEPT !.seen = None,
                    !.pc = IF call[c].goal = Recon THEN "transit" ELSE "catch"]
     IN Moves(c, {"SWITCHING"}, back, then, then)
  /\ UNCHANGED <<job, dec, act, res, gone, cron, reserves, left>>

\* activeResourceId (with entitlementId) moves to the target.
UpdateSession(c) ==
  /\ call[c].pc = "update"
  /\ IF MayMove(c)
       THEN /\ sess' = [sess EXCEPT ![S(c)].active = Target(c)]
            /\ Goto(c, CASE Switching(c) -> "activate"
                         [] ~Switching(c) /\ call[c].from = "PLANNED" -> "discover"
                         [] ~Switching(c) /\ call[c].from \in {"DISCOVERING", "RESERVED"}
                              -> "activate"
                         [] OTHER -> "invariant")
       ELSE Raise(c, Recon) /\ UNCHANGED sess
  /\ UNCHANGED <<job, dec, act, res, gone, cron, reserves, left>>

Discover(c) ==
  /\ call[c].pc = "discover"
  /\ Moves(c, {"PLANNED"}, "DISCOVERING", At(c, "activate"), Lost(c))
  /\ UNCHANGED <<job, dec, act, res, gone, cron, reserves, left>>

BecomeActive(c) ==
  /\ call[c].pc = "activate"
  /\ Moves(c, IF Switching(c) THEN {"SWITCHING"} ELSE {"DISCOVERING", "RESERVED", "SWITCHING"},
           "ACTIVE", At(c, IF Switching(c) THEN "verify4" ELSE "invariant"), Lost(c))
  /\ UNCHANGED <<job, dec, act, res, gone, cron, reserves, left>>

ReleaseOldBlindly(c) ==   \* mutant: nobody looks whether it was released
  /\ call[c].pc = "releaseOld"
  /\ LET old == call[c].prev IN
     \/ old \in {None, Target(c)} /\ UNCHANGED res
     \/ old \notin {None, Target(c)} /\ (Released(c, old) \/ NotReleased(c, old))
  /\ Goto(c, "invariant")
  /\ UNCHANGED <<job, dec, act, sess, gone, cron, reserves, left>>

\* A SWITCH releases the resource the session had when the action was read.
ReleaseOld(c) ==
  /\ call[c].pc = "releaseOld"
  /\ LET old == call[c].prev IN
     \/ old \in {None, Target(c)} /\ Goto(c, "invariant") /\ UNCHANGED res
     \/ old \notin {None, Target(c)} /\ Released(c, old) /\ Goto(c, "invariant")
     \/ old \notin {None, Target(c)} /\ NotReleased(c, old) /\ Aim(c, Recon)
  /\ UNCHANGED <<job, dec, act, sess, gone, cron, reserves, left>>

\* assertActiveConnectivityInvariant asks the provider again.
Converged(s) == sess[s].state = "ACTIVE" =>
                  sess[s].active # None /\ UsedBy(sess[s].active, s)
CheckInvariant(c) ==
  /\ call[c].pc = "invariant"
  /\ \/ Converged(S(c)) /\ Aim(c, "SUCCEEDED") /\ UNCHANGED left
     \/ ~Converged(S(c)) /\ Aim(c, "VIOLATED") /\ UNCHANGED left
     \/ Converged(S(c)) /\ sess[S(c)].state = "ACTIVE" /\ Fault /\ Aim(c, "VIOLATED")
  /\ UNCHANGED <<job, dec, act, sess, res, gone, cron, reserves>>

\* SUSPEND, RESUME and RELEASE decide by the session's state as first read.
SimpleStart(c) ==
  LET type == job[J(c)].type
      from == call[c].from
      moveTo(to) == Locals(c, [call[c] EXCEPT !.pc = "simpleMove", !.goal = to])
  IN
  /\ call[c].pc = "simple"
  /\ \/ type = "SUSPEND" /\ from = "ACTIVE" /\ moveTo("DEGRADED") /\ UNCHANGED res
     \/ type = "RESUME" /\ from = "DEGRADED" /\ moveTo("ACTIVE") /\ UNCHANGED res
     \/ /\ type = "RELEASE" /\ from # "ENDED"
        /\ \/ call[c].prev = None /\ UNCHANGED res
           \/ call[c].prev # None /\ Released(c, call[c].prev)
           \/ call[c].prev # None /\ NotReleased(c, call[c].prev)
        /\ moveTo("ENDED")
     \/ /\ \/ type = "SUSPEND" /\ from # "ACTIVE"
           \/ type = "RESUME" /\ from # "DEGRADED"
           \/ type = "RELEASE" /\ from = "ENDED"
        /\ Aim(c, "SUCCEEDED") /\ UNCHANGED res
  /\ UNCHANGED <<job, dec, act, sess, gone, cron, reserves, left>>

SimpleMove(c) ==
  /\ call[c].pc = "simpleMove"
  /\ LET then == [call[c] EXCEPT !.pc = "transit", !.goal = "SUCCEEDED"]
     IN Moves(c, {}, call[c].goal, then, then)
  /\ UNCHANGED <<job, dec, act, res, gone, cron, reserves, left>>

\* The decision's outcome is written by the row's id alone.
RecordOutcome(c) ==
  /\ call[c].pc = "record"
  /\ IF Fenced(c)
       THEN /\ dec' = [dec EXCEPT ![J(c)].state =
                         IF call[c].goal = "SUCCEEDED" THEN "EXECUTED" ELSE call[c].goal]
            /\ Goto(c, "freeSlot")
       ELSE Return(c) /\ UNCHANGED dec
  /\ UNCHANGED <<job, act, sess, res, gone, cron, reserves, left>>

\* releaseSessionExecutionSlot: only the claim's owner.
FreeSlot(c) ==
  /\ call[c].pc = "freeSlot"
  /\ sess' = IF sess[S(c)].claim = c
               THEN [sess EXCEPT ![S(c)].claim = None, ![S(c)].live = FALSE] ELSE sess
  /\ Return(c)
  /\ UNCHANGED <<job, dec, act, res, gone, cron, reserves, left>>

\* The heartbeat renews by claim alone: a lapsed lease nobody took comes back.
RenewSlot(c) ==
  /\ call[c].pc \in Beating /\ Fenced(c)
  /\ \/ /\ sess[S(c)].claim = c /\ ~sess[S(c)].live
        /\ sess' = [sess EXCEPT ![S(c)].live = TRUE] /\ UNCHANGED call
     \/ /\ sess[S(c)].claim # c /\ ~call[c].lost
        /\ Locals(c, [call[c] EXCEPT !.lost = TRUE]) /\ UNCHANGED sess
  /\ UNCHANGED <<job, dec, act, res, gone, cron, reserves, left>>

-----------------------------------------------------------------------------
\* The cron route: reclaimExpiredDecisionClaims, reclaimExpiredSessionSlots,
\* executePendingDecisions

ReclaimDecision(j) ==
  /\ dec[j].state \in {"EXECUTION_CLAIMED", "EXECUTING"} /\ ~dec[j].live
  /\ dec' = IF Exhausted(j)
              THEN [dec EXCEPT ![j].state = "DEAD_LETTER"]
              ELSE [dec EXCEPT ![j].state = "PENDING", ![j].claim = None]
  /\ UNCHANGED <<job, act, sess, res, gone, call, cron, reserves, left>>

KeepClaimId(s) ==         \* mutant: the claim id is not cleared
  /\ sess[s].claim # None /\ ~sess[s].live
  /\ sess' = [sess EXCEPT ![s].live = FALSE]
  /\ UNCHANGED <<job, dec, act, res, gone, call, cron, reserves, left>>

ReclaimSlot(s) ==
  /\ sess[s].claim # None /\ ~sess[s].live
  /\ sess' = [sess EXCEPT ![s].claim = None]
  /\ UNCHANGED <<job, dec, act, res, gone, call, cron, reserves, left>>

\* claimDecisionForExecution
CronFind(j) ==
  /\ left.pump /\ cron.pc = "idle" /\ ~job[j].api /\ Claimable(j)
  /\ \/ /\ ~Exhausted(j)
        /\ cron' = [pc |-> "claim", job |-> j] /\ UNCHANGED dec
     \/ /\ Exhausted(j) /\ dec[j].state = "PENDING"
        /\ dec' = [dec EXCEPT ![j].state = "DEAD_LETTER"] /\ UNCHANGED cron
  /\ UNCHANGED <<job, act, sess, res, gone, call, reserves, left>>

CronClaim ==
  /\ cron.pc = "claim"
  /\ IF Claimable(cron.job)
       THEN /\ ClaimRow(cron.job, Ghost)
            /\ cron' = [cron EXCEPT !.pc = "mark"]
       ELSE cron' = NoCron /\ UNCHANGED dec
  /\ UNCHANGED <<job, act, sess, res, gone, call, reserves, left>>

\* Marks the row EXECUTING; executeDecision then finds it EXECUTING and returns.
CronMark ==
  /\ cron.pc = "mark"
  /\ dec' = [dec EXCEPT ![cron.job].state = "EXECUTING"]
  /\ cron' = NoCron
  /\ UNCHANGED <<job, act, sess, res, gone, call, reserves, left>>

-----------------------------------------------------------------------------
\* The rest of the world

\* A lease lapses: its holder is gone, or late (bounded).
Carried(id) == id \in Call /\ call[id].pc # "idle"
Lapses(id) == /\ Carried(id) => left.lapses > 0
              /\ left' = IF Carried(id) THEN [left EXCEPT !.lapses = @ - 1] ELSE left

SlotLapses(s) ==
  /\ sess[s].claim # None /\ sess[s].live /\ Lapses(sess[s].claim)
  /\ sess' = [sess EXCEPT ![s].live = FALSE]
  /\ UNCHANGED <<job, dec, act, res, gone, call, cron, reserves>>

ClaimLapses(j) ==
  /\ dec[j].state \in {"EXECUTION_CLAIMED", "EXECUTING"} /\ dec[j].live
  /\ Lapses(dec[j].claim)
  /\ dec' = [dec EXCEPT ![j].live = FALSE]
  /\ UNCHANGED <<job, act, sess, res, gone, call, cron, reserves>>

\* The intent expires, is superseded or cancelled: no fence prevents it.
IntentEnds(j) ==
  /\ ~job[j].api /\ j \notin gone /\ dec[j].state \in Open /\ Fault
  /\ gone' = gone \cup {j}
  /\ UNCHANGED <<job, dec, act, sess, res, call, cron, reserves>>

Crash(c) ==
  /\ call[c].pc # "idle" /\ left.crashes > 0
  /\ left' = [left EXCEPT !.crashes = @ - 1]
  /\ Return(c)
  /\ dec' = Disowned(c, dec) /\ sess' = Disowned(c, sess)
  /\ UNCHANGED <<job, act, res, gone, cron, reserves>>

-----------------------------------------------------------------------------
Claiming(c) == \/ DeadLetter(c) \/ ClaimDecision(c) \/ MarkExecuting(c)
               \/ AcquireSlot(c) \/ Requeue(c)
               \/ VerifyAuthority(c) \/ CreateAction(c)
Executing(c) == \/ LoadAction(c) \/ TransitRead(c) \/ TransitWrite(c) \/ VerifySlot(c)
                \/ BeginSwitch(c) \/ ReserveTarget(c) \/ ResolveBinding(c)
                \/ MarkInUse(c) \/ VerifyUsable(c) \/ GiveBack(c) \/ Revert(c)
                \/ UpdateSession(c) \/ Discover(c) \/ BecomeActive(c) \/ ReleaseOld(c)
                \/ CheckInvariant(c) \/ SimpleStart(c) \/ SimpleMove(c)
                \/ RecordOutcome(c) \/ FreeSlot(c)
Proceed(c) == Claiming(c) \/ Executing(c)
Reclaiming == (\E j \in Job : ReclaimDecision(j)) \/ (\E s \in Session : ReclaimSlot(s))
Pumping == (\E j \in Job : CronFind(j)) \/ CronClaim \/ CronMark
Lapsing == (\E s \in Session : SlotLapses(s)) \/ (\E j \in Job : ClaimLapses(j))

Next == \/ \E c \in Call : \/ ReadDecision(c) \/ PostAction(c) \/ Proceed(c)
                           \/ RenewSlot(c) \/ Crash(c)
        \/ Reclaiming \/ Pumping \/ Lapsing
        \/ \E j \in Job : IntentEnds(j)

Spec == Init /\ [][Next]_vars

\* A live process's statements are executed; the cron route is called again and
\* again (app/api/internal/observe-connectivity); a lease nobody renews
\* lapses. Nothing makes anybody call executeDecision or the API.
Fairness ==
  /\ \A c \in Call : WF_vars(Proceed(c))
  /\ \A j \in Job : WF_vars(ReclaimDecision(j)) /\ WF_vars(CronFind(j))
  /\ \A s \in Session : WF_vars(ReclaimSlot(s)) /\ WF_vars(SlotLapses(s))
  /\ WF_vars(CronClaim \/ CronMark)
  /\ \A j \in Job : WF_vars(ClaimLapses(j))

FairSpec == Spec /\ Fairness

-----------------------------------------------------------------------------
\* Properties

\* However often a decision is claimed, lost, reclaimed and executed again, and
\* by however many processes, its action takes hold of its target once: the
\* PLANNED check, the idempotency key and the slot together (decision-executor.ts
\* :12-17 "prevents two workers from racing through provider side effects").
ReservedOnce == \A j \in Job : reserves[j] <= 1

\* Two sessions never share a resource, an active session stands on a resource
\* it holds IN_USE, and it only lets go of one it does not stand on
\* (action-executor.ts:187 "releasing the old resource MUST NOT invalidate the
\* new one"): with lapsed leases, crashes and stale snapshots, but not while an
\* API action runs without the slot.
ApiRuns(s) == \E j \in Job : job[j].api /\ job[j].session = s
Connectivity == INSTANCE SessionConnectivity WITH
  phase <- [s \in Session |-> IF ApiRuns(s) THEN "ENDED" ELSE sess[s].state],
  active <- [s \in Session |-> IF ApiRuns(s) THEN None ELSE sess[s].active],
  held <- [s \in Session |->
             IF ApiRuns(s) THEN {} ELSE {r \in Resource : UsedBy(r, s)}]
MakeBeforeBreak == Connectivity!Spec

\* What a session still holds besides the resource it stands on is somebody's
\* open business: an action of the session that did not report success
\* (session-execution-slot.ts:8-13 "the losing target orphaned IN_USE"). A second
\* ACTIVATE of a session, and the API, do leave orphans behind a SUCCEEDED.
SingleActivation(s) ==
  Cardinality({j \in Job : job[j].session = s /\ job[j].type = "ACTIVATE"}) <= 1
NoSilentOrphan ==
  \A s \in Session, r \in Resource :
    /\ ~ApiRuns(s) /\ SingleActivation(s)
    /\ res[r].by = s /\ r # sess[s].active
    => \E j \in Job : job[j].session = s /\ act[j] \notin {"none", "SUCCEEDED"}

\* A reservation has one action that made it, and one that tells of it if it was left.
ReservationsAccounted == ReservedOnce /\ NoSilentOrphan

\* A process that dies or loses its lease does not keep the session: the slot
\* becomes free again (session-execution-slot.ts:31-32 "A crashed worker's slot
\* is reclaimable after lease expiry").
SlotFreed == \A s \in Session : sess[s].claim # None ~> sess[s].claim = None

\* A decision somebody claimed does not stay in flight: its claimer finishes, or
\* the cron route puts it back or buries it, whatever dies on the way
\* (decision-executor.ts:63 "A crashed worker's claim expires after this").
NeverStuckInFlight == \A j \in Job :
  dec[j].state \in {"EXECUTION_CLAIMED", "EXECUTING"}
    ~> dec[j].state \in Final \cup {"PENDING"}

\* Neither a slot nor a decision stays claimed.
NothingStaysClaimed == SlotFreed /\ NeverStuckInFlight

\* "Find all PENDING non-KEEP decisions and execute them with fenced claims"
\* (decision-executor.ts:763): a pending decision the cron route keeps finding
\* comes to an outcome of its own.
PendingIsExecuted == \A j \in Job :
  dec[j].state = "PENDING" ~> dec[j].state \in Final \ {"DEAD_LETTER"}
===============================================================================
