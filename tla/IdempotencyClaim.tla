--------------------------- MODULE IdempotencyClaim ---------------------------
(***************************************************************************)
(* runIdempotentOperation, its reclaim and its reconciliation, for one     *)
(* (scope, key), with purchaseTopUp as the operation: a payment and a      *)
(* top-up at two providers, then one transaction of our own.               *)
(*                                                                         *)
(* Source: src/src/lib/idempotency/claim.ts, src/src/lib/usage/topup.ts.   *)
(* Nothing in src/ calls reconcileOperation or the reclaim: both are taken *)
(* as steps an operator's job may take at any time.                        *)
(***************************************************************************)
EXTENDS Naturals

CONSTANTS
  Request,      \* calls of purchaseTopUp with the same key
  Payload,      \* what a request asks for (its payloadHash)
  Reconciler,   \* calls of reconcileOperation
  NoOne,        \* a NULL column
  OpBounds      \* bounds: leases that lapse although their holder lives; crashes
                \* and failing calls

ASSUME OpAssumption == \A bounds \in OpBounds : bounds.lapses \in Nat /\ bounds.faults \in Nat

VARIABLES
  op,       \* IdempotencyOperation
  req,      \* per request: program counter, payload, outcome at hand, answer
  rcl,      \* per reconciler: program counter, what the provider said, answer
  world,    \* was the payment taken, the top-up delivered, our row written
  opLeft    \* what is left of the bounds; did an executor outlive its lease?

opVars == <<op, req, rcl, world, opLeft>>

OperationState == {"IN_PROGRESS", "COMPLETED", "FAILED",
                   "RECONCILIATION_REQUIRED", "RECONCILIATION_CLAIMED"}
Outcome == {"SUCCESS", "CONFIRMED_FAILURE", "AMBIGUOUS_EXTERNAL_FAILURE"}
Answer == {"result", "failure", "unknown", "other payload", "busy"}

OpRow == [state : OperationState \cup {"absent"}, payload : Payload \cup {NoOne},
          claim : Request \cup {NoOne}, live : BOOLEAN,
          recon : Reconciler \cup {NoOne}, reconLive : BOOLEAN]
ReqPc == {"new", "check", "pay", "deliver", "record", "finish", "poll", "polling", "done",
          "dead"}
ReqRow == [pc : ReqPc, payload : Payload \cup {NoOne}, outcome : Outcome,
           answer : Answer \cup {"none"}]
RclRow == [pc : {"idle", "query", "store"}, said : {"SUCCESS", "FAILED", "STILL_PENDING"}]

OpTypeOK ==
  /\ op \in OpRow /\ req \in [Request -> ReqRow] /\ rcl \in [Reconciler -> RclRow]
  /\ world \in [paid : BOOLEAN, delivered : BOOLEAN, recorded : BOOLEAN]
  /\ opLeft \in [lapses : Nat, faults : Nat, outlived : BOOLEAN]

OpInitOf(bounds) ==
  /\ op = [state |-> "absent", payload |-> NoOne, claim |-> NoOne, live |-> FALSE,
           recon |-> NoOne, reconLive |-> FALSE]
  /\ req = [q \in Request |-> [pc |-> "new", payload |-> NoOne, outcome |-> "SUCCESS",
                               answer |-> "none"]]
  /\ rcl = [k \in Reconciler |-> [pc |-> "idle", said |-> "STILL_PENDING"]]
  /\ world = [paid |-> FALSE, delivered |-> FALSE, recorded |-> FALSE]
  /\ opLeft = [lapses |-> bounds.lapses, faults |-> bounds.faults, outlived |-> FALSE]

OpInit == \E bounds \in OpBounds : OpInitOf(bounds)

-----------------------------------------------------------------------------
(* A request.                                                              *)

OpFault == opLeft.faults > 0 /\ opLeft' = [opLeft EXCEPT !.faults = @ - 1]

ReqAt(q, pc) == req' = [req EXCEPT ![q].pc = pc]
Finishing(q, outcome) == req' = [req EXCEPT ![q].pc = "finish", ![q].outcome = outcome]
Answered(q, answer) == req' = [req EXCEPT ![q].pc = "done", ![q].answer = answer]

\* INSERT: the unique (scope, key) lets one request become the executor.
ClaimKey(q, p) ==
  /\ req[q].pc = "new"
  /\ IF op.state = "absent"
       THEN /\ op' = [op EXCEPT !.state = "IN_PROGRESS", !.payload = p,
                                !.claim = q, !.live = TRUE]
            /\ req' = [req EXCEPT ![q].pc = "check", ![q].payload = p]
       ELSE req' = [req EXCEPT ![q].pc = "poll", ![q].payload = p] /\ UNCHANGED op
  /\ UNCHANGED <<rcl, world, opLeft>>

\* The eSIM and the package are looked up: not_found and conflict are confirmed.
CheckTopUp(q) ==
  /\ req[q].pc = "check"
  /\ \/ ReqAt(q, "pay") /\ UNCHANGED opLeft
     \/ Finishing(q, "CONFIRMED_FAILURE") /\ OpFault
  /\ UNCHANGED <<op, rcl, world>>

\* A call that takes effect, fails, or fails after its effect. Any failure of
\* these three, a declined payment included, counts as ambiguous.
Attempt(q, pc, effect, then) ==
  /\ req[q].pc = pc
  /\ \/ world' = effect /\ then /\ UNCHANGED opLeft
     \/ /\ world' \in {world, effect} /\ OpFault
        /\ Finishing(q, "AMBIGUOUS_EXTERNAL_FAILURE")
  /\ UNCHANGED <<op, rcl>>

Pay(q) == Attempt(q, "pay", [world EXCEPT !.paid = TRUE], ReqAt(q, "deliver"))
Deliver(q) == Attempt(q, "deliver", [world EXCEPT !.delivered = TRUE], ReqAt(q, "record"))
RecordTopUp(q) ==
  Attempt(q, "record", [world EXCEPT !.recorded = TRUE], Finishing(q, "SUCCESS"))

EndingRaw(outcome) == outcome     \* mutant: the outcome's name is stored as a state

Ending(outcome) == CASE outcome = "SUCCESS"           -> "COMPLETED"
                     [] outcome = "CONFIRMED_FAILURE" -> "FAILED"
                     [] OTHER                         -> "RECONCILIATION_REQUIRED"
AnswerTo(outcome) == CASE outcome = "SUCCESS"           -> "result"
                       [] outcome = "CONFIRMED_FAILURE" -> "failure"
                       [] OTHER                         -> "unknown"

\* The fenced update. Without a row to update the outcome is unknown; an error
\* of the success update is itself ambiguous, one of the others a lost claim.
FinishOperation(q) ==
  LET outcome == req[q].outcome IN
  /\ req[q].pc = "finish"
  /\ \/ /\ op.state = "IN_PROGRESS" /\ op.claim = q
        /\ op' = [op EXCEPT !.state = Ending(outcome), !.live = FALSE]
        /\ Answered(q, AnswerTo(outcome)) /\ UNCHANGED opLeft
     \/ /\ ~(op.state = "IN_PROGRESS" /\ op.claim = q)
        /\ Answered(q, "unknown") /\ UNCHANGED <<op, opLeft>>
     \/ /\ OpFault /\ UNCHANGED op
        /\ IF outcome = "SUCCESS" THEN Finishing(q, "AMBIGUOUS_EXTERNAL_FAILURE")
                                  ELSE Answered(q, "unknown")
  /\ UNCHANGED <<rcl, world>>

\* pollForTerminalResult: the payload is compared once, at the first look.
Look(q) ==
  CASE op.state = "COMPLETED" -> Answered(q, "result")
    [] op.state = "FAILED"    -> Answered(q, "failure")
    [] op.state \in {"RECONCILIATION_REQUIRED", "RECONCILIATION_CLAIMED"}
                              -> Answered(q, "unknown")
    [] OTHER                  -> ReqAt(q, "polling")

PollAny(q) ==           \* mutant: the payload is not compared
  /\ req[q].pc = "poll"
  /\ Look(q)
  /\ UNCHANGED <<op, rcl, world, opLeft>>

PollFirst(q) ==
  /\ req[q].pc = "poll"
  /\ IF req[q].payload # op.payload THEN Answered(q, "other payload") ELSE Look(q)
  /\ UNCHANGED <<op, rcl, world, opLeft>>

PollAgain(q) ==
  /\ req[q].pc = "polling"
  /\ Look(q) \/ Answered(q, "busy")         \* POLL_TIMEOUT_MS
  /\ UNCHANGED <<op, rcl, world, opLeft>>

\* From the INSERT to the fenced update, while the heartbeat runs. An execute that
\* returns no outcome at all ends as an ambiguous one.
Running(q) == req[q].pc \in {"check", "pay", "deliver", "record", "finish"}

\* The heartbeat extends a lease that nobody reclaimed.
RenewClaim(q) ==
  /\ Running(q)
  /\ op.claim = q /\ op.state = "IN_PROGRESS" /\ ~op.live
  /\ op' = [op EXCEPT !.live = TRUE]
  /\ UNCHANGED <<req, rcl, world, opLeft>>

CrashRequest(q) ==
  /\ req[q].pc \notin {"new", "done", "dead"}
  /\ ReqAt(q, "dead") /\ OpFault
  /\ UNCHANGED <<op, rcl, world>>

-----------------------------------------------------------------------------
(* Reclaim and reconciliation.                                             *)

ClaimLeaseLapses ==
  /\ op.state = "IN_PROGRESS" /\ op.live
  /\ op' = [op EXCEPT !.live = FALSE]
  /\ IF Running(op.claim)
       THEN opLeft.lapses > 0 /\ opLeft' = [opLeft EXCEPT !.lapses = @ - 1, !.outlived = TRUE]
       ELSE UNCHANGED opLeft
  /\ UNCHANGED <<req, rcl, world>>

ReconcilerLeaseLapses ==
  /\ op.state = "RECONCILIATION_CLAIMED" /\ op.reconLive
  /\ opLeft.lapses > 0 /\ opLeft' = [opLeft EXCEPT !.lapses = @ - 1]
  /\ op' = [op EXCEPT !.reconLive = FALSE]
  /\ UNCHANGED <<req, rcl, world>>

ReclaimAsFailed ==      \* mutant: what reclaim did before RECONCILIATION_REQUIRED
  /\ op.state = "IN_PROGRESS" /\ ~op.live
  /\ op' = [op EXCEPT !.state = "FAILED"]
  /\ UNCHANGED <<req, rcl, world, opLeft>>

\* reclaimExpiredIdempotencyOperations, its two updates.
ReclaimOperation ==
  /\ op.state = "IN_PROGRESS" /\ ~op.live
  /\ op' = [op EXCEPT !.state = "RECONCILIATION_REQUIRED"]
  /\ UNCHANGED <<req, rcl, world, opLeft>>

ReclaimReconciliation ==
  /\ op.state = "RECONCILIATION_CLAIMED" /\ ~op.reconLive
  /\ op' = [op EXCEPT !.state = "RECONCILIATION_REQUIRED", !.recon = NoOne]
  /\ UNCHANGED <<req, rcl, world, opLeft>>

ClaimReconciliation(k) ==
  /\ rcl[k].pc = "idle" /\ op.state = "RECONCILIATION_REQUIRED"
  /\ op' = [op EXCEPT !.state = "RECONCILIATION_CLAIMED", !.recon = k, !.reconLive = TRUE]
  /\ rcl' = [rcl EXCEPT ![k].pc = "query"]
  /\ UNCHANGED <<req, world, opLeft>>

\* queryProvider: delivered is a success, unpaid a failure; a payment without
\* its delivery, or a query that fails, decides nothing.
QueryProvider(k) ==
  /\ rcl[k].pc = "query"
  /\ \/ /\ UNCHANGED opLeft
        /\ rcl' = [rcl EXCEPT ![k] = [pc |-> "store",
                     said |-> IF world.delivered THEN "SUCCESS"
                              ELSE IF world.paid THEN "STILL_PENDING" ELSE "FAILED"]]
     \/ OpFault /\ rcl' = [rcl EXCEPT ![k] = [pc |-> "store", said |-> "STILL_PENDING"]]
  /\ UNCHANGED <<op, req, world>>

ReconciledTo(said) == CASE said = "SUCCESS" -> "COMPLETED"
                        [] said = "FAILED"  -> "FAILED"
                        [] OTHER            -> "RECONCILIATION_REQUIRED"

StoreUnfenced(k) ==     \* mutant: the update names the row only
  /\ rcl[k].pc = "store"
  /\ op' = [op EXCEPT !.state = ReconciledTo(rcl[k].said), !.recon = NoOne]
  /\ rcl' = [rcl EXCEPT ![k].pc = "idle"]
  /\ UNCHANGED <<req, world, opLeft>>

\* Fenced by the reconciliation's claim. What it returns to its caller is what
\* it meant to write, whether or not a row was changed.
StoreReconciled(k) ==
  /\ rcl[k].pc = "store"
  /\ op' = IF op.state = "RECONCILIATION_CLAIMED" /\ op.recon = k
             THEN [op EXCEPT !.state = ReconciledTo(rcl[k].said), !.recon = NoOne]
             ELSE op
  /\ rcl' = [rcl EXCEPT ![k].pc = "idle"]
  /\ UNCHANGED <<req, world, opLeft>>

OpNext ==
  \/ \E q \in Request : \/ \E p \in Payload : ClaimKey(q, p)
                        \/ CheckTopUp(q) \/ Pay(q) \/ Deliver(q) \/ RecordTopUp(q)
                        \/ FinishOperation(q) \/ PollFirst(q) \/ PollAgain(q)
                        \/ RenewClaim(q) \/ CrashRequest(q)
  \/ ClaimLeaseLapses \/ ReconcilerLeaseLapses
  \/ ReclaimOperation \/ ReclaimReconciliation
  \/ \E k \in Reconciler :
       ClaimReconciliation(k) \/ QueryProvider(k) \/ StoreReconciled(k)

OpSpec == OpInit /\ [][OpNext]_opVars

-----------------------------------------------------------------------------
(* Properties.                                                             *)

\* Whoever was given a result or a failure was given the one the row holds for
\* good, and one for the payload it sent: an outcome, once told, is never decided
\* otherwise by a late executor, a reclaim or a second reconciler (claim.ts:238).
AnswersAgree == \A q \in Request :
  /\ req[q].answer = "result" => op.state = "COMPLETED"
  /\ req[q].answer = "failure" => op.state = "FAILED"
  /\ req[q].answer \in {"result", "failure"} => req[q].payload = op.payload

\* An operation that FAILED took no payment, so a new key may be used (claim.ts:6-10
\* "Caller retries with a new key -> provider receives a SECOND payment"), whatever
\* crashed in between; but not when a lease lapsed under a living executor, which
\* may pay after the reconciler was told that there is no payment.
FailedTookNothing ==
  op.state = "FAILED" /\ ~opLeft.outlived => ~world.paid

\* So an answer is true: of the row for good, and of the money when it says failed.
AnswersAreTrue == AnswersAgree /\ FailedTookNothing
===============================================================================
