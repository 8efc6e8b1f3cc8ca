---------------------------- MODULE OperationProofs ----------------------------
(***************************************************************************)
(* Theorems about what runs in the background, for every set of callers,   *)
(* every plan of what they ask and every bound: the idempotency primitive, *)
(* the recovery of the router's operations and the eSIM client; what is    *)
(* answered of an incident; resources' health and the decisions made of    *)
(* it; what the phones have queued; and the versions of an intent.         *)
(***************************************************************************)
EXTENDS MCBackground, IncidentLookup, FiniteSetTheorems, SequenceTheorems,
        WellFoundedInduction, TLAPS

-----------------------------------------------------------------------------
(* IdempotencyClaim: the answers of purchaseTopUp.                         *)

\* Only the holder of the claim runs, its own payload is the row's, and while its
\* lease never lapsed under it the row is its own to end.
ExecutorHoldsClaim ==
  /\ \A q \in Request : Running(q) => op.state # "absent" /\ op.claim = q
  /\ \A q \in Request : op.state # "absent" /\ op.claim = q =>
       req[q].pc # "new" /\ req[q].payload = op.payload
  /\ ~opLeft.outlived =>
       \A q \in Request : Running(q) => op.state = "IN_PROGRESS" /\ op.live

\* A request that polls found a row, and one that polls again its own payload there.
PollersFoundRow ==
  /\ \A q \in Request : req[q].pc = "new" => req[q].answer = "none"
  /\ \A q \in Request : req[q].pc \in {"poll", "polling"} => op.state # "absent"
  /\ \A q \in Request : req[q].pc = "polling" => req[q].payload = op.payload

\* Reconciliation comes after the executor's time.
ReconciledLate ==
  \A k \in Reconciler : rcl[k].pc # "idle" => op.state \notin {"absent", "IN_PROGRESS"}

\* Before its payment an executor has taken none, nor has anybody else.
PaidByExecutor ==
  /\ op.state = "absent" => ~world.paid
  /\ \A q \in Request :
       \/ req[q].pc \in {"check", "pay"}
       \/ req[q].pc = "finish" /\ req[q].outcome = "CONFIRMED_FAILURE"
       => ~world.paid
  /\ ~opLeft.outlived =>
       \A k \in Reconciler : rcl[k].pc = "store" /\ rcl[k].said = "FAILED" => ~world.paid

OpInv == /\ OpTypeOK /\ ExecutorHoldsClaim /\ PollersFoundRow /\ ReconciledLate
         /\ PaidByExecutor /\ AnswersAgree /\ FailedTookNothing


\* What became of the requests: of q what `row` says, of the others nothing.
Becomes(q, row) == /\ req' \in [Request -> ReqRow] /\ req'[q] = row
                   /\ \A x \in Request : x # q => req'[x] = req[x]

LEMMA ReqUpdate ==
  ASSUME OpTypeOK, NEW q \in Request, NEW row \in ReqRow, req' = [req EXCEPT ![q] = row]
  PROVE  Becomes(q, row)
BY DEF OpTypeOK, Becomes

LEMMA ReqAtBecomes ==
  ASSUME OpTypeOK, NEW q \in Request, NEW pc \in ReqPc, ReqAt(q, pc)
  PROVE  Becomes(q, [req[q] EXCEPT !.pc = pc])
BY ReqUpdate DEF OpTypeOK, ReqRow, ReqAt

LEMMA FinishingBecomes ==
  ASSUME OpTypeOK, NEW q \in Request, NEW outcome \in Outcome, Finishing(q, outcome)
  PROVE  Becomes(q, [req[q] EXCEPT !.pc = "finish", !.outcome = outcome])
<1>. DEFINE row == [req[q] EXCEPT !.pc = "finish", !.outcome = outcome]
<1>1. req[q] \in ReqRow /\ req \in [Request -> ReqRow]
  BY DEF OpTypeOK
<1>2. row \in ReqRow
  BY <1>1 DEF ReqRow, ReqPc
<1>3. req' = [req EXCEPT ![q] = row]
  BY <1>1 DEF Finishing
<1>. QED  BY <1>2, <1>3, ReqUpdate

LEMMA AnsweredBecomes ==
  ASSUME OpTypeOK, NEW q \in Request, NEW answer \in Answer, Answered(q, answer)
  PROVE  Becomes(q, [req[q] EXCEPT !.pc = "done", !.answer = answer])
<1>. DEFINE row == [req[q] EXCEPT !.pc = "done", !.answer = answer]
<1>1. req[q] \in ReqRow /\ req \in [Request -> ReqRow]
  BY DEF OpTypeOK
<1>2. row \in ReqRow
  BY <1>1 DEF ReqRow, ReqPc
<1>3. req' = [req EXCEPT ![q] = row]
  BY <1>1 DEF Answered
<1>. QED  BY <1>2, <1>3, ReqUpdate

LEMMA OpInitInv == OpInit => OpInv
<1>. SUFFICES ASSUME OpInit PROVE OpInv
  OBVIOUS
<1>1. PICK bounds \in OpBounds : OpInitOf(bounds)
  BY DEF OpInit
<1>2. op \in OpRow
  BY <1>1 DEF OpInitOf, OpRow
<1>3. [pc |-> "new", payload |-> NoOne, outcome |-> "SUCCESS", answer |-> "none"] \in ReqRow
  BY DEF ReqRow, ReqPc, Outcome
<1>4. req \in [Request -> ReqRow]
  BY <1>1, <1>3 DEF OpInitOf
<1>5. OpTypeOK
  BY <1>1, <1>2, <1>4, OpAssumption DEF OpInitOf, OpTypeOK, RclRow
<1>6. ExecutorHoldsClaim /\ PollersFoundRow
  BY <1>1 DEF OpInitOf, ExecutorHoldsClaim, PollersFoundRow, Running
<1>7. ReconciledLate /\ PaidByExecutor /\ AnswersAgree /\ FailedTookNothing
  BY <1>1 DEF OpInitOf, ReconciledLate, PaidByExecutor, AnswersAgree, FailedTookNothing
<1>. QED  BY <1>5, <1>6, <1>7 DEF OpInv

\* A request that moves while the row stays as it is.
LEMMA RequestMoves ==
  ASSUME OpInv, NEW q \in Request, NEW row \in ReqRow, Becomes(q, row), UNCHANGED <<op, rcl>>,
         opLeft' \in [lapses : Nat, faults : Nat, outlived : BOOLEAN],
         opLeft'.outlived = opLeft.outlived,
         world' \in [paid : BOOLEAN, delivered : BOOLEAN, recorded : BOOLEAN],
         world'.paid # world.paid => Running(q),
         row.payload = req[q].payload, row.pc # "new",
         Running(q)' => Running(q),
         \/ row.pc \in {"check", "pay"}
         \/ row.pc = "finish" /\ row.outcome = "CONFIRMED_FAILURE"
         => ~world'.paid,
         row.pc \in {"poll", "polling"} => op.state # "absent",
         row.pc = "polling" => row.payload = op.payload,
         row.answer = "result" => op.state = "COMPLETED",
         row.answer = "failure" => op.state = "FAILED",
         row.answer \in {"result", "failure"} => row.payload = op.payload
  PROVE  OpInv'
<1>1. OpTypeOK'
  BY DEF OpInv, OpTypeOK, Becomes
<1>2. \A x \in Request : Running(x)' => Running(x)
  BY DEF Becomes, Running
<1>3. ExecutorHoldsClaim'
  BY <1>2 DEF OpInv, ExecutorHoldsClaim, Becomes
<1>4. PollersFoundRow' /\ ReconciledLate' /\ AnswersAgree'
  BY DEF OpInv, PollersFoundRow, ReconciledLate, AnswersAgree, Becomes
<1>5. PaidByExecutor' /\ FailedTookNothing'
  BY DEF OpInv, PaidByExecutor, FailedTookNothing, Becomes, ExecutorHoldsClaim, Running,
     ReconciledLate
<1>. QED  BY <1>1, <1>3, <1>4, <1>5 DEF OpInv

\* The bounds, when a call fails.
LEMMA FaultKeepsBounds ==
  ASSUME OpTypeOK, OpFault \/ UNCHANGED opLeft
  PROVE  /\ opLeft' \in [lapses : Nat, faults : Nat, outlived : BOOLEAN]
         /\ opLeft'.outlived = opLeft.outlived
BY DEF OpTypeOK, OpFault

LEMMA CheckTopUpInv ==
  ASSUME OpInv, NEW q \in Request, CheckTopUp(q) PROVE OpInv'
<1>1. /\ OpTypeOK /\ req[q] \in ReqRow /\ req[q].pc = "check" /\ Running(q)
      /\ ~world.paid
  BY DEF OpInv, OpTypeOK, CheckTopUp, Running, PaidByExecutor
<1>2. /\ opLeft' \in [lapses : Nat, faults : Nat, outlived : BOOLEAN]
      /\ opLeft'.outlived = opLeft.outlived
  BY <1>1, FaultKeepsBounds DEF CheckTopUp
<1>3. PICK row \in ReqRow :
        /\ Becomes(q, row) /\ row.pc \in {"pay", "finish"} /\ row.payload = req[q].payload
        /\ row.answer = req[q].answer
  <2>1. CASE ReqAt(q, "pay")
    <3>1. Becomes(q, [req[q] EXCEPT !.pc = "pay"])
      BY <1>1, <2>1, ReqAtBecomes DEF ReqPc
    <3>. QED  BY <1>1, <3>1 DEF Becomes, ReqRow
  <2>2. CASE Finishing(q, "CONFIRMED_FAILURE")
    <3>1. Becomes(q, [req[q] EXCEPT !.pc = "finish", !.outcome = "CONFIRMED_FAILURE"])
      BY <1>1, <2>2, FinishingBecomes DEF Outcome
    <3>. QED  BY <1>1, <3>1 DEF Becomes, ReqRow
  <2>. QED  BY <2>1, <2>2 DEF CheckTopUp
<1>. QED  BY <1>1, <1>2, <1>3, RequestMoves
          DEF OpInv, CheckTopUp, AnswersAgree, Becomes, OpTypeOK, Running

LEMMA AttemptInv ==
  ASSUME OpInv, NEW q \in Request, NEW pc \in {"pay", "deliver", "record"},
         NEW effect \in [paid : BOOLEAN, delivered : BOOLEAN, recorded : BOOLEAN],
         effect.paid = world.paid \/ pc = "pay",
         NEW row \in ReqRow, row.pc \in {"deliver", "record", "finish"},
         row.pc = "finish" => row.outcome = "SUCCESS",
         row.payload = req[q].payload, row.answer = req[q].answer,
         NEW then, then => Becomes(q, row), Attempt(q, pc, effect, then)
  PROVE  OpInv'
<1>1. OpTypeOK /\ req[q] \in ReqRow /\ req[q].pc = pc /\ Running(q)
  BY DEF OpInv, OpTypeOK, Attempt, Running
<1>2. /\ opLeft' \in [lapses : Nat, faults : Nat, outlived : BOOLEAN]
      /\ opLeft'.outlived = opLeft.outlived
  BY <1>1, FaultKeepsBounds DEF Attempt
<1>3. world' \in [paid : BOOLEAN, delivered : BOOLEAN, recorded : BOOLEAN]
  BY <1>1 DEF Attempt, OpTypeOK
<1>4. PICK new \in ReqRow :
        /\ Becomes(q, new) /\ new.pc \in {"deliver", "record", "finish"}
        /\ new.pc = "finish" => new.outcome # "CONFIRMED_FAILURE"
        /\ new.payload = req[q].payload /\ new.answer = req[q].answer
  <2>1. CASE then
    BY <2>1
  <2>2. CASE Finishing(q, "AMBIGUOUS_EXTERNAL_FAILURE")
    <3>1. Becomes(q, [req[q] EXCEPT !.pc = "finish", !.outcome = "AMBIGUOUS_EXTERNAL_FAILURE"])
      BY <1>1, <2>2, FinishingBecomes DEF Outcome
    <3>. QED  BY <1>1, <3>1 DEF Becomes, ReqRow
  <2>. QED  BY <2>1, <2>2 DEF Attempt
<1>. QED  BY <1>1, <1>2, <1>3, <1>4, RequestMoves DEF OpInv, Attempt, AnswersAgree

LEMMA PayInv ==
  ASSUME OpInv, NEW q \in Request, Pay(q) PROVE OpInv'
<1>. DEFINE row == [req[q] EXCEPT !.pc = "deliver"]
            effect == [world EXCEPT !.paid = TRUE]
<1>1. OpTypeOK /\ req[q] \in ReqRow
  BY DEF OpInv, OpTypeOK
<1>2. row \in ReqRow /\ row.payload = req[q].payload /\ row.answer = req[q].answer
      /\ row.pc = "deliver"
  BY <1>1 DEF ReqRow, ReqPc
<1>3. effect \in [paid : BOOLEAN, delivered : BOOLEAN, recorded : BOOLEAN]
  BY <1>1 DEF OpTypeOK
<1>4. ReqAt(q, "deliver") => Becomes(q, row)
  BY <1>1, ReqAtBecomes DEF ReqPc
<1>5. Attempt(q, "pay", effect, ReqAt(q, "deliver"))
  BY DEF Pay
<1>. HIDE DEF row, effect
<1>. QED  BY <1>2, <1>3, <1>4, <1>5, AttemptInv

LEMMA DeliverInv ==
  ASSUME OpInv, NEW q \in Request, Deliver(q) PROVE OpInv'
<1>. DEFINE row == [req[q] EXCEPT !.pc = "record"]
            effect == [world EXCEPT !.delivered = TRUE]
<1>1. OpTypeOK /\ req[q] \in ReqRow
  BY DEF OpInv, OpTypeOK
<1>2. row \in ReqRow /\ row.payload = req[q].payload /\ row.answer = req[q].answer
      /\ row.pc = "record"
  BY <1>1 DEF ReqRow, ReqPc
<1>3. /\ effect \in [paid : BOOLEAN, delivered : BOOLEAN, recorded : BOOLEAN]
      /\ effect.paid = world.paid
  BY <1>1 DEF OpTypeOK
<1>4. ReqAt(q, "record") => Becomes(q, row)
  BY <1>1, ReqAtBecomes DEF ReqPc
<1>5. Attempt(q, "deliver", effect, ReqAt(q, "record"))
  BY DEF Deliver
<1>. HIDE DEF row, effect
<1>. QED  BY <1>2, <1>3, <1>4, <1>5, AttemptInv

LEMMA RecordTopUpInv ==
  ASSUME OpInv, NEW q \in Request, RecordTopUp(q) PROVE OpInv'
<1>. DEFINE row == [req[q] EXCEPT !.pc = "finish", !.outcome = "SUCCESS"]
            effect == [world EXCEPT !.recorded = TRUE]
<1>1. OpTypeOK /\ req[q] \in ReqRow
  BY DEF OpInv, OpTypeOK
<1>2. row \in ReqRow /\ row.payload = req[q].payload /\ row.answer = req[q].answer
      /\ row.pc = "finish" /\ row.outcome = "SUCCESS"
  BY <1>1 DEF ReqRow, ReqPc, Outcome
<1>3. /\ effect \in [paid : BOOLEAN, delivered : BOOLEAN, recorded : BOOLEAN]
      /\ effect.paid = world.paid
  BY <1>1 DEF OpTypeOK
<1>4. Finishing(q, "SUCCESS") => Becomes(q, row)
  BY <1>1, FinishingBecomes DEF Outcome
<1>5. Attempt(q, "record", effect, Finishing(q, "SUCCESS"))
  BY DEF RecordTopUp
<1>. HIDE DEF row, effect
<1>. QED  BY <1>2, <1>3, <1>4, <1>5, AttemptInv

\* What a look at the row answers is what the row says.
LEMMA LookBecomes ==
  ASSUME OpTypeOK, NEW q \in Request, Look(q)
  PROVE  \E row \in ReqRow :
           /\ Becomes(q, row) /\ row.pc \in {"polling", "done"} /\ row.payload = req[q].payload
           /\ row.answer = "result" => op.state = "COMPLETED" \/ req[q].answer = "result"
           /\ row.answer = "failure" => op.state = "FAILED" \/ req[q].answer = "failure"
<1>1. req[q] \in ReqRow
  BY DEF OpTypeOK
<1>2. ASSUME NEW answer \in Answer, Answered(q, answer),
             answer = "result" => op.state = "COMPLETED",
             answer = "failure" => op.state = "FAILED"
      PROVE  \E row \in ReqRow :
               /\ Becomes(q, row) /\ row.pc \in {"polling", "done"}
               /\ row.payload = req[q].payload
               /\ row.answer = "result" => op.state = "COMPLETED" \/ req[q].answer = "result"
               /\ row.answer = "failure" => op.state = "FAILED" \/ req[q].answer = "failure"
  <2>1. Becomes(q, [req[q] EXCEPT !.pc = "done", !.answer = answer])
    BY <1>2, AnsweredBecomes
  <2>. QED  BY <1>1, <1>2, <2>1 DEF Becomes, ReqRow
<1>3. CASE ReqAt(q, "polling")
  <2>1. Becomes(q, [req[q] EXCEPT !.pc = "polling"])
    BY <1>3, ReqAtBecomes DEF ReqPc
  <2>. QED  BY <1>1, <2>1 DEF Becomes, ReqRow
<1>4. CASE op.state = "COMPLETED" BY <1>4, <1>2 DEF Look, Answer
<1>5. CASE op.state = "FAILED" BY <1>5, <1>2 DEF Look, Answer
<1>6. CASE op.state \in {"RECONCILIATION_REQUIRED", "RECONCILIATION_CLAIMED"}
  BY <1>6, <1>2 DEF Look, Answer
<1>. QED  BY <1>3, <1>4, <1>5, <1>6 DEF Look

LEMMA PollInv ==
  ASSUME OpInv, NEW q \in Request, UNCHANGED <<op, rcl, world, opLeft>>,
         req[q].pc \in {"poll", "polling"},
         \/ Look(q) /\ req[q].payload = op.payload
         \/ Answered(q, "other payload") \/ Answered(q, "busy")
  PROVE  OpInv'
<1>1. OpTypeOK /\ req[q] \in ReqRow /\ op.state # "absent"
  BY DEF OpInv, OpTypeOK, PollersFoundRow
<1>2. PICK row \in ReqRow :
        /\ Becomes(q, row) /\ row.pc \in {"polling", "done"} /\ row.payload = req[q].payload
        /\ row.answer = "result" => op.state = "COMPLETED" \/ req[q].answer = "result"
        /\ row.answer = "failure" => op.state = "FAILED" \/ req[q].answer = "failure"
        /\ \/ row.payload = op.payload
           \/ row.pc = "done" /\ row.answer \notin {"result", "failure"}
  <2>1. CASE Look(q) /\ req[q].payload = op.payload
    <3>1. PICK row \in ReqRow :
            /\ Becomes(q, row) /\ row.pc \in {"polling", "done"}
            /\ row.payload = req[q].payload
            /\ row.answer = "result" => op.state = "COMPLETED" \/ req[q].answer = "result"
            /\ row.answer = "failure" => op.state = "FAILED" \/ req[q].answer = "failure"
      BY <1>1, <2>1, LookBecomes
    <3>. QED  BY <2>1, <3>1
  <2>2. ASSUME NEW answer \in {"other payload", "busy"}, Answered(q, answer)
        PROVE  \E row \in ReqRow :
          /\ Becomes(q, row) /\ row.pc \in {"polling", "done"} /\ row.payload = req[q].payload
          /\ row.answer = "result" => op.state = "COMPLETED" \/ req[q].answer = "result"
          /\ row.answer = "failure" => op.state = "FAILED" \/ req[q].answer = "failure"
          /\ \/ row.payload = op.payload
             \/ row.pc = "done" /\ row.answer \notin {"result", "failure"}
    <3>1. Becomes(q, [req[q] EXCEPT !.pc = "done", !.answer = answer])
      BY <1>1, <2>2, AnsweredBecomes DEF Answer
    <3>. QED  BY <1>1, <2>2, <3>1 DEF Becomes, ReqRow
  <2>. QED  BY <2>1, <2>2
<1>3. ~Running(q)'
  BY <1>2 DEF Becomes, Running
<1>4. /\ row.answer = "result" => op.state = "COMPLETED"
      /\ row.answer = "failure" => op.state = "FAILED"
      /\ row.payload = req[q].payload /\ row.pc \notin {"new", "poll"}
  BY <1>1, <1>2 DEF OpInv, AnswersAgree
<1>. QED  BY <1>1, <1>2, <1>3, <1>4, RequestMoves DEF OpInv, OpTypeOK, AnswersAgree

LEMMA PollFirstInv ==
  ASSUME OpInv, NEW q \in Request, PollFirst(q) PROVE OpInv'
BY PollInv DEF PollFirst

LEMMA PollAgainInv ==
  ASSUME OpInv, NEW q \in Request, PollAgain(q) PROVE OpInv'
BY PollInv DEF OpInv, PollersFoundRow, PollAgain

LEMMA CrashRequestInv ==
  ASSUME OpInv, NEW q \in Request, CrashRequest(q) PROVE OpInv'
<1>1. OpTypeOK /\ req[q] \in ReqRow
  BY DEF OpInv, OpTypeOK
<1>2. /\ opLeft' \in [lapses : Nat, faults : Nat, outlived : BOOLEAN]
      /\ opLeft'.outlived = opLeft.outlived
  BY <1>1, FaultKeepsBounds DEF CrashRequest
<1>3. Becomes(q, [req[q] EXCEPT !.pc = "dead"])
  BY <1>1, ReqAtBecomes DEF CrashRequest, ReqPc
<1>4. PICK row \in ReqRow : /\ Becomes(q, row) /\ row.pc = "dead"
                            /\ row.payload = req[q].payload /\ row.answer = req[q].answer
  BY <1>1, <1>3 DEF Becomes, ReqRow
<1>5. ~Running(q)'
  BY <1>4 DEF Becomes, Running
<1>. QED  BY <1>1, <1>2, <1>4, <1>5, RequestMoves DEF OpInv, OpTypeOK, CrashRequest, AnswersAgree

LEMMA ClaimKeyInv ==
  ASSUME OpInv, NEW q \in Request, NEW p \in Payload, ClaimKey(q, p) PROVE OpInv'
<1>1. OpTypeOK /\ op \in OpRow /\ req \in [Request -> ReqRow] /\ req[q] \in ReqRow
  BY DEF OpInv, OpTypeOK
<1>2. CASE op.state = "absent"
  <2>. DEFINE row == [req[q] EXCEPT !.pc = "check", !.payload = p]
  <2>1. row \in ReqRow /\ req' = [req EXCEPT ![q] = row]
    BY <1>1, <1>2 DEF ClaimKey, ReqRow, ReqPc
  <2>2. Becomes(q, row)
    BY <1>1, <2>1, ReqUpdate
  <2>3. /\ op' \in OpRow /\ op'.state = "IN_PROGRESS" /\ op'.payload = p /\ op'.claim = q
        /\ op'.live = TRUE
    BY <1>2, <1>1 DEF ClaimKey, OpRow, OperationState
  <2>4. row.pc = "check" /\ row.payload = p /\ row.answer = req[q].answer
    BY <1>1 DEF ReqRow
  <2>5. OpTypeOK'
    BY <1>1, <2>2, <2>3 DEF ClaimKey, Becomes, OpTypeOK
  <2>. HIDE DEF row
  <2>6. ExecutorHoldsClaim' /\ PollersFoundRow'
    BY <1>2, <2>2, <2>3, <2>4 DEF OpInv, ExecutorHoldsClaim, PollersFoundRow, ClaimKey, Becomes,
       Running
  <2>7. UNCHANGED <<rcl, world, opLeft>> /\ ~world.paid
    BY <1>2 DEF OpInv, ClaimKey, PaidByExecutor
  <2>8. \A k \in Reconciler : rcl[k].pc = "idle"
    BY <1>2 DEF OpInv, ReconciledLate
  <2>9. ReconciledLate' /\ PaidByExecutor' /\ FailedTookNothing'
    BY <2>3, <2>7, <2>8 DEF ReconciledLate, PaidByExecutor, FailedTookNothing
  <2>10. \A x \in Request : req[x].answer \notin {"result", "failure"}
    BY <1>2 DEF OpInv, AnswersAgree
  <2>11. AnswersAgree'
    BY <2>2, <2>4, <2>10 DEF Becomes, AnswersAgree
  <2>. QED  BY <2>5, <2>6, <2>9, <2>11 DEF OpInv
<1>3. CASE op.state # "absent"
  <2>. DEFINE row == [req[q] EXCEPT !.pc = "poll", !.payload = p]
  <2>1. row \in ReqRow /\ req' = [req EXCEPT ![q] = row]
    BY <1>1, <1>3 DEF ClaimKey, ReqRow, ReqPc
  <2>2. Becomes(q, row)
    BY <1>1, <2>1, ReqUpdate
  <2>3. row.pc = "poll" /\ row.payload = p /\ row.answer = req[q].answer
    BY <1>1 DEF ReqRow
  <2>4. OpTypeOK'
    BY <1>1, <1>3, <2>2 DEF ClaimKey, Becomes, OpTypeOK
  <2>. HIDE DEF row
  <2>5. req[q].pc = "new" /\ op.claim # q /\ req[q].answer = "none"
    BY <1>3 DEF OpInv, ClaimKey, ExecutorHoldsClaim, PollersFoundRow
  <2>6. ExecutorHoldsClaim' /\ PollersFoundRow'
    BY <2>2, <2>3, <2>5, <1>3
    DEF OpInv, ClaimKey, Becomes, ExecutorHoldsClaim, PollersFoundRow, Running
  <2>7. ReconciledLate' /\ PaidByExecutor' /\ AnswersAgree' /\ FailedTookNothing'
    BY <2>2, <2>3, <2>5, <1>3
    DEF OpInv, ClaimKey, Becomes, ReconciledLate, PaidByExecutor, AnswersAgree, FailedTookNothing
  <2>. QED  BY <2>4, <2>6, <2>7 DEF OpInv
<1>. QED  BY <1>2, <1>3

LEMMA FinishOperationInv ==
  ASSUME OpInv, NEW q \in Request, FinishOperation(q) PROVE OpInv'
<1>1. /\ OpTypeOK /\ op \in OpRow /\ req \in [Request -> ReqRow] /\ req[q] \in ReqRow
      /\ req[q].pc = "finish" /\ Running(q)
  BY DEF OpInv, OpTypeOK, FinishOperation, Running
<1>2. /\ opLeft' \in [lapses : Nat, faults : Nat, outlived : BOOLEAN]
      /\ opLeft'.outlived = opLeft.outlived
  BY <1>1, FaultKeepsBounds DEF FinishOperation
<1>3. req[q].outcome \in Outcome /\ AnswerTo(req[q].outcome) \in Answer
      /\ Ending(req[q].outcome) \in OperationState \ {"IN_PROGRESS"}
  BY <1>1 DEF ReqRow, Outcome, AnswerTo, Ending, Answer, OperationState
<1>4. CASE /\ op.state = "IN_PROGRESS" /\ op.claim = q
           /\ op' = [op EXCEPT !.state = Ending(req[q].outcome), !.live = FALSE]
           /\ Answered(q, AnswerTo(req[q].outcome)) /\ UNCHANGED opLeft
  <2>. DEFINE row == [req[q] EXCEPT !.pc = "done", !.answer = AnswerTo(req[q].outcome)]
  <2>1. Becomes(q, row)
    BY <1>1, <1>3, <1>4, AnsweredBecomes
  <2>2. /\ row.pc = "done" /\ row.payload = req[q].payload /\ row.payload = op.payload
        /\ row.answer = AnswerTo(req[q].outcome)
    BY <1>1, <1>4 DEF ReqRow, OpInv, ExecutorHoldsClaim
  <2>3. /\ op' \in OpRow /\ op'.state = Ending(req[q].outcome) /\ op'.payload = op.payload
        /\ op'.claim = q
    BY <1>1, <1>3, <1>4 DEF OpRow
  <2>. HIDE DEF row
  <2>4. OpTypeOK'
    BY <1>1, <2>1, <2>3, <1>4 DEF FinishOperation, Becomes, OpTypeOK
  <2>5. \A x \in Request : ~Running(x)'
    BY <1>4, <2>1, <2>2 DEF OpInv, ExecutorHoldsClaim, Becomes, Running
  <2>6. \A k \in Reconciler : rcl[k].pc = "idle"
    BY <1>4 DEF OpInv, ReconciledLate
  <2>7. op'.state # "absent" /\ (op'.state = "FAILED" => ~world.paid)
    BY <1>1, <1>3, <2>3 DEF OperationState, Ending, OpInv, PaidByExecutor
  <2>8. ExecutorHoldsClaim' /\ PollersFoundRow'
    BY <1>4, <2>1, <2>2, <2>3, <2>5, <2>7
    DEF OpInv, Becomes, ExecutorHoldsClaim, PollersFoundRow
  <2>9. ReconciledLate' /\ FailedTookNothing'
    BY <1>4, <2>6, <2>7 DEF FinishOperation, ReconciledLate, FailedTookNothing
  <2>10. PaidByExecutor'
    BY <1>4, <2>5, <2>6, <2>7 DEF FinishOperation, PaidByExecutor, Running
  <2>11. AnswersAgree'
    BY <1>4, <1>3, <2>2, <2>3, <2>1 DEF OpInv, AnswersAgree, AnswerTo, Ending, Outcome, Becomes
  <2>. QED  BY <2>4, <2>8, <2>9, <2>10, <2>11 DEF OpInv
<1>5. CASE UNCHANGED op
  <2>1. PICK row \in ReqRow :
          /\ Becomes(q, row) /\ row.payload = req[q].payload
          /\ \/ /\ row.pc = "finish" /\ row.outcome = "AMBIGUOUS_EXTERNAL_FAILURE"
                /\ row.answer = req[q].answer
             \/ row.pc = "done" /\ row.answer = "unknown"
    <3>1. CASE Answered(q, "unknown")
      <4>1. Becomes(q, [req[q] EXCEPT !.pc = "done", !.answer = "unknown"])
        BY <1>1, <3>1, AnsweredBecomes DEF Answer
      <4>. QED  BY <1>1, <4>1 DEF Becomes, ReqRow
    <3>2. CASE Finishing(q, "AMBIGUOUS_EXTERNAL_FAILURE")
      <4>1. Becomes(q, [req[q] EXCEPT !.pc = "finish",
                                      !.outcome = "AMBIGUOUS_EXTERNAL_FAILURE"])
        BY <1>1, <3>2, FinishingBecomes DEF Outcome
      <4>. QED  BY <1>1, <4>1 DEF Becomes, ReqRow
    <3>3. op.state = "IN_PROGRESS" => Ending(req[q].outcome) # op.state
      BY <1>3
    <3>4. op' = [op EXCEPT !.state = Ending(req[q].outcome), !.live = FALSE]
          => op'.state = Ending(req[q].outcome)
      BY <1>1 DEF OpRow
    <3>. QED  BY <1>5, <3>1, <3>2, <3>3, <3>4 DEF FinishOperation
  <2>. QED  BY <1>1, <1>2, <1>5, <2>1, RequestMoves
            DEF OpInv, FinishOperation, AnswersAgree, OpTypeOK
<1>. QED  BY <1>4, <1>5 DEF FinishOperation

\* The row moves while the requests stay as they are.
LEMMA RowMoves ==
  ASSUME OpInv, UNCHANGED <<req, world>>, op' \in OpRow,
         op.state # "absent", op'.state # "absent",
         op'.payload = op.payload, op'.claim = op.claim,
         rcl' \in [Reconciler -> RclRow],
         opLeft' \in [lapses : Nat, faults : Nat, outlived : BOOLEAN],
         opLeft.outlived => opLeft'.outlived,
         ~opLeft'.outlived =>
           \A q \in Request : Running(q) => op'.state = "IN_PROGRESS" /\ op'.live,
         op.state \in {"COMPLETED", "FAILED"} => op'.state = op.state,
         op'.state = "FAILED" => \/ op.state = "FAILED"
                                 \/ \E k \in Reconciler : rcl[k].pc = "store"
                                                          /\ rcl[k].said = "FAILED",
         op'.state = "IN_PROGRESS" => op.state = "IN_PROGRESS" /\ UNCHANGED rcl,
         \A k \in Reconciler : rcl'[k].pc = "store" /\ rcl'[k].said = "FAILED" =>
           (rcl[k].pc = "store" /\ rcl[k].said = "FAILED") \/ ~world.paid
  PROVE  OpInv'
BY DEF OpInv, OpTypeOK, Running, ExecutorHoldsClaim, PollersFoundRow, ReconciledLate,
   PaidByExecutor, FailedTookNothing, AnswersAgree

LEMMA RenewClaimInv ==
  ASSUME OpInv, NEW q \in Request, RenewClaim(q) PROVE OpInv'
BY RowMoves DEF OpInv, OpTypeOK, RenewClaim, OpRow

LEMMA ClaimLeaseLapsesInv ==
  ASSUME OpInv, ClaimLeaseLapses PROVE OpInv'
<1>1. op \in OpRow /\ OpTypeOK
  BY DEF OpInv, OpTypeOK
<1>2. /\ op' \in OpRow /\ op'.state = "IN_PROGRESS"
      /\ op'.payload = op.payload /\ op'.claim = op.claim
  BY <1>1 DEF ClaimLeaseLapses, OpRow
<1>3. /\ opLeft' \in [lapses : Nat, faults : Nat, outlived : BOOLEAN]
      /\ opLeft.outlived => opLeft'.outlived
      /\ Running(op.claim) => opLeft'.outlived
  <2>1. CASE Running(op.claim)
    <3>1. /\ opLeft.lapses > 0
          /\ opLeft' = [opLeft EXCEPT !.lapses = @ - 1, !.outlived = TRUE]
      BY <2>1 DEF ClaimLeaseLapses
    <3>2. opLeft \in [lapses : Nat, faults : Nat, outlived : BOOLEAN]
      BY <1>1 DEF OpTypeOK
    <3>3. opLeft.lapses - 1 \in Nat
      BY <3>1, <3>2
    <3>4. opLeft' = [lapses |-> opLeft.lapses - 1, faults |-> opLeft.faults, outlived |-> TRUE]
      BY <3>1, <3>2
    <3>. QED  BY <3>2, <3>3, <3>4
  <2>2. CASE ~Running(op.claim)
    BY <1>1, <2>2 DEF ClaimLeaseLapses, OpTypeOK
  <2>. QED  BY <2>1, <2>2
<1>4. ~opLeft'.outlived => \A q \in Request : ~Running(q)
  BY <1>3 DEF OpInv, ExecutorHoldsClaim
<1>. QED  BY <1>1, <1>2, <1>3, <1>4, RowMoves DEF ClaimLeaseLapses, OpTypeOK

LEMMA ReconcilerLeaseLapsesInv ==
  ASSUME OpInv, ReconcilerLeaseLapses PROVE OpInv'
<1>1. op \in OpRow /\ OpTypeOK
  BY DEF OpInv, OpTypeOK
<1>2. /\ op' \in OpRow /\ op'.state = "RECONCILIATION_CLAIMED"
      /\ op'.payload = op.payload /\ op'.claim = op.claim
  BY <1>1 DEF ReconcilerLeaseLapses, OpRow
<1>3. /\ opLeft' \in [lapses : Nat, faults : Nat, outlived : BOOLEAN]
      /\ opLeft'.outlived = opLeft.outlived
  BY <1>1 DEF ReconcilerLeaseLapses, OpTypeOK
<1>4. ~opLeft.outlived => \A q \in Request : ~Running(q)
  BY DEF OpInv, ExecutorHoldsClaim, ReconcilerLeaseLapses
<1>. QED  BY <1>1, <1>2, <1>3, <1>4, RowMoves DEF ReconcilerLeaseLapses, OpTypeOK

LEMMA ReclaimOperationInv ==
  ASSUME OpInv, ReclaimOperation PROVE OpInv'
BY RowMoves DEF OpInv, OpTypeOK, ReclaimOperation, OpRow, OperationState, ExecutorHoldsClaim

LEMMA ReclaimReconciliationInv ==
  ASSUME OpInv, ReclaimReconciliation PROVE OpInv'
BY RowMoves DEF OpInv, OpTypeOK, ReclaimReconciliation, OpRow, OperationState, ExecutorHoldsClaim

LEMMA ClaimReconciliationInv ==
  ASSUME OpInv, NEW k \in Reconciler, ClaimReconciliation(k) PROVE OpInv'
<1>1. op \in OpRow /\ OpTypeOK /\ rcl \in [Reconciler -> RclRow] /\ rcl[k] \in RclRow
  BY DEF OpInv, OpTypeOK
<1>2. /\ op' \in OpRow /\ op'.state = "RECONCILIATION_CLAIMED"
      /\ op'.payload = op.payload /\ op'.claim = op.claim
  BY <1>1 DEF ClaimReconciliation, OpRow, OperationState
<1>3. /\ rcl' \in [Reconciler -> RclRow] /\ rcl'[k].pc = "query"
      /\ \A j \in Reconciler : j # k => rcl'[j] = rcl[j]
  BY <1>1 DEF ClaimReconciliation, RclRow
<1>4. ~opLeft.outlived => \A q \in Request : ~Running(q)
  BY DEF OpInv, ExecutorHoldsClaim, ClaimReconciliation
<1>. QED  BY <1>1, <1>2, <1>3, <1>4, RowMoves DEF ClaimReconciliation, OpTypeOK

LEMMA QueryProviderInv ==
  ASSUME OpInv, NEW k \in Reconciler, QueryProvider(k) PROVE OpInv'
<1>1. op \in OpRow /\ OpTypeOK /\ rcl \in [Reconciler -> RclRow] /\ rcl[k] \in RclRow
  BY DEF OpInv, OpTypeOK
<1>2. op.state \notin {"absent", "IN_PROGRESS"}
  BY DEF OpInv, ReconciledLate, QueryProvider
<1>3. PICK row \in RclRow : rcl' = [rcl EXCEPT ![k] = row]
                            /\ (row.said = "FAILED" => ~world.paid)
  BY <1>1 DEF QueryProvider, RclRow
<1>4. /\ rcl' \in [Reconciler -> RclRow] /\ rcl'[k] = row
      /\ \A j \in Reconciler : j # k => rcl'[j] = rcl[j]
  BY <1>1, <1>3
<1>5. /\ opLeft' \in [lapses : Nat, faults : Nat, outlived : BOOLEAN]
      /\ opLeft'.outlived = opLeft.outlived
  BY <1>1, FaultKeepsBounds DEF QueryProvider
<1>6. ~opLeft.outlived => \A q \in Request : ~Running(q)
  BY <1>2 DEF OpInv, ExecutorHoldsClaim
<1>. QED  BY <1>1, <1>2, <1>3, <1>4, <1>5, <1>6, RowMoves DEF QueryProvider, OpTypeOK

LEMMA StoreReconciledInv ==
  ASSUME OpInv, NEW k \in Reconciler, StoreReconciled(k) PROVE OpInv'
<1>1. op \in OpRow /\ OpTypeOK /\ rcl \in [Reconciler -> RclRow] /\ rcl[k] \in RclRow
  BY DEF OpInv, OpTypeOK
<1>2. op.state \notin {"absent", "IN_PROGRESS"} /\ rcl[k].pc = "store"
  BY DEF OpInv, ReconciledLate, StoreReconciled
<1>3. /\ rcl' \in [Reconciler -> RclRow] /\ rcl'[k].pc = "idle"
      /\ \A j \in Reconciler : j # k => rcl'[j] = rcl[j]
  BY <1>1 DEF StoreReconciled, RclRow
<1>4. /\ ReconciledTo(rcl[k].said) \in {"COMPLETED", "FAILED", "RECONCILIATION_REQUIRED"}
      /\ ReconciledTo(rcl[k].said) = "FAILED" => rcl[k].said = "FAILED"
  BY DEF ReconciledTo
<1>5. /\ op' \in OpRow /\ op'.payload = op.payload /\ op'.claim = op.claim
      /\ \/ op'.state = op.state
         \/ op.state = "RECONCILIATION_CLAIMED" /\ op'.state = ReconciledTo(rcl[k].said)
  BY <1>1, <1>4 DEF StoreReconciled, OpRow, OperationState
<1>6. ~opLeft.outlived => \A q \in Request : ~Running(q)
  BY <1>2 DEF OpInv, ExecutorHoldsClaim
<1>. QED  BY <1>1, <1>2, <1>3, <1>4, <1>5, <1>6, RowMoves DEF StoreReconciled, OpTypeOK

LEMMA OpStepInv == OpInv /\ [OpNext]_opVars => OpInv'
<1>. SUFFICES ASSUME OpInv, [OpNext]_opVars PROVE OpInv'
  OBVIOUS
<1>1. CASE UNCHANGED opVars
  BY <1>1 DEF opVars, OpInv, OpTypeOK, ExecutorHoldsClaim, PollersFoundRow, ReconciledLate,
              PaidByExecutor, AnswersAgree, FailedTookNothing, Running
<1>2. ASSUME NEW q \in Request,
             \/ \E p \in Payload : ClaimKey(q, p)
             \/ CheckTopUp(q) \/ Pay(q) \/ Deliver(q) \/ RecordTopUp(q)
             \/ FinishOperation(q) \/ PollFirst(q) \/ PollAgain(q)
             \/ RenewClaim(q) \/ CrashRequest(q)
      PROVE  OpInv'
  BY <1>2, ClaimKeyInv, CheckTopUpInv, PayInv, DeliverInv, RecordTopUpInv, FinishOperationInv,
     PollFirstInv, PollAgainInv, RenewClaimInv, CrashRequestInv
<1>3. CASE \/ ClaimLeaseLapses \/ ReconcilerLeaseLapses
           \/ ReclaimOperation \/ ReclaimReconciliation
  BY <1>3, ClaimLeaseLapsesInv, ReconcilerLeaseLapsesInv, ReclaimOperationInv,
     ReclaimReconciliationInv
<1>4. ASSUME NEW k \in Reconciler,
             ClaimReconciliation(k) \/ QueryProvider(k) \/ StoreReconciled(k)
      PROVE  OpInv'
  BY <1>4, ClaimReconciliationInv, QueryProviderInv, StoreReconciledInv
<1>. QED  BY <1>1, <1>2, <1>3, <1>4 DEF OpNext

\* The operation's row, the requests and the reconcilers of one key keep their types,
\* whatever the payloads and the bounds (runIdempotentOperation, reconcileOperation).
THEOREM TopUpTyped == OpSpec => []OpTypeOK
<1>1. OpInv => OpTypeOK
  BY DEF OpInv
<1>. QED  BY OpInitInv, OpStepInv, <1>1, PTL DEF OpSpec

\* Whatever number of requests and reconcilers share a key, and whichever of them
\* crash, lapse or are overtaken: who is answered "result" or "failure" asked for the
\* payload of the row, which has completed or failed for good; and a failed operation
\* took no payment unless its executor outlived its lease (runIdempotentOperation,
\* reclaimExpiredIdempotencyOperations, reconcileOperation, purchaseTopUp).
THEOREM TopUpAnswersAreTrue == OpSpec => []AnswersAreTrue
<1>1. OpInv => AnswersAreTrue
  BY DEF OpInv, AnswersAreTrue
<1>. QED  BY OpInitInv, OpStepInv, <1>1, PTL DEF OpSpec

-----------------------------------------------------------------------------
(* OperationRecovery: the verdicts on the router's operations.             *)

\* An operation has its record before it calls the router.
CallsRecorded == \A o \in Operation :
  /\ call[o].pc = "new" => record[o].state = "none"
  /\ call[o].pc \in {"call", "complete"} => record[o].state # "none"

\* A goal that the router shows since an operation's start counts as achieved, and
\* an id that is not known now was not known then.
GoalsNoted == \A o \in Operation :
  /\ record[o].state # "none" /\ router \in Goal(call[o].kind) => o \in achieved
  /\ call[o].knew => known

\* The worker's outcome is true ...
OutcomeIsTrue == \A o \in Operation : call[o].pc = "complete" =>
  /\ call[o].outcome = "SUCCEEDED" =>
       o \in achieved \/ (call[o].kind = "release" /\ ~call[o].knew)
  /\ call[o].outcome = "FAILED_PERMANENT" => o \in refused

\* ... and so is what a recoverer was told, although the router moved on since.
TruthWasSeen == \A k \in Recoverer : run[k].pc # "idle" =>
  /\ run[k].op \in Operation /\ record[run[k].op].state # "none"
  /\ run[k].pc = "store" =>
       /\ run[k].truth \in Goal(call[run[k].op].kind) => run[k].op \in achieved
       /\ run[k].truth = "not_found" /\ call[run[k].op].kind = "release" =>
            run[k].op \in achieved \/ ~call[run[k].op].knew

RecInv == /\ RecTypeOK /\ CallsRecorded /\ GoalsNoted /\ OutcomeIsTrue /\ TruthWasSeen
          /\ VerdictIsTrue

LEMMA RecInitInv == RecInit => RecInv
<1>. SUFFICES ASSUME RecInit PROVE RecInv
  OBVIOUS
<1>1. PICK plan \in OperationPlans : RecInitOf(plan)
  BY DEF RecInit
<1>2. /\ plan.router \in RouterState /\ plan.known \in BOOLEAN
      /\ plan.kind \in [Operation -> Kind] /\ plan.bounds \in [slow : Nat, faults : Nat]
  BY RecAssumption DEF RouterState, Kind
<1>3. \A o \in Operation :
        /\ call[o] \in CallRow /\ call[o].pc = "new" /\ ~call[o].knew
        /\ record[o] \in RecordRow /\ record[o].state = "none"
  BY <1>1, <1>2 DEF RecInitOf, CallRow, RecordRow, Terminal
<1>4. \A k \in Recoverer : run[k] \in RunRow /\ run[k].pc = "idle"
  BY <1>1 DEF RecInitOf, RunRow, Truth
<1>5. RecTypeOK
  BY <1>1, <1>2, <1>3, <1>4 DEF RecInitOf, RecTypeOK
<1>6. CallsRecorded /\ GoalsNoted /\ OutcomeIsTrue /\ TruthWasSeen /\ VerdictIsTrue
  BY <1>1, <1>3, <1>4
  DEF CallsRecorded, GoalsNoted, OutcomeIsTrue, TruthWasSeen, VerdictIsTrue, Terminal
<1>. QED  BY <1>5, <1>6 DEF RecInv

\* What became of operation o's call or record: `row`, and of the others nothing.
CallBecomes(o, row) ==
  /\ call' \in [Operation -> CallRow] /\ call'[o] = row
  /\ \A x \in Operation : x # o => call'[x] = call[x]
RecordBecomes(o, row) ==
  /\ record' \in [Operation -> RecordRow] /\ record'[o] = row
  /\ \A x \in Operation : x # o => record'[x] = record[x]

LEMMA CallAtBecomes ==
  ASSUME RecTypeOK, NEW o \in Operation, NEW outcome \in Terminal,
         NEW pc \in {"call", "complete", "done", "dead"}, CallAt(o, pc, outcome)
  PROVE  \E row \in CallRow :
           /\ CallBecomes(o, row) /\ row.pc = pc /\ row.outcome = outcome
           /\ row.kind = call[o].kind
           /\ row.knew = (IF call[o].pc = "new" THEN known ELSE call[o].knew)
<1>. DEFINE knew == IF call[o].pc = "new" THEN known ELSE call[o].knew
            row == [call[o] EXCEPT !.pc = pc, !.outcome = outcome, !.knew = knew]
<1>1. call \in [Operation -> CallRow] /\ call[o] \in CallRow /\ knew \in BOOLEAN
  BY DEF RecTypeOK, CallRow
<1>. HIDE DEF knew
<1>2. row \in CallRow /\ row.pc = pc /\ row.outcome = outcome /\ row.kind = call[o].kind
      /\ row.knew = knew
  BY <1>1 DEF CallRow
<1>3. call' = [call EXCEPT ![o] = row]
  BY <1>1 DEF CallAt, knew
<1>. HIDE DEF row
<1>4. CallBecomes(o, row)
  BY <1>1, <1>2, <1>3 DEF CallBecomes
<1>. QED  BY <1>2, <1>4 DEF knew

LEMMA GoalSeenIsNoted ==
  ASSUME RecTypeOK, GoalSeen
  PROVE  /\ achieved \subseteq achieved' /\ achieved' \subseteq Operation
         /\ \A o \in Operation :
              record'[o].state # "none" /\ router' \in Goal(call[o].kind) => o \in achieved'
BY DEF GoalSeen, RecTypeOK

\* What no step undoes.
LEMMA VerdictsStay ==
  ASSUME RecInv,
         \A o \in Operation : /\ call'[o].kind = call[o].kind
                              /\ record[o].state # "none" => /\ record'[o].state # "none"
                                                             /\ call'[o].knew = call[o].knew,
         achieved \subseteq achieved', refused \subseteq refused'
  PROVE  /\ \A k \in Recoverer : run'[k] = run[k] /\ run[k].pc # "idle" =>
              /\ run'[k].op \in Operation /\ record'[run'[k].op].state # "none"
              /\ run'[k].pc = "store" =>
                   /\ run'[k].truth \in Goal(call'[run'[k].op].kind) => run'[k].op \in achieved'
                   /\ run'[k].truth = "not_found" /\ call'[run'[k].op].kind = "release" =>
                        run'[k].op \in achieved' \/ ~call'[run'[k].op].knew
         /\ \A o \in Operation : record'[o].state = record[o].state =>
              /\ record'[o].state = "SUCCEEDED" =>
                   \/ o \in achieved' \/ call'[o].kind = "resume"
                   \/ call'[o].kind = "release" /\ ~call'[o].knew
              /\ record'[o].state = "FAILED_PERMANENT" =>
                   o \in refused' \/ call'[o].kind = "provision"
BY DEF RecInv, TruthWasSeen, VerdictIsTrue

\* A step of operation o's worker.
LEMMA WorkerStep ==
  ASSUME RecInv, NEW o \in Operation, NEW row \in CallRow, NEW rec \in RecordRow,
         CallBecomes(o, row), RecordBecomes(o, rec), UNCHANGED run,
         row.kind = call[o].kind, row.pc # "new",
         call[o].pc # "new" => row.knew = call[o].knew,
         record[o].state # "none" => rec.state # "none",
         row.pc \in {"call", "complete"} => rec.state # "none",
         router' \in RouterState, known' \in BOOLEAN, known => known', row.knew => known',
         achieved \subseteq achieved', achieved' \subseteq Operation,
         refused \subseteq refused', refused' \subseteq Operation,
         recLeft' \in [slow : Nat, faults : Nat],
         \A x \in Operation :
           record'[x].state # "none" /\ router' \in Goal(call[x].kind) => x \in achieved',
         row.pc = "complete" =>
           /\ row.outcome = "SUCCEEDED" =>
                o \in achieved' \/ (row.kind = "release" /\ ~row.knew)
           /\ row.outcome = "FAILED_PERMANENT" => o \in refused',
         rec.state # record[o].state =>
           /\ rec.state = "SUCCEEDED" => \/ o \in achieved' \/ row.kind = "resume"
                                         \/ row.kind = "release" /\ ~row.knew
           /\ rec.state = "FAILED_PERMANENT" => o \in refused' \/ row.kind = "provision"
  PROVE  RecInv'
BY VerdictsStay DEF RecInv, RecTypeOK, CallBecomes, RecordBecomes, CallsRecorded, GoalsNoted,
   OutcomeIsTrue, TruthWasSeen, VerdictIsTrue

LEMMA FaultTyped ==
  ASSUME RecTypeOK, RecFault \/ UNCHANGED recLeft PROVE recLeft' \in [slow : Nat, faults : Nat]
BY DEF RecTypeOK, RecFault

LEMMA StartsInv ==
  ASSUME RecInv, NEW o \in Operation, NEW kind \in Kind, NEW needsId \in BOOLEAN,
         NEW withoutId \in {"SUCCEEDED", "FAILED_PERMANENT"},
         withoutId = "SUCCEEDED" => kind = "release" \/ ~needsId,
         Starts(o, kind, needsId, withoutId)
  PROVE  RecInv'
<1>1. /\ RecTypeOK /\ call[o] \in CallRow /\ record[o] \in RecordRow
      /\ call[o].pc = "new" /\ call[o].kind = kind /\ record[o].state = "none"
      /\ GoalSeen /\ UNCHANGED <<router, known, run>>
  BY DEF RecInv, RecTypeOK, Starts, CallsRecorded
<1>2. recLeft' \in [slow : Nat, faults : Nat]
  BY <1>1, FaultTyped DEF Starts
<1>3. CASE /\ Recorded(o)
           /\ IF known \/ ~needsId
                THEN CallAt(o, "call", "SUCCEEDED") /\ UNCHANGED refused
                ELSE CallAt(o, "complete", withoutId) /\ refused' = refused \cup {o}
  <2>. DEFINE rec == [record[o] EXCEPT !.state = "STARTED"]
  <2>1. rec \in RecordRow /\ rec.state = "STARTED" /\ RecordBecomes(o, rec)
    BY <1>1, <1>3 DEF RecTypeOK, RecordRow, Recorded, RecordBecomes
  <2>. HIDE DEF rec
  <2>2. PICK row \in CallRow :
          /\ CallBecomes(o, row) /\ row.kind = kind /\ row.knew = known
          /\ \/ row.pc = "call" /\ UNCHANGED refused
             \/ /\ row.pc = "complete" /\ row.outcome = withoutId
                /\ ~known /\ needsId /\ refused' = refused \cup {o}
    BY <1>3, <1>1, CallAtBecomes DEF Terminal
  <2>3. /\ router' \in RouterState /\ known' \in BOOLEAN /\ (known => known')
        /\ (row.knew => known')
        /\ refused \subseteq refused' /\ refused' \subseteq Operation
    BY <1>1, <2>2 DEF RecTypeOK
  <2>. QED  BY <1>1, <1>2, <2>1, <2>2, <2>3, GoalSeenIsNoted, WorkerStep
<1>4. CASE NotRecorded(o) /\ UNCHANGED refused
  <2>1. PICK row \in CallRow : /\ CallBecomes(o, row) /\ row.kind = kind /\ row.knew = known
                               /\ row.pc = "done"
    BY <1>1, <1>4, CallAtBecomes DEF NotRecorded, Terminal
  <2>2. PICK rec \in RecordRow : RecordBecomes(o, rec) /\ rec.state = record[o].state
    BY <1>1, <1>4 DEF NotRecorded, RecordBecomes, RecTypeOK
  <2>3. /\ router' \in RouterState /\ known' \in BOOLEAN /\ (known => known')
        /\ (row.knew => known')
        /\ refused \subseteq refused' /\ refused' \subseteq Operation
    BY <1>1, <1>4, <2>1 DEF RecTypeOK
  <2>4. /\ achieved \subseteq achieved' /\ achieved' \subseteq Operation
        /\ \A x \in Operation :
             record'[x].state # "none" /\ router' \in Goal(call[x].kind) => x \in achieved'
    BY <1>1, GoalSeenIsNoted
  <2>. QED  BY <1>1, <1>2, <2>1, <2>2, <2>3, <2>4, WorkerStep
<1>. QED  BY <1>3, <1>4 DEF Starts

LEMMA AsksRouterInv ==
  ASSUME RecInv, NEW o \in Operation, NEW kind \in Kind,
         NEW after \in RouterState, after \in Goal(kind), AsksRouter(o, kind, after)
  PROVE  RecInv'
<1>1. /\ RecTypeOK /\ call[o] \in CallRow /\ record[o] \in RecordRow
      /\ call[o].pc = "call" /\ call[o].kind = kind /\ record[o].state # "none"
      /\ GoalSeen /\ UNCHANGED <<known, record, run>>
  BY DEF RecInv, RecTypeOK, AsksRouter, CallsRecorded
<1>2. recLeft' \in [slow : Nat, faults : Nat]
  BY <1>1, FaultTyped DEF AsksRouter
<1>3. RecordBecomes(o, record[o])
  BY <1>1 DEF RecordBecomes, RecTypeOK
<1>4. PICK outcome \in Terminal :
        /\ CallAt(o, "complete", outcome)
        /\ outcome = "SUCCEEDED" => router' = after
        /\ outcome = "FAILED_PERMANENT" => o \in refused'
  BY DEF AsksRouter, Terminal, Refusals, TimedOut
<1>5. PICK row \in CallRow :
        /\ CallBecomes(o, row) /\ row.pc = "complete" /\ row.outcome = outcome
        /\ row.kind = kind /\ row.knew = call[o].knew
  BY <1>1, <1>4, CallAtBecomes
<1>6. /\ router' \in RouterState /\ known' \in BOOLEAN /\ (known => known')
      /\ refused \subseteq refused' /\ refused' \subseteq Operation
  BY <1>1 DEF RecTypeOK, AsksRouter
<1>7. row.knew => known'
  BY <1>1, <1>5 DEF RecInv, GoalsNoted
<1>8. /\ achieved \subseteq achieved' /\ achieved' \subseteq Operation
      /\ \A x \in Operation :
           record'[x].state # "none" /\ router' \in Goal(call[x].kind) => x \in achieved'
  BY <1>1, GoalSeenIsNoted
<1>9. outcome = "SUCCEEDED" => o \in achieved'
  BY <1>1, <1>4, <1>8
<1>. QED  BY <1>1, <1>2, <1>3, <1>4, <1>5, <1>6, <1>7, <1>8, <1>9, WorkerStep

LEMMA WorkerInv ==
  ASSUME RecInv, NEW o \in Operation,
         \/ StartProvision(o) \/ StartSuspend(o) \/ StartResume(o) \/ StartRelease(o)
         \/ Provision(o) \/ Suspend(o) \/ Resume(o) \/ Release(o)
  PROVE  RecInv'
<1>1. router \in RouterState
  BY DEF RecInv, RecTypeOK
<1>2. CASE StartProvision(o)
  BY <1>2, StartsInv DEF StartProvision, Kind
<1>3. CASE StartSuspend(o)
  BY <1>3, StartsInv DEF StartSuspend, Kind
<1>4. CASE StartResume(o)
  BY <1>4, StartsInv DEF StartResume, Kind
<1>5. CASE StartRelease(o)
  BY <1>5, StartsInv DEF StartRelease, Kind
<1>6. CASE Provision(o)
  BY <1>1, <1>6, AsksRouterInv DEF CreateResource, RouterState, Goal, Provision, Kind
<1>7. CASE Suspend(o)
  BY <1>7, AsksRouterInv DEF SuspendResource, RouterState, Goal, Suspend, Kind
<1>8. CASE Resume(o) BY <1>8, AsksRouterInv DEF ResumeResource, RouterState, Goal, Resume, Kind
<1>9. CASE Release(o)
  BY <1>9, AsksRouterInv DEF DeleteResource, RouterState, Goal, Release, Kind
<1>. QED  BY <1>2, <1>3, <1>4, <1>5, <1>6, <1>7, <1>8, <1>9

LEMMA CompleteInv ==
  ASSUME RecInv, NEW o \in Operation, CompleteProviderOperation(o) PROVE RecInv'
<1>1. /\ RecTypeOK /\ call[o] \in CallRow /\ record[o] \in RecordRow
      /\ call[o].pc = "complete" /\ record[o].state # "none" /\ call[o].outcome \in Terminal
      /\ UNCHANGED <<router, run, achieved, refused>>
  BY DEF RecInv, RecTypeOK, CallRow, CompleteProviderOperation, CallsRecorded
<1>2. recLeft' \in [slow : Nat, faults : Nat]
  BY <1>1, FaultTyped DEF CompleteProviderOperation
<1>3. PICK row \in CallRow :
        /\ CallBecomes(o, row) /\ row.pc = "done" /\ row.kind = call[o].kind
        /\ row.knew = call[o].knew
  BY <1>1, CallAtBecomes DEF CompleteProviderOperation
<1>4. PICK rec \in RecordRow :
        RecordBecomes(o, rec) /\ rec.state \in {record[o].state, call[o].outcome}
  <2>1. CASE UNCHANGED record
    BY <1>1, <2>1 DEF RecordBecomes, RecTypeOK
  <2>2. CASE record' = [record EXCEPT ![o].state = call[o].outcome]
    <3>. DEFINE rec == [record[o] EXCEPT !.state = call[o].outcome]
    <3>1. rec \in RecordRow /\ rec.state = call[o].outcome
      BY <1>1 DEF RecordRow
    <3>2. RecordBecomes(o, rec)
      BY <1>1, <2>2, <3>1 DEF RecordBecomes, RecTypeOK
    <3>. QED  BY <3>1, <3>2
  <2>. QED  BY <2>1, <2>2 DEF CompleteProviderOperation
<1>5. rec.state # "none"
  BY <1>1, <1>4 DEF Terminal
<1>6. /\ router' \in RouterState /\ known' \in BOOLEAN /\ (known => known')
      /\ achieved' \subseteq Operation /\ refused' \subseteq Operation
  BY <1>1 DEF RecTypeOK, CompleteProviderOperation
<1>7. row.knew => known'
  BY <1>3, <1>6 DEF RecInv, GoalsNoted
<1>8. \A x \in Operation : record'[x].state # "none" => record[x].state # "none"
  BY <1>1, <1>4 DEF RecordBecomes
<1>9. \A x \in Operation :
        record'[x].state # "none" /\ router' \in Goal(call[x].kind) => x \in achieved'
  BY <1>1, <1>8 DEF RecInv, GoalsNoted
<1>10. rec.state # record[o].state =>
         /\ rec.state = "SUCCEEDED" => o \in achieved' \/ (row.kind = "release" /\ ~row.knew)
         /\ rec.state = "FAILED_PERMANENT" => o \in refused'
  BY <1>1, <1>3, <1>4 DEF RecInv, OutcomeIsTrue
<1>. QED  BY <1>1, <1>2, <1>3, <1>4, <1>5, <1>6, <1>7, <1>9, <1>10, WorkerStep

LEMMA WorkerDiesInv ==
  ASSUME RecInv, NEW o \in Operation, WorkerDies(o) PROVE RecInv'
<1>1. /\ RecTypeOK /\ call[o] \in CallRow /\ record[o] \in RecordRow
      /\ call[o].pc # "new" /\ record[o].state # "none" /\ call[o].outcome \in Terminal
      /\ UNCHANGED <<router, known, record, run, achieved>>
  BY DEF RecInv, RecTypeOK, CallRow, WorkerDies, CallsRecorded
<1>2. recLeft' \in [slow : Nat, faults : Nat]
  BY <1>1, FaultTyped DEF WorkerDies
<1>3. PICK row \in CallRow :
        /\ CallBecomes(o, row) /\ row.pc = "dead" /\ row.kind = call[o].kind
        /\ row.knew = call[o].knew
  BY <1>1, CallAtBecomes DEF WorkerDies
<1>4. RecordBecomes(o, record[o])
  BY <1>1 DEF RecordBecomes, RecTypeOK
<1>5. /\ router' \in RouterState /\ known' \in BOOLEAN /\ (known => known')
      /\ achieved \subseteq achieved' /\ achieved' \subseteq Operation
      /\ refused \subseteq refused' /\ refused' \subseteq Operation
  BY <1>1 DEF RecTypeOK, WorkerDies
<1>6. row.knew => known'
  BY <1>1, <1>3 DEF RecInv, GoalsNoted
<1>7. \A x \in Operation :
        record'[x].state # "none" /\ router' \in Goal(call[x].kind) => x \in achieved'
  BY <1>1 DEF RecInv, GoalsNoted
<1>. QED  BY <1>1, <1>2, <1>3, <1>4, <1>5, <1>6, <1>7, WorkerStep

\* A step of the recovery job, or of time.
LEMMA RecoveryStep ==
  ASSUME RecInv, UNCHANGED <<router, known, call, achieved, refused>>,
         record' \in [Operation -> RecordRow], run' \in [Recoverer -> RunRow],
         recLeft' \in [slow : Nat, faults : Nat],
         \A o \in Operation :
           \/ record'[o].state = record[o].state
           \/ /\ record[o].state # "none" /\ record'[o].state # "none"
              /\ record'[o].state = "SUCCEEDED" =>
                   \/ o \in achieved \/ call[o].kind = "resume"
                   \/ call[o].kind = "release" /\ ~call[o].knew
              /\ record'[o].state = "FAILED_PERMANENT" =>
                   o \in refused \/ call[o].kind = "provision",
         \A k \in Recoverer : run'[k] # run[k] /\ run'[k].pc # "idle" =>
           /\ run'[k].op \in Operation /\ record[run'[k].op].state # "none"
           /\ run'[k].pc = "store" =>
                /\ run'[k].truth \in Goal(call[run'[k].op].kind) => run'[k].op \in achieved
                /\ run'[k].truth = "not_found" /\ call[run'[k].op].kind = "release" =>
                     run'[k].op \in achieved \/ ~call[run'[k].op].knew
  PROVE  RecInv'
BY VerdictsStay DEF RecInv, RecTypeOK, CallsRecorded, GoalsNoted, OutcomeIsTrue, TruthWasSeen,
   VerdictIsTrue

LEMMA RecordAgesInv ==
  ASSUME RecInv, NEW o \in Operation, RecordAges(o) PROVE RecInv'
<1>1. RecTypeOK /\ record[o] \in RecordRow
  BY DEF RecInv, RecTypeOK
<1>2. /\ record' \in [Operation -> RecordRow]
      /\ \A x \in Operation : record'[x].state = record[x].state
  BY <1>1 DEF RecordAges, RecTypeOK, RecordRow
<1>3. recLeft' \in [slow : Nat, faults : Nat]
  BY <1>1 DEF RecordAges, RecTypeOK
<1>. QED  BY <1>1, <1>2, <1>3, RecoveryStep DEF RecordAges, RecTypeOK

LEMMA ClaimRecordInv ==
  ASSUME RecInv, NEW k \in Recoverer, NEW o \in Operation, ClaimRecord(k, o) PROVE RecInv'
<1>1. RecTypeOK /\ record[o] \in RecordRow /\ run[k] \in RunRow
  BY DEF RecInv, RecTypeOK
<1>2. /\ record' \in [Operation -> RecordRow]
      /\ \A x \in Operation : record'[x].state = record[x].state
  BY <1>1 DEF ClaimRecord, RecTypeOK, RecordRow
<1>3. /\ run' \in [Recoverer -> RunRow] /\ run'[k].pc = "query" /\ run'[k].op = o
      /\ \A j \in Recoverer : j # k => run'[j] = run[j]
  BY <1>1 DEF ClaimRecord, RecTypeOK, RunRow
<1>4. record[o].state # "none"
  BY DEF ClaimRecord, Pending
<1>. QED  BY <1>1, <1>2, <1>3, <1>4, RecoveryStep DEF ClaimRecord, RecTypeOK

LEMMA QueryProviderTruthInv ==
  ASSUME RecInv, NEW k \in Recoverer, QueryProviderTruth(k) PROVE RecInv'
<1>1. /\ RecTypeOK /\ run[k] \in RunRow /\ router \in RouterState
      /\ run[k].op \in Operation /\ record[run[k].op].state # "none"
  BY DEF RecInv, RecTypeOK, QueryProviderTruth, TruthWasSeen
<1>2. PICK truth \in Truth :
        /\ run' = [run EXCEPT ![k].pc = "store", ![k].truth = truth]
        /\ truth \in {"inactive", "active"} => router = truth
        /\ truth = "not_found" => ~known \/ router = "absent"
  BY <1>1 DEF QueryProviderTruth, Truth, RouterState
<1>3. /\ run' \in [Recoverer -> RunRow] /\ run'[k].pc = "store" /\ run'[k].op = run[k].op
      /\ run'[k].truth = truth
      /\ \A j \in Recoverer : j # k => run'[j] = run[j]
  BY <1>1, <1>2 DEF RecTypeOK, RunRow
<1>4. recLeft' \in [slow : Nat, faults : Nat]
  BY <1>1, FaultTyped DEF QueryProviderTruth
<1>5. truth \in Goal(call[run[k].op].kind) => run[k].op \in achieved
  BY <1>1, <1>2 DEF Goal, RecTypeOK, CallRow, Kind, Truth, RecInv, GoalsNoted
<1>6. truth = "not_found" /\ call[run[k].op].kind = "release" =>
        run[k].op \in achieved \/ ~call[run[k].op].knew
  BY <1>1, <1>2 DEF RecInv, GoalsNoted, Goal
<1>. QED  BY <1>1, <1>3, <1>4, <1>5, <1>6, RecoveryStep DEF QueryProviderTruth, RecTypeOK

LEMMA RestingBecomes ==
  ASSUME RecTypeOK, NEW k \in Recoverer, Resting(k)
  PROVE  /\ run' \in [Recoverer -> RunRow] /\ run'[k].pc = "idle"
         /\ \A j \in Recoverer : j # k => run'[j] = run[j]
BY DEF RecTypeOK, RunRow, Resting

LEMMA ClassifiedTruth ==
  ASSUME NEW kind \in Kind, NEW truth \in Truth
  PROVE  LET verdict == ClassifyTruthResult(kind, truth) IN
         /\ verdict \in Terminal \cup {"STARTED"}
         /\ verdict = "SUCCEEDED" => \/ kind = "resume" \/ truth \in Goal(kind)
                                     \/ truth = "not_found" /\ kind = "release"
         /\ verdict = "FAILED_PERMANENT" => kind = "provision"
BY DEF ClassifyTruthResult, Kind, Truth, Terminal, Goal

LEMMA StoreTruthInv ==
  ASSUME RecInv, NEW k \in Recoverer, StoreTruth(k) PROVE RecInv'
<1>. DEFINE o == run[k].op
            verdict == ClassifyTruthResult(call[o].kind, run[k].truth)
<1>1. /\ RecTypeOK /\ run[k] \in RunRow /\ run[k].pc = "store"
      /\ o \in Operation /\ record[o] \in RecordRow /\ record[o].state # "none"
      /\ call[o].kind \in Kind /\ run[k].truth \in Truth
  BY DEF RecInv, RecTypeOK, StoreTruth, TruthWasSeen, RunRow, CallRow
<1>2. /\ verdict \in Terminal \cup {"STARTED"}
      /\ verdict = "SUCCEEDED" => \/ call[o].kind = "resume"
                                  \/ run[k].truth \in Goal(call[o].kind)
                                  \/ run[k].truth = "not_found" /\ call[o].kind = "release"
      /\ verdict = "FAILED_PERMANENT" => call[o].kind = "provision"
  BY <1>1, ClassifiedTruth
<1>3. verdict = "SUCCEEDED" => \/ o \in achieved \/ call[o].kind = "resume"
                               \/ call[o].kind = "release" /\ ~call[o].knew
  BY <1>1, <1>2 DEF RecInv, TruthWasSeen
<1>4. PICK state \in {verdict, "STARTED"} :
        /\ (state = verdict /\ UNCHANGED recLeft) \/ RecFault
        /\ record' = IF Pending(o) /\ record[o].claim = k
                       THEN [record EXCEPT ![o].state = state, ![o].claim = NoRecoverer,
                                           ![o].live = FALSE]
                       ELSE record
  BY DEF StoreTruth
<1>. HIDE DEF o, verdict
<1>5. /\ record' \in [Operation -> RecordRow]
      /\ record'[o].state \in {record[o].state, state}
      /\ \A x \in Operation : x # o => record'[x] = record[x]
  <2>1. CASE UNCHANGED record
    BY <1>1, <2>1 DEF RecTypeOK
  <2>2. CASE record' = [record EXCEPT ![o].state = state, ![o].claim = NoRecoverer,
                                      ![o].live = FALSE]
    <3>. DEFINE row == [record[o] EXCEPT !.state = state, !.claim = NoRecoverer, !.live = FALSE]
    <3>1. row \in RecordRow /\ row.state = state
      BY <1>1, <1>2, <1>4 DEF RecordRow
    <3>2. record' = [record EXCEPT ![o] = row]
      BY <1>1, <2>2 DEF RecTypeOK
    <3>. HIDE DEF row
    <3>. QED  BY <1>1, <3>1, <3>2 DEF RecTypeOK
  <2>. QED  BY <1>4, <2>1, <2>2
<1>6. recLeft' \in [slow : Nat, faults : Nat]
  BY <1>1, <1>4, FaultTyped
<1>7. Resting(k) /\ UNCHANGED <<router, known, call, achieved, refused>>
  BY DEF StoreTruth
<1>8. /\ state # "none"
      /\ state = "SUCCEEDED" => \/ o \in achieved \/ call[o].kind = "resume"
                                \/ call[o].kind = "release" /\ ~call[o].knew
      /\ state = "FAILED_PERMANENT" => o \in refused \/ call[o].kind = "provision"
  BY <1>2, <1>3, <1>4 DEF Terminal
<1>9. /\ run' \in [Recoverer -> RunRow] /\ run'[k].pc = "idle"
      /\ \A j \in Recoverer : j # k => run'[j] = run[j]
  BY <1>1, <1>7, RestingBecomes
<1>. QED  BY <1>1, <1>5, <1>6, <1>7, <1>8, <1>9, RecoveryStep

LEMMA RecovererDiesInv ==
  ASSUME RecInv, NEW k \in Recoverer, RecovererDies(k) PROVE RecInv'
BY RestingBecomes, FaultTyped, RecoveryStep DEF RecInv, RecovererDies, RecTypeOK

LEMMA RecoveryLeaseLapsesInv ==
  ASSUME RecInv, NEW o \in Operation, RecoveryLeaseLapses(o) PROVE RecInv'
<1>1. RecTypeOK /\ record[o] \in RecordRow
  BY DEF RecInv, RecTypeOK
<1>2. /\ record' \in [Operation -> RecordRow]
      /\ \A x \in Operation : record'[x].state = record[x].state
  BY <1>1 DEF RecoveryLeaseLapses, RecTypeOK, RecordRow
<1>3. recLeft' \in [slow : Nat, faults : Nat]
  BY <1>1 DEF RecoveryLeaseLapses, RecTypeOK
<1>. QED  BY <1>1, <1>2, <1>3, RecoveryStep DEF RecoveryLeaseLapses, RecTypeOK

LEMMA ReclaimInv ==
  ASSUME RecInv, ReclaimExpiredRecoveryClaims PROVE RecInv'
BY RecoveryStep DEF RecInv, ReclaimExpiredRecoveryClaims, RecTypeOK, RecordRow

LEMMA RecStepInv == RecInv /\ [RecNext]_recVars => RecInv'
<1>. SUFFICES ASSUME RecInv, [RecNext]_recVars PROVE RecInv'
  OBVIOUS
<1>1. CASE UNCHANGED recVars
  BY <1>1 DEF recVars, RecInv, RecTypeOK, CallsRecorded, GoalsNoted, OutcomeIsTrue,
              TruthWasSeen, VerdictIsTrue
<1>2. ASSUME NEW o \in Operation,
             \/ StartProvision(o) \/ StartSuspend(o) \/ StartResume(o)
             \/ StartRelease(o) \/ Provision(o) \/ Suspend(o) \/ Resume(o)
             \/ Release(o) \/ CompleteProviderOperation(o)
             \/ WorkerDies(o) \/ Passing(o)
      PROVE  RecInv'
  BY <1>2, WorkerInv, CompleteInv, WorkerDiesInv, RecordAgesInv, RecoveryLeaseLapsesInv
  DEF Passing
<1>3. ASSUME NEW k \in Recoverer, Recovering(k) \/ RecovererDies(k) PROVE RecInv'
  BY <1>3, ClaimRecordInv, QueryProviderTruthInv, StoreTruthInv, RecovererDiesInv
  DEF Recovering
<1>. QED  BY <1>1, <1>2, <1>3, ReclaimInv DEF RecNext

\* What a record of a router operation says at its end is true: SUCCEEDED only if its
\* goal held at the router since it began, FAILED_PERMANENT only if it changed nothing
\* there, with the exceptions that VerdictIsTrue names; whether its worker or a
\* recovery run wrote it, and whichever of them crashed, was slow or lost its claim
\* (completeProviderOperation, recoverStaleProviderOperations).
THEOREM VerdictsAreTrue == RecSpec => []VerdictIsTrue
<1>1. RecInv => VerdictIsTrue
  BY DEF RecInv
<1>. QED  BY RecInitInv, RecStepInv, <1>1, PTL DEF RecSpec

LEMMA VerdictStep ==
  ASSUME RecInv, [RecNext]_recVars, NEW x \in Operation, record[x].state \in Terminal
  PROVE  record'[x].state = record[x].state
<1>1. RecTypeOK /\ record[x] \in RecordRow /\ record[x].state \notin {"none", "STARTED"}
  BY DEF RecInv, RecTypeOK, Terminal
<1>2. ASSUME NEW o \in Operation,
             \E kind \in Kind, needsId \in BOOLEAN, without \in Terminal :
               Starts(o, kind, needsId, without)
      PROVE  record'[x].state = record[x].state
  BY <1>1, <1>2 DEF Starts, RecInv, CallsRecorded, Recorded, NotRecorded, RecTypeOK
<1>3. ASSUME NEW o \in Operation,
             StartProvision(o) \/ StartSuspend(o) \/ StartResume(o) \/ StartRelease(o)
      PROVE  record'[x].state = record[x].state
  BY <1>2, <1>3 DEF StartProvision, StartSuspend, StartResume, StartRelease, Kind, Terminal
<1>4. ASSUME NEW o \in Operation,
             Provision(o) \/ Suspend(o) \/ Resume(o) \/ Release(o) \/ WorkerDies(o)
      PROVE  record'[x].state = record[x].state
  BY <1>4 DEF Provision, Suspend, Resume, Release, AsksRouter, WorkerDies
<1>5. ASSUME NEW o \in Operation, CompleteProviderOperation(o)
      PROVE  record'[x].state = record[x].state
  BY <1>1, <1>5 DEF CompleteProviderOperation, Pending, RecTypeOK
<1>6. ASSUME NEW o \in Operation, RecordAges(o) \/ RecoveryLeaseLapses(o)
      PROVE  record'[x].state = record[x].state
  BY <1>1, <1>6 DEF RecordAges, RecoveryLeaseLapses, RecTypeOK, RecordRow
<1>7. ASSUME NEW k \in Recoverer, NEW o \in Operation, ClaimRecord(k, o)
      PROVE  record'[x].state = record[x].state
  BY <1>1, <1>7 DEF ClaimRecord, RecTypeOK, RecordRow
<1>8. ASSUME NEW k \in Recoverer, StoreTruth(k)
      PROVE  record'[x].state = record[x].state
  BY <1>1, <1>8 DEF StoreTruth, Pending, RecTypeOK
<1>9. ASSUME NEW k \in Recoverer, QueryProviderTruth(k) \/ RecovererDies(k)
      PROVE  record'[x].state = record[x].state
  BY <1>9 DEF QueryProviderTruth, RecovererDies
<1>10. CASE ReclaimExpiredRecoveryClaims
  BY <1>1, <1>10 DEF ReclaimExpiredRecoveryClaims, RecTypeOK, RecordRow
<1>11. CASE UNCHANGED recVars
  BY <1>11 DEF recVars
<1>. QED  BY <1>3, <1>4, <1>5, <1>6, <1>7, <1>8, <1>9, <1>10, <1>11
          DEF RecNext, Passing, Recovering

\* No worker that comes late, no recovery run and no reclaim writes over a record that
\* has ended (the fenced updates of the same functions).
THEOREM VerdictsAreFinal == RecSpec => VerdictIsFinal
<1>1. RecInv /\ [RecNext]_recVars =>
        [\A o \in Operation : record[o].state \in Terminal =>
                                record'[o].state = record[o].state]_recVars
  BY VerdictStep
<1>. QED  BY RecInitInv, RecStepInv, <1>1, PTL DEF RecSpec, VerdictIsFinal

-----------------------------------------------------------------------------
(* EsimSupplier: what the adapter answers.                                 *)

\* The stages that a call of this kind goes through.
StagesOf(kind) ==
  CASE kind = "provision" -> {"idle", "known", "look", "post", "relook", "repost", "done"}
    [] kind \in {"suspend", "resume"} -> {"idle", "patch", "done"}
    [] kind = "release" -> {"idle", "delete", "done"}
    [] OTHER -> {"idle", "check", "done"}

\* A call answers once, at its end.
CallsEndOnce == \A c \in Call :
  /\ task[c].stage \in StagesOf(task[c].kind)
  /\ task[c].stage \in {"idle", "done"} => ~task[c].waiting
  /\ task[c].stage = "idle" => task[c].id = NoProfile
  /\ task[c].stage # "done" => task[c].answer = "none"

\* No iccid is used before it is made.
IdsAreMade == profile.id <= profile.made /\ \A c \in Call : task[c].id <= profile.made

\* A request, however late, is of its caller's kind and names the caller's profile.
WireIsOfCalls == \A m \in onWire :
  /\ m.stage \in StagesOf(task[m.by].kind) \ {"idle", "done"}
  /\ task[m.by].stage # "idle"
  /\ task[m.by].kind # "provision" => m.id = task[m.by].id
  /\ m.id <= profile.made

SupInv == /\ SupplierTypeOK /\ CallsEndOnce /\ IdsAreMade /\ WireIsOfCalls /\ AnsweredHolds

LEMMA SupplierInitInv == SupplierInit => SupInv
<1>. SUFFICES ASSUME SupplierInit PROVE SupInv
  OBVIOUS
<1>1. PICK plan \in SupplierPlans : SupplierInitOf(plan)
  BY DEF SupplierInit
<1>2. /\ plan.kind \in [Call -> CallKind]
      /\ plan.there \in BOOLEAN /\ plan.strict \in BOOLEAN /\ plan.left \in SupplierLeft
  BY SupplierAssumption DEF CallKind, SupplierLeft
<1>3. \A c \in Call :
        /\ task[c] \in TaskRow /\ task[c].stage = "idle" /\ ~task[c].waiting
        /\ task[c].id = NoProfile /\ task[c].answer = "none"
  BY <1>1, <1>2 DEF SupplierInitOf, TaskRow, Stage, CallAnswer, NoProfile
<1>4. /\ profile \in [id : Nat, active : BOOLEAN, made : Nat]
      /\ profile.id = profile.made /\ (profile.id # NoProfile => profile.active)
  BY <1>1, <1>2 DEF SupplierInitOf, NoProfile
<1>5. SupplierTypeOK
  BY <1>1, <1>2, <1>3, <1>4 DEF SupplierInitOf, SupplierTypeOK
<1>6. CallsEndOnce
  BY <1>3 DEF CallsEndOnce, StagesOf
<1>7. IdsAreMade /\ WireIsOfCalls
  BY <1>1, <1>3, <1>4 DEF SupplierInitOf, IdsAreMade, WireIsOfCalls, NoProfile
<1>8. AnsweredHolds
  BY <1>3, <1>4 DEF AnsweredHolds, Succeeded
<1>. QED  BY <1>5, <1>6, <1>7, <1>8 DEF SupInv

TaskBecomes(c, row) ==
  /\ task' \in [Call -> TaskRow] /\ task'[c] = row
  /\ \A d \in Call : d # c => task'[d] = task[d]

\* Call c becomes `row`, and the supplier's profile what it becomes.
LEMMA SupplierStep ==
  ASSUME SupInv, NEW c \in Call, NEW row \in TaskRow, TaskBecomes(c, row), UNCHANGED strict,
         supplierLeft' \in SupplierLeft,
         row = task[c] \/ task[c].stage # "done",
         row.kind = task[c].kind, row.stage \in StagesOf(row.kind), row.stage # "idle",
         row.stage = "done" => ~row.waiting,
         row.stage # "done" => row.answer = "none",
         row.id <= profile'.made,
         row.kind = "provision" \/ task[c].stage = "idle" \/ row.id = task[c].id,
         row.kind = "release" /\ row.answer = "success" /\ row.id # NoProfile =>
           profile'.id # row.id,
         row.kind = "provision" /\ row.answer = "success" /\ row.id # NoProfile =>
           row = task[c] \/ profile'.id = row.id,
         \A m \in onWire' :
           \/ m \in onWire
           \/ /\ m.by = c /\ m.stage = row.stage /\ m.stage \notin {"idle", "done"}
              /\ m.id = row.id /\ m.attempt \in Nat,
         profile' \in [id : Nat, active : BOOLEAN, made : Nat],
         profile.made <= profile'.made, profile'.id <= profile'.made,
         \/ profile'.id = profile.id
         \/ profile.id = NoProfile /\ profile'.id > profile.made
         \/ profile'.id = NoProfile /\ \E d \in Call : task[d].kind = "release"
                                                       /\ task[d].id = profile.id,
         profile'.id # NoProfile /\ ~profile'.active =>
           \/ profile'.id = profile.id /\ ~profile.active
           \/ \E d \in Call : task[d].kind = "suspend" /\ task[d].id = profile'.id
                              /\ task[d].stage # "idle"
  PROVE  SupInv'
<1>1. SupplierTypeOK /\ task \in [Call -> TaskRow] /\ task[c] \in TaskRow
  BY DEF SupInv, SupplierTypeOK
<1>2. /\ \A d \in Call : task[d].id \in Nat /\ task'[d].id \in Nat
      /\ profile.id \in Nat /\ profile.made \in Nat /\ profile'.id \in Nat /\ profile'.made \in Nat
  BY <1>1 DEF SupplierTypeOK, TaskBecomes, TaskRow
<1>3. \A d \in Call :
        /\ task'[d].kind = task[d].kind
        /\ task'[d].kind # "provision" /\ task[d].stage # "idle" => task'[d].id = task[d].id
        /\ task[d].stage = "idle" => task[d].id = NoProfile
        /\ task[d].stage # "idle" => task'[d].stage # "idle"
  BY DEF TaskBecomes, SupInv, CallsEndOnce
<1>4. SupplierTypeOK' BY <1>1 DEF SupplierTypeOK, TaskRow, TaskBecomes
<1>5. CallsEndOnce'
  BY DEF SupInv, CallsEndOnce, TaskBecomes
<1>6. IdsAreMade'
  BY <1>2 DEF SupInv, IdsAreMade, TaskBecomes
<1>7. WireIsOfCalls' BY <1>1, <1>2, <1>3 DEF SupplierTypeOK, SupInv, WireIsOfCalls, TaskBecomes
<1>8. AnsweredHolds'
  <2>1. ASSUME NEW d \in Call, Succeeded(d, "release")' PROVE profile'.id # task'[d].id
    BY <2>1, <1>2 DEF SupInv, AnsweredHolds, IdsAreMade, Succeeded, TaskBecomes
  <2>2. ASSUME NEW b \in Call, Succeeded(b, "provision")',
               \A d \in Call : task'[d].kind = "release" => task'[d].id # task'[b].id
        PROVE  profile'.id = task'[b].id
    BY <1>3, <2>2 DEF Succeeded, SupInv, AnsweredHolds, TaskBecomes
  <2>3. ASSUME profile'.id # NoProfile, ~profile'.active
        PROVE  \E d \in Call : task'[d].kind = "suspend" /\ task'[d].id = profile'.id
    <3>1. CASE profile'.id = profile.id /\ ~profile.active
      <4>1. PICK d \in Call : task[d].kind = "suspend" /\ task[d].id = profile.id
        BY <2>3, <3>1 DEF SupInv, AnsweredHolds
      <4>. QED  BY <1>3, <2>3, <3>1, <4>1
    <3>2. CASE \E d \in Call : task[d].kind = "suspend" /\ task[d].id = profile'.id
                               /\ task[d].stage # "idle"
      BY <1>3, <3>2
    <3>. QED  BY <2>3, <3>1, <3>2
  <2>. QED  BY <2>1, <2>2, <2>3 DEF AnsweredHolds, Succeeded
<1>. QED  BY <1>4, <1>5, <1>6, <1>7, <1>8 DEF SupInv

LEMMA TaskUpdate ==
  ASSUME SupplierTypeOK, NEW c \in Call, NEW row \in TaskRow, task' = [task EXCEPT ![c] = row]
  PROVE  TaskBecomes(c, row)
BY DEF SupplierTypeOK, TaskBecomes

LEMMA ToBecomes ==
  ASSUME SupplierTypeOK, NEW c \in Call, NEW stage \in Stage
  PROVE  \E row \in TaskRow :
           /\ To(c, stage) => TaskBecomes(c, row)
           /\ row.kind = task[c].kind /\ row.stage = stage
           /\ row.id = task[c].id /\ row.answer = task[c].answer /\ ~row.waiting
<1>. DEFINE row == [task[c] EXCEPT !.stage = stage, !.waiting = FALSE, !.attempt = 0]
<1>1. task \in [Call -> TaskRow] /\ task[c] \in TaskRow
  BY DEF SupplierTypeOK
<1>2. /\ row \in TaskRow /\ row.kind = task[c].kind /\ row.stage = stage
      /\ row.id = task[c].id /\ row.answer = task[c].answer /\ ~row.waiting
  BY <1>1 DEF TaskRow
<1>3. To(c, stage) => task' = [task EXCEPT ![c] = row]
  BY <1>1 DEF To
<1>. HIDE DEF row
<1>. QED  BY <1>2, <1>3, TaskUpdate

LEMMA EndsBecomes ==
  ASSUME SupplierTypeOK, NEW c \in Call, NEW answer \in CallAnswer, NEW id \in Nat
  PROVE  \E row \in TaskRow :
           /\ Ends(c, answer, id) => TaskBecomes(c, row)
           /\ row.kind = task[c].kind /\ row.stage = "done"
           /\ row.id = id /\ row.answer = answer /\ ~row.waiting
<1>. DEFINE row == [task[c] EXCEPT !.stage = "done", !.waiting = FALSE, !.answer = answer,
                                   !.id = id]
<1>1. task \in [Call -> TaskRow] /\ task[c] \in TaskRow
  BY DEF SupplierTypeOK
<1>2. /\ row \in TaskRow /\ row.kind = task[c].kind /\ row.stage = "done"
      /\ row.id = id /\ row.answer = answer /\ ~row.waiting
  BY <1>1 DEF TaskRow, Stage
<1>3. Ends(c, answer, id) => task' = [task EXCEPT ![c] = row]
  BY <1>1 DEF Ends
<1>. HIDE DEF row
<1>. QED  BY <1>2, <1>3, TaskUpdate

LEMMA StartCallInv ==
  ASSUME SupInv, NEW c \in Call, NEW id \in 0..profile.made, StartCall(c, id)
  PROVE  SupInv'
<1>1. /\ SupplierTypeOK /\ task[c] \in TaskRow /\ task[c].kind \in CallKind
      /\ task[c].stage = "idle" /\ task[c].id = NoProfile /\ task[c].answer = "none"
      /\ ~task[c].waiting
      /\ profile \in [id : Nat, active : BOOLEAN, made : Nat] /\ profile.id <= profile.made
      /\ id \in Nat /\ id <= profile.made
  BY DEF SupInv, SupplierTypeOK, TaskRow, StartCall, CallsEndOnce, IdsAreMade
<1>2. PICK row \in TaskRow :
        /\ TaskBecomes(c, row) /\ row.kind = task[c].kind /\ row.stage \in StagesOf(row.kind)
        /\ row.stage # "idle" /\ ~row.waiting
        /\ row.stage # "done" => row.answer = "none"
        /\ row.id \in {id, NoProfile}
        /\ row.answer = "success" => row.id = NoProfile
  <2>1. CASE id # NoProfile
    <3>. DEFINE row == [task[c] EXCEPT !.stage = FirstStage(task[c].kind), !.id = id]
    <3>1. FirstStage(task[c].kind) \in StagesOf(task[c].kind) \ {"idle", "done"}
      BY <1>1 DEF FirstStage, StagesOf, CallKind
    <3>2. FirstStage(task[c].kind) \in Stage
      BY <1>1 DEF FirstStage, Stage, CallKind
    <3>3. /\ row \in TaskRow /\ row.kind = task[c].kind /\ row.id = id
          /\ row.stage = FirstStage(task[c].kind) /\ row.answer = "none" /\ ~row.waiting
      BY <1>1, <3>2 DEF TaskRow
    <3>4. task' = [task EXCEPT ![c] = row]
      BY <1>1, <2>1 DEF StartCall, SupplierTypeOK
    <3>. HIDE DEF row
    <3>5. TaskBecomes(c, row)
      BY <1>1, <3>3, <3>4, TaskUpdate
    <3>. QED  BY <3>1, <3>3, <3>5
  <2>2. CASE id = NoProfile /\ task[c].kind = "provision"
    BY <2>2, <1>1, ToBecomes DEF StartCall, Stage, StagesOf
  <2>3. CASE id = NoProfile /\ task[c].kind # "provision"
    <3>1. PICK answer \in CallAnswer : Ends(c, answer, NoProfile)
      BY <1>1, <2>3 DEF StartCall, CallKind, CallAnswer
    <3>2. "done" \in StagesOf(task[c].kind)
      BY <1>1 DEF StagesOf, CallKind
    <3>3. NoProfile \in Nat
      BY DEF NoProfile
    <3>. QED  BY <1>1, <3>1, <3>2, <3>3, EndsBecomes
  <2>. QED  BY <2>1, <2>2, <2>3
<1>3. row.id <= profile.made /\ UNCHANGED <<profile, onWire, strict, supplierLeft>>
  BY <1>1, <1>2 DEF NoProfile, StartCall
<1>4. supplierLeft \in SupplierLeft /\ profile.made <= profile.made
  BY <1>1 DEF SupplierTypeOK
<1>5. row.answer = "success" => row.id = NoProfile
  BY <1>2
<1>. QED  BY <1>1, <1>2, <1>3, <1>4, <1>5, SupplierStep

LEMMA SendInv ==
  ASSUME SupInv, NEW c \in Call, Send(c) PROVE SupInv'
<1>. DEFINE next == task[c].attempt + 1
            row == [task[c] EXCEPT !.attempt = next, !.waiting = TRUE]
<1>1. /\ SupplierTypeOK /\ task[c] \in TaskRow /\ task[c].attempt \in Nat
      /\ task[c].stage \notin {"idle", "done"} /\ task[c].answer = "none"
      /\ task[c].stage \in StagesOf(task[c].kind) /\ task[c].id <= profile.made
      /\ profile \in [id : Nat, active : BOOLEAN, made : Nat] /\ profile.id <= profile.made
  BY DEF SupInv, SupplierTypeOK, TaskRow, Send, CallsEndOnce, IdsAreMade
<1>7. next \in Nat
  BY <1>1
<1>3. task' = [task EXCEPT ![c] = row]
  BY <1>1 DEF Send, SupplierTypeOK
<1>. HIDE DEF next
<1>2. /\ row \in TaskRow /\ row.kind = task[c].kind /\ row.stage = task[c].stage
      /\ row.id = task[c].id /\ row.answer = "none"
  BY <1>1, <1>7 DEF TaskRow
<1>. HIDE DEF row
<1>4. TaskBecomes(c, row)
  BY <1>1, <1>2, <1>3, TaskUpdate
<1>5. /\ \A m \in onWire' :
           \/ m \in onWire
           \/ m.by = c /\ m.stage = row.stage /\ m.id = row.id /\ m.attempt \in Nat
      /\ UNCHANGED <<profile, strict, supplierLeft>>
  BY <1>1, <1>2 DEF Send
<1>6. supplierLeft \in SupplierLeft /\ profile.made <= profile.made
  BY <1>1 DEF SupplierTypeOK
<1>. QED  BY <1>1, <1>2, <1>4, <1>5, <1>6, SupplierStep

\* A request that failed: another attempt, a look at what it did, or the error.
LEMMA RetryableBecomes ==
  ASSUME SupInv, NEW c \in Call, task[c].waiting, Retryable(c)
  PROVE  \E row \in TaskRow :
           /\ TaskBecomes(c, row) /\ row.kind = task[c].kind /\ row.stage \in StagesOf(row.kind)
           /\ row.stage # "idle" /\ ~row.waiting /\ row.id = task[c].id
           /\ row.stage # "done" => row.answer = "none"
           /\ row.answer # "success"
<1>1. /\ SupplierTypeOK /\ task[c] \in TaskRow /\ task[c].kind \in CallKind
      /\ task[c].stage \notin {"idle", "done"} /\ task[c].answer = "none"
      /\ task[c].stage \in StagesOf(task[c].kind) /\ task[c].id \in Nat
  BY DEF SupInv, SupplierTypeOK, TaskRow, CallsEndOnce
<1>2. CASE task' = [task EXCEPT ![c].waiting = FALSE]
  <2>. DEFINE row == [task[c] EXCEPT !.waiting = FALSE]
  <2>1. /\ row \in TaskRow /\ row.kind = task[c].kind /\ row.stage = task[c].stage
        /\ row.id = task[c].id /\ row.answer = "none" /\ ~row.waiting
    BY <1>1 DEF TaskRow
  <2>2. task' = [task EXCEPT ![c] = row]
    BY <1>1, <1>2 DEF SupplierTypeOK
  <2>. HIDE DEF row
  <2>. QED  BY <1>1, <2>1, <2>2, TaskUpdate
<1>3. CASE task[c].stage = "post" /\ To(c, "relook")
  BY <1>1, <1>3, ToBecomes DEF Stage, StagesOf, CallKind
<1>4. CASE Ends(c, "failed_retryable", task[c].id)
  BY <1>1, <1>4, EndsBecomes DEF StagesOf, CallKind, CallAnswer
<1>. QED  BY <1>2, <1>3, <1>4 DEF Retryable

LEMMA TimesOutInv ==
  ASSUME SupInv, NEW c \in Call, TimesOut(c) PROVE SupInv'
<1>1. /\ SupplierTypeOK /\ task[c].stage # "done" /\ task[c].id <= profile.made
      /\ profile \in [id : Nat, active : BOOLEAN, made : Nat] /\ profile.id <= profile.made
      /\ profile.made <= profile.made
      /\ UNCHANGED <<profile, onWire, strict>>
  BY DEF SupInv, SupplierTypeOK, TimesOut, CallsEndOnce, IdsAreMade
<1>2. supplierLeft' \in SupplierLeft
  BY <1>1 DEF SupplierTypeOK, TimesOut, SupplierLeft
<1>3. PICK row \in TaskRow :
        /\ TaskBecomes(c, row) /\ row.kind = task[c].kind /\ row.stage \in StagesOf(row.kind)
        /\ row.stage # "idle" /\ ~row.waiting /\ row.id = task[c].id
        /\ row.stage # "done" => row.answer = "none"
        /\ row.answer # "success"
  BY RetryableBecomes DEF TimesOut
<1>. QED  BY <1>1, <1>2, <1>3, SupplierStep

LEMMA SupplierFailsInv ==
  ASSUME SupInv, NEW m \in onWire, SupplierFails(m) PROVE SupInv'
<1>1. /\ SupplierTypeOK /\ m.by \in Call /\ m.id \in Nat /\ task[m.by] \in TaskRow
      /\ task[m.by].waiting /\ task[m.by].stage # "done" /\ task[m.by].id <= profile.made
      /\ task[m.by].kind \in CallKind /\ m.id <= profile.made
      /\ task[m.by].kind # "provision" => m.id = task[m.by].id
  BY DEF SupInv, SupplierTypeOK, TaskRow, SupplierFails, Awaited, CallsEndOnce, IdsAreMade,
         WireIsOfCalls
<1>2. supplierLeft' \in SupplierLeft
  BY <1>1 DEF SupplierTypeOK, SupplierFails, SupplierLeft
<1>3. /\ profile \in [id : Nat, active : BOOLEAN, made : Nat] /\ profile.id <= profile.made
      /\ profile.made <= profile.made /\ UNCHANGED <<profile, strict>>
      /\ \A n \in onWire' : n \in onWire
  BY DEF SupInv, SupplierTypeOK, SupplierFails, IdsAreMade
<1>4. PICK row \in TaskRow :
        /\ TaskBecomes(m.by, row) /\ row.kind = task[m.by].kind
        /\ row.stage \in StagesOf(row.kind)
        /\ row.stage # "idle" /\ ~row.waiting /\ row.id \in {task[m.by].id, m.id}
        /\ row.stage # "done" => row.answer = "none"
        /\ row.answer # "success"
  BY <1>1, RetryableBecomes, EndsBecomes DEF StagesOf, CallKind, CallAnswer, SupplierFails
<1>5. /\ row.id <= profile.made
      /\ row.kind = "provision" \/ row.id = task[m.by].id
  BY <1>1, <1>4
<1>. QED  BY <1>1, <1>2, <1>3, <1>4, <1>5, SupplierStep

\* The supplier's part of an action, and what its caller makes of the answer.
LEMMA HandledStep ==
  ASSUME SupInv, NEW m \in onWire, NEW then, Handled(m, then),
         NEW row \in TaskRow, Awaited(m) /\ then => TaskBecomes(m.by, row),
         row.kind = task[m.by].kind, row.stage \in StagesOf(row.kind), row.stage # "idle",
         ~row.waiting,
         row.stage # "done" => row.answer = "none",
         row.id <= profile'.made,
         row.kind = "provision" \/ row.id = task[m.by].id,
         row.kind = "release" /\ row.answer = "success" /\ row.id # NoProfile =>
           profile'.id # row.id,
         row.kind = "provision" /\ row.answer = "success" => profile'.id = row.id,
         profile' \in [id : Nat, active : BOOLEAN, made : Nat],
         profile.made <= profile'.made, profile'.id <= profile'.made,
         \/ profile'.id = profile.id
         \/ profile.id = NoProfile /\ profile'.id > profile.made
         \/ profile'.id = NoProfile /\ \E d \in Call : task[d].kind = "release"
                                                       /\ task[d].id = profile.id,
         profile'.id # NoProfile /\ ~profile'.active =>
           \/ profile'.id = profile.id /\ ~profile.active
           \/ \E d \in Call : task[d].kind = "suspend" /\ task[d].id = profile'.id
                              /\ task[d].stage # "idle"
  PROVE  SupInv'
<1>1. /\ SupplierTypeOK /\ m.by \in Call /\ task[m.by] \in TaskRow
      /\ supplierLeft' \in SupplierLeft /\ UNCHANGED strict
      /\ \A n \in onWire' : n \in onWire
  BY DEF SupInv, SupplierTypeOK, Handled
<1>2. CASE Awaited(m) BY <1>2, <1>1, SupplierStep DEF Handled, SupInv, CallsEndOnce, Awaited
<1>3. CASE ~Awaited(m)
  <2>1. TaskBecomes(m.by, task[m.by])
    BY <1>1, <1>3 DEF Handled, TaskBecomes, SupplierTypeOK
  <2>2. /\ task[m.by].stage \in StagesOf(task[m.by].kind) /\ task[m.by].stage # "idle"
        /\ task[m.by].stage = "done" => ~task[m.by].waiting
        /\ task[m.by].stage # "done" => task[m.by].answer = "none"
        /\ task[m.by].id <= profile'.made
    BY <1>1 DEF SupplierTypeOK, TaskRow, SupInv, CallsEndOnce, IdsAreMade, WireIsOfCalls
  <2>3. task[m.by].kind = "release" /\ task[m.by].answer = "success"
        /\ task[m.by].id # NoProfile => profile'.id # task[m.by].id
    BY <1>1 DEF SupplierTypeOK, TaskRow, SupInv, IdsAreMade, AnsweredHolds, Succeeded
  <2>. QED  BY <1>1, <2>1, <2>2, <2>3, SupplierStep
<1>. QED  BY <1>2, <1>3

LEMMA GetProfileInv ==
  ASSUME SupInv, NEW m \in onWire, GetProfile(m) PROVE SupInv'
<1>. DEFINE then == IF Names(m) THEN Ends(m.by, "success", profile.id)
                    ELSE \/ m.stage = "known" /\ To(m.by, "look")
                         \/ m.stage = "look" /\ To(m.by, "post")
                         \/ /\ m.stage = "relook" /\ task[m.by].conflicted
                            /\ Ends(m.by, "failed_permanent", m.id)
                         \/ /\ m.stage = "relook" /\ ~task[m.by].conflicted
                            /\ To(m.by, "repost")
<1>1. /\ SupplierTypeOK /\ m.by \in Call /\ task[m.by] \in TaskRow
      /\ m.id \in Nat /\ m.id <= profile.made
      /\ m.stage \in {"known", "look", "relook"} /\ task[m.by].kind \in CallKind
      /\ m.stage \in StagesOf(task[m.by].kind)
  BY DEF SupInv, SupplierTypeOK, TaskRow, GetProfile, WireIsOfCalls
<1>2. task[m.by].kind = "provision"
  BY <1>1 DEF StagesOf, CallKind
<1>3. /\ profile \in [id : Nat, active : BOOLEAN, made : Nat] /\ profile.id <= profile.made
      /\ profile.id \in Nat /\ profile.made <= profile.made /\ profile' = profile
  BY <1>1 DEF SupInv, SupplierTypeOK, IdsAreMade, GetProfile
<1>4. Handled(m, then)
  BY DEF GetProfile
<1>5. \E row \in TaskRow :
        /\ Awaited(m) /\ then => TaskBecomes(m.by, row)
        /\ row.kind = "provision" /\ row.stage \in StagesOf("provision") /\ row.stage # "idle"
        /\ ~row.waiting
        /\ row.stage # "done" => row.answer = "none"
        /\ row.id <= profile.made
        /\ row.answer = "success" => profile.id = row.id
  <2>0. CASE ~Awaited(m) BY <1>1, <1>2, EndsBecomes, <2>0 DEF CallAnswer, StagesOf
  <2>1. CASE Names(m)
    <3>1. then => Ends(m.by, "success", profile.id)
      BY <2>1
    <3>. HIDE DEF then
    <3>2. \E row \in TaskRow : /\ Ends(m.by, "success", profile.id) => TaskBecomes(m.by, row)
                               /\ row.kind = "provision" /\ row.stage = "done"
                               /\ row.id = profile.id /\ row.answer = "success" /\ ~row.waiting
      BY <1>1, <1>2, <1>3, EndsBecomes DEF CallAnswer
    <3>. QED  BY <1>3, <3>1, <3>2 DEF StagesOf
  <2>2. CASE Awaited(m) /\ ~Names(m) /\ (m.stage = "relook" => ~task[m.by].conflicted)
    <3>1. PICK stage \in {"look", "post", "repost"} : then => To(m.by, stage) BY <2>2, <1>1
    <3>. HIDE DEF then
    <3>2. task[m.by].answer = "none" /\ task[m.by].id <= profile.made
      BY <1>1, <2>2 DEF SupInv, CallsEndOnce, IdsAreMade, Awaited
    <3>3. \E row \in TaskRow : /\ To(m.by, stage) => TaskBecomes(m.by, row)
                               /\ row.kind = "provision" /\ row.stage = stage
                               /\ row.id = task[m.by].id /\ row.answer = task[m.by].answer
                               /\ ~row.waiting
      BY <1>1, <1>2, ToBecomes DEF Stage
    <3>. QED  BY <3>1, <3>2, <3>3 DEF StagesOf
  <2>3. CASE Awaited(m) /\ ~Names(m) /\ m.stage = "relook" /\ task[m.by].conflicted
    <3>1. then => Ends(m.by, "failed_permanent", m.id)
      BY <2>3
    <3>. HIDE DEF then
    <3>2. \E row \in TaskRow : /\ Ends(m.by, "failed_permanent", m.id) => TaskBecomes(m.by, row)
                               /\ row.kind = "provision" /\ row.stage = "done"
                               /\ row.id = m.id /\ row.answer = "failed_permanent"
                               /\ ~row.waiting
      BY <1>1, <1>2, EndsBecomes DEF CallAnswer
    <3>. QED  BY <1>1, <3>1, <3>2 DEF StagesOf
  <2>. QED  BY <2>0, <2>1, <2>2, <2>3
<1>. HIDE DEF then
<1>. QED  BY <1>1, <1>2, <1>3, <1>4, <1>5, HandledStep

LEMMA PostProfileInv ==
  ASSUME SupInv, NEW m \in onWire, PostProfile(m) PROVE SupInv'
<1>1. /\ SupplierTypeOK /\ m.by \in Call /\ task[m.by] \in TaskRow
      /\ m.id \in Nat /\ m.id <= profile.made
      /\ m.stage \in {"post", "repost"} /\ task[m.by].kind \in CallKind
      /\ m.stage \in StagesOf(task[m.by].kind)
      /\ profile \in [id : Nat, active : BOOLEAN, made : Nat] /\ profile.id <= profile.made
      /\ profile.id \in Nat /\ profile.made \in Nat
  BY DEF SupInv, SupplierTypeOK, TaskRow, PostProfile, WireIsOfCalls, IdsAreMade
<1>2. task[m.by].kind = "provision"
  BY <1>1 DEF StagesOf, CallKind
<1>3. CASE profile.id = NoProfile
  <2>1. PICK new \in Nat : /\ new = profile.made + 1 /\ profile.made <= new
                           /\ new > profile.made /\ new <= new
    BY <1>1
  <2>. DEFINE then == Ends(m.by, "success", new)
  <2>2. profile' = [id |-> new, active |-> TRUE, made |-> new] /\ Handled(m, then)
    BY <1>3, <2>1 DEF PostProfile
  <2>. HIDE DEF then
  <2>3. /\ profile' \in [id : Nat, active : BOOLEAN, made : Nat]
        /\ profile'.id = new /\ profile'.made = new /\ profile'.active
    BY <2>1, <2>2
  <2>4. PICK row \in TaskRow :
          /\ then => TaskBecomes(m.by, row)
          /\ row.kind = "provision" /\ row.stage = "done" /\ row.id = new
          /\ row.answer = "success" /\ ~row.waiting
    BY <2>1, <1>1, <1>2, EndsBecomes DEF CallAnswer, then
  <2>5. "done" \in StagesOf("provision")
    BY DEF StagesOf
  <2>. QED  BY <1>1, <1>2, <1>3, <2>1, <2>2, <2>3, <2>4, <2>5, HandledStep
<1>4. CASE profile.id # NoProfile
  <2>. DEFINE Looks == task' = [task EXCEPT ![m.by].stage = "relook", ![m.by].attempt = 0,
                                 ![m.by].waiting = FALSE, ![m.by].conflicted = TRUE]
              then == \/ ~strict /\ Ends(m.by, "success", profile.id)
                      \/ strict /\ m.stage = "post" /\ Looks
                      \/ strict /\ m.stage = "repost" /\ Ends(m.by, "failed_permanent", m.id)
  <2>1. Handled(m, then) /\ UNCHANGED profile
    BY <1>4 DEF PostProfile
  <2>2. \E row \in TaskRow :
          /\ Awaited(m) /\ then => TaskBecomes(m.by, row)
          /\ row.kind = "provision" /\ row.stage \in StagesOf("provision") /\ row.stage # "idle"
          /\ ~row.waiting
          /\ row.stage # "done" => row.answer = "none"
          /\ row.id <= profile.made
          /\ row.answer = "success" => profile.id = row.id
    <3>1. CASE ~strict
      <4>1. then => Ends(m.by, "success", profile.id)
        BY <3>1
      <4>. HIDE DEF then
      <4>2. \E row \in TaskRow : /\ Ends(m.by, "success", profile.id) => TaskBecomes(m.by, row)
                                 /\ row.kind = "provision" /\ row.stage = "done"
                                 /\ row.id = profile.id /\ row.answer = "success"
                                 /\ ~row.waiting
        BY <1>1, <1>2, EndsBecomes DEF CallAnswer
      <4>. QED  BY <1>1, <4>1, <4>2 DEF StagesOf
    <3>2. CASE strict /\ m.stage = "post" /\ Awaited(m)
      <4>. DEFINE row == [task[m.by] EXCEPT !.stage = "relook", !.attempt = 0,
                                            !.waiting = FALSE, !.conflicted = TRUE]
      <4>1. then => Looks
        BY <3>2
      <4>. HIDE DEF then
      <4>2. /\ row \in TaskRow /\ row.kind = "provision" /\ row.stage = "relook"
            /\ row.id = task[m.by].id /\ row.answer = task[m.by].answer /\ ~row.waiting
        BY <1>1, <1>2 DEF TaskRow, Stage
      <4>3. Looks => task' = [task EXCEPT ![m.by] = row]
        BY <1>1 DEF SupplierTypeOK
      <4>4. task[m.by].answer = "none" /\ task[m.by].id <= profile.made
        BY <1>1, <3>2 DEF SupInv, CallsEndOnce, IdsAreMade, Awaited
      <4>. HIDE DEF row
      <4>5. then => TaskBecomes(m.by, row)
        BY <1>1, <4>1, <4>2, <4>3, TaskUpdate
      <4>. QED  BY <4>2, <4>4, <4>5 DEF StagesOf
    <3>3. CASE strict /\ ~(m.stage = "post" /\ Awaited(m))
      <4>1. Awaited(m) /\ then => Ends(m.by, "failed_permanent", m.id)
        BY <3>3
      <4>. HIDE DEF then
      <4>2. \E row \in TaskRow :
              /\ Ends(m.by, "failed_permanent", m.id) => TaskBecomes(m.by, row)
              /\ row.kind = "provision" /\ row.stage = "done"
              /\ row.id = m.id /\ row.answer = "failed_permanent" /\ ~row.waiting
        BY <1>1, <1>2, EndsBecomes DEF CallAnswer
      <4>. QED  BY <1>1, <4>1, <4>2 DEF StagesOf
    <3>. QED  BY <3>1, <3>2, <3>3
  <2>3. profile.made <= profile.made
    BY <1>1
  <2>. HIDE DEF then
  <2>. QED  BY <1>1, <1>2, <2>1, <2>2, <2>3, HandledStep
<1>. QED  BY <1>3, <1>4

LEMMA PatchProfileInv ==
  ASSUME SupInv, NEW m \in onWire, PatchProfile(m) PROVE SupInv'
<1>. DEFINE then == Ends(m.by, "success", m.id)
<1>1. /\ SupplierTypeOK /\ m.by \in Call /\ task[m.by] \in TaskRow
      /\ m.id \in Nat /\ m.id <= profile.made
      /\ m.stage = "patch" /\ task[m.by].kind \in CallKind
      /\ m.stage \in StagesOf(task[m.by].kind) /\ task[m.by].stage # "idle"
      /\ task[m.by].kind # "provision" => m.id = task[m.by].id
      /\ profile \in [id : Nat, active : BOOLEAN, made : Nat] /\ profile.id <= profile.made
      /\ profile.made \in Nat
  BY DEF SupInv, SupplierTypeOK, TaskRow, PatchProfile, WireIsOfCalls, IdsAreMade
<1>2. task[m.by].kind \in {"suspend", "resume"}
  BY <1>1 DEF StagesOf, CallKind
<1>3. Handled(m, then)
  BY DEF PatchProfile
<1>4. /\ profile' \in [id : Nat, active : BOOLEAN, made : Nat]
      /\ profile'.id = profile.id /\ profile'.made = profile.made
      /\ ~profile'.active => \/ ~profile.active
                             \/ task[m.by].kind = "suspend" /\ Names(m)
  BY <1>1, <1>2 DEF PatchProfile
<1>5. Names(m) => m.id = profile.id
  BY <1>1 DEF Names, ById
<1>6. profile'.id # NoProfile /\ ~profile'.active =>
        \/ profile'.id = profile.id /\ ~profile.active
        \/ \E d \in Call : task[d].kind = "suspend" /\ task[d].id = profile'.id
                           /\ task[d].stage # "idle"
  BY <1>1, <1>2, <1>4, <1>5
<1>7. PICK row \in TaskRow :
        /\ then => TaskBecomes(m.by, row)
        /\ row.kind = task[m.by].kind /\ row.stage = "done" /\ row.id = m.id /\ ~row.waiting
  BY <1>1, EndsBecomes DEF CallAnswer
<1>8. "done" \in StagesOf(row.kind) /\ row.id = task[m.by].id /\ profile.made <= profile.made
  BY <1>1, <1>2, <1>7 DEF StagesOf
<1>. HIDE DEF then
<1>. QED  BY <1>1, <1>2, <1>3, <1>4, <1>6, <1>7, <1>8, HandledStep

LEMMA DeleteProfileInv ==
  ASSUME SupInv, NEW m \in onWire, DeleteProfile(m) PROVE SupInv'
<1>. DEFINE then == Ends(m.by, "success", m.id)
<1>1. /\ SupplierTypeOK /\ m.by \in Call /\ task[m.by] \in TaskRow
      /\ m.id \in Nat /\ m.id <= profile.made
      /\ m.stage = "delete" /\ task[m.by].kind \in CallKind
      /\ m.stage \in StagesOf(task[m.by].kind)
      /\ task[m.by].kind # "provision" => m.id = task[m.by].id
      /\ profile \in [id : Nat, active : BOOLEAN, made : Nat] /\ profile.id <= profile.made
      /\ profile.made \in Nat
  BY DEF SupInv, SupplierTypeOK, TaskRow, DeleteProfile, WireIsOfCalls, IdsAreMade
<1>2. task[m.by].kind = "release" /\ m.id = task[m.by].id
  BY <1>1 DEF StagesOf, CallKind
<1>3. Handled(m, then)
  BY DEF DeleteProfile
<1>4. Names(m) <=> profile.id # NoProfile /\ m.id = profile.id
  BY <1>1 DEF Names, ById
<1>5. CASE Names(m)
  <2>1. /\ profile' \in [id : Nat, active : BOOLEAN, made : Nat]
        /\ profile'.id = NoProfile /\ profile'.made = profile.made
    BY <1>1, <1>5 DEF DeleteProfile, NoProfile
  <2>2. \E d \in Call : task[d].kind = "release" /\ task[d].id = profile.id
    BY <1>1, <1>2, <1>4, <1>5
  <2>3. PICK row \in TaskRow :
          /\ then => TaskBecomes(m.by, row)
          /\ row.kind = task[m.by].kind /\ row.stage = "done" /\ row.id = m.id /\ ~row.waiting
    BY <1>1, EndsBecomes DEF CallAnswer
  <2>4. /\ "done" \in StagesOf(row.kind) /\ profile.made <= profile.made
        /\ NoProfile <= profile.made
    BY <1>1, <1>2, <2>3 DEF StagesOf, NoProfile
  <2>. HIDE DEF then
  <2>. QED  BY <1>1, <1>2, <1>3, <2>1, <2>2, <2>3, <2>4, HandledStep
<1>6. CASE ~Names(m)
  <2>1. UNCHANGED profile
    BY <1>6 DEF DeleteProfile
  <2>2. PICK row \in TaskRow :
          /\ then => TaskBecomes(m.by, row)
          /\ row.kind = task[m.by].kind /\ row.stage = "done" /\ row.id = m.id /\ ~row.waiting
    BY <1>1, EndsBecomes DEF CallAnswer
  <2>3. /\ "done" \in StagesOf(row.kind) /\ profile.made <= profile.made
        /\ m.id # NoProfile => profile.id # m.id
    BY <1>1, <1>2, <1>4, <1>6, <2>2 DEF StagesOf
  <2>. HIDE DEF then
  <2>. QED  BY <1>1, <1>2, <1>3, <2>1, <2>2, <2>3, HandledStep
<1>. QED  BY <1>5, <1>6

LEMMA CheckProfileInv ==
  ASSUME SupInv, NEW m \in onWire, CheckProfile(m) PROVE SupInv'
<1>1. /\ SupplierTypeOK /\ m.by \in Call /\ task[m.by] \in TaskRow
      /\ m.id \in Nat /\ m.id <= profile.made
      /\ m.stage = "check" /\ task[m.by].kind \in CallKind
      /\ m.stage \in StagesOf(task[m.by].kind)
      /\ task[m.by].kind # "provision" => m.id = task[m.by].id
      /\ profile \in [id : Nat, active : BOOLEAN, made : Nat] /\ profile.id <= profile.made
      /\ profile.made \in Nat
  BY DEF SupInv, SupplierTypeOK, TaskRow, CheckProfile, WireIsOfCalls, IdsAreMade
<1>2. task[m.by].kind \notin {"provision", "release"}
  BY <1>1 DEF StagesOf, CallKind
<1>3. PICK answer \in CallAnswer : Handled(m, Ends(m.by, answer, m.id))
  BY DEF CheckProfile, CallAnswer
<1>4. PICK row \in TaskRow :
        /\ Ends(m.by, answer, m.id) => TaskBecomes(m.by, row)
        /\ row.kind = task[m.by].kind /\ row.stage = "done" /\ row.id = m.id /\ ~row.waiting
  BY <1>1, EndsBecomes
<1>5. "done" \in StagesOf(row.kind) /\ row.id = task[m.by].id /\ profile.made <= profile.made
  BY <1>1, <1>2, <1>4 DEF StagesOf, CallKind
<1>6. UNCHANGED profile
  BY DEF CheckProfile
<1>. QED  BY <1>1, <1>2, <1>3, <1>4, <1>5, <1>6, HandledStep

LEMMA LostInv ==
  ASSUME SupInv, NEW m \in onWire, Lost(m) PROVE SupInv'
BY DEF Lost, SupInv, SupplierTypeOK, CallsEndOnce, IdsAreMade, WireIsOfCalls, AnsweredHolds,
   Succeeded

LEMMA SupplierStepInv == SupInv /\ [SupplierNext]_supplierVars => SupInv'
<1>. SUFFICES ASSUME SupInv, [SupplierNext]_supplierVars PROVE SupInv'
  OBVIOUS
<1>1. CASE UNCHANGED supplierVars
  BY <1>1 DEF supplierVars, SupInv, SupplierTypeOK, CallsEndOnce, IdsAreMade, WireIsOfCalls,
              AnsweredHolds, Succeeded
<1>2. ASSUME NEW c \in Call,
             \/ Send(c) \/ TimesOut(c) \/ \E id \in 0..profile.made : StartCall(c, id)
      PROVE  SupInv'
  BY <1>2, SendInv, TimesOutInv, StartCallInv
<1>3. ASSUME NEW m \in onWire, Handles(m) \/ SupplierFails(m) \/ Lost(m) PROVE SupInv'
  BY <1>3, GetProfileInv, PostProfileInv, PatchProfileInv, DeleteProfileInv, CheckProfileInv,
     SupplierFailsInv, LostInv DEF Handles
<1>. QED  BY <1>1, <1>2, <1>3 DEF SupplierNext

\* However late a request that timed out is applied at the supplier, and however
\* often the client sends it again: a profile whose release was answered is gone for
\* good, one that provision has answered stays until it is released, and only a
\* suspend that names it leaves it inactive (adapter and client of providers/esim).
THEOREM SupplierAnswersHold == SupplierSpec => []AnsweredHolds
<1>1. SupInv => AnsweredHolds
  BY DEF SupInv
<1>. QED  BY SupplierInitInv, SupplierStepInv, <1>1, PTL DEF SupplierSpec

-----------------------------------------------------------------------------
(* IncidentLookup: whose rows an answer is made of.                        *)

FoundRows == [intent : Nat, decision : Nat, action : Nat, session : Nat, binding : Nat,
              ops : SUBSET Nat]
LookRows ==
  [key : [kind : {"requestId", "intentId", "decisionId", "actionId", "bindingId",
                  "providerResourceId", "providerKey"}, value : Nat, version : Nat],
   caller : Party, grows : Nat,
   at : {"resolve", "absent", "load", "action", "operations", "answered"},
   found : FoundRows]

TenantOfIntent(i, owner) == owner[book.intents[i].intent]
TenantOfDecision(d, owner) == owner[DecisionRow(d).intent]

\* The intent rows that the key asks for.
AsksFor(i) ==
  IF Key = "requestId" THEN book.intents[i].request = Value
  ELSE /\ book.intents[i].intent = Value
       /\ look.key.version = 0 \/ book.intents[i].version = look.key.version

\* The key leads to a row of the caller's.
LeadsToCaller(owner) ==
  /\ Key \in {"requestId", "intentId"} => \E i \in DOMAIN book.intents :
       AsksFor(i) /\ TenantOfIntent(i, owner) = look.caller
  /\ Key = "decisionId" => Value \in DOMAIN book.decisions
                           /\ TenantOfDecision(Value, owner) = look.caller
  /\ Key = "actionId" => Value \in DOMAIN book.actions
                         /\ SessionTenant(Done(Value).session) = look.caller
  /\ Key \in {"bindingId", "providerResourceId"} =>
       /\ AskedBinding \in DOMAIN book.bindings
       /\ book.bindings[AskedBinding].tenant = look.caller
  /\ Key = "providerKey" => \E c \in DOMAIN book.claims :
       book.claims[c].key = Value /\ book.claims[c].tenant = look.caller

\* What was found of the chain is the caller's, and hangs together.
ChainFits(found, owner) ==
  LET i == found.intent  d == found.decision  a == found.action IN
  /\ i # 0 => i \in DOMAIN book.intents /\ TenantOfIntent(i, owner) = look.caller
  /\ d # 0 => d \in DOMAIN book.decisions /\ TenantOfDecision(d, owner) = look.caller
  /\ a # 0 => a \in DOMAIN book.actions /\ SessionTenant(Done(a).session) = look.caller
  /\ i # 0 /\ d # 0 => book.intents[i].intent = DecisionRow(d).intent
  /\ i # 0 /\ d # 0 /\ DecisionRow(d).version # 0 /\ Key \notin {"requestId", "intentId"} =>
       book.intents[i].version = DecisionRow(d).version
  /\ a # 0 /\ d # 0 => Done(a).decision = d

AroundFits(found) ==
  LET s == found.session  b == found.binding  a == found.action IN
  /\ a # 0 => s = Done(a).session
  /\ s # 0 => s \in DOMAIN book.sessions /\ SessionTenant(s) = look.caller
  /\ b # 0 => b \in DOMAIN book.bindings /\ book.bindings[b].tenant = look.caller

OpsFound == \A o \in look.found.ops :
  o \in DOMAIN book.ops /\ book.ops[o].tenant = look.caller

LookFits(owner) ==
  /\ book \in Books /\ BookFits(book, owner)
  /\ look \in LookRows /\ look.caller # Unowned
  /\ look.at \notin {"resolve", "absent"} => LeadsToCaller(owner)
  /\ look.at \in {"action", "operations", "answered"} => ChainFits(look.found, owner)
  /\ look.at \in {"operations", "answered"} => AroundFits(look.found)
  /\ look.at = "answered" => OpsFound

IncidentInv == \E owner \in [Named(book) -> Party \ {Unowned}] : LookFits(owner)


-----------------------------------------------------------------------------
(* The last row of a kind, and the highest version.                        *)

LEMMA LargestOf ==
  ASSUME NEW S \in SUBSET Nat, IsFiniteSet(S), S # {}
  PROVE  \E x \in S : \A y \in S : y <= x
<1>. DEFINE Above(x) == {y \in S : y > x}
            T == {Above(x) : x \in S}
            R == StrictSubsetOrdering(S)
<1>1. T \subseteq FiniteSubsetsOf(S) /\ T # {}
  <2>1. \A x \in S : Above(x) \in SUBSET S
    OBVIOUS
  <2>2. FiniteSubsetsOf(S) = SUBSET S
    BY FS_FiniteSubsetsOfFinite
  <2>3. T \subseteq SUBSET S
    BY ONLY <2>1
  <2>4. T # {}
    BY Zenon
  <2>. QED  BY <2>2, <2>3, <2>4
<1>2. IsWellFoundedOn(R, FiniteSubsetsOf(S))
  BY FS_StrictSubsetOrderingWellFounded
<1>3. PICK t \in T : \A u \in T : ~(<<u, t>> \in R)
  <2>. HIDE DEF T, R
  <2>. QED  BY <1>1, <1>2, WFMin
<1>4. PICK x \in S : t = Above(x)
  BY <1>3, Zenon
<1>5. ASSUME NEW y \in S, y > x PROVE FALSE
  <2>1. \A z \in S : z \in Nat
    OBVIOUS
  <2>2. Above(y) \in SUBSET S /\ Above(x) \in SUBSET S
    BY Zenon
  <2>3. ASSUME NEW z \in Above(y) PROVE z \in Above(x)
    BY ONLY <1>5, <2>1, <2>3
  <2>4. y \in Above(x) /\ y \notin Above(y)
    BY <1>5, <2>1
  <2>5. Above(y) \in T
    OBVIOUS
  <2>. HIDE DEF Above, T
  <2>6. <<Above(y), Above(x)>> \in R
    BY <2>2, <2>3, <2>4 DEF StrictSubsetOrdering
  <2>. HIDE DEF R
  <2>. QED  BY <1>3, <1>4, <2>5, <2>6
<1>. QED  BY <1>5

LEMMA LatestIsOfThem ==
  ASSUME NEW n \in Nat, NEW S \in SUBSET (1..n)
  PROVE  /\ Latest(S) # 0 => Latest(S) \in S
         /\ S # {} => Latest(S) \in S
<1>1. CASE S = {}
  BY <1>1 DEF Latest
<1>2. CASE S # {}
  <2>1. IsFiniteSet(S)
    <3>1. IsFiniteSet(1..n)
      BY FS_Interval
    <3>. QED  BY <3>1, FS_Subset
  <2>2. \E x \in S : \A y \in S : y <= x
    BY <1>2, <2>1, LargestOf
  <2>3. Latest(S) \in S
    BY <1>2, <2>2, Zenon DEF Latest
  <2>. QED  BY <2>3
<1>. QED  BY <1>1, <1>2

LEMMA RowsAreNumbered ==
  ASSUME book \in Books
  PROVE  /\ DOMAIN book.intents = 1..Len(book.intents) /\ Len(book.intents) \in Nat
         /\ DOMAIN book.decisions = 1..Len(book.decisions) /\ Len(book.decisions) \in Nat
         /\ DOMAIN book.sessions = 1..Len(book.sessions) /\ Len(book.sessions) \in Nat
         /\ DOMAIN book.actions = 1..Len(book.actions) /\ Len(book.actions) \in Nat
         /\ DOMAIN book.bindings = 1..Len(book.bindings) /\ Len(book.bindings) \in Nat
         /\ DOMAIN book.ops = 1..Len(book.ops) /\ Len(book.ops) \in Nat
         /\ DOMAIN book.claims = 1..Len(book.claims) /\ Len(book.claims) \in Nat
  BY DEF Books

LEMMA ElementsOf ==
  ASSUME NEW X, NEW s \in Seq(X)
  PROVE  \A n \in DOMAIN s : s[n] \in X
  OBVIOUS

LEMMA RowsAreTyped ==
  ASSUME book \in Books
  PROVE  /\ \A n \in DOMAIN book.intents : book.intents[n] \in
              [intent : Nat, version : Nat, request : Nat, tenant : Party]
         /\ \A n \in DOMAIN book.decisions : book.decisions[n] \in
              [intent : Nat, version : Nat, session : Nat]
         /\ \A n \in DOMAIN book.sessions : book.sessions[n] \in
              [tenant : Party, entitlement : Nat]
         /\ \A n \in DOMAIN book.actions : book.actions[n] \in
              [session : Nat, decision : Nat, binding : Nat]
         /\ \A n \in DOMAIN book.bindings : book.bindings[n] \in
              [tenant : Party, name : Nat, entitlement : Nat]
         /\ \A n \in DOMAIN book.claims : book.claims[n] \in
              [key : Nat, tenant : Party]
BY ElementsOf DEF Books

LEMMA HighestIsOfThem ==
  ASSUME book \in Books, NEW S \in SUBSET (DOMAIN book.intents)
  PROVE  /\ S = {} => HighestVersion(S) = 0
         /\ S # {} => HighestVersion(S) \in S
<1>1. CASE S = {}
  BY <1>1 DEF HighestVersion
<1>2. CASE S # {}
  <2>. DEFINE VersionOf(j) == book.intents[j].version
              V == {VersionOf(j) : j \in S}
  <2>1. book.intents \in Seq([intent : Nat, version : Nat, request : Nat, tenant : Party])
    BY DEF Books
  <2>2. DOMAIN book.intents = 1..Len(book.intents) /\ Len(book.intents) \in Nat
    BY <2>1
  <2>3. IsFiniteSet(S)
    <3>1. IsFiniteSet(1..Len(book.intents))
      BY <2>2, FS_Interval
    <3>. QED  BY <2>2, <3>1, FS_Subset
  <2>4. \A j \in S : VersionOf(j) \in Nat BY RowsAreTyped
  <2>5. IsFiniteSet(V)
    <3>. DEFINE f == [j \in S |-> VersionOf(j)]
    <3>1. f \in Surjection(S, V)
      BY Zenon DEF Surjection
    <3>. HIDE DEF f, V
    <3>. QED  BY <2>3, <3>1, FS_Surjection
  <2>6. V \in SUBSET Nat /\ V # {}
    <3>. HIDE DEF VersionOf
    <3>. QED  BY <1>2, <2>4
  <2>7. PICK v \in V : \A w \in V : w <= v
    <3>. HIDE DEF V
    <3>. QED  BY <2>5, <2>6, LargestOf
  <2>8. PICK x \in S : v = VersionOf(x)
    BY <2>7
  <2>9. \A y \in S : VersionOf(y) <= VersionOf(x)
    <3>. HIDE DEF VersionOf
    <3>. QED  BY <2>7, <2>8
  <2>10. HighestVersion(S) \in S
    BY <1>2, <2>9, Zenon DEF HighestVersion
  <2>. QED  BY <1>2, <2>10
<1>. QED  BY <1>1, <1>2

\* A version of the intent, or none when it has no such version.
LEMMA VersionOfIntent ==
  ASSUME book \in Books, NEW intent, NEW nth
  PROVE  LET i == OfIntent(intent, nth) IN
         /\ i = 0 \/ i \in DOMAIN book.intents
         /\ i # 0 => /\ book.intents[i].intent = intent
                     /\ nth = 0 \/ book.intents[i].version = nth
         /\ (\E j \in DOMAIN book.intents :
               /\ book.intents[j].intent = intent
               /\ nth = 0 \/ book.intents[j].version = nth) => i # 0
<1>. DEFINE S == {j \in DOMAIN book.intents : book.intents[j].intent = intent /\
                    (nth = 0 \/ book.intents[j].version = nth)}
<1>1. OfIntent(intent, nth) = HighestVersion(S)
  BY DEF OfIntent, Rows
<1>2. S \in SUBSET (DOMAIN book.intents) /\ 0 \notin S
  BY RowsAreNumbered
<1>3. (S = {} => HighestVersion(S) = 0) /\ (S # {} => HighestVersion(S) \in S)
  <2>. HIDE DEF S
  <2>. QED  BY <1>2, HighestIsOfThem
<1>. QED  BY <1>1, <1>2, <1>3

LEMMA IntentOfRequest ==
  ASSUME book \in Books, NEW request
  PROVE  LET i == OfRequest(request) IN
         /\ i = 0 \/ i \in DOMAIN book.intents
         /\ i # 0 => book.intents[i].request = request
         /\ (\E j \in DOMAIN book.intents : book.intents[j].request = request) => i # 0
<1>. DEFINE S == {j \in DOMAIN book.intents : book.intents[j].request = request}
<1>1. OfRequest(request) = HighestVersion(S)
  BY DEF OfRequest, Rows
<1>2. S \in SUBSET (DOMAIN book.intents) /\ 0 \notin S
  BY RowsAreNumbered
<1>3. (S = {} => HighestVersion(S) = 0) /\ (S # {} => HighestVersion(S) \in S)
  <2>. HIDE DEF S
  <2>. QED  BY <1>2, HighestIsOfThem
<1>. QED  BY <1>1, <1>2, <1>3


-----------------------------------------------------------------------------
(* Whose it is.                                                            *)

\* The last row of a kind that satisfies a condition.
LEMMA ChainTenant ==
  ASSUME book \in Books, NEW owner, BookFits(book, owner), NEW intent
  PROVE  ResolveTenantViaDecisionChain(intent) \in {owner[intent], Unowned}
<1>. DEFINE S == {d \in DOMAIN book.decisions : book.decisions[d].intent = intent}
<1>1. ResolveTenantViaDecisionChain(intent) =
        IF Latest(S) = 0 THEN Unowned ELSE SessionTenant(book.decisions[Latest(S)].session)
  BY DEF ResolveTenantViaDecisionChain, Rows, DecisionRow
<1>2. S \in SUBSET (1..Len(book.decisions)) /\ Len(book.decisions) \in Nat
  BY RowsAreNumbered
<1>3. Latest(S) # 0 => Latest(S) \in S
  <2>. HIDE DEF S
  <2>. QED  BY <1>2, LatestIsOfThem
<1>4. ASSUME NEW d \in DOMAIN book.decisions, book.decisions[d].intent = intent
      PROVE  SessionTenant(book.decisions[d].session) \in {owner[intent], Unowned}
  BY <1>4 DEF SessionTenant, BookFits, DecisionsFit
<1>. QED  BY <1>1, <1>3, <1>4

LEMMA IntentTenantIs ==
  ASSUME book \in Books, NEW owner, BookFits(book, owner), NEW i \in DOMAIN book.intents
  PROVE  IntentTenant(i) \in {TenantOfIntent(i, owner), Unowned}
BY ChainTenant DEF BookFits, IntentsFit, IntentTenant, TenantOfIntent

LEMMA DecisionTenantIs ==
  ASSUME book \in Books, NEW owner, BookFits(book, owner), NEW d \in DOMAIN book.decisions
  PROVE  DecisionTenant(d) \in {TenantOfDecision(d, owner), Unowned}
<1>. DEFINE n == DecisionRow(d).intent
            i == OfIntent(n, DecisionRow(d).version)
<1>1. i # 0 => i \in DOMAIN book.intents /\ book.intents[i].intent = n
  BY VersionOfIntent
<1>2. i # 0 => book.intents[i].tenant \in {owner[n], Unowned}
  BY <1>1 DEF BookFits, IntentsFit
<1>3. ResolveTenantViaDecisionChain(n) \in {owner[n], Unowned}
  BY ChainTenant
<1>4. SessionTenant(DecisionRow(d).session) \in {owner[n], Unowned}
  BY DEF SessionTenant, DecisionRow, BookFits, DecisionsFit
<1>5. TenantOfDecision(d, owner) = owner[n]
  BY DEF TenantOfDecision
<1>. HIDE DEF n
<1>6. DecisionTenant(d) \in
        {SessionTenant(DecisionRow(d).session), ResolveTenantViaDecisionChain(n)}
        \cup (IF i = 0 THEN {} ELSE {book.intents[i].tenant})
  BY DEF DecisionTenant, n
<1>. HIDE DEF i
<1>. QED  BY <1>2, <1>3, <1>4, <1>5, <1>6

\* The intent row a key asks for is one that it asks for.
LEMMA AskedIsAskedFor ==
  ASSUME book \in Books, Key \in {"requestId", "intentId"}
  PROVE  /\ AskedIntent = 0 \/ AskedIntent \in DOMAIN book.intents
         /\ AskedIntent # 0 => AsksFor(AskedIntent)
         /\ (\E i \in DOMAIN book.intents : AsksFor(i)) => AskedIntent # 0
BY IntentOfRequest, VersionOfIntent DEF AskedIntent, AsksFor

LEMMA AskedBindingIsOne ==
  ASSUME book \in Books
  PROVE  AskedBinding = 0 \/ AskedBinding \in DOMAIN book.bindings
<1>. DEFINE S == {b \in DOMAIN book.bindings :
                    book.bindings[b].name = Value /\ book.bindings[b].tenant = look.caller}
<1>1. AskedBinding = IF Key = "bindingId" THEN IF Value \in DOMAIN book.bindings THEN Value ELSE 0
                     ELSE Latest(S)
  BY DEF AskedBinding, Rows
<1>2. S \in SUBSET (1..Len(book.bindings)) /\ Len(book.bindings) \in Nat
  BY RowsAreNumbered
<1>3. Latest(S) # 0 => Latest(S) \in S
  <2>. HIDE DEF S
  <2>. QED  BY <1>2, LatestIsOfThem
<1>4. S \subseteq DOMAIN book.bindings
  OBVIOUS
<1>. HIDE DEF S
<1>. QED  BY <1>1, <1>3, <1>4

LEMMA AskedClaim ==
  ASSUME book \in Books,
         NEW c, c = Latest(Rows("claims", LAMBDA row : row.key = Value)), c # 0
  PROVE  c \in DOMAIN book.claims /\ book.claims[c].key = Value
<1>. DEFINE S == {n \in DOMAIN book.claims : book.claims[n].key = Value}
<1>1. c = Latest(S)
  BY DEF Rows
<1>2. S \in SUBSET (1..Len(book.claims)) /\ Len(book.claims) \in Nat
  BY RowsAreNumbered
<1>3. c \in S
  <2>. HIDE DEF S
  <2>. QED  BY <1>1, <1>2, LatestIsOfThem
<1>. QED  BY <1>3

\* What makes the caller's tenant of a key leads to a row of the caller's.
LEMMA ResolvedLeads ==
  ASSUME NEW owner, LookFits(owner), ResolveTenantForKey = look.caller
  PROVE  LeadsToCaller(owner)
<1>. USE DEF LookFits
<1>1. CASE Key \in {"requestId", "intentId"}
  <2>. DEFINE i == AskedIntent
  <2>1. i \in DOMAIN book.intents /\ AsksFor(i) /\ IntentTenant(i) = look.caller
    BY <1>1, AskedIsAskedFor DEF ResolveTenantForKey
  <2>2. IntentTenant(i) \in {TenantOfIntent(i, owner), Unowned}
    BY <2>1, IntentTenantIs
  <2>. HIDE DEF i
  <2>. QED  BY <1>1, <2>1, <2>2 DEF LeadsToCaller
<1>2. CASE Key = "decisionId" BY <1>2, DecisionTenantIs DEF ResolveTenantForKey, LeadsToCaller
<1>3. CASE Key = "actionId"
  BY <1>3 DEF LeadsToCaller, ResolveTenantForKey
<1>4. CASE Key \in {"bindingId", "providerResourceId"}
  BY <1>4, AskedBindingIsOne DEF LeadsToCaller, ResolveTenantForKey
<1>5. CASE Key = "providerKey"
  <2>. DEFINE c == Latest(Rows("claims", LAMBDA row : row.key = Value))
  <2>1. c # 0 /\ book.claims[c].tenant = look.caller
    BY <1>5 DEF ResolveTenantForKey
  <2>2. c \in DOMAIN book.claims /\ book.claims[c].key = Value
    BY <2>1, AskedClaim
  <2>. HIDE DEF c
  <2>. QED  BY <1>5, <2>1, <2>2 DEF LeadsToCaller
<1>6. Key \in {"requestId", "intentId", "decisionId", "actionId", "bindingId",
               "providerResourceId", "providerKey"}
  BY DEF LookRows, Key
<1>. QED  BY <1>1, <1>2, <1>3, <1>4, <1>5, <1>6


-----------------------------------------------------------------------------
(* What there is of it.                                                    *)

LEMMA ChainOfIs ==
  ASSUME NEW i \in Nat, NEW d \in Nat, NEW a \in Nat
  PROVE  /\ ChainOf(i, d, a) \in FoundRows
         /\ ChainOf(i, d, a).intent = i /\ ChainOf(i, d, a).decision = d
         /\ ChainOf(i, d, a).action = a /\ ChainOf(i, d, a).session = 0
         /\ ChainOf(i, d, a).binding = 0
  BY DEF ChainOf, NothingFound, FoundRows

\* The version that a decision was made for is of its intent.
LEMMA IntentOfDecision ==
  ASSUME NEW owner, LookFits(owner), NEW d \in DOMAIN book.decisions
  PROVE  LET i == IntentOf(d) IN
         /\ i \in Nat
         /\ i # 0 => /\ i \in DOMAIN book.intents
                     /\ book.intents[i].intent = DecisionRow(d).intent
                     /\ TenantOfIntent(i, owner) = TenantOfDecision(d, owner)
         /\ i # 0 /\ DecisionRow(d).version # 0 =>
              book.intents[i].version = DecisionRow(d).version
<1>. DEFINE i == OfIntent(DecisionRow(d).intent, DecisionRow(d).version)
<1>1. i = 0 \/ i \in DOMAIN book.intents
  BY VersionOfIntent DEF LookFits
<1>2. i # 0 => /\ book.intents[i].intent = DecisionRow(d).intent
               /\ DecisionRow(d).version = 0 \/ book.intents[i].version = DecisionRow(d).version
  BY VersionOfIntent DEF LookFits
<1>3. i \in Nat
  BY <1>1, RowsAreNumbered DEF LookFits
<1>4. IntentOf(d) \in {0, i}
  BY DEF IntentOf
<1>. HIDE DEF i
<1>. QED  BY <1>1, <1>2, <1>3, <1>4 DEF TenantOfIntent, TenantOfDecision

LEMMA DecisionChainFits ==
  ASSUME NEW owner, LookFits(owner), NEW d \in DOMAIN book.decisions,
         TenantOfDecision(d, owner) = look.caller
  PROVE  FromDecision(d) \in FoundRows /\ ChainFits(FromDecision(d), owner)
<1>1. d \in Nat /\ d # 0
  BY RowsAreNumbered DEF LookFits
<1>. DEFINE i == IntentOf(d)
<1>2. i \in Nat /\ FromDecision(d) = ChainOf(i, d, 0)
  BY IntentOfDecision DEF FromDecision
<1>3. /\ i # 0 => /\ i \in DOMAIN book.intents
                  /\ book.intents[i].intent = DecisionRow(d).intent
                  /\ TenantOfIntent(i, owner) = look.caller
      /\ i # 0 /\ DecisionRow(d).version # 0 =>
           book.intents[i].version = DecisionRow(d).version
  BY IntentOfDecision
<1>. HIDE DEF i
<1>. QED  BY <1>1, <1>2, <1>3, ChainOfIs DEF ChainFits

LEMMA ActionChainFits ==
  ASSUME NEW owner, LookFits(owner), NEW a \in DOMAIN book.actions,
         SessionTenant(Done(a).session) = look.caller
  PROVE  FromAction(a) \in FoundRows /\ ChainFits(FromAction(a), owner)
<1>1. a \in Nat /\ a # 0
  BY RowsAreNumbered DEF LookFits
<1>. DEFINE d == Done(a).decision
            i == IF d = 0 THEN 0 ELSE IntentOf(d)
<1>2. d \in Nat /\ (d # 0 => d \in DOMAIN book.decisions)
  BY RowsAreTyped, RowsAreNumbered DEF LookFits, BookFits, ActionFits, Done
<1>3. d # 0 => TenantOfDecision(d, owner) = look.caller
  BY RowsAreNumbered DEF LookFits, BookFits, ActionFits, Done, SessionTenant, TenantOfDecision,
     DecisionRow
<1>4. FromAction(a) = ChainOf(i, d, a)
  BY DEF FromAction
<1>5. i \in Nat /\ (i # 0 => d # 0)
  BY <1>2, IntentOfDecision
<1>6. /\ i # 0 => /\ i \in DOMAIN book.intents
                  /\ book.intents[i].intent = DecisionRow(d).intent
                  /\ TenantOfIntent(i, owner) = look.caller
      /\ i # 0 /\ DecisionRow(d).version # 0 =>
           book.intents[i].version = DecisionRow(d).version
  BY <1>2, <1>3, IntentOfDecision
<1>. HIDE DEF i
<1>7. /\ ChainOf(i, d, a) \in FoundRows
      /\ ChainOf(i, d, a).intent = i /\ ChainOf(i, d, a).decision = d
      /\ ChainOf(i, d, a).action = a
  BY <1>1, <1>2, <1>5, ChainOfIs
<1>8. Done(a).decision = d
  OBVIOUS
<1>. HIDE DEF d
<1>. QED  BY <1>1, <1>2, <1>3, <1>4, <1>5, <1>6, <1>7, <1>8 DEF ChainFits

\* The last action of a session is of the session's tenant.
LEMMA IntentChainFits ==
  ASSUME NEW owner, LookFits(owner), NEW i \in DOMAIN book.intents, i = AskedIntent,
         TenantOfIntent(i, owner) = look.caller, Key \in {"requestId", "intentId"}
  PROVE  FromIntent \in FoundRows /\ ChainFits(FromIntent, owner)
<1>1. i \in Nat /\ i # 0
  BY RowsAreNumbered DEF LookFits
<1>. DEFINE n == book.intents[i].intent
            S == {d \in DOMAIN book.decisions : book.decisions[d].intent = n}
            d == Latest(S)
<1>2. FromIntent = ChainOf(i, d, 0)
  BY DEF FromIntent, Rows
<1>3. S \in SUBSET (1..Len(book.decisions)) /\ Len(book.decisions) \in Nat
  BY RowsAreNumbered DEF LookFits
<1>4. d # 0 => d \in S
  <2>. HIDE DEF S
  <2>. QED  BY <1>3, LatestIsOfThem
<1>5. d \in Nat
  BY <1>3, <1>4
<1>6. d # 0 => /\ d \in DOMAIN book.decisions /\ DecisionRow(d).intent = n
               /\ TenantOfDecision(d, owner) = look.caller
  <2>1. \A e \in S : /\ e \in DOMAIN book.decisions /\ DecisionRow(e).intent = n
                     /\ TenantOfDecision(e, owner) = look.caller
    BY DEF DecisionRow, TenantOfDecision, TenantOfIntent
  <2>. HIDE DEF S
  <2>. QED  BY <1>4, <2>1
<1>. HIDE DEF d
<1>. QED  BY <1>1, <1>2, <1>5, <1>6, ChainOfIs DEF ChainFits


LEMMA NothingFits ==
  ASSUME NEW owner
  PROVE  NothingFound \in FoundRows /\ ChainFits(NothingFound, owner)
  BY DEF NothingFound, FoundRows, ChainFits

LEMMA BindingChainFits ==
  ASSUME NEW owner, LookFits(owner), NEW b \in DOMAIN book.bindings,
         book.bindings[b].tenant = look.caller
  PROVE  FromBinding(b) \in FoundRows /\ ChainFits(FromBinding(b), owner)
<1>. DEFINE S == {s \in DOMAIN book.sessions :
                    book.sessions[s].entitlement = book.bindings[b].entitlement}
            s == Latest(S)
            A == {a \in DOMAIN book.actions : s # 0 /\ book.actions[a].session = s}
            a == Latest(A)
<1>1. FromBinding(b) = IF a = 0 THEN NothingFound ELSE FromAction(a)
  BY DEF FromBinding, Rows
<1>2. S \in SUBSET (1..Len(book.sessions)) /\ Len(book.sessions) \in Nat
  BY RowsAreNumbered DEF LookFits
<1>3. s # 0 => s \in S
  <2>. HIDE DEF S
  <2>. QED  BY <1>2, LatestIsOfThem
<1>4. A \in SUBSET (1..Len(book.actions)) /\ Len(book.actions) \in Nat
  <2>. HIDE DEF s
  <2>. QED  BY RowsAreNumbered DEF LookFits
<1>5. a # 0 => a \in A
  <2>. HIDE DEF A
  <2>. QED  BY <1>4, LatestIsOfThem
<1>6. CASE a = 0
  BY <1>1, <1>6, NothingFits
<1>7. CASE a # 0
  <2>1. a \in DOMAIN book.actions /\ s # 0 /\ book.actions[a].session = s
    <3>. HIDE DEF s
    <3>1. \A e \in A : e \in DOMAIN book.actions /\ s # 0 /\ book.actions[e].session = s
      OBVIOUS
    <3>. HIDE DEF A
    <3>. QED  BY <1>5, <1>7, <3>1
  <2>2. s \in DOMAIN book.sessions /\ book.sessions[s].tenant = look.caller
    <3>1. \A e \in S : /\ e \in DOMAIN book.sessions
                       /\ book.sessions[e].entitlement = book.bindings[b].entitlement
      OBVIOUS
    <3>. HIDE DEF S
    <3>2. s \in DOMAIN book.sessions /\ book.sessions[s].entitlement = book.bindings[b].entitlement
      BY <1>3, <2>1, <3>1
    <3>. HIDE DEF s
    <3>. QED  BY <3>2 DEF LookFits, BookFits, SessionsFit
  <2>. HIDE DEF s, a
  <2>3. SessionTenant(Done(a).session) = look.caller
    BY <2>1, <2>2 DEF SessionTenant, Done
  <2>. QED  BY <1>1, <1>7, <2>1, <2>3, ActionChainFits
<1>. QED  BY <1>6, <1>7

\* The chain that a key leads to is the caller's.
LEMMA LoadedChainFits ==
  ASSUME NEW owner, LookFits(owner), LeadsToCaller(owner)
  PROVE  LoadChain \in FoundRows /\ ChainFits(LoadChain, owner)
<1>0. Key \in {"requestId", "intentId", "decisionId", "actionId", "bindingId",
               "providerResourceId", "providerKey"}
  BY DEF LookFits, LookRows, Key
<1>1. CASE Key \in {"requestId", "intentId"}
  <2>. DEFINE i == AskedIntent
  <2>1. i \in DOMAIN book.intents /\ AsksFor(i)
    BY <1>1, AskedIsAskedFor DEF LeadsToCaller, LookFits
  <2>2. PICK j \in DOMAIN book.intents : AsksFor(j) /\ TenantOfIntent(j, owner) = look.caller
    BY <1>1 DEF LeadsToCaller
  <2>3. book.intents[i].intent = book.intents[j].intent
    <3>1. CASE Key = "requestId"
      <4>1. book.intents[i].request = book.intents[j].request
        BY <2>1, <2>2, <3>1 DEF AsksFor
      <4>. HIDE DEF i
      <4>. QED  BY <2>1, <2>2, <4>1 DEF LookFits, BookFits, IntentsFit
    <3>2. CASE Key = "intentId"
      BY <2>1, <2>2, <3>2 DEF AsksFor
    <3>. QED  BY <1>1, <3>1, <3>2
  <2>4. TenantOfIntent(i, owner) = look.caller
    BY <2>2, <2>3 DEF TenantOfIntent
  <2>5. LoadChain = FromIntent
    BY <1>1 DEF LoadChain
  <2>. QED  BY <1>1, <2>1, <2>4, <2>5, IntentChainFits
<1>2. CASE Key = "decisionId" BY <1>2, DecisionChainFits DEF LoadChain, LeadsToCaller
<1>3. CASE Key = "actionId" BY <1>3, ActionChainFits DEF LoadChain, LeadsToCaller
<1>4. CASE Key \in {"bindingId", "providerResourceId"}
  BY <1>4, BindingChainFits DEF LoadChain, LeadsToCaller
<1>5. CASE Key = "providerKey" BY <1>5, NothingFits DEF LoadChain
<1>. QED  BY <1>0, <1>1, <1>2, <1>3, <1>4, <1>5

\* What a step of the lookup leaves as it was.
LEMMA LookOnly ==
  ASSUME NEW owner, LookFits(owner), book' = book,
         look'.key = look.key, look'.caller = look.caller, look' \in LookRows
  PROVE  /\ book' \in Books /\ BookFits(book', owner)
         /\ look' \in LookRows /\ look'.caller # Unowned
         /\ LeadsToCaller(owner) => LeadsToCaller(owner)'
         /\ \A found : ChainFits(found, owner) => ChainFits(found, owner)'
         /\ \A found : AroundFits(found) => AroundFits(found)'
<1>1. Key' = Key /\ Value' = Value
  BY DEF Key, Value
<1>2. AskedBinding' = AskedBinding
  BY <1>1 DEF AskedBinding, Rows
<1>3. LeadsToCaller(owner) => LeadsToCaller(owner)'
  BY <1>1, <1>2 DEF LeadsToCaller, AsksFor, TenantOfIntent, TenantOfDecision, DecisionRow,
    SessionTenant, Done
<1>4. ASSUME NEW found, ChainFits(found, owner) PROVE ChainFits(found, owner)'
  BY <1>1, <1>4 DEF ChainFits, TenantOfIntent, TenantOfDecision, DecisionRow, SessionTenant, Done
<1>5. ASSUME NEW found, AroundFits(found) PROVE AroundFits(found)'
  BY <1>5 DEF AroundFits, SessionTenant, Done
<1>. QED  BY <1>3, <1>4, <1>5 DEF LookFits


LEMMA ResolveFits ==
  ASSUME NEW owner, LookFits(owner), ResolveTenant
  PROVE  LookFits(owner)'
<1>. DEFINE at == IF ResolveTenantForKey = look.caller THEN "load" ELSE "absent"
<1>1. look' = [look EXCEPT !.at = at] /\ book' = book /\ at \in {"load", "absent"}
  BY DEF ResolveTenant
<1>2. at = "load" => LeadsToCaller(owner)
  BY ResolvedLeads
<1>. HIDE DEF at
<1>3. /\ look' \in LookRows /\ look'.key = look.key /\ look'.caller = look.caller
      /\ look'.at = at
  BY <1>1 DEF LookFits, LookRows
<1>4. /\ book' \in Books /\ BookFits(book', owner)
      /\ look' \in LookRows /\ look'.caller # Unowned
      /\ LeadsToCaller(owner) => LeadsToCaller(owner)'
  BY <1>1, <1>3, LookOnly
<1>. QED  BY <1>1, <1>2, <1>3, <1>4 DEF LookFits

LEMMA LoadFits ==
  ASSUME NEW owner, LookFits(owner), LoadIncident
  PROVE  LookFits(owner)'
<1>1. LeadsToCaller(owner)
  BY DEF LookFits, LoadIncident
<1>2. PICK f : f = LoadChain
  OBVIOUS
<1>3. f \in FoundRows /\ ChainFits(f, owner)
  BY <1>1, <1>2, LoadedChainFits
<1>4. look' = [look EXCEPT !.at = "action", !.found = f] /\ book' = book
  BY <1>2 DEF LoadIncident
<1>5. /\ look' \in LookRows /\ look'.key = look.key /\ look'.caller = look.caller
      /\ look'.at = "action" /\ look'.found = f
  BY <1>3, <1>4 DEF LookFits, LookRows
<1>6. /\ book' \in Books /\ BookFits(book', owner)
      /\ look' \in LookRows /\ look'.caller # Unowned
      /\ LeadsToCaller(owner)' /\ ChainFits(f, owner)'
  BY <1>1, <1>3, <1>4, <1>5, LookOnly
<1>. QED  BY <1>5, <1>6 DEF LookFits

LEMMA LoadActionFits ==
  ASSUME NEW owner, LookFits(owner), LoadAction
  PROVE  LookFits(owner)'
<1>. DEFINE g == look.found
            d == g.decision
            S == {n \in DOMAIN book.actions :
                    /\ book.actions[n].session = DecisionRow(d).session
                    /\ book.actions[n].decision = d}
            a == IF g.action # 0 \/ d = 0 THEN g.action
                 ELSE IF DecisionRow(d).session = 0 THEN 0 ELSE Latest(S)
            s == IF a # 0 THEN Done(a).session ELSE IF d # 0 THEN DecisionRow(d).session ELSE 0
            b == IF a = 0 THEN 0 ELSE Done(a).binding
<1>1. /\ book' = book
      /\ look' = [look EXCEPT !.at = "operations", !.found.action = a, !.found.session = s,
                              !.found.binding = b]
  BY DEF LoadAction, Rows
<1>2. LeadsToCaller(owner) /\ ChainFits(g, owner)
  BY DEF LookFits, LoadAction
<1>3. g \in FoundRows /\ d \in Nat
  BY DEF LookFits, LookRows, FoundRows
<1>4. d # 0 => d \in DOMAIN book.decisions /\ TenantOfDecision(d, owner) = look.caller
  BY <1>2 DEF ChainFits
<1>5. d # 0 /\ DecisionRow(d).session # 0 =>
        /\ DecisionRow(d).session \in DOMAIN book.sessions
        /\ SessionTenant(DecisionRow(d).session) = look.caller
  <2>. HIDE DEF d
  <2>1. ASSUME d # 0, DecisionRow(d).session # 0
        PROVE  /\ DecisionRow(d).session \in 0..Len(book.sessions)
               /\ book.sessions[DecisionRow(d).session].tenant = owner[DecisionRow(d).intent]
    BY <1>4, <2>1 DEF LookFits, BookFits, DecisionsFit, DecisionRow
  <2>. QED  BY <1>4, <2>1, RowsAreNumbered DEF LookFits, SessionTenant, TenantOfDecision
<1>6. S \in SUBSET (1..Len(book.actions)) /\ Len(book.actions) \in Nat
  <2>. HIDE DEF d
  <2>. QED  BY RowsAreNumbered DEF LookFits
<1>7. Latest(S) # 0 => Latest(S) \in S
  <2>. HIDE DEF S
  <2>. QED  BY <1>6, LatestIsOfThem
<1>8. a = g.action \/ a = 0 \/ (g.action = 0 /\ d # 0 /\ DecisionRow(d).session # 0 /\ a \in S)
  <2>. HIDE DEF S, d, g
  <2>. QED  BY <1>7
<1>9. a # 0 => /\ a \in DOMAIN book.actions /\ SessionTenant(Done(a).session) = look.caller
               /\ d # 0 => Done(a).decision = d
  <2>1. CASE a = g.action
    <3>. HIDE DEF a, g
    <3>1. g.action # 0 => /\ g.action \in DOMAIN book.actions
                          /\ SessionTenant(Done(g.action).session) = look.caller
                          /\ g.decision # 0 => Done(g.action).decision = g.decision
      BY <1>2 DEF ChainFits
    <3>. QED  BY <2>1, <3>1
  <2>2. CASE a = 0
    BY <2>2
  <2>3. CASE g.action = 0 /\ d # 0 /\ DecisionRow(d).session # 0 /\ a \in S
    <3>. HIDE DEF a, d
    <3>1. /\ a \in DOMAIN book.actions /\ book.actions[a].session = DecisionRow(d).session
          /\ book.actions[a].decision = d
      BY <2>3
    <3>. QED  BY <1>5, <2>3, <3>1 DEF Done
  <2>. QED  BY <1>8, <2>1, <2>2, <2>3
<1>10. a \in Nat
  <2>1. g.action \in Nat
    BY <1>3 DEF FoundRows
  <2>2. \A n \in S : n \in Nat
    BY <1>6
  <2>. HIDE DEF a, S
  <2>. QED  BY <1>8, <2>1, <2>2
<1>11. a # 0 =>
         /\ s = Done(a).session /\ s \in DOMAIN book.sessions
         /\ b \in Nat /\ (b # 0 => /\ b \in DOMAIN book.bindings
                                   /\ book.bindings[b].tenant = look.caller)
  <2>. HIDE DEF a
  <2>. SUFFICES ASSUME a # 0 PROVE
         /\ s = Done(a).session /\ s \in DOMAIN book.sessions
         /\ b \in Nat /\ (b # 0 => /\ b \in DOMAIN book.bindings
                                   /\ book.bindings[b].tenant = look.caller)
    OBVIOUS
  <2>1. s = book.actions[a].session /\ b = book.actions[a].binding
    BY DEF Done
  <2>2. /\ book.actions[a].session \in DOMAIN book.sessions
        /\ book.actions[a].binding \in 0..Len(book.bindings)
        /\ book.actions[a].binding # 0 =>
             book.bindings[book.actions[a].binding].tenant
               = book.sessions[book.actions[a].session].tenant
    BY <1>9 DEF LookFits, BookFits, ActionFits
  <2>3. book.actions[a].session # 0
    BY <2>2, RowsAreNumbered DEF LookFits
  <2>. HIDE DEF s, b
  <2>4. book.sessions[s].tenant = look.caller
    BY <1>9, <2>1, <2>3 DEF SessionTenant, Done
  <2>. QED  BY <2>1, <2>2, <2>4, RowsAreNumbered DEF LookFits, Done
<1>12. a = 0 => b = 0 /\ (s = 0 \/ (d # 0 /\ s = DecisionRow(d).session))
  <2>. HIDE DEF a, d
  <2>. QED  OBVIOUS
<1>. HIDE DEF s, b
<1>13. b \in Nat /\ (b # 0 => b \in DOMAIN book.bindings /\ book.bindings[b].tenant = look.caller)
  <2>. HIDE DEF a, d
  <2>. QED  BY <1>11, <1>12
<1>14. s # 0 => s \in DOMAIN book.sessions /\ SessionTenant(s) = look.caller
  <2>. HIDE DEF a, d
  <2>. QED  BY <1>5, <1>9, <1>11, <1>12
<1>15. s \in Nat
  BY <1>14, RowsAreNumbered DEF LookFits
<1>16. a # 0 => s = Done(a).session
  <2>. HIDE DEF a
  <2>. QED  BY <1>11
<1>. HIDE DEF a, S
<1>. DEFINE f == [g EXCEPT !.action = a, !.session = s, !.binding = b]
<1>17. /\ f \in FoundRows /\ f.intent = g.intent /\ f.decision = d /\ f.action = a
       /\ f.session = s /\ f.binding = b
  <2>. HIDE DEF g
  <2>. QED  BY <1>3, <1>10, <1>13, <1>15 DEF FoundRows
<1>18. look' = [look EXCEPT !.at = "operations", !.found = f]
  BY <1>1, <1>3 DEF LookFits, LookRows, FoundRows
<1>. HIDE DEF f
<1>19. ChainFits(f, owner)
  <2>. HIDE DEF g
  <2>. QED  BY <1>2, <1>9, <1>17 DEF ChainFits
<1>20. AroundFits(f)
  <2>. HIDE DEF g, d
  <2>. QED  BY <1>13, <1>14, <1>16, <1>17 DEF AroundFits
<1>21. PICK h : h = f
  OBVIOUS
<1>. HIDE DEF g, d
<1>22. /\ look' \in LookRows /\ look'.key = look.key /\ look'.caller = look.caller
       /\ look'.at = "operations" /\ look'.found = h
  BY <1>17, <1>18, <1>21 DEF LookFits, LookRows
<1>23. /\ book' \in Books /\ BookFits(book', owner)
       /\ look' \in LookRows /\ look'.caller # Unowned
       /\ LeadsToCaller(owner)' /\ ChainFits(h, owner)' /\ AroundFits(h)'
  BY <1>1, <1>2, <1>19, <1>20, <1>21, <1>22, LookOnly
<1>. QED  BY <1>22, <1>23 DEF LookFits


\* Whatever names a row of the caller's is the caller's.
LEMMA CorrelatedIsCallers ==
  ASSUME NEW owner, LookFits(owner), LeadsToCaller(owner), ChainFits(look.found, owner),
         AroundFits(look.found), NEW o \in DOMAIN book.ops, Correlated(book.ops[o])
  PROVE  book.ops[o].tenant = look.caller
<1>. DEFINE oper == book.ops[o]
            f == look.found
<1>1. /\ oper.intent # 0 => oper.intent \in DOMAIN owner /\ owner[oper.intent] = oper.tenant
      /\ \A i \in DOMAIN book.intents :
           book.intents[i].request = oper.request => owner[book.intents[i].intent] = oper.tenant
      /\ oper.action # 0 => book.sessions[book.actions[oper.action].session].tenant = oper.tenant
      /\ oper.decision # 0 => owner[book.decisions[oper.decision].intent] = oper.tenant
      /\ oper.binding # 0 => book.bindings[oper.binding].tenant = oper.tenant
      /\ oper.key # 0 => \A c \in DOMAIN book.claims :
           book.claims[c].key = oper.key => book.claims[c].tenant = oper.tenant
  BY DEF LookFits, BookFits, OpFits
<1>2. \/ f.intent # 0 /\ oper.intent = book.intents[f.intent].intent
      \/ f.intent # 0 /\ oper.request = book.intents[f.intent].request
      \/ f.action # 0 /\ oper.action = f.action
      \/ f.decision # 0 /\ oper.decision = f.decision
      \/ f.binding # 0 /\ oper.binding = f.binding
      \/ Key = "providerKey" /\ oper.key = Value
  BY DEF Correlated
<1>3. /\ f.intent # 0 => /\ f.intent \in DOMAIN book.intents
                         /\ TenantOfIntent(f.intent, owner) = look.caller
      /\ f.decision # 0 => TenantOfDecision(f.decision, owner) = look.caller
      /\ f.action # 0 => /\ f.action \in DOMAIN book.actions
                         /\ SessionTenant(Done(f.action).session) = look.caller
  BY DEF ChainFits
<1>4. f.binding # 0 => book.bindings[f.binding].tenant = look.caller
  BY DEF AroundFits
<1>. HIDE DEF oper, f
<1>5. CASE f.intent # 0 /\ oper.intent = book.intents[f.intent].intent
  BY <1>3, <1>5, <1>1 DEF LookFits, BookFits, IntentsFit, TenantOfIntent, oper
<1>6. CASE f.intent # 0 /\ oper.request = book.intents[f.intent].request
  BY <1>1, <1>3, <1>6 DEF TenantOfIntent, oper
<1>7. CASE f.action # 0 /\ oper.action = f.action
  BY <1>3, <1>7, RowsAreNumbered, <1>1 DEF LookFits, BookFits, ActionFits, SessionTenant, Done, oper
<1>8. CASE f.decision # 0 /\ oper.decision = f.decision
  BY <1>1, <1>3, <1>8 DEF TenantOfDecision, DecisionRow, oper
<1>9. CASE f.binding # 0 /\ oper.binding = f.binding
  BY <1>1, <1>4, <1>9 DEF oper
<1>10. CASE Key = "providerKey" /\ oper.key = Value
  <2>1. PICK c \in DOMAIN book.claims :
          book.claims[c].key = Value /\ book.claims[c].tenant = look.caller
    BY <1>10 DEF LeadsToCaller
  <2>2. book.claims[c].key # 0
    BY DEF LookFits, BookFits
  <2>3. oper.key # 0 /\ book.claims[c].key = oper.key
    BY <1>10, <2>1, <2>2
  <2>4. book.claims[c].tenant = oper.tenant
    BY <1>1, <2>3
  <2>. QED  BY <2>1, <2>4 DEF oper
<1>. QED  BY <1>2, <1>5, <1>6, <1>7, <1>8, <1>9, <1>10

LEMMA OperationsFit ==
  ASSUME NEW owner, LookFits(owner), LoadOperations
  PROVE  LookFits(owner)'
<1>. DEFINE ops == {o \in DOMAIN book.ops : Correlated(book.ops[o])}
<1>1. book' = book /\ look' = [look EXCEPT !.at = "answered", !.found.ops = ops]
  BY DEF LoadOperations, Rows
<1>2. LeadsToCaller(owner) /\ ChainFits(look.found, owner) /\ AroundFits(look.found)
  BY DEF LookFits, LoadOperations
<1>3. \A o \in ops : o \in DOMAIN book.ops /\ book.ops[o].tenant = look.caller
  BY <1>2, CorrelatedIsCallers
<1>4. ops \in SUBSET Nat
  BY <1>3, RowsAreNumbered DEF LookFits
<1>. HIDE DEF ops
<1>5. PICK f : f = [look.found EXCEPT !.ops = ops]
  OBVIOUS
<1>6. look.found \in FoundRows
  BY DEF LookFits, LookRows
<1>7. /\ f \in FoundRows /\ f.intent = look.found.intent
      /\ f.decision = look.found.decision /\ f.action = look.found.action
      /\ f.session = look.found.session /\ f.binding = look.found.binding /\ f.ops = ops
  BY <1>4, <1>5, <1>6 DEF FoundRows
<1>8. look' = [look EXCEPT !.at = "answered", !.found = f]
  BY <1>1, <1>5 DEF LookFits, LookRows
<1>9. ChainFits(f, owner)
  BY <1>2, <1>7 DEF ChainFits
<1>10. AroundFits(f)
  BY <1>2, <1>7 DEF AroundFits
<1>11. /\ look' \in LookRows /\ look'.key = look.key /\ look'.caller = look.caller
       /\ look'.at = "answered" /\ look'.found = f
  BY <1>7, <1>8 DEF LookFits, LookRows
<1>12. /\ book' \in Books /\ BookFits(book', owner)
       /\ look' \in LookRows /\ look'.caller # Unowned
       /\ LeadsToCaller(owner)' /\ ChainFits(f, owner)' /\ AroundFits(f)'
  BY <1>1, <1>2, <1>9, <1>10, <1>11, LookOnly
<1>13. OpsFound'
  BY <1>1, <1>3, <1>7, <1>11 DEF OpsFound
<1>. QED  BY <1>11, <1>12, <1>13 DEF LookFits


-----------------------------------------------------------------------------
(* The control plane writes on.                                            *)

Continues(s, t) == DOMAIN s \subseteq DOMAIN t /\ \A n \in DOMAIN s : t[n] = s[n]

LEMMA AppendedTo ==
  ASSUME NEW X, NEW s \in Seq(X), NEW e \in X
  PROVE  /\ Append(s, e) \in Seq(X) /\ Len(Append(s, e)) = Len(s) + 1
         /\ Continues(s, Append(s, e)) /\ Append(s, e)[Len(s) + 1] = e
         /\ Len(s) \in Nat /\ DOMAIN s = 1..Len(s)
         /\ DOMAIN Append(s, e) = 1..(Len(s) + 1)
         /\ \A n \in DOMAIN Append(s, e) : n \in DOMAIN s \/ n = Len(s) + 1
  BY DEF Continues

LEMMA ContinuesItself ==
  ASSUME NEW s
  PROVE  Continues(s, s)
  BY DEF Continues

IntentRows == [intent : Nat, version : Nat, request : Nat, tenant : Party]
DecisionRows == [intent : Nat, version : Nat, session : Nat]
ActionRows == [session : Nat, decision : Nat, binding : Nat]
OpRows == [tenant : Party, action : Nat, decision : Nat, binding : Nat, key : Nat,
           intent : Nat, request : Nat]

LEMMA BookSequences ==
  ASSUME NEW b \in Books
  PROVE  /\ b.intents \in Seq(IntentRows) /\ b.decisions \in Seq(DecisionRows)
         /\ b.actions \in Seq(ActionRows) /\ b.ops \in Seq(OpRows)
         /\ Len(b.sessions) \in Nat /\ DOMAIN b.sessions = 1..Len(b.sessions)
         /\ Len(b.bindings) \in Nat /\ DOMAIN b.bindings = 1..Len(b.bindings)
         /\ Len(b.intents) \in Nat /\ DOMAIN b.intents = 1..Len(b.intents)
         /\ Len(b.decisions) \in Nat /\ DOMAIN b.decisions = 1..Len(b.decisions)
         /\ Len(b.actions) \in Nat /\ DOMAIN b.actions = 1..Len(b.actions)
         /\ Len(b.ops) \in Nat /\ DOMAIN b.ops = 1..Len(b.ops)
  BY DEF Books, IntentRows, DecisionRows, ActionRows, OpRows

LEMMA IntentsGrow ==
  ASSUME NEW b \in Books, NEW owner, BookFits(b, owner), NEW row \in IntentRows,
         row.intent \in DOMAIN owner, row.intent # 0, row.request = Len(b.intents) + 1,
         row.tenant \in {owner[row.intent], Unowned},
         NEW c, c \in Books, c.intents = Append(b.intents, row), c.decisions = b.decisions,
         c.actions = b.actions, c.ops = b.ops, c.sessions = b.sessions,
         c.bindings = b.bindings, c.claims = b.claims
  PROVE  BookFits(c, owner)
<1>. DEFINE n == Len(b.intents)
<1>1. b.intents \in Seq(IntentRows)
  BY BookSequences
<1>2. /\ Len(c.intents) = n + 1 /\ n \in Nat
      /\ \A i \in DOMAIN b.intents : i \in DOMAIN c.intents /\ c.intents[i] = b.intents[i]
      /\ c.intents[n + 1] = row
      /\ \A i \in DOMAIN c.intents : i \in DOMAIN b.intents \/ i = n + 1
  BY <1>1, AppendedTo DEF Continues
<1>3. \A i \in DOMAIN b.intents : b.intents[i].request \in 1..n
  BY DEF BookFits, IntentsFit
<1>4. IntentsFit(c, owner)
  <2>. SUFFICES ASSUME NEW i \in DOMAIN c.intents
       PROVE  /\ c.intents[i].intent \in DOMAIN owner /\ c.intents[i].intent # 0
              /\ c.intents[i].request \in 1..Len(c.intents)
              /\ c.intents[i].tenant \in {owner[c.intents[i].intent], Unowned}
              /\ \A j \in DOMAIN c.intents : c.intents[j].request = c.intents[i].request =>
                   c.intents[j].intent = c.intents[i].intent
    BY DEF IntentsFit
  <2>. HIDE DEF n
  <2>1. CASE i \in DOMAIN b.intents BY <1>3, <2>1, <1>2 DEF BookFits, IntentsFit, n
  <2>2. CASE i = n + 1
    BY <1>2, <1>3, <2>2 DEF n
  <2>. QED  BY <1>2, <2>1, <2>2
<1>5. \A o \in DOMAIN c.ops : OpFits(c, owner, c.ops[o])
  <2>. SUFFICES ASSUME NEW oper, OpFits(b, owner, oper) PROVE OpFits(c, owner, oper)
    BY DEF BookFits
  <2>1. /\ oper.request \in 0..n
        /\ \A i \in DOMAIN b.intents : b.intents[i].request = oper.request =>
             owner[b.intents[i].intent] = oper.tenant
    BY DEF OpFits
  <2>2. /\ oper.request \in 0..Len(c.intents)
        /\ \A i \in DOMAIN c.intents : c.intents[i].request = oper.request =>
             owner[c.intents[i].intent] = oper.tenant
    BY <1>2, <2>1
  <2>. QED  BY <2>2 DEF OpFits
<1>6. /\ DecisionsFit(c, owner) /\ SessionsFit(c)
      /\ \A a \in DOMAIN c.actions : ActionFits(c, owner, c.actions[a])
  <2>1. DecisionsFit(c, owner) /\ SessionsFit(c)
    BY DEF BookFits, DecisionsFit, SessionsFit
  <2>2. ASSUME NEW act, ActionFits(b, owner, act) PROVE ActionFits(c, owner, act)
    BY <2>2 DEF ActionFits
  <2>. QED  BY <2>1, <2>2 DEF BookFits
<1>. QED  BY <1>4, <1>5, <1>6 DEF BookFits

LEMMA DecisionsGrow ==
  ASSUME NEW b \in Books, NEW owner, BookFits(b, owner), NEW row \in DecisionRows,
         row.intent \in DOMAIN owner, row.session \in 0..Len(b.sessions),
         row.session # 0 => b.sessions[row.session].tenant = owner[row.intent],
         NEW c, c \in Books, c.intents = b.intents, c.decisions = Append(b.decisions, row),
         c.actions = b.actions, c.ops = b.ops, c.sessions = b.sessions,
         c.bindings = b.bindings, c.claims = b.claims
  PROVE  BookFits(c, owner)
<1>. DEFINE n == Len(b.decisions)
<1>1. b.decisions \in Seq(DecisionRows) /\ DOMAIN b.decisions = 1..n
  BY BookSequences
<1>2. /\ Len(c.decisions) = n + 1 /\ n \in Nat
      /\ \A i \in DOMAIN b.decisions : i \in DOMAIN c.decisions /\ c.decisions[i] = b.decisions[i]
      /\ c.decisions[n + 1] = row
      /\ \A i \in DOMAIN c.decisions : i \in DOMAIN b.decisions \/ i = n + 1
  BY <1>1, AppendedTo DEF Continues
<1>. HIDE DEF n
<1>3. DecisionsFit(c, owner)
  BY <1>2 DEF BookFits, DecisionsFit
<1>4. \A a \in DOMAIN c.actions : ActionFits(c, owner, c.actions[a])
  <2>. SUFFICES ASSUME NEW act, ActionFits(b, owner, act) PROVE ActionFits(c, owner, act)
    BY DEF BookFits
  <2>1. /\ act.decision \in 0..n
        /\ act.decision # 0 => owner[b.decisions[act.decision].intent]
                                 = b.sessions[act.session].tenant
    BY DEF ActionFits, n
  <2>2. /\ act.decision \in 0..Len(c.decisions)
        /\ act.decision # 0 => owner[c.decisions[act.decision].intent]
                                 = b.sessions[act.session].tenant
    BY <1>1, <1>2, <2>1
  <2>. QED  BY <2>2 DEF ActionFits
<1>5. \A o \in DOMAIN c.ops : OpFits(c, owner, c.ops[o])
  <2>. SUFFICES ASSUME NEW oper, OpFits(b, owner, oper) PROVE OpFits(c, owner, oper)
    BY DEF BookFits
  <2>1. oper.decision # 0 => /\ oper.decision \in DOMAIN b.decisions
                           /\ owner[b.decisions[oper.decision].intent] = oper.tenant
    BY DEF OpFits
  <2>2. oper.decision # 0 => /\ oper.decision \in DOMAIN c.decisions
                           /\ owner[c.decisions[oper.decision].intent] = oper.tenant
    BY <1>2, <2>1
  <2>. QED  BY <2>2 DEF OpFits
<1>6. IntentsFit(c, owner) /\ SessionsFit(c)
  BY DEF BookFits, IntentsFit, SessionsFit
<1>. QED  BY <1>3, <1>4, <1>5, <1>6 DEF BookFits

LEMMA ActionsGrow ==
  ASSUME NEW b \in Books, NEW owner, BookFits(b, owner), NEW row \in ActionRows,
         row.session \in DOMAIN b.sessions, row.decision \in 0..Len(b.decisions),
         row.binding \in 0..Len(b.bindings),
         row.decision # 0 => owner[b.decisions[row.decision].intent]
                               = b.sessions[row.session].tenant,
         row.binding # 0 => b.bindings[row.binding].tenant = b.sessions[row.session].tenant,
         NEW c, c \in Books, c.intents = b.intents, c.decisions = b.decisions,
         c.actions = Append(b.actions, row), c.ops = b.ops, c.sessions = b.sessions,
         c.bindings = b.bindings, c.claims = b.claims
  PROVE  BookFits(c, owner)
<1>. DEFINE n == Len(b.actions)
<1>1. b.actions \in Seq(ActionRows) /\ DOMAIN b.actions = 1..n
  BY BookSequences
<1>2. /\ Len(c.actions) = n + 1 /\ n \in Nat
      /\ \A i \in DOMAIN b.actions : i \in DOMAIN c.actions /\ c.actions[i] = b.actions[i]
      /\ c.actions[n + 1] = row
      /\ \A i \in DOMAIN c.actions : i \in DOMAIN b.actions \/ i = n + 1
  BY <1>1, AppendedTo DEF Continues
<1>. HIDE DEF n
<1>3. \A a \in DOMAIN c.actions : ActionFits(c, owner, c.actions[a])
  BY <1>2 DEF BookFits, ActionFits
<1>4. \A o \in DOMAIN c.ops : OpFits(c, owner, c.ops[o])
  <2>. SUFFICES ASSUME NEW oper, OpFits(b, owner, oper) PROVE OpFits(c, owner, oper)
    BY DEF BookFits
  <2>1. oper.action # 0 => /\ oper.action \in DOMAIN b.actions
                         /\ b.sessions[b.actions[oper.action].session].tenant = oper.tenant
    BY DEF OpFits
  <2>2. oper.action # 0 => /\ oper.action \in DOMAIN c.actions
                         /\ c.sessions[c.actions[oper.action].session].tenant = oper.tenant
    BY <1>2, <2>1
  <2>. QED  BY <2>2 DEF OpFits
<1>5. IntentsFit(c, owner) /\ DecisionsFit(c, owner) /\ SessionsFit(c)
  BY DEF BookFits, IntentsFit, DecisionsFit, SessionsFit
<1>. QED  BY <1>3, <1>4, <1>5 DEF BookFits

LEMMA OpsGrow ==
  ASSUME NEW b \in Books, NEW owner, BookFits(b, owner), NEW row \in OpRows,
         OpFits(b, owner, row),
         NEW c, c \in Books, c.intents = b.intents, c.decisions = b.decisions,
         c.actions = b.actions, c.ops = Append(b.ops, row), c.sessions = b.sessions,
         c.bindings = b.bindings, c.claims = b.claims
  PROVE  BookFits(c, owner)
<1>. DEFINE n == Len(b.ops)
<1>1. b.ops \in Seq(OpRows) /\ DOMAIN b.ops = 1..n
  BY BookSequences
<1>2. /\ \A i \in DOMAIN b.ops : i \in DOMAIN c.ops /\ c.ops[i] = b.ops[i]
      /\ c.ops[n + 1] = row
      /\ \A i \in DOMAIN c.ops : i \in DOMAIN b.ops \/ i = n + 1
  BY <1>1, AppendedTo DEF Continues
<1>. HIDE DEF n
<1>3. \A o \in DOMAIN b.ops : OpFits(b, owner, b.ops[o])
  BY DEF BookFits
<1>4. \A o \in DOMAIN c.ops : OpFits(b, owner, c.ops[o])
  BY <1>2, <1>3
<1>5. \A o \in DOMAIN c.ops : OpFits(c, owner, c.ops[o])
  <2>1. ASSUME NEW oper, OpFits(b, owner, oper) PROVE OpFits(c, owner, oper)
    BY <2>1 DEF OpFits
  <2>. QED  BY <1>4, <2>1
<1>6. /\ IntentsFit(c, owner) /\ DecisionsFit(c, owner) /\ SessionsFit(c)
      /\ \A a \in DOMAIN c.actions : ActionFits(c, owner, c.actions[a])
  <2>1. IntentsFit(c, owner)
    BY DEF BookFits, IntentsFit
  <2>2. DecisionsFit(c, owner) /\ SessionsFit(c)
    BY DEF BookFits, DecisionsFit, SessionsFit
  <2>3. ASSUME NEW act, ActionFits(b, owner, act) PROVE ActionFits(c, owner, act)
    BY <2>3 DEF ActionFits
  <2>. QED  BY <2>1, <2>2, <2>3 DEF BookFits
<1>. QED  BY <1>5, <1>6 DEF BookFits


\* The lookup's facts survive rows that are added.
LEMMA GrowthFits ==
  ASSUME NEW owner, LookFits(owner), look.at # "answered", look.grows > 0,
         look' = [look EXCEPT !.grows = @ - 1],
         book' \in Books, BookFits(book', owner),
         Continues(book.intents, book'.intents), Continues(book.decisions, book'.decisions),
         Continues(book.actions, book'.actions), book'.sessions = book.sessions,
         book'.bindings = book.bindings, book'.claims = book.claims
  PROVE  LookFits(owner)'
<1>1. /\ look' \in LookRows /\ look'.key = look.key /\ look'.caller = look.caller
      /\ look'.at = look.at /\ look'.found = look.found
  BY DEF LookFits, LookRows
<1>2. Key' = Key /\ Value' = Value
  BY <1>1 DEF Key, Value
<1>3. AskedBinding' = AskedBinding
  BY <1>1, <1>2 DEF AskedBinding, Rows
<1>4. /\ \A i \in DOMAIN book.intents :
           i \in DOMAIN book'.intents /\ book'.intents[i] = book.intents[i]
      /\ \A d \in DOMAIN book.decisions :
           d \in DOMAIN book'.decisions /\ book'.decisions[d] = book.decisions[d]
      /\ \A a \in DOMAIN book.actions :
           a \in DOMAIN book'.actions /\ book'.actions[a] = book.actions[a]
  BY DEF Continues
<1>5. ASSUME LeadsToCaller(owner) PROVE LeadsToCaller(owner)'
  BY <1>1, <1>2, <1>4, <1>5, <1>3 DEF LeadsToCaller, AsksFor, TenantOfIntent, TenantOfDecision,
     DecisionRow, SessionTenant, Done
<1>6. PICK f : f = look.found
  OBVIOUS
<1>7. ASSUME ChainFits(f, owner) PROVE ChainFits(f, owner)'
  BY <1>1, <1>2, <1>4, <1>7 DEF ChainFits, TenantOfIntent, TenantOfDecision, DecisionRow,
    SessionTenant, Done
<1>8. ASSUME AroundFits(f), ChainFits(f, owner) PROVE AroundFits(f)'
  BY <1>1, <1>4, <1>8 DEF AroundFits, ChainFits, SessionTenant, Done
<1>9. look'.found = f
  BY <1>1, <1>6
<1>. QED  BY <1>1, <1>5, <1>6, <1>7, <1>8, <1>9 DEF LookFits

\* What a row added to the book leaves.
LEMMA IntentWritten ==
  ASSUME book \in Books, NEW row \in IntentRows, Writes("intents", row)
  PROVE  /\ book' \in Books /\ book'.intents = Append(book.intents, row)
         /\ book'.decisions = book.decisions /\ book'.actions = book.actions
         /\ book'.ops = book.ops /\ book'.sessions = book.sessions
         /\ book'.bindings = book.bindings /\ book'.claims = book.claims
<1>1. Append(book.intents, row) \in Seq(IntentRows)
  BY BookSequences, AppendedTo
<1>2. PICK s \in Seq(IntentRows) : s = Append(book.intents, row)
  BY <1>1
<1>3. book' = [book EXCEPT !.intents = s]
  BY <1>2 DEF Writes
<1>4. book' \in Books /\ book'.intents = s
  BY <1>3 DEF Books, IntentRows
<1>. QED  BY <1>2, <1>3, <1>4 DEF Books

LEMMA DecisionWritten ==
  ASSUME book \in Books, NEW row \in DecisionRows, Writes("decisions", row)
  PROVE  /\ book' \in Books /\ book'.decisions = Append(book.decisions, row)
         /\ book'.intents = book.intents /\ book'.actions = book.actions
         /\ book'.ops = book.ops /\ book'.sessions = book.sessions
         /\ book'.bindings = book.bindings /\ book'.claims = book.claims
<1>1. Append(book.decisions, row) \in Seq(DecisionRows)
  BY BookSequences, AppendedTo
<1>2. PICK s \in Seq(DecisionRows) : s = Append(book.decisions, row)
  BY <1>1
<1>3. book' = [book EXCEPT !.decisions = s]
  BY <1>2 DEF Writes
<1>4. book' \in Books /\ book'.decisions = s
  BY <1>3 DEF Books, DecisionRows
<1>. QED  BY <1>2, <1>3, <1>4 DEF Books

LEMMA ActionWritten ==
  ASSUME book \in Books, NEW row \in ActionRows, Writes("actions", row)
  PROVE  /\ book' \in Books /\ book'.actions = Append(book.actions, row)
         /\ book'.intents = book.intents /\ book'.decisions = book.decisions
         /\ book'.ops = book.ops /\ book'.sessions = book.sessions
         /\ book'.bindings = book.bindings /\ book'.claims = book.claims
<1>1. Append(book.actions, row) \in Seq(ActionRows)
  BY BookSequences, AppendedTo
<1>2. PICK s \in Seq(ActionRows) : s = Append(book.actions, row)
  BY <1>1
<1>3. book' = [book EXCEPT !.actions = s]
  BY <1>2 DEF Writes
<1>4. book' \in Books /\ book'.actions = s
  BY <1>3 DEF Books, ActionRows
<1>. QED  BY <1>2, <1>3, <1>4 DEF Books

LEMMA OpWritten ==
  ASSUME book \in Books, NEW row \in OpRows, Writes("ops", row)
  PROVE  /\ book' \in Books /\ book'.ops = Append(book.ops, row)
         /\ book'.intents = book.intents /\ book'.decisions = book.decisions
         /\ book'.actions = book.actions /\ book'.sessions = book.sessions
         /\ book'.bindings = book.bindings /\ book'.claims = book.claims
<1>1. Append(book.ops, row) \in Seq(OpRows)
  BY BookSequences, AppendedTo
<1>2. PICK s \in Seq(OpRows) : s = Append(book.ops, row)
  BY <1>1
<1>3. book' = [book EXCEPT !.ops = s]
  BY <1>2 DEF Writes
<1>4. book' \in Books /\ book'.ops = s
  BY <1>3 DEF Books, OpRows
<1>. QED  BY <1>2, <1>3, <1>4 DEF Books


LEMMA SupersedesFits ==
  ASSUME NEW owner, LookFits(owner), NEW i \in DOMAIN book.intents, Supersedes(i)
  PROVE  LookFits(owner)' /\ Named(book') = Named(book)
<1>1. /\ book \in Books /\ BookFits(book, owner)
  BY DEF LookFits
<1>2. PICK row : row = [book.intents[i] EXCEPT !.version = @ + 1,
                                               !.request = Len(book.intents) + 1]
  OBVIOUS
<1>3. book.intents[i] \in IntentRows /\ Len(book.intents) \in Nat
  BY <1>1, RowsAreTyped, RowsAreNumbered DEF IntentRows
<1>4. /\ row \in IntentRows /\ row.intent = book.intents[i].intent
      /\ row.tenant = book.intents[i].tenant /\ row.request = Len(book.intents) + 1
  <2>1. PICK was \in IntentRows, n \in Nat : was = book.intents[i] /\ n = Len(book.intents) + 1
    BY <1>3
  <2>2. PICK m \in Nat : m = was.version + 1
    BY DEF IntentRows
  <2>3. row = [was EXCEPT !.version = m, !.request = n]
    BY <1>2, <2>1, <2>2
  <2>4. row \in IntentRows
    BY <2>3 DEF IntentRows
  <2>. QED  BY <2>1, <2>3, <2>4 DEF IntentRows
<1>5. Writes("intents", row)
  BY <1>2 DEF Supersedes
<1>6. /\ book' \in Books /\ book'.intents = Append(book.intents, row)
      /\ book'.decisions = book.decisions /\ book'.actions = book.actions
      /\ book'.ops = book.ops /\ book'.sessions = book.sessions
      /\ book'.bindings = book.bindings /\ book'.claims = book.claims
  BY <1>1, <1>4, <1>5, IntentWritten
<1>7. /\ row.intent \in DOMAIN owner /\ row.intent # 0
      /\ row.tenant \in {owner[row.intent], Unowned}
  BY <1>1, <1>4 DEF BookFits, IntentsFit
<1>8. BookFits(book', owner)
  <2>1. PICK b, c : b = book /\ c = book'
    OBVIOUS
  <2>. QED  BY <1>1, <1>4, <1>6, <1>7, <2>1, IntentsGrow
<1>9. /\ Continues(book.intents, book'.intents)
      /\ \A j \in DOMAIN book'.intents : j \in DOMAIN book.intents \/ book'.intents[j] = row
  BY <1>1, <1>4, <1>6, BookSequences, AppendedTo
<1>10. LookFits(owner)'
  BY <1>5, <1>6, <1>8, <1>9, ContinuesItself, GrowthFits DEF Writes
<1>11. Named(book') = Named(book)
  BY <1>4, <1>9 DEF Named, Continues
<1>. QED  BY <1>10, <1>11

LEMMA DecidesFits ==
  ASSUME NEW owner, LookFits(owner), NEW i \in DOMAIN book.intents, Decides(i)
  PROVE  LookFits(owner)' /\ Named(book') = Named(book)
<1>1. /\ book \in Books /\ BookFits(book, owner)
  BY DEF LookFits
<1>2. PICK s \in {0} \cup {n \in DOMAIN book.sessions : book.sessions[n].tenant = IntentTenant(i)} :
        Writes("decisions", [intent |-> book.intents[i].intent,
                             version |-> book.intents[i].version, session |-> s])
  BY DEF Decides, Rows
<1>3. PICK row : row = [intent |-> book.intents[i].intent,
                        version |-> book.intents[i].version, session |-> s]
  OBVIOUS
<1>4. book.intents[i] \in IntentRows /\ s \in 0..Len(book.sessions)
  BY <1>1, RowsAreTyped, RowsAreNumbered DEF IntentRows
<1>5. /\ row \in DecisionRows /\ row.intent = book.intents[i].intent /\ row.session = s
  BY <1>1, <1>4, RowsAreNumbered, <1>3 DEF IntentRows, DecisionRows
<1>6. Writes("decisions", row)
  BY <1>2, <1>3
<1>7. /\ book' \in Books /\ book'.decisions = Append(book.decisions, row)
      /\ book'.intents = book.intents /\ book'.actions = book.actions
      /\ book'.ops = book.ops /\ book'.sessions = book.sessions
      /\ book'.bindings = book.bindings /\ book'.claims = book.claims
  BY <1>1, <1>5, <1>6, DecisionWritten
<1>8. row.intent \in DOMAIN owner
  BY <1>1, <1>5 DEF BookFits, IntentsFit
<1>9. s # 0 => book.sessions[s].tenant = owner[row.intent]
  BY <1>1, IntentTenantIs, <1>2, <1>5 DEF BookFits, SessionsFit, TenantOfIntent
<1>10. BookFits(book', owner)
  <2>1. PICK b, c : b = book /\ c = book'
    OBVIOUS
  <2>. QED  BY <1>1, <1>4, <1>5, <1>7, <1>8, <1>9, <2>1, DecisionsGrow
<1>11. Continues(book.decisions, book'.decisions)
  BY <1>1, <1>5, <1>7, BookSequences, AppendedTo
<1>12. LookFits(owner)'
  BY <1>6, <1>7, <1>10, <1>11, ContinuesItself, GrowthFits DEF Writes
<1>. QED  BY <1>7, <1>12 DEF Named

LEMMA ActsOnFits ==
  ASSUME NEW owner, LookFits(owner), NEW d \in DOMAIN book.decisions, ActsOn(d)
  PROVE  LookFits(owner)' /\ Named(book') = Named(book)
<1>1. /\ book \in Books /\ BookFits(book, owner)
  BY DEF LookFits
<1>2. PICK s : s = DecisionRow(d).session
  OBVIOUS
<1>3. PICK n \in {0} \cup {b \in DOMAIN book.bindings : book.bindings[b].tenant = SessionTenant(s)} :
        Writes("actions", [session |-> s, decision |-> d, binding |-> n])
  BY <1>2 DEF ActsOn, Rows
<1>4. PICK row : row = [session |-> s, decision |-> d, binding |-> n]
  OBVIOUS
<1>5. /\ s # 0 /\ s \in 0..Len(book.sessions)
      /\ book.sessions[s].tenant = owner[book.decisions[d].intent]
  BY <1>2, <1>1 DEF ActsOn, DecisionRow, BookFits, DecisionsFit
<1>6. /\ s \in DOMAIN book.sessions /\ s \in Nat /\ n \in 0..Len(book.bindings) /\ n \in Nat
      /\ d \in 0..Len(book.decisions) /\ d \in Nat
  <2>1. s \in DOMAIN book.sessions /\ s \in Nat
    BY <1>1, <1>5, RowsAreNumbered
  <2>2. n \in 0..Len(book.bindings) /\ n \in Nat
    BY <1>1, RowsAreNumbered
  <2>3. d \in 0..Len(book.decisions) /\ d \in Nat
    BY <1>1, RowsAreNumbered
  <2>. QED  BY <2>1, <2>2, <2>3
<1>7. n # 0 => book.bindings[n].tenant = book.sessions[s].tenant
  BY <1>3, <1>5 DEF SessionTenant
<1>8. row \in ActionRows /\ row.session = s /\ row.decision = d /\ row.binding = n
  BY <1>4, <1>6 DEF ActionRows
<1>9. Writes("actions", row)
  BY <1>3, <1>4
<1>10. /\ book' \in Books /\ book'.actions = Append(book.actions, row)
       /\ book'.intents = book.intents /\ book'.decisions = book.decisions
       /\ book'.ops = book.ops /\ book'.sessions = book.sessions
       /\ book'.bindings = book.bindings /\ book'.claims = book.claims
  BY <1>1, <1>8, <1>9, ActionWritten
<1>11. BookFits(book', owner)
  <2>1. PICK b, c : b = book /\ c = book'
    OBVIOUS
  <2>. QED  BY <1>1, <1>5, <1>6, <1>7, <1>8, <1>10, <2>1, ActionsGrow
<1>12. Continues(book.actions, book'.actions)
  BY <1>1, <1>8, <1>10, BookSequences, AppendedTo
<1>13. LookFits(owner)'
  BY <1>9, <1>10, <1>11, <1>12, ContinuesItself, GrowthFits DEF Writes
<1>. QED  BY <1>10, <1>13 DEF Named

LEMMA OperatesFits ==
  ASSUME NEW owner, LookFits(owner), NEW a \in DOMAIN book.actions, Operates(a)
  PROVE  LookFits(owner)' /\ Named(book') = Named(book)
<1>1. /\ book \in Books /\ BookFits(book, owner)
  BY DEF LookFits
<1>2. PICK d : d = Done(a).decision
  OBVIOUS
<1>3. PICK i : i = IF d = 0 THEN 0 ELSE OfIntent(DecisionRow(d).intent, DecisionRow(d).version)
  OBVIOUS
<1>4. PICK row : row = [tenant |-> SessionTenant(Done(a).session), action |-> a, decision |-> d,
                        binding |-> Done(a).binding, key |-> 0,
                        intent |-> IF i = 0 THEN 0 ELSE book.intents[i].intent,
                        request |-> IF i = 0 THEN 0 ELSE book.intents[i].request]
  OBVIOUS
<1>5. Writes("ops", row)
  BY <1>2, <1>3, <1>4 DEF Operates
<1>6. /\ book.actions[a].session \in DOMAIN book.sessions
      /\ d \in 0..Len(book.decisions) /\ book.actions[a].binding \in 0..Len(book.bindings)
      /\ d # 0 => owner[book.decisions[d].intent] = book.sessions[book.actions[a].session].tenant
      /\ book.actions[a].binding # 0 => book.bindings[book.actions[a].binding].tenant
                                          = book.sessions[book.actions[a].session].tenant
  BY <1>1, <1>2 DEF BookFits, ActionFits, Done
<1>7. PICK tenant : tenant = book.sessions[book.actions[a].session].tenant
  OBVIOUS
<1>8. SessionTenant(Done(a).session) = tenant /\ tenant \in Party
  BY <1>1, <1>6, RowsAreNumbered, <1>7, RowsAreTyped DEF SessionTenant, Done
<1>9. d # 0 => d \in DOMAIN book.decisions
  BY <1>1, <1>6, RowsAreNumbered
<1>10. i # 0 => /\ i \in DOMAIN book.intents /\ d # 0
                /\ book.intents[i].intent = book.decisions[d].intent
  BY <1>1, <1>3, VersionOfIntent DEF DecisionRow
<1>11. i # 0 => /\ book.intents[i].intent \in DOMAIN owner /\ book.intents[i].intent \in Nat
                /\ owner[book.intents[i].intent] = tenant
                /\ book.intents[i].request \in 0..Len(book.intents)
                /\ book.intents[i].request \in Nat
                /\ \A j \in DOMAIN book.intents :
                     book.intents[j].request = book.intents[i].request =>
                       owner[book.intents[j].intent] = tenant
  <2>. SUFFICES ASSUME i # 0
       PROVE  /\ book.intents[i].intent \in DOMAIN owner /\ book.intents[i].intent \in Nat
              /\ owner[book.intents[i].intent] = tenant
              /\ book.intents[i].request \in 0..Len(book.intents)
              /\ book.intents[i].request \in Nat
              /\ \A j \in DOMAIN book.intents :
                   book.intents[j].request = book.intents[i].request =>
                     owner[book.intents[j].intent] = tenant
    OBVIOUS
  <2>1. /\ book.intents[i].intent \in DOMAIN owner
        /\ book.intents[i].request \in 1..Len(book.intents)
        /\ \A j \in DOMAIN book.intents :
             book.intents[j].request = book.intents[i].request =>
               book.intents[j].intent = book.intents[i].intent
    BY <1>1, <1>10 DEF BookFits, IntentsFit
  <2>2. owner[book.intents[i].intent] = tenant
    BY <1>6, <1>7, <1>10
  <2>3. book.intents[i] \in IntentRows /\ Len(book.intents) \in Nat
    BY <1>1, <1>10, RowsAreTyped, RowsAreNumbered DEF IntentRows
  <2>. QED  BY <2>1, <2>2, <2>3 DEF IntentRows
<1>12. /\ row.tenant = tenant /\ row.action = a /\ row.decision = d
       /\ row.binding = book.actions[a].binding /\ row.key = 0
       /\ row.intent = IF i = 0 THEN 0 ELSE book.intents[i].intent
       /\ row.request = IF i = 0 THEN 0 ELSE book.intents[i].request
  BY <1>4, <1>8 DEF Done
<1>13. row \in OpRows BY <1>1, <1>6, RowsAreNumbered, <1>11, <1>4, <1>8 DEF OpRows, Done
<1>14. /\ book' \in Books /\ book'.ops = Append(book.ops, row)
       /\ book'.intents = book.intents /\ book'.decisions = book.decisions
       /\ book'.actions = book.actions /\ book'.sessions = book.sessions
       /\ book'.bindings = book.bindings /\ book'.claims = book.claims
  BY <1>1, <1>5, <1>13, OpWritten
<1>15. OpFits(book, owner, row)
  <2>1. row.intent # 0 => row.intent \in DOMAIN owner /\ owner[row.intent] = row.tenant
    BY <1>11, <1>12
  <2>2. row.request \in 0..Len(book.intents)
    BY <1>1, <1>11, <1>12, RowsAreNumbered
  <2>3. \A j \in DOMAIN book.intents :
          book.intents[j].request = row.request => owner[book.intents[j].intent] = row.tenant
    <3>1. CASE i = 0 BY <1>1, <1>12, <3>1, RowsAreNumbered DEF BookFits, IntentsFit
    <3>2. CASE i # 0
      BY <1>11, <1>12, <3>2
    <3>. QED  BY <3>1, <3>2
  <2>4. row.binding # 0 => /\ row.binding \in DOMAIN book.bindings
                           /\ book.bindings[row.binding].tenant = row.tenant
    BY <1>1, <1>6, <1>7, <1>12, RowsAreNumbered
  <2>5. row.decision # 0 => /\ row.decision \in DOMAIN book.decisions
                            /\ owner[book.decisions[row.decision].intent] = row.tenant
    BY <1>6, <1>7, <1>9, <1>12
  <2>. QED  BY <1>7, <1>12, <2>1, <2>2, <2>3, <2>4, <2>5 DEF OpFits
<1>16. BookFits(book', owner)
  <2>1. PICK b, c : b = book /\ c = book'
    OBVIOUS
  <2>. QED  BY <1>1, <1>13, <1>14, <1>15, <2>1, OpsGrow
<1>17. LookFits(owner)'
  BY <1>5, <1>14, <1>16, ContinuesItself, GrowthFits DEF Writes
<1>. QED  BY <1>14, <1>17 DEF Named

\* Whatever rows there are to begin with and whatever is written between the reads of a
\* lookup: its answer is of one tenant, the caller's (or an intent of nobody's), and of one
\* incident: an intent in it is the version that was decided, its action is the decision's,
\* its session the action's (incident-lookup.ts:16-37).
THEOREM IncidentIsOne == IncidentSpec => []OneIncident
<1>1. IncidentInv => OneIncident
  <2>. SUFFICES ASSUME NEW owner, LookFits(owner), look.at = "answered" PROVE OneIncident
    BY DEF IncidentInv, OneIncident
  <2>1. ChainFits(look.found, owner) /\ AroundFits(look.found) /\ OpsFound
    BY DEF LookFits
  <2>2. look.found.intent # 0 => book.intents[look.found.intent].tenant \in {look.caller, Unowned}
    BY <2>1 DEF LookFits, BookFits, IntentsFit, ChainFits, TenantOfIntent
  <2>. QED  BY <2>1, <2>2 DEF OneIncident, ChainFits, AroundFits, OpsFound
<1>2. IncidentInit => IncidentInv
  <2>. SUFFICES ASSUME NEW plan \in Chronicles, IncidentInitOf(plan) PROVE IncidentInv
    BY DEF IncidentInit
  <2>1. /\ plan.book \in Books /\ plan.caller # Unowned /\ plan.grows \in Nat
        /\ plan.key \in [kind : {"requestId", "intentId", "decisionId", "actionId", "bindingId",
                                 "providerResourceId", "providerKey"}, value : Nat, version : Nat]
    BY IncidentAssumption
  <2>2. PICK owner \in [Named(plan.book) -> Party \ {Unowned}] : BookFits(plan.book, owner)
    BY IncidentAssumption
  <2>3. plan.caller \in Party
    BY DEF Party
  <2>4. /\ book = plan.book
        /\ look = [key |-> plan.key, caller |-> plan.caller, grows |-> plan.grows,
                   at |-> "resolve", found |-> NothingFound]
    BY DEF IncidentInitOf
  <2>5. NothingFound \in FoundRows
    BY NothingFits
  <2>6. look \in LookRows /\ look.at = "resolve" /\ look.caller # Unowned
    BY <2>1, <2>3, <2>4, <2>5 DEF LookRows
  <2>7. LookFits(owner)
    BY <2>1, <2>2, <2>4, <2>6 DEF LookFits
  <2>. QED  BY <2>2, <2>4, <2>7 DEF IncidentInv
<1>3. IncidentInv /\ [IncidentNext]_incidentVars => IncidentInv'
  <2>. SUFFICES ASSUME NEW owner \in [Named(book) -> Party \ {Unowned}], LookFits(owner),
                       [IncidentNext]_incidentVars
       PROVE  LookFits(owner)' /\ Named(book') = Named(book)
    BY DEF IncidentInv
  <2>1. CASE UNCHANGED incidentVars
    <3>1. book' = book /\ look' = look
      BY <2>1 DEF incidentVars
    <3>2. PICK f : f = look.found
      OBVIOUS
    <3>3. /\ book' \in Books /\ BookFits(book', owner)
          /\ look' \in LookRows /\ look'.caller # Unowned
          /\ LeadsToCaller(owner) => LeadsToCaller(owner)'
          /\ ChainFits(f, owner) => ChainFits(f, owner)'
          /\ AroundFits(f) => AroundFits(f)'
      BY <3>1, LookOnly DEF LookFits
    <3>4. OpsFound => OpsFound'
      BY <3>1 DEF OpsFound
    <3>. QED  BY <3>1, <3>2, <3>3, <3>4 DEF LookFits
  <2>2. CASE ResolveTenant
    BY <2>2, ResolveFits DEF ResolveTenant
  <2>3. CASE LoadIncident
    BY <2>3, LoadFits DEF LoadIncident
  <2>4. CASE LoadAction
    BY <2>4, LoadActionFits DEF LoadAction
  <2>5. CASE LoadOperations
    BY <2>5, OperationsFit DEF LoadOperations
  <2>6. CASE \E i \in DOMAIN book.intents : Supersedes(i) \/ Decides(i)
    BY <2>6, SupersedesFits, DecidesFits
  <2>7. CASE \E d \in DOMAIN book.decisions : ActsOn(d)
    BY <2>7, ActsOnFits
  <2>8. CASE \E a \in DOMAIN book.actions : Operates(a)
    BY <2>8, OperatesFits
  <2>. QED  BY <2>1, <2>2, <2>3, <2>4, <2>5, <2>6, <2>7, <2>8 DEF IncidentNext
<1>. QED  BY <1>1, <1>2, <1>3, PTL DEF IncidentSpec

-----------------------------------------------------------------------------
(* ConnectivityDecision: what a switch rests on, and what is spent without *)
(* asking.                                                                 *)

HealthRows == [status : {"NONE", "UNKNOWN", "HEALTHY", "DEGRADED"}, samples : Nat,
               degraded : Nat, quality : Int,
               freshness : {"UNKNOWN", "FRESH", "STALE", "EXPIRED"}]
IngestRows == [pc : {"idle", "store", "previous", "derive", "persist", "emit"},
               report : Report, derived : HealthRows,
               previous : {"NONE", "UNKNOWN", "HEALTHY", "DEGRADED"}]

\* A report has one row at most: its deduplication key is unique.
HealthTyped ==
  /\ clock \in Nat /\ hePlan \in HealthPlanRows
  /\ stored \in [Report -> [rows : 0..1, trust : Trust]]
  /\ health \in HealthRows
  /\ ingest \in [Ingester -> IngestRows]

\* No report is of the future.
ReportsPast ==
  /\ \A r \in Report : stored[r].rows > 0 => What(r).at <= clock
  /\ \A i \in Ingester : ~IngestAt(i, "idle") => What(Subject(i)).at <= clock

\* What a snapshot says is so, whenever it was derived and however late it is written:
\* rows and the trust in them stay.
BelievedReports == {r \in Report : Believed(r)}
SnapshotHolds(h) ==
  /\ h.samples <= Cardinality(BelievedReports)
  /\ h.status = "DEGRADED" => EvidenceOfDegradation
HealthHolds == SnapshotHolds(health) /\ \A i \in Ingester : SnapshotHolds(ingest[i].derived)

HealthInv == HealthTyped /\ ReportsPast /\ HealthHolds

-----------------------------------------------------------------------------
(* Finite sets.                                                            *)

LEMMA GreatestBy ==
  ASSUME NEW S, IsFiniteSet(S), S # {}, NEW f \in [S -> Nat]
  PROVE  \E x \in S : \A y \in S : f[y] <= f[x]
<1>. DEFINE T == {f[x] : x \in S}
<1>1. IsFiniteSet(T)
  <2>1. f \in Surjection(S, T)
    BY DEF Surjection
  <2>. HIDE DEF T
  <2>. QED  BY <2>1, FS_Surjection
<1>2. T \in SUBSET Nat /\ T # {}
  OBVIOUS
<1>3. PICK n \in T : \A y \in T : y <= n
  <2>. HIDE DEF T
  <2>. QED  BY <1>1, <1>2, LargestOf
<1>. QED  BY <1>3

LEMMA SubsetOfSize ==
  ASSUME NEW S, IsFiniteSet(S), NEW n \in Nat, n <= Cardinality(S)
  PROVE  \E T \in SUBSET S : Cardinality(T) = n
<1>1. Cardinality(S) \in Nat
  BY FS_CardinalityType
<1>2. PICK f : f \in Bijection(1..Cardinality(S), S)
  BY FS_CardinalityType DEF ExistsBijection
<1>. DEFINE T == {f[k] : k \in 1..n}
            g == [k \in 1..n |-> f[k]]
<1>3. \A k \in 1..n : k \in 1..Cardinality(S)
  BY <1>1
<1>4. T \in SUBSET S
  BY <1>2, <1>3 DEF Bijection, Injection
<1>5. g \in Bijection(1..n, T)
  <2>1. \A k \in 1..n : g[k] = f[k] /\ g[k] \in T
    OBVIOUS
  <2>2. \A j, k \in 1..n : g[j] = g[k] => j = k
    BY <1>2, <1>3, <2>1 DEF Bijection, Injection, IsInjective
  <2>3. g \in [1..n -> T]
    OBVIOUS
  <2>4. \A t \in T : \E k \in 1..n : g[k] = t
    OBVIOUS
  <2>. HIDE DEF T, g
  <2>. QED  BY <2>2, <2>3, <2>4 DEF Bijection, Injection, IsInjective, Surjection
<1>6. IsFiniteSet(1..n) /\ Cardinality(1..n) = n
  BY FS_Interval
<1>7. Cardinality(T) = n
  <2>. HIDE DEF T, g
  <2>1. ExistsBijection(1..n, T)
    BY <1>5 DEF ExistsBijection
  <2>. QED  BY <1>6, <2>1, FS_Bijection
<1>. QED  BY <1>4, <1>7

-----------------------------------------------------------------------------
(* The rows that a snapshot is derived from.                               *)

ReportsOf(rows) == {s[1] : s \in rows}

\* Rows are told apart by their reports.
LEMMA RowsAreReports ==
  ASSUME NEW rows \in SUBSET (Report \X {1})
  PROVE  /\ IsFiniteSet(rows) /\ Cardinality(rows) \in Nat
         /\ Cardinality(ReportsOf(rows)) = Cardinality(rows)
<1>. DEFINE f == [s \in rows |-> s[1]]
<1>1. IsFiniteSet(rows)
  BY HealthAssumption, FS_Singleton, FS_Product, FS_Subset
<1>2. f \in Bijection(rows, ReportsOf(rows))
  <2>1. \A s \in rows : s = <<s[1], 1>>
    OBVIOUS
  <2>2. \A s, t \in rows : f[s] = f[t] => s = t
    BY <2>1
  <2>3. f \in [rows -> ReportsOf(rows)] /\ \A r \in ReportsOf(rows) : \E s \in rows : f[s] = r
    BY DEF ReportsOf
  <2>. HIDE DEF f
  <2>. QED  BY <2>2, <2>3 DEF Bijection, Injection, IsInjective, Surjection
<1>3. ExistsBijection(rows, ReportsOf(rows))
  BY <1>2 DEF ExistsBijection
<1>. QED  BY <1>1, <1>3, FS_Bijection, FS_CardinalityType

LEMMA AgeIs ==
  ASSUME HealthTyped, ReportsPast, NEW r \in Report, stored[r].rows > 0
  PROVE  Age(r) \in Nat /\ What(r).at \in Nat /\ Age(r) = clock - What(r).at
BY DEF HealthTyped, HealthPlanRows, What, ReportsPast, Age

LEMMA ContributingAre ==
  ASSUME HealthTyped, ReportsPast, NEW rows \in NewestRows
  PROVE  /\ Contributing(rows) \in SUBSET (Report \X {1})
         /\ \A r \in ReportsOf(Contributing(rows)) :
              r \in Report /\ Believed(r) /\ Age(r) \in Nat /\ Age(r) < STALE_TICKS
BY AgeIs, HealthLimits DEF NewestRows, Contributing, Samples, InWindow, HealthTyped,
   ContributesToHealth, Freshness, Believed, ReportsOf

LEMMA DerivedHolds ==
  ASSUME HealthTyped, ReportsPast, NEW rows \in NewestRows
  PROVE  Derived(rows) \in HealthRows /\ SnapshotHolds(Derived(rows))
<1>. DEFINE used == Contributing(rows)
            bad == {s \in used : What(s[1]).bad}
            newest == CHOOSE s \in used : \A t \in used : Age(s[1]) <= Age(t[1])
<1>1. used \in SUBSET (Report \X {1}) /\ bad \in SUBSET (Report \X {1})
  BY ContributingAre
<1>2. \A r \in ReportsOf(used) : r \in Report /\ Believed(r) /\ Age(r) \in Nat /\ Age(r) < STALE_TICKS
  BY ContributingAre
<1>3. /\ IsFiniteSet(used) /\ Cardinality(used) \in Nat
      /\ Cardinality(ReportsOf(used)) = Cardinality(used)
  <2>. HIDE DEF used, bad
  <2>. QED  BY <1>1, RowsAreReports
<1>4. /\ IsFiniteSet(bad) /\ Cardinality(bad) \in Nat
      /\ Cardinality(ReportsOf(bad)) = Cardinality(bad)
  <2>. HIDE DEF used, bad
  <2>. QED  BY <1>1, RowsAreReports
<1>5. IsFiniteSet(Report) /\ IsFiniteSet(BelievedReports) /\ Cardinality(BelievedReports) \in Nat
  BY HealthAssumption, FS_Subset, FS_CardinalityType DEF BelievedReports
<1>6. Cardinality(used) <= Cardinality(BelievedReports)
  <2>1. ReportsOf(used) \in SUBSET BelievedReports
    BY <1>2 DEF BelievedReports
  <2>. HIDE DEF used
  <2>. QED  BY <1>3, <1>5, <2>1, FS_Subset
<1>7. ASSUME Cardinality(bad) >= MIN_DEGRADED_COUNT PROVE EvidenceOfDegradation
  <2>1. ReportsOf(bad) \in SUBSET ReportsOf(used) /\ \A r \in ReportsOf(bad) : What(r).bad
    BY DEF ReportsOf
  <2>2. ReportsOf(bad) \in SUBSET {r \in Report : Believed(r) /\ What(r).bad}
    BY <1>2, <2>1
  <2>3. IsFiniteSet(ReportsOf(bad))
    BY <1>5, <2>2, FS_Subset
  <2>4. PICK some \in SUBSET ReportsOf(bad) : Cardinality(some) = MIN_DEGRADED_COUNT
    <3>. HIDE DEF used, bad
    <3>1. MIN_DEGRADED_COUNT \in Nat /\ MIN_DEGRADED_COUNT <= Cardinality(ReportsOf(bad))
      BY <1>4, <1>7, HealthLimits
    <3>. QED  BY <2>3, <3>1, SubsetOfSize
  <2>5. ASSUME NEW r \in some, NEW s \in some PROVE What(r).at - What(s).at < STALE_TICKS
    <3>1. /\ r \in Report /\ s \in Report /\ Believed(r) /\ Believed(s)
          /\ Age(r) \in Nat /\ Age(s) \in Nat /\ Age(s) < STALE_TICKS
      BY <1>2, <2>1, <2>4, <2>5
    <3>2. /\ What(r).at \in Nat /\ Age(r) = clock - What(r).at
          /\ What(s).at \in Nat /\ Age(s) = clock - What(s).at
      BY <3>1, AgeIs DEF Believed
    <3>. QED  BY <3>1, <3>2, HealthLimits DEF HealthTyped
  <2>. HIDE DEF bad
  <2>6. some \in SUBSET {r \in Report : Believed(r) /\ What(r).bad}
    BY <2>2, <2>4
  <2>. QED  BY <2>4, <2>5, <2>6 DEF EvidenceOfDegradation
<1>8. CASE rows = {}
  BY <1>5, <1>8 DEF Derived, NoHealth, HealthRows, SnapshotHolds
<1>9. CASE rows # {} /\ used = {}
  <2>1. Derived(rows) = [NoHealth EXCEPT !.status = "UNKNOWN", !.freshness = "EXPIRED"]
    BY <1>9 DEF Derived
  <2>0. NoHealth \in HealthRows /\ NoHealth.samples = 0
    BY DEF NoHealth, HealthRows
  <2>2. PICK n \in HealthRows : n = NoHealth /\ n.samples = 0
    BY <2>0
  <2>3. PICK h : h = [n EXCEPT !.status = "UNKNOWN", !.freshness = "EXPIRED"]
    OBVIOUS
  <2>4. h \in HealthRows /\ h.samples = 0 /\ h.status = "UNKNOWN"
    BY <2>2, <2>3 DEF HealthRows
  <2>. QED  BY <1>5, <2>1, <2>2, <2>3, <2>4 DEF SnapshotHolds
<1>10. CASE rows # {} /\ used # {}
  <2>. DEFINE n == Cardinality(used)  b == Cardinality(bad)
              h == [status |-> IF b >= MIN_DEGRADED_COUNT THEN "DEGRADED" ELSE "HEALTHY",
                    samples |-> n, degraded |-> b, quality |-> (100 * (n - b)) \div n,
                    freshness |-> Freshness(newest[1])]
  <2>1. Derived(rows) = h
    BY <1>10 DEF Derived
  <2>2. n \in Nat \ {0} /\ b \in Nat
    BY <1>3, <1>4, <1>10, FS_EmptySet
  <2>3. h.quality \in Int
    <3>. HIDE DEF n, b
    <3>. QED  BY <2>2
  <2>4. Freshness(newest[1]) \in {"UNKNOWN", "FRESH", "STALE", "EXPIRED"}
    BY DEF Freshness
  <2>5. h \in HealthRows
    <3>. HIDE DEF n, b, newest
    <3>. QED  BY <2>2, <2>3, <2>4 DEF HealthRows
  <2>6. h.samples <= Cardinality(BelievedReports)
    BY <1>6
  <2>7. h.status = "DEGRADED" => EvidenceOfDegradation
    BY <1>7
  <2>. HIDE DEF h
  <2>. QED  BY <2>1, <2>5, <2>6, <2>7 DEF SnapshotHolds
<1>. QED  BY <1>8, <1>9, <1>10

-----------------------------------------------------------------------------
(* What a step leaves of the evidence, and the steps of an ingestion.      *)

LEMMA EvidenceStays ==
  ASSUME HealthTyped, HealthTyped', hePlan'.what = hePlan.what,
         \A r \in Report : stored[r].rows > 0 => stored'[r] = stored[r]
  PROVE  /\ EvidenceOfDegradation => EvidenceOfDegradation'
         /\ Cardinality(BelievedReports) \in Nat /\ Cardinality(BelievedReports)' \in Nat
         /\ Cardinality(BelievedReports) <= Cardinality(BelievedReports)'
<1>1. \A r \in Report : Believed(r) => Believed(r)'
  BY DEF Believed
<1>2. \A r \in Report : What(r)' = What(r)
  BY DEF What
<1>3. ASSUME EvidenceOfDegradation PROVE EvidenceOfDegradation'
  <2>1. PICK some \in SUBSET {r \in Report : Believed(r) /\ What(r).bad} :
          /\ Cardinality(some) = MIN_DEGRADED_COUNT
          /\ \A r, s \in some : What(r).at - What(s).at < STALE_TICKS
    BY <1>3 DEF EvidenceOfDegradation
  <2>2. some \in SUBSET {r \in Report : Believed(r)' /\ What(r)'.bad}
    BY <1>1, <1>2, <2>1
  <2>3. \A r, s \in some : What(r)'.at - What(s)'.at < STALE_TICKS
    BY <1>2, <2>1
  <2>. QED  BY <2>1, <2>2, <2>3 DEF EvidenceOfDegradation
<1>4. IsFiniteSet(BelievedReports) /\ IsFiniteSet(BelievedReports')
  BY HealthAssumption, FS_Subset DEF BelievedReports
<1>5. BelievedReports \in SUBSET (BelievedReports')
  BY <1>1 DEF BelievedReports
<1>. QED  BY <1>3, <1>4, <1>5, FS_Subset, FS_CardinalityType

LEMMA HealthStepKeeps ==
  ASSUME HealthInv, HealthTyped', ReportsPast', hePlan'.what = hePlan.what,
         \A r \in Report : stored[r].rows > 0 => stored'[r] = stored[r],
         health' = health \/ \E i \in Ingester : health' = ingest[i].derived,
         \A i \in Ingester : \/ ingest'[i].derived = ingest[i].derived
                             \/ ingest'[i].derived = NoHealth
                             \/ \E rows \in NewestRows : ingest'[i].derived = Derived(rows)
  PROVE  HealthInv'
<1>1. /\ EvidenceOfDegradation => EvidenceOfDegradation'
      /\ Cardinality(BelievedReports) \in Nat /\ Cardinality(BelievedReports)' \in Nat
      /\ Cardinality(BelievedReports) <= Cardinality(BelievedReports)'
  BY EvidenceStays DEF HealthInv
<1>. DEFINE Holds(h) == /\ h.samples <= Cardinality(BelievedReports)'
                        /\ h.status = "DEGRADED" => EvidenceOfDegradation'
<1>2. ASSUME NEW h \in HealthRows, SnapshotHolds(h) PROVE Holds(h)
  BY <1>1, <1>2 DEF SnapshotHolds, HealthRows
<1>3. /\ health \in HealthRows /\ SnapshotHolds(health)
      /\ \A i \in Ingester : ingest[i].derived \in HealthRows /\ SnapshotHolds(ingest[i].derived)
  BY DEF HealthInv, HealthTyped, HealthHolds, IngestRows
<1>4. \A rows \in NewestRows : Derived(rows) \in HealthRows /\ SnapshotHolds(Derived(rows))
  BY DerivedHolds DEF HealthInv
<1>5. Holds(NoHealth)
  BY <1>1 DEF NoHealth
<1>. HIDE DEF Holds
<1>6. Holds(health') /\ \A i \in Ingester : Holds(ingest'[i].derived)
  BY <1>2, <1>3, <1>4, <1>5
<1>7. HealthHolds'
  BY <1>6 DEF Holds, HealthHolds, SnapshotHolds
<1>. QED  BY <1>7 DEF HealthInv

LEMMA SpendKeeps ==
  ASSUME HealthTyped, NEW what \in {"ticks", "repeats", "faults"}, SpendHealth(what)
  PROVE  hePlan' \in HealthPlanRows /\ hePlan'.what = hePlan.what
  BY DEF HealthTyped, SpendHealth, HealthPlanRows

LEMMA TickKeeps ==
  ASSUME HealthInv, Tick
  PROVE  HealthInv'
BY SpendKeeps, HealthStepKeeps DEF Tick, HealthInv, HealthTyped, HealthPlanRows, What, ReportsPast,
   IngestAt, Subject, IngestRows

\* An ingester gives up, or its call has ended.
LEMMA EndKeeps ==
  ASSUME HealthInv, NEW i \in Ingester, ingest' = [ingest EXCEPT ![i] = NoIngest(SomeReport)],
         hePlan' \in HealthPlanRows, hePlan'.what = hePlan.what,
         clock' = clock, stored' = stored, health' = health
  PROVE  HealthInv'
<1>1. SomeReport \in Report
  BY HealthAssumption DEF SomeReport
<1>2. NoIngest(SomeReport) \in IngestRows
  BY <1>1 DEF NoIngest, IngestRows, NoHealth, HealthRows
<1>3. HealthTyped'
  BY <1>2 DEF HealthInv, HealthTyped
<1>4. \A j \in Ingester : ingest'[j] = IF j = i THEN NoIngest(SomeReport) ELSE ingest[j]
  BY DEF HealthInv, HealthTyped
<1>5. ReportsPast'
  BY <1>4 DEF HealthInv, ReportsPast, What, IngestAt, Subject, NoIngest
<1>6. \A j \in Ingester : ingest'[j].derived \in {ingest[j].derived, NoHealth}
  BY <1>4 DEF NoIngest
<1>. QED  BY <1>3, <1>5, <1>6, HealthStepKeeps

LEMMA DeliverKeeps ==
  ASSUME HealthInv, NEW i \in Ingester, NEW r \in Report, DeliverReport(i, r)
  PROVE  HealthInv'
<1>1. hePlan' \in HealthPlanRows /\ hePlan'.what = hePlan.what
  BY SpendKeeps DEF DeliverReport, HealthInv, HealthTyped
<1>. DEFINE row == [NoIngest(r) EXCEPT !.pc = "store"]
<1>2. row \in IngestRows /\ row.report = r /\ row.derived = NoHealth
  BY DEF NoIngest, IngestRows, NoHealth, HealthRows
<1>3. ingest' = [ingest EXCEPT ![i] = row]
  BY DEF DeliverReport
<1>. HIDE DEF row
<1>4. HealthTyped'
  BY <1>1, <1>2, <1>3 DEF HealthInv, HealthTyped, DeliverReport
<1>5. \A j \in Ingester : ingest'[j] = IF j = i THEN row ELSE ingest[j]
  BY <1>3 DEF HealthInv, HealthTyped
<1>6. ReportsPast'
  <2>1. clock' = clock /\ stored' = stored /\ What(r).at <= clock
    BY <1>1 DEF DeliverReport, What, HealthInv, HealthTyped, HealthPlanRows
  <2>2. \A s \in Report : What(s)' = What(s)
    BY <1>1 DEF What
  <2>3. \A j \in Ingester : ingest'[j].pc # "idle" => What(ingest'[j].report).at <= clock
    BY <1>2, <1>5, <2>1 DEF HealthInv, ReportsPast, IngestAt, Subject
  <2>4. \A j \in Ingester : ingest'[j].report \in Report
    BY <1>4 DEF HealthTyped, IngestRows
  <2>. QED  BY <2>1, <2>2, <2>3, <2>4 DEF HealthInv, ReportsPast, IngestAt, Subject
<1>7. \A j \in Ingester : ingest'[j].derived \in {ingest[j].derived, NoHealth}
  BY <1>2, <1>5
<1>. QED  BY <1>1, <1>4, <1>6, <1>7, HealthStepKeeps DEF DeliverReport

\* A step of an ingester that stores nothing.
LEMMA MoveKeeps ==
  ASSUME HealthInv, NEW i \in Ingester, ~IngestAt(i, "idle"),
         ingest' \in [Ingester -> IngestRows],
         \A j \in Ingester : j # i => ingest'[j] = ingest[j],
         ingest'[i].report = ingest[i].report,
         \/ ingest'[i].derived = ingest[i].derived
         \/ \E rows \in NewestRows : ingest'[i].derived = Derived(rows),
         health' \in {health, ingest[i].derived},
         clock' = clock, stored' = stored, hePlan' = hePlan
  PROVE  HealthInv'
<1>1. HealthTyped'
  BY DEF HealthInv, HealthTyped, IngestRows
<1>2. ReportsPast'
  BY DEF HealthInv, ReportsPast, What, IngestAt, Subject
<1>. QED  BY <1>1, <1>2, HealthStepKeeps

LEMMA StoreKeeps ==
  ASSUME HealthInv, NEW i \in Ingester, Store(i)
  PROVE  HealthInv'
<1>. DEFINE r == Subject(i)
<1>1. CASE stored[r].rows > 0
  BY <1>1, EndKeeps DEF Store, HealthInv, HealthTyped
<1>2. CASE ~(stored[r].rows > 0)
  <2>1. r \in Report /\ stored[r].rows \in 0..1 /\ ingest[i] \in IngestRows
    BY DEF HealthInv, HealthTyped, IngestRows, Subject
  <2>2. stored[r].rows + 1 = 1
    BY <1>2, <2>1
  <2>3. ValidatedTrust(r) \in Trust
    BY <2>1 DEF ValidatedTrust, Trust, HealthInv, HealthTyped, HealthPlanRows, What
  <2>4. stored' = [stored EXCEPT ![r] = [rows |-> 1, trust |-> ValidatedTrust(r)]]
    BY <1>2, <2>2 DEF Store, Stored
  <2>5. ingest' = [ingest EXCEPT ![i].pc = "previous"]
    BY <1>2 DEF Store
  <2>6. ingest' \in [Ingester -> IngestRows]
    BY <2>1, <2>5 DEF HealthInv, HealthTyped, IngestRows
  <2>7. stored' \in [Report -> [rows : 0..1, trust : Trust]]
    BY <2>1, <2>3, <2>4 DEF HealthInv, HealthTyped
  <2>8. HealthTyped'
    BY <2>6, <2>7 DEF HealthInv, HealthTyped, Store
  <2>9. \A s \in Report : s # r => stored'[s] = stored[s]
    BY <2>4 DEF HealthInv, HealthTyped
  <2>10. \A j \in Ingester : /\ ingest'[j].report = ingest[j].report
                             /\ ingest'[j].derived = ingest[j].derived
                             /\ j # i => ingest'[j] = ingest[j]
    BY <2>1, <2>5 DEF HealthInv, HealthTyped, IngestRows
  <2>11. What(r).at <= clock /\ ~IngestAt(i, "idle")
    BY <2>1 DEF HealthInv, ReportsPast, Store, IngestAt
  <2>12. clock' = clock /\ hePlan' = hePlan /\ health' = health
    BY DEF Store
  <2>13. ReportsPast'
    BY <2>9, <2>11, <2>10, <2>12 DEF HealthInv, ReportsPast, IngestAt, Subject, What
  <2>. QED  BY <1>2, <2>8, <2>9, <2>10, <2>12, <2>13, HealthStepKeeps
<1>. QED  BY <1>1, <1>2

LEMMA IngestingKeeps ==
  ASSUME HealthInv, NEW i \in Ingester, Ingesting(i)
  PROVE  HealthInv'
<1>0. ingest[i] \in IngestRows /\ ingest \in [Ingester -> IngestRows] /\ health \in HealthRows
  BY DEF HealthInv, HealthTyped
<1>1. CASE ReadPrevious(i)
  BY <1>0, <1>1, MoveKeeps DEF HealthRows, ReadPrevious, IngestRows, IngestAt
<1>2. CASE DeriveResourceHealth(i)
  <2>1. PICK rows \in NewestRows :
          ingest' = [ingest EXCEPT ![i] = [ingest[i] EXCEPT !.pc = "persist", !.derived = Derived(rows)]]
    BY <1>0, <1>2 DEF DeriveResourceHealth
  <2>2. Derived(rows) \in HealthRows
    BY DerivedHolds DEF HealthInv
  <2>3. /\ ingest' \in [Ingester -> IngestRows]
        /\ \A j \in Ingester : j # i => ingest'[j] = ingest[j]
        /\ ingest'[i].report = ingest[i].report /\ ingest'[i].derived = Derived(rows)
    BY <1>0, <2>1, <2>2 DEF IngestRows
  <2>. QED  BY <1>2, <2>3, MoveKeeps DEF DeriveResourceHealth, IngestAt
<1>3. CASE PersistHealth(i) BY <1>0, <1>3, MoveKeeps DEF PersistHealth, IngestRows, IngestAt
<1>4. CASE EmitEvents(i) BY <1>4, SpendKeeps, EndKeeps DEF EmitEvents, HealthInv, HealthTyped
<1>. QED  BY <1>1, <1>2, <1>3, <1>4, StoreKeeps DEF Ingesting

LEMMA HealthNextKeeps ==
  ASSUME HealthInv, HealthNext
  PROVE  HealthInv'
BY SpendKeeps, EndKeeps, TickKeeps, IngestingKeeps, DeliverKeeps DEF IngesterDies, HealthInv,
   HealthNext

\* A step of health removes nothing that a switch rests on.
LEMMA HealthNextGrows ==
  ASSUME HealthInv, HealthNext
  PROVE  /\ hePlan'.what = hePlan.what
         /\ \A r \in Report : stored[r].rows > 0 => stored'[r] = stored[r]
<1>1. CASE Tick
  BY <1>1, SpendKeeps DEF Tick, HealthInv
<1>2. ASSUME NEW i \in Ingester, IngesterDies(i) PROVE hePlan'.what = hePlan.what /\ stored' = stored
  BY <1>2, SpendKeeps DEF IngesterDies, HealthInv
<1>3. ASSUME NEW i \in Ingester, NEW r \in Report, DeliverReport(i, r)
      PROVE  hePlan'.what = hePlan.what /\ stored' = stored
  BY <1>3, SpendKeeps DEF DeliverReport, HealthInv
<1>4. ASSUME NEW i \in Ingester, EmitEvents(i) PROVE hePlan'.what = hePlan.what /\ stored' = stored
  BY <1>4, SpendKeeps DEF EmitEvents, HealthInv
<1>5. ASSUME NEW i \in Ingester, ReadPrevious(i) \/ DeriveResourceHealth(i) \/ PersistHealth(i)
      PROVE  hePlan'.what = hePlan.what /\ stored' = stored
  BY <1>5 DEF ReadPrevious, DeriveResourceHealth, PersistHealth
<1>6. ASSUME NEW i \in Ingester, Store(i)
      PROVE  /\ hePlan'.what = hePlan.what
             /\ \A r \in Report : stored[r].rows > 0 => stored'[r] = stored[r]
  BY <1>6 DEF Store, Stored, HealthInv, HealthTyped
<1>. QED  BY <1>1, <1>2, <1>3, <1>4, <1>5, <1>6 DEF HealthNext, Ingesting

-----------------------------------------------------------------------------
(* Policies, edits and decisions.                                          *)

EditPlaces == {"ready", "context", "read", "write", "done"}

PoliciesTyped ==
  /\ dePlan \in DecisionPlans
  /\ policyRows \in SUBSET PolicyRow
  /\ policies \in [1..Cardinality(Edit) + 1 -> policyRows \cup {Unset}]
  /\ context.value \in Context \cup {Unset}
  /\ edit \in [Edit -> [pc : EditPlaces, id : Nat, row : PolicyRow \cup {Unset}]]
  /\ \A e \in Edit : edit[e].pc # "done" => Asked(e) \in EditRows

\* An evaluation works with a row that the user has had, or without one with the default.
EvaluationForm(b) ==
  b = [pc |-> b.pc, row |-> b.row, value |-> b.value, intent |-> b.intent, made |-> b.made]
DecisionForm(m) ==
  m = [action |-> m.action, version |-> m.version, intent |-> m.intent, price |-> m.price,
       state |-> m.state]
Evaluates(b) == /\ EvaluationForm(b) /\ b.row \in policyRows \cup {DefaultPolicy}
                /\ b.pc = "mark" => DecisionForm(b.made)
DecidersFit == /\ decider = [d \in Decider |-> decider[d]]
               /\ \A d \in Decider : Evaluates(decider[d])

DecInv == HealthInv /\ PoliciesTyped /\ DecidersFit /\ DecisionIsJustified

LEMMA PresetsTyped ==
  /\ \A p \in Preset : POLICY_PRESETS[p] \in [mode : {"automatic", "manual"}, limit : Nat,
                                               hysteresis : 0..100]
  /\ Preset = {"CHEAPEST", "RELIABLE", "WORK", "BATTERY", "UNLIMITED", "MANUAL"}
  BY DEF Preset, POLICY_PRESETS, Params

LEMMA DefaultTyped == DefaultPolicy \in PolicyRow
  BY DEF DefaultPolicy, PolicyRow

LEMMA NewRowTyped ==
  ASSUME NEW asked \in EditRows, NEW read \in PolicyRow \cup {Unset}
  PROVE  NewRow(asked, read) \in PolicyRow
<1>. DEFINE base == CASE asked.preset # Unset -> POLICY_PRESETS[asked.preset]
                      [] asked.preset = Unset /\ read # Unset -> read
                      [] OTHER -> POLICY_PRESETS["MANUAL"]
<1>1. /\ base.mode \in {"automatic", "manual"} /\ base.limit \in Nat
      /\ base.hysteresis \in 0..100
  <2>1. CASE asked.preset # Unset
    <3>1. asked.preset \in Preset /\ base = POLICY_PRESETS[asked.preset]
      BY <2>1 DEF EditRows
    <3>. HIDE DEF base
    <3>. QED  BY <3>1, PresetsTyped
  <2>2. CASE asked.preset = Unset /\ read # Unset
    <3>1. read \in PolicyRow /\ base = read
      BY <2>2
    <3>. HIDE DEF base
    <3>. QED  BY <3>1 DEF PolicyRow
  <2>3. CASE asked.preset = Unset /\ read = Unset
    <3>1. base = POLICY_PRESETS["MANUAL"] /\ "MANUAL" \in Preset
      BY <2>3, PresetsTyped
    <3>. HIDE DEF base
    <3>. QED  BY <3>1, PresetsTyped
  <2>. QED  BY <2>1, <2>2, <2>3
<1>. DEFINE mode == Or(asked.mode, base.mode)
            limit == Or(asked.limit, base.limit)
            preset == Or(asked.preset, IF read = Unset THEN Unset ELSE read.preset)
            next == IF read = Unset THEN 1 ELSE read.version + 1
<1>2. NewRow(asked, read) = [mode |-> mode, limit |-> limit, hysteresis |-> base.hysteresis,
                             preset |-> preset, version |-> next]
  BY DEF NewRow
<1>3. mode \in {"automatic", "manual"} /\ limit \in Nat
  <2>. HIDE DEF base
  <2>. QED  BY <1>1 DEF Or, EditRows
<1>4. preset \in Preset \cup {Unset} /\ next \in Nat
  BY DEF Or, EditRows, PolicyRow
<1>. HIDE DEF base, mode, limit, preset, next
<1>. QED  BY <1>1, <1>2, <1>3, <1>4 DEF PolicyRow

\* Whatever the device's context, the limit and the version are those of the row.
LEMMA EffectiveKeepsLimit ==
  ASSUME NEW row \in PolicyRow, NEW value
  PROVE  /\ EffectivePolicy(row, value).limit = row.limit
         /\ EffectivePolicy(row, value).version = row.version
  BY DEF EffectivePolicy, PolicyRow

LEMMA BestIsCandidate ==
  ASSUME PoliciesTyped, NEW type, Candidates(type) # {}
  PROVE  BestCandidate(type) \in Candidates(type)
<1>. DEFINE C == Candidates(type)
<1>1. IsFiniteSet(C) /\ \A r \in C : r.reliability \in Nat /\ r.bandwidth \in Nat
  BY DecisionAssumption, FS_Subset DEF Candidates, Discovered, PoliciesTyped
<1>2. \A r \in C : ResourceScore(r) \in Nat
  BY <1>1 DEF ResourceScore
<1>. DEFINE score == [r \in C |-> ResourceScore(r)]
<1>3. PICK top \in C : \A r \in C : ResourceScore(r) <= ResourceScore(top)
  <2>1. score \in [C -> Nat] /\ \A r \in C : score[r] = ResourceScore(r)
    BY <1>2
  <2>2. C # {}
    OBVIOUS
  <2>. HIDE DEF C, score
  <2>3. \E x \in C : \A y \in C : score[y] <= score[x]
    BY <1>1, <2>1, <2>2, GreatestBy
  <2>. QED  BY <2>1, <2>3
<1>. DEFINE T == {r \in C : ResourceScore(r) = ResourceScore(top)}
            sure == [r \in T |-> r.reliability]
<1>4. PICK best \in T : \A r \in T : r.reliability <= best.reliability
  <2>1. sure \in [T -> Nat] /\ \A r \in T : sure[r] = r.reliability
    BY <1>1
  <2>2. T # {} /\ T \in SUBSET C
    BY <1>3
  <2>3. IsFiniteSet(T)
    <3>. HIDE DEF C, T
    <3>. QED  BY <1>1, <2>2, FS_Subset
  <2>. HIDE DEF C, T, sure
  <2>4. \E x \in T : \A y \in T : sure[y] <= sure[x]
    BY <2>1, <2>2, <2>3, GreatestBy
  <2>. QED  BY <2>1, <2>4
<1>5. best \in C /\ \A o \in C : Better(best, o)
  BY <1>1, <1>2, <1>3, <1>4 DEF Better
<1>. QED  BY <1>5 DEF BestCandidate

\* Of a kind that was named, the offer that is stored is the one that is asked about.
LEMMA TargetIsTop ==
  ASSUME PoliciesTyped, NEW type, type # Unset, TargetPrice(type) # Unset
  PROVE  TargetPrice(type) = TopPrice(type)
BY BestIsCandidate DEF TargetPrice, Candidates, Discovered, OfType, Matching, TopPrice

-----------------------------------------------------------------------------
(* The steps.                                                              *)

LEMMA DecInitInv == DecisionInit => DecInv
<1>. SUFFICES ASSUME DecisionInit PROVE DecInv
  OBVIOUS
<1>1. PICK plan \in DecisionPlans : DecisionInitOf(plan)
  BY DEF DecisionInit
<1>2. /\ plan.health \in HealthPlanRows /\ plan.policy \in PolicyRow \cup {Unset}
      /\ plan.edits \in [Edit -> EditRows \cup {Unset}] /\ IsFiniteSet(Edit)
  BY DecisionAssumption
<1>3. HealthInitOf(plan.health)
  BY <1>1 DEF DecisionInitOf
<1>4. SomeReport \in Report
  BY HealthAssumption DEF SomeReport
<1>5. NoHealth \in HealthRows /\ NoIngest(SomeReport) \in IngestRows
  BY <1>4 DEF NoHealth, HealthRows, NoIngest, IngestRows
<1>6. HealthTyped
  BY <1>2, <1>3, <1>5 DEF HealthInitOf, HealthTyped, Trust
<1>7. ReportsPast
  BY <1>3 DEF HealthInitOf, ReportsPast, NoIngest, IngestAt
<1>8. HealthHolds
  BY HealthAssumption, FS_Subset, FS_CardinalityType, <1>3 DEF BelievedReports, HealthInitOf,
     HealthHolds, SnapshotHolds, NoIngest, NoHealth
<1>9. PoliciesTyped BY <1>1, <1>2 DEF DecisionInitOf, EditPlaces, Asked, PoliciesTyped
<1>10. DecidersFit
  BY <1>1 DEF Evaluates, EvaluationForm, Undecided, DecisionInitOf, DecidersFit
<1>11. DecisionIsJustified
  BY <1>1 DEF DecisionInitOf, DecisionIsJustified, SwitchIsJustified, SpendsWithinLimit
<1>. QED  BY <1>6, <1>7, <1>8, <1>9, <1>10, <1>11 DEF DecInv, HealthInv

LEMMA HealthUnchanged ==
  ASSUME HealthInv, UNCHANGED healthVars
  PROVE  HealthInv'
BY HealthStepKeeps DEF HealthInv, HealthTyped, ReportsPast, What, IngestAt, Subject, healthVars

\* Policies are only added; so are decisions, of which only such as activate and switch
\* nothing are written again.
Idle(action) == action \notin {"ACTIVATE", "SWITCH"}
LEMMA JustifiedStays ==
  ASSUME DecInv, HealthInv', hePlan'.what = hePlan.what,
         \A r \in Report : stored[r].rows > 0 => stored'[r] = stored[r],
         dePlan' = dePlan, policyRows \subseteq policyRows',
         \A made \in decision' : made \in decision \/ Idle(made.action)
  PROVE  DecisionIsJustified'
<1>1. /\ EvidenceOfDegradation => EvidenceOfDegradation'
      /\ Cardinality(BelievedReports) \in Nat /\ Cardinality(BelievedReports)' \in Nat
      /\ Cardinality(BelievedReports) <= Cardinality(BelievedReports)'
  BY EvidenceStays DEF HealthInv, DecInv
<1>2. BelievedReports = {r \in Report : Believed(r)} /\ BelievedReports' = {r \in Report : Believed(r)'}
  BY DEF BelievedReports
<1>3. SwitchIsJustified'
  <2>1. SUFFICES ASSUME NEW made \in decision', made.action = "SWITCH"
                 PROVE  /\ EvidenceOfDegradation'
                        /\ Cardinality(BelievedReports)' >= MIN_SAMPLES_FOR_SWITCH
    BY <1>2 DEF SwitchIsJustified
  <2>2. made \in decision
    BY <2>1 DEF Idle
  <2>3. EvidenceOfDegradation /\ Cardinality(BelievedReports) >= MIN_SAMPLES_FOR_SWITCH
    BY <1>2, <2>1, <2>2 DEF DecInv, DecisionIsJustified, SwitchIsJustified
  <2>. QED  BY <1>1, <2>3, DecisionAssumption
<1>4. SpendsWithinLimit' BY DEF Idle, TypeOf, DecInv, DecisionIsJustified, SpendsWithinLimit
<1>. QED  BY <1>3, <1>4 DEF DecisionIsJustified

LEMMA HealthPart ==
  ASSUME DecInv, HealthNext, UNCHANGED decidingVars
  PROVE  DecInv'
BY HealthNextKeeps, HealthNextGrows, JustifiedStays DEF DecInv, PoliciesTyped, DecidersFit,
   Evaluates, decidingVars, Asked

LEMMA IntentPart ==
  ASSUME DecInv, IntentChanged
  PROVE  DecInv'
<1>1. HealthInv'
  BY HealthStepKeeps DEF DecInv, HealthInv, HealthTyped, ReportsPast, What, IngestAt, Subject,
     IntentChanged
<1>2. PoliciesTyped' /\ DecidersFit'
  BY DEF DecInv, PoliciesTyped, DecidersFit, Evaluates, decidingVars, Asked, IntentChanged
<1>3. DecisionIsJustified'
  BY <1>1, JustifiedStays DEF decidingVars, IntentChanged
<1>. QED  BY <1>1, <1>2, <1>3 DEF DecInv

\* A step of a request, which decides nothing.
LEMMA EditKeeps ==
  ASSUME DecInv, UNCHANGED healthVars, UNCHANGED <<decider, decision, dePlan>>,
         policyRows' \in SUBSET PolicyRow, policyRows \subseteq policyRows',
         PoliciesTyped'
  PROVE  DecInv'
BY HealthUnchanged, JustifiedStays DEF DecInv, DecidersFit, Evaluates, healthVars

LEMMA EditStepKeeps ==
  ASSUME DecInv, NEW e \in Edit,
         CheckContext(e) \/ WriteContext(e) \/ ReadPolicyRow(e) \/ WritePolicyRow(e)
  PROVE  DecInv'
<1>0. /\ PoliciesTyped /\ edit[e] \in [pc : EditPlaces, id : Nat, row : PolicyRow \cup {Unset}]
      /\ edit[e].pc # "done" => Asked(e) \in EditRows
  BY DEF DecInv, PoliciesTyped
<1>. DEFINE EditRow == [pc : EditPlaces, id : Nat, row : PolicyRow \cup {Unset}]
<1>1. ASSUME NEW row \in EditRow, edit' = [edit EXCEPT ![e] = row], edit[e].pc # "done",
             dePlan' = dePlan
      PROVE  /\ edit' \in [Edit -> EditRow]
             /\ \A x \in Edit : edit'[x].pc # "done" => Asked(x)' \in EditRows
  BY <1>0, <1>1 DEF PoliciesTyped, Asked
<1>2. CASE CheckContext(e)
  <2>1. PICK row \in EditRow : edit' = [edit EXCEPT ![e] = row]
    <3>. DEFINE pc == IF Asked(e).observed < context.observed THEN "done" ELSE "context"
    <3>1. [edit[e] EXCEPT !.pc = pc] \in EditRow
      BY <1>0 DEF EditPlaces
    <3>2. edit' = [edit EXCEPT ![e] = [edit[e] EXCEPT !.pc = pc]]
      BY <1>0, <1>2 DEF CheckContext, PoliciesTyped
    <3>. QED  BY <3>1, <3>2
  <2>2. edit[e].pc # "done" /\ dePlan' = dePlan
    BY <1>2 DEF CheckContext, EditAt
  <2>3. PoliciesTyped'
    BY <1>0, <1>1, <1>2, <2>1, <2>2 DEF CheckContext, PoliciesTyped
  <2>. QED  BY <1>0, <1>2, <2>3, EditKeeps DEF CheckContext, PoliciesTyped
<1>3. CASE WriteContext(e)
  <2>1. PICK row \in EditRow : edit' = [edit EXCEPT ![e] = row]
    <3>. DEFINE pc == IF Overrides(e) THEN "read" ELSE "done"
    <3>1. [edit[e] EXCEPT !.pc = pc] \in EditRow
      BY <1>0 DEF EditPlaces
    <3>2. edit' = [edit EXCEPT ![e] = [edit[e] EXCEPT !.pc = pc]]
      BY <1>0, <1>3 DEF WriteContext, PoliciesTyped
    <3>. QED  BY <3>1, <3>2
  <2>2. edit[e].pc # "done" /\ dePlan' = dePlan
    BY <1>3 DEF WriteContext, EditAt
  <2>3. context'.value \in Context \cup {Unset}
    BY <1>0, <1>3, <2>2 DEF WriteContext, EditRows
  <2>4. PoliciesTyped'
    BY <1>0, <1>1, <1>3, <2>1, <2>2, <2>3 DEF WriteContext, PoliciesTyped
  <2>. QED  BY <1>0, <1>3, <2>4, EditKeeps DEF WriteContext, PoliciesTyped
<1>4. CASE ReadPolicyRow(e)
  <2>1. PICK row \in EditRow : edit' = [edit EXCEPT ![e] = row]
    <3>1. CASE UserRows = {} /\ edit' = [edit EXCEPT ![e] = [pc |-> "write", id |-> 1, row |-> Unset]]
      BY <3>1 DEF EditPlaces
    <3>2. ASSUME NEW id \in UserRows,
                 edit' = [edit EXCEPT ![e] = [pc |-> "write", id |-> id, row |-> policies[id]]]
          PROVE  \E row \in EditRow : edit' = [edit EXCEPT ![e] = row]
      <4>1. id \in DOMAIN policies /\ policies[id] # Unset
        BY DEF UserRows
      <4>2. DOMAIN policies \subseteq Nat
        BY DecisionAssumption, FS_CardinalityType, <1>0 DEF PoliciesTyped
      <4>3. policies[id] \in PolicyRow /\ id \in Nat
        BY <1>0, <4>1, <4>2 DEF PoliciesTyped
      <4>. QED  BY <3>2, <4>3 DEF EditPlaces
    <3>. QED  BY <1>4, <3>1, <3>2 DEF ReadPolicyRow
  <2>2. edit[e].pc # "done" /\ dePlan' = dePlan
    BY <1>4 DEF ReadPolicyRow, EditAt
  <2>3. PoliciesTyped'
    BY <1>0, <1>1, <1>4, <2>1, <2>2 DEF ReadPolicyRow, PoliciesTyped
  <2>. QED  BY <1>0, <1>4, <2>3, EditKeeps DEF ReadPolicyRow, PoliciesTyped
<1>5. CASE WritePolicyRow(e)
  <2>. DEFINE new == NewRow(Asked(e), edit[e].row)
              id == IF edit[e].row = Unset THEN FreshId ELSE edit[e].id
  <2>1. edit[e].pc # "done" /\ dePlan' = dePlan
    BY <1>5 DEF WritePolicyRow, EditAt
  <2>2. new \in PolicyRow
    BY <1>0, <2>1, NewRowTyped
  <2>3. /\ policies' = [policies EXCEPT ![id] = new] /\ policyRows' = policyRows \cup {new}
        /\ edit' = [edit EXCEPT ![e] = [edit[e] EXCEPT !.pc = "done", !.row = Unset]]
        /\ context' = context /\ decision' = decision
    BY <1>0, <1>5 DEF WritePolicyRow, PoliciesTyped
  <2>4. [edit[e] EXCEPT !.pc = "done", !.row = Unset] \in EditRow
    BY <1>0 DEF EditPlaces
  <2>. HIDE DEF new, id
  <2>5. policies' \in [1..Cardinality(Edit) + 1 -> policyRows' \cup {Unset}]
    BY <1>0, <2>3 DEF PoliciesTyped
  <2>6. PoliciesTyped'
    BY <1>0, <1>1, <2>1, <2>2, <2>3, <2>4, <2>5 DEF PoliciesTyped
  <2>. QED  BY <1>0, <1>5, <2>2, <2>3, <2>6, EditKeeps DEF WritePolicyRow, PoliciesTyped
<1>. QED  BY <1>2, <1>3, <1>4, <1>5

\* A step of an evaluation: what it becomes, and what it stores.
LEMMA DeciderKeeps ==
  ASSUME DecInv, NEW d \in Decider, NEW become,
         decider' = [decider EXCEPT ![d] = become], Evaluates(become),
         UNCHANGED healthVars, UNCHANGED <<policies, context, edit, policyRows, dePlan>>,
         DecisionIsJustified'
  PROVE  DecInv'
BY HealthUnchanged DEF DecInv, PoliciesTyped, Asked, DecidersFit, Evaluates

LEMMA DecideJustified ==
  ASSUME DecInv, NEW d \in Decider, Decide(d)
  PROVE  DecisionIsJustified'
<1>. DEFINE row == decider[d].row
            policy == EffectivePolicy(row, decider[d].value)
            wanted == Wanted(d, policy)
            type == Type(d)
            action == IF wanted \in {"SWITCH", "ACTIVATE"} /\ ~PolicyAllows(policy, wanted, TopPrice(type))
                        THEN "ASK_USER" ELSE wanted
            made == [action |-> action, version |-> policy.version, intent |-> decider[d].intent,
                     price |-> TargetPrice(type), state |-> "PENDING"]
<1>1. /\ decision' = decision \cup {made} /\ UNCHANGED healthVars
      /\ policyRows' = policyRows /\ dePlan' = dePlan
  BY DEF Decide
<1>2. row \in PolicyRow /\ row \in policyRows \cup {DefaultPolicy}
  BY DefaultTyped DEF DecInv, DecidersFit, Evaluates, PoliciesTyped
<1>3. policy.limit = row.limit /\ policy.version = row.version
  BY <1>2, EffectiveKeepsLimit
<1>4. /\ made.action = action /\ made.version = policy.version /\ made.intent = decider[d].intent
      /\ made.price = TargetPrice(type)
  OBVIOUS
<1>5. SwitchIsJustified'
  <2>1. SUFFICES ASSUME NEW m \in decision', m.action = "SWITCH"
                 PROVE  /\ EvidenceOfDegradation
                        /\ Cardinality({r \in Report : Believed(r)}) >= MIN_SAMPLES_FOR_SWITCH
    BY <1>1 DEF SwitchIsJustified, EvidenceOfDegradation, Believed, What, healthVars
  <2>2. CASE m \in decision
    BY <2>1, <2>2 DEF DecInv, DecisionIsJustified, SwitchIsJustified
  <2>3. CASE m = made
    <3>1. action = "SWITCH"
      BY <1>4, <2>1, <2>3
    <3>2. wanted = "SWITCH"
      BY <3>1
    <3>3. health.status = "DEGRADED" /\ health.samples >= MIN_SAMPLES_FOR_SWITCH
      BY <3>2 DEF Wanted, SwitchIsDue
    <3>4. /\ EvidenceOfDegradation /\ health.samples \in Nat
          /\ health.samples <= Cardinality(BelievedReports)
      BY <3>3 DEF DecInv, HealthInv, HealthHolds, SnapshotHolds, HealthTyped, HealthRows
    <3>5. Cardinality(BelievedReports) \in Nat
      BY HealthAssumption, FS_Subset, FS_CardinalityType DEF BelievedReports
    <3>. QED  BY <3>3, <3>4, <3>5, DecisionAssumption DEF BelievedReports
  <2>. QED  BY <1>1, <2>1, <2>2, <2>3
<1>6. SpendsWithinLimit'
  <2>1. ASSUME action = "ACTIVATE", TargetPrice(type) # Unset, type # Unset
        PROVE  /\ TargetPrice(type) <= row.limit
               /\ decider[d].intent /\ dePlan.budget # Unset => TargetPrice(type) <= dePlan.budget
    BY <2>1, TargetIsTop, <1>3 DEF Wanted, DecInv, PolicyAllows, WithinBudget
  <2>2. SUFFICES ASSUME NEW m \in decision', m.action = "ACTIVATE", m.price # Unset,
                        TypeOf(m.intent) # Unset
                 PROVE  /\ \E x \in policyRows \cup {DefaultPolicy} :
                             x.version = m.version /\ m.price <= x.limit
                        /\ m.intent /\ dePlan.budget # Unset => m.price <= dePlan.budget
    BY <1>1 DEF SpendsWithinLimit, TypeOf
  <2>3. CASE m \in decision
    BY <2>2, <2>3 DEF DecInv, DecisionIsJustified, SpendsWithinLimit
  <2>4. CASE m = made
    <3>1. type # Unset /\ action = "ACTIVATE" /\ TargetPrice(type) # Unset
      BY <1>4, <2>2, <2>4 DEF Type
    <3>2. /\ TargetPrice(type) <= row.limit
          /\ decider[d].intent /\ dePlan.budget # Unset => TargetPrice(type) <= dePlan.budget
      BY <2>1, <3>1
    <3>3. m.version = row.version /\ m.price = TargetPrice(type) /\ m.intent = decider[d].intent
      BY <1>3, <1>4, <2>4
    <3>. HIDE DEF row, type
    <3>. QED  BY <1>2, <3>2, <3>3
  <2>. QED  BY <1>1, <2>2, <2>3, <2>4
<1>. QED  BY <1>5, <1>6 DEF DecisionIsJustified

LEMMA DecideKeeps ==
  ASSUME DecInv, NEW d \in Decider, Decide(d)
  PROVE  DecInv'
<1>. DEFINE policy == EffectivePolicy(decider[d].row, decider[d].value)
            wanted == Wanted(d, policy)
            type == Type(d)
            action == IF wanted \in {"SWITCH", "ACTIVATE"} /\ ~PolicyAllows(policy, wanted, TopPrice(type))
                        THEN "ASK_USER" ELSE wanted
            made == [action |-> action, version |-> policy.version, intent |-> decider[d].intent,
                     price |-> TargetPrice(type), state |-> "PENDING"]
            become == [Undecided EXCEPT !.pc = "mark", !.made = made]
<1>1. /\ decision' = decision \cup {made} /\ UNCHANGED healthVars
      /\ UNCHANGED <<policies, context, edit, policyRows, dePlan>>
      /\ decider' = [decider EXCEPT ![d] = become]
  BY DEF Decide
<1>2. DecisionForm(made)
  <2>. HIDE DEF action, policy, type
  <2>. QED  BY DEF DecisionForm
<1>. HIDE DEF made
<1>3. Evaluates(become)
  <2>0. EvaluationForm(Undecided) /\ Undecided.row = DefaultPolicy
    BY DEF Undecided, EvaluationForm
  <2>1. PICK n : n = Undecided /\ EvaluationForm(n) /\ n.row = DefaultPolicy
    BY <2>0
  <2>2. PICK b : b = [n EXCEPT !.pc = "mark", !.made = made]
    OBVIOUS
  <2>3. EvaluationForm(b) /\ b.row = DefaultPolicy /\ b.made = made
    BY <2>1, <2>2 DEF EvaluationForm
  <2>. QED  BY <1>2, <2>1, <2>2, <2>3 DEF Evaluates
<1>4. DecisionIsJustified'
  BY DecideJustified
<1>. HIDE DEF become
<1>5. PICK b : b = become
  OBVIOUS
<1>. QED  BY <1>1, <1>3, <1>4, <1>5, DeciderKeeps

LEMMA DeciderStepKeeps ==
  ASSUME DecInv, NEW d \in Decider,
         BeginDecision(d) \/ IntentExpired(d) \/ ReadContext(d) \/ MarkDecision(d)
  PROVE  DecInv'
<1>0. /\ PoliciesTyped /\ Evaluates(decider[d]) /\ decider = [x \in Decider |-> decider[x]]
      /\ Evaluates(Undecided)
  BY DEF DecInv, DecidersFit, Evaluates, EvaluationForm, Undecided
<1>1. CASE BeginDecision(d)
  <2>1. PICK row \in PolicyRead, e \in events :
          decider' = [decider EXCEPT ![d] = [decider[d] EXCEPT !.pc = "context", !.row = row,
                                                               !.intent = e = "INTENT_CHANGED"]]
    BY <1>0, <1>1 DEF BeginDecision
  <2>2. row \in policyRows \cup {DefaultPolicy}
    BY <1>0 DEF PolicyRead, UserRows, PoliciesTyped
  <2>3. PICK b :
          b = [decider[d] EXCEPT !.pc = "context", !.row = row, !.intent = e = "INTENT_CHANGED"]
    OBVIOUS
  <2>4. Evaluates(b)
    BY <1>0, <2>2, <2>3 DEF Evaluates, EvaluationForm
  <2>5. DecisionIsJustified'
    BY <1>1, HealthUnchanged, JustifiedStays DEF BeginDecision, healthVars, DecInv
  <2>. QED  BY <1>1, <2>1, <2>3, <2>4, <2>5, DeciderKeeps DEF BeginDecision
<1>2. CASE IntentExpired(d)
  <2>. DEFINE wait == [action |-> "WAIT", version |-> 0, intent |-> TRUE, price |-> Unset,
                       state |-> "SKIPPED"]
  <2>1. Idle(wait.action)
    BY DEF Idle
  <2>2. decision' = decision \cup {wait} /\ decider' = [decider EXCEPT ![d] = Undecided]
    BY <1>2 DEF IntentExpired, EndDecision
  <2>. HIDE DEF wait
  <2>3. DecisionIsJustified'
    BY <1>2, <2>1, <2>2, HealthUnchanged, JustifiedStays DEF IntentExpired, healthVars, DecInv
  <2>4. PICK b : b = Undecided
    OBVIOUS
  <2>. QED  BY <1>0, <1>2, <2>2, <2>3, <2>4, DeciderKeeps DEF IntentExpired
<1>3. CASE ReadContext(d)
  <2>. DEFINE value == IF decider[d].intent THEN context.value ELSE Unset
  <2>1. decider' = [decider EXCEPT ![d] = [decider[d] EXCEPT !.pc = "decide", !.value = value]]
    BY <1>0, <1>3 DEF ReadContext
  <2>. HIDE DEF value
  <2>2. PICK b : b = [decider[d] EXCEPT !.pc = "decide", !.value = value]
    OBVIOUS
  <2>3. Evaluates(b)
    BY <1>0, <2>2 DEF Evaluates, EvaluationForm
  <2>4. DecisionIsJustified'
    BY <1>3, HealthUnchanged, JustifiedStays DEF ReadContext, healthVars, DecInv
  <2>. QED  BY <1>3, <2>1, <2>2, <2>3, <2>4, DeciderKeeps DEF ReadContext
<1>4. CASE MarkDecision(d)
  <2>. DEFINE made == decider[d].made
              marked == [made EXCEPT !.state = "SKIPPED"]
  <2>1. DecisionForm(made)
    BY <1>0, <1>4 DEF MarkDecision, DeciderAt, Evaluates
  <2>2. marked.action = made.action
    BY <2>1 DEF DecisionForm
  <2>3. decider' = [decider EXCEPT ![d] = Undecided]
    BY <1>4 DEF MarkDecision, EndDecision
  <2>4. \A m \in decision' : m \in decision \/ (m = marked /\ Idle(made.action))
    BY <1>4 DEF MarkDecision, Idle
  <2>. HIDE DEF made, marked
  <2>5. \A m \in decision' : m \in decision \/ Idle(m.action)
    BY <2>2, <2>4
  <2>6. DecisionIsJustified'
    BY <1>4, <2>5, HealthUnchanged, JustifiedStays DEF MarkDecision, healthVars, DecInv
  <2>7. PICK b : b = Undecided
    OBVIOUS
  <2>. QED  BY <1>0, <1>4, <2>3, <2>6, <2>7, DeciderKeeps DEF MarkDecision
<1>. QED  BY <1>1, <1>2, <1>3, <1>4

LEMMA DecNextInv == DecInv /\ [DecisionNext]_decisionVars => DecInv'
BY HealthPart, IntentPart, EditStepKeeps, DeciderStepKeeps, DecideKeeps, EditKeeps DEF DecisionNext,
   decisionVars, DecInv, PoliciesTyped, Asked

\* For any reports, however they are delivered, derived and written over one another, and
\* any edits of the policy and contexts of the device: a switch has the evidence of M
\* different bad reports that are believed and of as many samples as it asks for, and what
\* is activated without asking, of a kind that was named, costs no more than the user and
\* the intent allow (decision-engine.ts:254, effective-policy.ts:143).
THEOREM DecisionsAreJustified == DecisionSpec => []DecisionIsJustified
<1>1. DecInv => DecisionIsJustified
  BY DEF DecInv
<1>. QED  BY <1>1, DecInitInv, DecNextInv, PTL DEF DecisionSpec
-----------------------------------------------------------------------------
(* MobileOutboxes.                                                         *)

LEMMA LeastExists ==
  ASSUME NEW T, T \subseteq Nat, T # {}
  PROVE  \E n \in T : \A m \in T : n <= m
<1>. DEFINE R == {ss \in Nat \X Nat : ss[1] < ss[2]}
<1>1. IsWellFoundedOn(R, Nat)
  BY NatLessThanWellFounded DEF OpToRel
<1>2. PICK n \in T : \A m \in T : ~(<<m, n>> \in R)
  <2>. HIDE DEF R
  <2>. QED  BY <1>1, WFMin
<1>3. ASSUME NEW m \in T PROVE n <= m
  <2>1. <<m, n>> \in Nat \X Nat /\ ~(m < n)
    BY <1>2
  <2>. QED  BY <2>1
<1>. QED  BY <1>3

LEMMA LeastIs ==
  ASSUME NEW T, T \subseteq Nat, T # {}
  PROVE  Least(T) \in T /\ \A m \in T : Least(T) <= m
  BY LeastExists DEF Least

\* The rows of the phone, and the plan: the history of each mutation's effect agrees with
\* what the server has made of its key.
ApplierFits(m) ==
  /\ applied[m] \in {0, 1}
  /\ m \in created <=> Plan(m).kind = "CREATE" /\ applied[m] = 1
  /\ (\E v \in DOMAIN chain : chain[v].key = m) <=> Plan(m).kind = "SUPERSEDE" /\ applied[m] = 1
  /\ Plan(m).kind = "CANCEL" /\ applied[m] = 1 => chain[Len(chain)].status # "ACTIVE"

PlanTyped ==
  obPlan \in [what : [Mutation -> [kind : {"CREATE", "SUPERSEDE", "CANCEL"}, expects : Nat]],
              left : [faults : Nat, lapses : Nat]]

Versions == Seq([status : {"ACTIVE", "SUPERSEDED", "CANCELLED"}, key : Mutation \cup {NoMutation}])

FlushForm(b) ==
  /\ b \in [pc : {"idle", "claim", "send", "ok", "failed"}, todo : SUBSET Mutation]
  /\ (b.pc = "idle") = (b.todo = {})
  /\ b.todo \subseteq EverQueued
FlushesFit == /\ flush = [f \in Flush |-> flush[f]]
              /\ \A f \in Flush : FlushForm(flush[f])
              /\ \A f \in Flush : flush[f].pc = "ok" => applied[Current(f)] = 1
EntryRows == [status : {"unsent", "PENDING", "CLAIMED", "FAILED", "gone"}, fresh : BOOLEAN]
EntriesFit == /\ entry \in [Mutation -> EntryRows]
              /\ \A m \in Mutation : entry[m].status = "gone" => applied[m] = 1
ServerFits == /\ created \subseteq Mutation /\ chain \in Versions /\ chain # << >>
              /\ applied \in [Mutation -> Nat]
              /\ \A m \in Mutation : ApplierFits(m)

OutboxInv ==
  /\ FlushesFit /\ EntriesFit /\ ServerFits /\ PlanTyped
  /\ outbox \in Seq(Mutation) /\ wire \subseteq Mutation

LEMMA OutboxHolds == OutboxInv => OutboxTypeOK /\ QueuedOnce
<1>1. OutboxInv => OutboxTypeOK
  BY DEF OutboxInv, OutboxTypeOK, FlushesFit, FlushForm, EntriesFit, EntryRows, ServerFits, Versions
<1>2. OutboxInv => QueuedOnce
  BY DEF OutboxInv, QueuedOnce, EntriesFit, ServerFits, ApplierFits
<1>. QED  BY <1>1, <1>2

LEMMA OutboxInitInv == OutboxInit => OutboxInv
<1>. SUFFICES ASSUME NEW plan \in OutboxPlans, OutboxInitOf(plan) PROVE OutboxInv
  BY DEF OutboxInit
<1>1. PlanTyped
  BY OutboxAssumption DEF OutboxInitOf, PlanTyped
<1>2. FlushesFit /\ EntriesFit
  BY DEF OutboxInitOf, FlushesFit, FlushForm, EntriesFit, EntryRows, AtRest, Unsent
<1>3. ServerFits
  BY OutboxAssumption DEF OutboxInitOf, ServerFits, ApplierFits, Versions
<1>. QED  BY <1>1, <1>2, <1>3 DEF OutboxInv, OutboxInitOf

-----------------------------------------------------------------------------
(* A change at the server.                                                 *)

EndedAs(c, status) == [c EXCEPT ![Len(c)].status = status]

LEMMA EndVersion ==
  ASSUME NEW c \in Versions, c # << >>, NEW status \in {"SUPERSEDED", "CANCELLED"},
         NEW ended, ended = EndedAs(c, status)
  PROVE  /\ ended \in Versions /\ Len(ended) = Len(c) /\ ended # << >>
         /\ DOMAIN ended = 1..Len(c) /\ DOMAIN c = 1..Len(c)
         /\ \A v \in 1..Len(c) : ended[v].key = c[v].key
         /\ ended[Len(c)].status = status
<1>. DEFINE V == [status : {"ACTIVE", "SUPERSEDED", "CANCELLED"}, key : Mutation \cup {NoMutation}]
            last == [c[Len(c)] EXCEPT !.status = status]
<1>1. Len(c) \in Nat \ {0} /\ DOMAIN c = 1..Len(c)
  BY EmptySeq, LenProperties DEF Versions
<1>2. c[Len(c)] \in V
  <2>1. Len(c) \in 1..Len(c) /\ c \in Seq(V)
    BY <1>1 DEF Versions
  <2>. HIDE DEF V
  <2>. QED  BY <2>1, ElementOfSeq
<1>3. last \in V /\ last.key = c[Len(c)].key /\ last.status = status
  BY <1>2
<1>4. ended = [c EXCEPT ![Len(c)] = last]
  BY DEF EndedAs
<1>. HIDE DEF last, V
<1>5. Len(c) \in 1..Len(c) /\ c \in Seq(V)
  BY <1>1 DEF Versions, V
<1>6. /\ ended \in Seq(V) /\ Len(ended) = Len(c)
      /\ \A v \in 1..Len(c) : ended[v] = IF v = Len(c) THEN last ELSE c[v]
  BY <1>3, <1>4, <1>5, ExceptSeq
<1>7. ended \in Versions
  BY <1>6 DEF V, Versions
<1>8. DOMAIN ended = 1..Len(c) /\ ended # << >>
  BY <1>1, <1>6, LenProperties, EmptySeq
<1>9. \A v \in 1..Len(c) : ended[v].key = c[v].key
  BY <1>3, <1>6
<1>10. ended[Len(c)].status = status
  BY <1>3, <1>5, <1>6
<1>. QED  BY <1>1, <1>6, <1>7, <1>8, <1>9, <1>10

LEMMA HandleKeeps ==
  ASSUME OutboxInv, NEW m \in Mutation, Handle(m), UNCHANGED obPlan
  PROVE  /\ created' \subseteq Mutation /\ chain' \in Versions /\ chain' # << >>
         /\ applied' \in [Mutation -> Nat]
         /\ \A n \in Mutation : ApplierFits(n)' /\ (applied[n] = 1 => applied'[n] = 1)
         /\ Accepts(m) => applied'[m] = 1
<1>. DEFINE effective == Accepts(m) /\ ~Repeats(m)
<1>1. /\ chain \in Versions /\ Len(chain) \in Nat \ {0} /\ DOMAIN chain = 1..Len(chain)
      /\ Plan(m) \in [kind : {"CREATE", "SUPERSEDE", "CANCEL"}, expects : Nat]
      /\ applied \in [Mutation -> Nat] /\ created \subseteq Mutation
      /\ \A n \in Mutation : ApplierFits(n)
      /\ \A n \in Mutation : Plan(n)' = Plan(n)
      /\ \A n \in Mutation : Plan(n).kind \in {"CREATE", "SUPERSEDE", "CANCEL"}
  BY EmptySeq, LenProperties DEF OutboxInv, ServerFits, Versions, Plan, PlanTyped
<1>2. CASE ~effective
  <2>1. UNCHANGED <<created, chain, applied>>
    BY <1>2 DEF Handle
  <2>2. \A n \in Mutation : ApplierFits(n)'
    BY <1>1, <2>1 DEF ApplierFits
  <2>3. Accepts(m) => applied[m] = 1
    BY <1>1, <1>2 DEF Repeats, KeyTaken, ApplierFits
  <2>. QED  BY <1>1, <2>1, <2>2, <2>3 DEF OutboxInv, ServerFits
<1>3. CASE effective
  <2>1. applied' = [applied EXCEPT ![m] = @ + 1]
    BY <1>3 DEF Handle
  <2>2. applied[m] = 0
    BY <1>1, <1>3 DEF Repeats, KeyTaken, Accepts, Fits, ApplierFits
  <2>3. CASE Plan(m).kind = "CREATE"
    BY <1>3, <2>3, <1>1, <2>1, <2>2 DEF Handle, ApplierFits, OutboxInv, ServerFits
  <2>4. CASE Plan(m).kind = "SUPERSEDE"
    <3>. DEFINE next == [status |-> "ACTIVE", key |-> m]
                ended == [chain EXCEPT ![Len(chain)].status = "SUPERSEDED"]
    <3>1. created' = created /\ chain' = Append(ended, next)
      BY <1>3, <2>4 DEF Handle
    <3>2. /\ ended \in Versions /\ Len(ended) = Len(chain)
          /\ \A v \in 1..Len(chain) : ended[v].key = chain[v].key
      <4>1. PICK e : e = EndedAs(chain, "SUPERSEDED")
        OBVIOUS
      <4>2. "SUPERSEDED" \in {"SUPERSEDED", "CANCELLED"} /\ chain # << >> /\ chain \in Versions
        BY <1>1 DEF OutboxInv, ServerFits
      <4>3. /\ e \in Versions /\ Len(e) = Len(chain)
            /\ \A v \in 1..Len(chain) : e[v].key = chain[v].key
        BY <4>1, <4>2, EndVersion
      <4>. QED  BY <4>1, <4>3 DEF EndedAs
    <3>3. next \in [status : {"ACTIVE", "SUPERSEDED", "CANCELLED"}, key : Mutation \cup {NoMutation}]
      OBVIOUS
    <3>. HIDE DEF ended
    <3>4. /\ chain' \in Versions /\ Len(chain') = Len(chain) + 1
          /\ \A v \in 1..Len(chain) : chain'[v] = ended[v]
          /\ chain'[Len(chain) + 1] = next
      BY <1>1, <3>1, <3>2, <3>3, AppendProperties DEF Versions
    <3>5. DOMAIN chain' = 1..(Len(chain) + 1) /\ chain' # << >>
      BY <1>1, <3>4, LenProperties, EmptySeq DEF Versions
    <3>6. \A n \in Mutation : (\E v \in DOMAIN chain' : chain'[v].key = n)
                              <=> (\E v \in DOMAIN chain : chain[v].key = n) \/ n = m
      <4>. HIDE DEF next
      <4>1. next.key = m
        BY DEF next
      <4>2. \A v \in 1..Len(chain) : chain'[v].key = chain[v].key
        BY <3>2, <3>4
      <4>3. DOMAIN chain' = 1..Len(chain) \cup {Len(chain) + 1}
        BY <1>1, <3>5
      <4>. QED  BY <1>1, <3>4, <4>1, <4>2, <4>3
    <3>7. chain[Len(chain)].status = "ACTIVE"
      BY <1>3, <2>4 DEF Accepts, Fits
    <3>8. \A n \in Mutation : ApplierFits(n)'
      <4>. SUFFICES ASSUME NEW n \in Mutation PROVE ApplierFits(n)'
        OBVIOUS
      <4>. HIDE DEF effective
      <4>1. applied'[n] = (IF n = m THEN 1 ELSE applied[n])
        BY <1>1, <2>1, <2>2
      <4>2. ApplierFits(n) /\ Plan(n)' = Plan(n)
        BY <1>1
      <4>3. Plan(n).kind = "CANCEL" => applied'[n] # 1
        BY <2>4, <3>7, <4>1, <4>2 DEF ApplierFits
      <4>. QED  BY <2>4, <3>1, <3>6, <4>1, <4>2, <4>3 DEF ApplierFits
    <3>. QED  BY <1>1, <2>1, <2>2, <3>1, <3>4, <3>5, <3>8
  <2>5. CASE Plan(m).kind = "CANCEL"
    <3>1. created' = created /\ chain' = [chain EXCEPT ![Len(chain)].status = "CANCELLED"]
      BY <1>3, <2>5 DEF Handle
    <3>2. /\ chain' \in Versions /\ Len(chain') = Len(chain) /\ chain' # << >>
          /\ DOMAIN chain' = 1..Len(chain) /\ chain'[Len(chain)].status = "CANCELLED"
          /\ \A v \in 1..Len(chain) : chain'[v].key = chain[v].key
      <4>1. PICK e : e = EndedAs(chain, "CANCELLED")
        OBVIOUS
      <4>2. "CANCELLED" \in {"SUPERSEDED", "CANCELLED"} /\ chain # << >> /\ chain \in Versions
        BY <1>1 DEF OutboxInv, ServerFits
      <4>3. /\ e \in Versions /\ Len(e) = Len(chain) /\ e # << >>
            /\ DOMAIN e = 1..Len(chain) /\ e[Len(chain)].status = "CANCELLED"
            /\ \A v \in 1..Len(chain) : e[v].key = chain[v].key
        BY <4>1, <4>2, EndVersion
      <4>. QED  BY <3>1, <4>1, <4>3 DEF EndedAs
    <3>5. \A n \in Mutation : (\E v \in DOMAIN chain' : chain'[v].key = n)
                              <=> (\E v \in DOMAIN chain : chain[v].key = n)
      BY <1>1, <3>2
    <3>6. \A n \in Mutation : ApplierFits(n)'
      <4>. SUFFICES ASSUME NEW n \in Mutation PROVE ApplierFits(n)'
        OBVIOUS
      <4>1. applied'[n] = (IF n = m THEN 1 ELSE applied[n])
        BY <1>1, <2>1, <2>2
      <4>2. ApplierFits(n) /\ Plan(n)' = Plan(n)
        BY <1>1
      <4>. QED  BY <2>5, <3>1, <3>2, <3>5, <4>1, <4>2 DEF ApplierFits
    <3>. QED  BY <1>1, <2>1, <2>2, <3>1, <3>2, <3>6
  <2>. QED  BY <1>1, <2>3, <2>4, <2>5
<1>. QED  BY <1>2, <1>3

-----------------------------------------------------------------------------
(* The steps of the outbox of intents.                                     *)

LEMMA ServerRests ==
  ASSUME ServerFits, UNCHANGED <<created, chain, applied>>, obPlan'.what = obPlan.what
  PROVE  ServerFits'
  BY DEF ServerFits, ApplierFits, Plan

LEMMA PhoneSpendKeeps ==
  ASSUME PlanTyped, NEW what \in {"faults", "lapses"}, Spend(what)
  PROVE  PlanTyped' /\ obPlan'.what = obPlan.what
  BY DEF PlanTyped, Spend

LEMMA CurrentOf ==
  ASSUME FlushesFit, outbox \in Seq(Mutation), NEW f \in Flush, flush[f].pc # "idle"
  PROVE  Current(f) \in flush[f].todo /\ Current(f) \in Mutation
<1>. DEFINE T == {i \in DOMAIN outbox : outbox[i] \in flush[f].todo}
<1>1. DOMAIN outbox \subseteq Nat /\ flush[f].todo # {} /\ flush[f].todo \subseteq Mutation
      /\ flush[f].todo \subseteq EverQueued
  BY LenProperties DEF FlushesFit, FlushForm
<1>2. T \subseteq Nat /\ T # {}
  BY <1>1 DEF EverQueued
<1>3. PICK i \in T : \A j \in T : i <= j
  <2>. HIDE DEF T
  <2>. QED  BY <1>2, LeastExists
<1>4. Place(f) \in T
  BY <1>3 DEF Place
<1>. QED  BY <1>1, <1>4 DEF Current

LEMMA FlushKeeps ==
  ASSUME FlushesFit, outbox \in Seq(Mutation), UNCHANGED outbox, NEW f \in Flush, NEW b,
         flush' = [flush EXCEPT ![f] = b], FlushForm(b),
         b.pc = "ok" => b.todo = flush[f].todo /\ applied'[Current(f)] = 1,
         \A m \in Mutation : applied[m] = 1 => applied'[m] = 1
  PROVE  FlushesFit'
<1>1. /\ flush' = [g \in Flush |-> flush'[g]] /\ flush'[f] = b
      /\ \A g \in Flush \ {f} : flush'[g] = flush[g]
  BY DEF FlushesFit
<1>2. EverQueued' = EverQueued
  BY DEF EverQueued
<1>3. \A g \in Flush : FlushForm(flush'[g])
  BY <1>1 DEF FlushesFit
<1>4. \A g \in Flush : FlushForm(flush[g])'
  BY <1>2, <1>3 DEF FlushForm
<1>5. ASSUME NEW g \in Flush, flush'[g].pc = "ok" PROVE applied'[Current(g)'] = 1
  <2>1. flush'[g].todo = flush[g].todo
    BY <1>1, <1>5
  <2>2. Current(g)' = Current(g)
    BY <2>1 DEF Current, Place
  <2>3. CASE g = f
    BY <1>1, <1>5, <2>2, <2>3
  <2>4. CASE g # f BY <1>1, <1>5, <2>4, CurrentOf, <2>2 DEF FlushesFit
  <2>. QED  BY <2>3, <2>4
<1>. QED  BY <1>1, <1>4, <1>5 DEF FlushesFit

LEMMA FlushRests ==
  ASSUME FlushesFit, outbox \in Seq(Mutation), UNCHANGED <<outbox, flush>>,
         \A m \in Mutation : applied[m] = 1 => applied'[m] = 1
  PROVE  FlushesFit'
<1>1. flush' = [f \in Flush |-> flush'[f]]
  BY DEF FlushesFit
<1>2. \A f \in Flush : FlushForm(flush[f])'
  BY DEF FlushesFit, FlushForm, EverQueued
<1>3. ASSUME NEW f \in Flush, flush'[f].pc = "ok" PROVE applied'[Current(f)'] = 1
  BY <1>3, CurrentOf DEF Current, Place, FlushesFit
<1>. QED  BY <1>1, <1>2, <1>3 DEF FlushesFit

LEMMA GoKeeps ==
  ASSUME FlushesFit, outbox \in Seq(Mutation), UNCHANGED outbox, NEW f \in Flush,
         NEW pc \in {"claim", "send", "ok", "failed"}, Go(f, pc), flush[f].pc # "idle",
         pc = "ok" => applied'[Current(f)] = 1,
         \A m \in Mutation : applied[m] = 1 => applied'[m] = 1
  PROVE  FlushesFit'
<1>. DEFINE b == [flush[f] EXCEPT !.pc = pc]
<1>1. flush' = [flush EXCEPT ![f] = b]
  BY DEF Go
<1>2. FlushForm(b) /\ b.pc = pc /\ b.todo = flush[f].todo
  BY DEF FlushesFit, FlushForm
<1>. HIDE DEF b
<1>. QED  BY <1>1, <1>2, FlushKeeps

LEMMA NextEntryKeeps ==
  ASSUME FlushesFit, outbox \in Seq(Mutation), UNCHANGED <<outbox, applied>>, NEW f \in Flush,
         NextEntry(f)
  PROVE  FlushesFit'
<1>. DEFINE rest == flush[f].todo \ {Current(f)}
            b == IF rest = {} THEN AtRest ELSE [pc |-> "claim", todo |-> rest]
<1>1. flush' = [flush EXCEPT ![f] = b]
  BY DEF NextEntry
<1>2. FlushForm(b) /\ b.pc # "ok"
  BY DEF FlushesFit, FlushForm, AtRest
<1>. HIDE DEF b
<1>. QED  BY <1>1, <1>2, FlushKeeps

LEMMA EntryKeeps ==
  ASSUME EntriesFit, NEW m \in Mutation, NEW row \in EntryRows, UNCHANGED applied,
         entry' = [entry EXCEPT ![m] = row], row.status = "gone" => applied[m] = 1
  PROVE  EntriesFit'
  BY DEF EntriesFit

LEMMA EnqueueKeeps ==
  ASSUME OutboxInv, NEW m \in Mutation, EnqueueIntent(m)
  PROVE  OutboxInv'
<1>1. /\ FlushesFit /\ EntriesFit /\ ServerFits /\ PlanTyped
      /\ outbox \in Seq(Mutation) /\ wire \subseteq Mutation
  BY DEF OutboxInv
<1>2. /\ outbox' = Append(outbox, m) /\ entry' = [entry EXCEPT ![m].status = "PENDING"]
      /\ UNCHANGED <<flush, created, chain, wire, applied, obPlan>>
  BY DEF EnqueueIntent
<1>3. /\ outbox' \in Seq(Mutation) /\ DOMAIN outbox' = DOMAIN outbox \cup {Len(outbox) + 1}
      /\ DOMAIN outbox = 1..Len(outbox) /\ Len(outbox) \in Nat
      /\ \A i \in DOMAIN outbox : outbox'[i] = outbox[i]
  BY <1>1, <1>2, AppendProperties, LenProperties
<1>4. EntriesFit'
  <2>. DEFINE row == [entry[m] EXCEPT !.status = "PENDING"]
  <2>1. row \in EntryRows /\ row.status # "gone" /\ entry' = [entry EXCEPT ![m] = row]
    BY <1>1, <1>2 DEF EntriesFit, EntryRows
  <2>. HIDE DEF row
  <2>. QED  BY <1>1, <1>2, <2>1, EntryKeeps
<1>5. EverQueued \subseteq EverQueued'
  BY <1>3 DEF EverQueued
<1>6. \A f \in Flush : FlushForm(flush[f])'
  BY <1>1, <1>2, <1>5 DEF FlushForm, FlushesFit
<1>7. ASSUME NEW f \in Flush, flush[f].pc = "ok" PROVE Current(f)' = Current(f)
  <2>. DEFINE Foremost(i) == /\ outbox[i] \in flush[f].todo
                          /\ \A j \in DOMAIN outbox : outbox[j] \in flush[f].todo => i <= j
              First1(i) == /\ outbox'[i] \in flush[f].todo
                           /\ \A j \in DOMAIN outbox' : outbox'[j] \in flush[f].todo => i <= j
              T == {i \in DOMAIN outbox : outbox[i] \in flush[f].todo}
  <2>1. T \subseteq Nat /\ T # {}
    BY <1>1, <1>3, <1>7, CurrentOf DEF FlushesFit, FlushForm, EverQueued
  <2>2. PICK k \in T : \A j \in T : k <= j
    <3>. HIDE DEF T
    <3>. QED  BY <2>1, LeastExists
  <2>3. k \in DOMAIN outbox /\ Foremost(k)
    BY <2>2
  <2>4. \A i \in DOMAIN outbox : Foremost(i) => i = k
    <3>. SUFFICES ASSUME NEW i \in DOMAIN outbox, Foremost(i) PROVE i = k
      OBVIOUS
    <3>1. i <= k /\ k <= i
      BY <2>3
    <3>. QED  BY <1>3, <2>3, <3>1
  <2>5. \A i \in DOMAIN outbox' : First1(i) <=> i = k
    <3>1. First1(k)
      <4>. SUFFICES ASSUME NEW j \in DOMAIN outbox', outbox'[j] \in flush[f].todo PROVE k <= j
        BY <1>3, <2>3
      <4>. QED  BY <1>3, <2>3
    <3>2. ASSUME NEW i \in DOMAIN outbox', First1(i) PROVE i = k BY <1>3, <2>3, <3>2, <2>4
    <3>. QED  BY <3>1, <3>2
  <2>6. k \in DOMAIN outbox'
    BY <2>3, <1>3
  <2>7. Place(f) = k
    BY <2>3, <2>4 DEF Place
  <2>8. Place(f)' = k
    BY <1>2, <2>5, <2>6 DEF Place
  <2>. QED  BY <1>3, <2>3, <2>7, <2>8 DEF Current
<1>8. FlushesFit'
  BY <1>1, <1>2, <1>6, <1>7 DEF FlushesFit
<1>9. ServerFits' /\ PlanTyped' /\ wire' \subseteq Mutation
  BY <1>1, <1>2, ServerRests DEF PlanTyped
<1>. QED  BY <1>3, <1>4, <1>8, <1>9 DEF OutboxInv

LEMMA LoadKeeps ==
  ASSUME OutboxInv, NEW f \in Flush, LoadPending(f)
  PROVE  OutboxInv'
<1>. DEFINE due == {m \in EverQueued : Loadable(m)}
            b == [pc |-> "claim", todo |-> due]
<1>1. /\ FlushesFit /\ EntriesFit /\ ServerFits /\ PlanTyped
      /\ outbox \in Seq(Mutation) /\ wire \subseteq Mutation
  BY DEF OutboxInv
<1>2. /\ due # {} /\ flush' = [flush EXCEPT ![f] = b]
      /\ entry' = [m \in Mutation |-> IF Stale(m) THEN [entry[m] EXCEPT !.status = "PENDING"]
                                       ELSE entry[m]]
      /\ UNCHANGED <<outbox, created, chain, wire, applied, obPlan>>
  BY DEF LoadPending
<1>3. due \subseteq Mutation
  BY <1>1, LenProperties DEF EverQueued
<1>4. FlushForm(b) /\ b.pc # "ok"
  BY <1>2, <1>3 DEF FlushForm
<1>. HIDE DEF due, b
<1>5. FlushesFit'
  BY <1>1, <1>2, <1>4, FlushKeeps
<1>6. EntriesFit'
  BY <1>1, <1>2 DEF EntriesFit, EntryRows
<1>7. ServerFits' /\ PlanTyped' /\ wire' \subseteq Mutation /\ outbox' \in Seq(Mutation)
  BY <1>1, <1>2, ServerRests DEF PlanTyped
<1>. QED  BY <1>5, <1>6, <1>7 DEF OutboxInv

\* The steps of a flush, and what becomes of its request.
LEMMA FlushStepKeeps ==
  ASSUME OutboxInv, NEW f \in Flush, Flushing(f) \/ RequestFails(f)
  PROVE  OutboxInv'
<1>. DEFINE m == Current(f)
<1>1. /\ FlushesFit /\ EntriesFit /\ ServerFits /\ PlanTyped
      /\ outbox \in Seq(Mutation) /\ wire \subseteq Mutation
  BY DEF OutboxInv
<1>2. flush[f].pc # "idle" /\ UNCHANGED outbox
  BY DEF Flushing, ClaimEntry, SyncOperation, AcknowledgeIntent, FailIntent, RequestFails, At
<1>3. m \in Mutation
  BY <1>1, <1>2, CurrentOf
<1>4. CASE ClaimEntry(f)
  <2>1. UNCHANGED <<created, chain, wire, applied, obPlan>>
    BY <1>4 DEF ClaimEntry
  <2>2. ServerFits' /\ PlanTyped' /\ wire' \subseteq Mutation /\ outbox' \in Seq(Mutation)
    BY <1>1, <1>2, <2>1, ServerRests DEF PlanTyped
  <2>3. CASE NextEntry(f) /\ UNCHANGED entry
    BY <1>1, <1>2, <2>1, <2>3, NextEntryKeeps, <2>2 DEF EntriesFit, OutboxInv
  <2>4. CASE /\ entry' = [entry EXCEPT ![m] = [status |-> "CLAIMED", fresh |-> TRUE]]
             /\ Go(f, "send")
    <3>1. FlushesFit'
      BY <1>1, <1>2, <2>1, <2>4, GoKeeps
    <3>2. PICK row : row = [status |-> "CLAIMED", fresh |-> TRUE]
      OBVIOUS
    <3>3. row \in EntryRows /\ row.status # "gone"
      BY <3>2 DEF EntryRows
    <3>4. EntriesFit'
      BY <1>1, <1>3, <2>1, <2>4, <3>2, <3>3, EntryKeeps
    <3>. QED  BY <2>2, <3>1, <3>4 DEF OutboxInv
  <2>. QED  BY <1>4, <2>3, <2>4 DEF ClaimEntry
<1>5. CASE SyncOperation(f)
  <2>1. /\ Handle(m) /\ Go(f, IF Accepts(m) THEN "ok" ELSE "failed")
        /\ UNCHANGED <<entry, wire, obPlan>>
    BY <1>5 DEF SyncOperation
  <2>. HIDE DEF m
  <2>2. /\ created' \subseteq Mutation /\ chain' \in Versions /\ chain' # << >>
        /\ applied' \in [Mutation -> Nat]
        /\ \A n \in Mutation : ApplierFits(n)' /\ (applied[n] = 1 => applied'[n] = 1)
        /\ Accepts(m) => applied'[m] = 1
    BY <1>3, <2>1, HandleKeeps
  <2>3. ServerFits'
    BY <2>2 DEF ServerFits
  <2>4. EntriesFit'
    BY <1>1, <2>1, <2>2 DEF EntriesFit
  <2>5. CASE Accepts(m)
    <3>1. Go(f, "ok") /\ applied'[Current(f)] = 1
      BY <2>1, <2>2, <2>5 DEF m
    <3>. QED  BY <1>1, <1>2, <2>1, <2>2, <2>3, <2>4, <3>1, GoKeeps DEF OutboxInv, PlanTyped
  <2>6. CASE ~Accepts(m)
    <3>1. Go(f, "failed")
      BY <2>1, <2>6
    <3>2. FlushesFit'
      BY <1>1, <1>2, <2>2, <3>1, GoKeeps
    <3>. QED  BY <1>1, <1>2, <2>1, <2>3, <2>4, <3>2 DEF OutboxInv, PlanTyped
  <2>. QED  BY <2>5, <2>6
<1>6. CASE AcknowledgeIntent(f)
  <2>1. /\ entry' = [entry EXCEPT ![m] = [status |-> "gone", fresh |-> FALSE]]
        /\ NextEntry(f) /\ UNCHANGED <<created, chain, wire, applied, obPlan>>
        /\ flush[f].pc = "ok"
    BY <1>6 DEF AcknowledgeIntent, At
  <2>2. applied[m] = 1
    BY <1>1, <2>1 DEF FlushesFit
  <2>3. PICK row : row = [status |-> "gone", fresh |-> FALSE]
    OBVIOUS
  <2>4. row \in EntryRows
    BY <2>3 DEF EntryRows
  <2>. HIDE DEF m
  <2>5. EntriesFit'
    BY <1>1, <1>3, <2>1, <2>2, <2>3, <2>4, EntryKeeps
  <2>6. FlushesFit'
    BY <1>1, <1>2, <2>1, NextEntryKeeps
  <2>7. ServerFits' /\ PlanTyped' /\ wire' \subseteq Mutation /\ outbox' \in Seq(Mutation)
    BY <1>1, <1>2, <2>1, ServerRests DEF PlanTyped
  <2>. QED  BY <2>5, <2>6, <2>7 DEF OutboxInv
<1>7. CASE FailIntent(f)
  <2>1. /\ entry' = IF entry[m].status = "gone" THEN entry
                    ELSE [entry EXCEPT ![m] = [status |-> "FAILED", fresh |-> FALSE]]
        /\ NextEntry(f) /\ UNCHANGED <<created, chain, wire, applied, obPlan>>
    BY <1>7 DEF FailIntent
  <2>2. PICK row : row = [status |-> "FAILED", fresh |-> FALSE]
    OBVIOUS
  <2>3. row \in EntryRows /\ row.status # "gone"
    BY <2>2 DEF EntryRows
  <2>. HIDE DEF m
  <2>6. EntriesFit' BY <1>1, <2>1, <1>3, <2>3, EntryKeeps, <2>2 DEF EntriesFit
  <2>7. FlushesFit'
    BY <1>1, <1>2, <2>1, NextEntryKeeps
  <2>8. ServerFits' /\ PlanTyped' /\ wire' \subseteq Mutation /\ outbox' \in Seq(Mutation)
    BY <1>1, <1>2, <2>1, ServerRests DEF PlanTyped
  <2>. QED  BY <2>6, <2>7, <2>8 DEF OutboxInv
<1>8. CASE RequestFails(f)
  <2>1. /\ Spend("faults") /\ Go(f, "failed") /\ UNCHANGED <<entry, created, chain, applied>>
        /\ wire' = wire \/ wire' = wire \cup {m}
    BY <1>8 DEF RequestFails
  <2>2. PlanTyped' /\ obPlan'.what = obPlan.what
    BY <1>1, <2>1, PhoneSpendKeeps
  <2>. HIDE DEF m
  <2>3. FlushesFit'
    BY <1>1, <1>2, <2>1, GoKeeps
  <2>4. ServerFits' /\ EntriesFit' /\ wire' \subseteq Mutation
    BY <1>1, <1>3, <2>1, <2>2, ServerRests DEF EntriesFit
  <2>. QED  BY <1>1, <1>2, <2>2, <2>3, <2>4 DEF OutboxInv
<1>. QED  BY <1>4, <1>5, <1>6, <1>7, <1>8 DEF Flushing

LEMMA OthersKeep ==
  ASSUME OutboxInv,
         \/ \E m \in Mutation : ClaimAges(m) \/ ArriveLate(m)
         \/ AppKilled
         \/ UNCHANGED outboxVars
  PROVE  OutboxInv'
<1>1. /\ FlushesFit /\ EntriesFit /\ ServerFits /\ PlanTyped
      /\ outbox \in Seq(Mutation) /\ wire \subseteq Mutation
  BY DEF OutboxInv
<1>2. ASSUME NEW m \in Mutation, ClaimAges(m) PROVE OutboxInv'
  <2>1. /\ entry' = [entry EXCEPT ![m].fresh = FALSE] /\ entry[m].status = "CLAIMED"
        /\ UNCHANGED <<outbox, flush, created, chain, wire, applied>>
        /\ Spend("lapses") \/ UNCHANGED obPlan
    BY <1>2 DEF ClaimAges
  <2>2. PlanTyped' /\ obPlan'.what = obPlan.what
    BY <1>1, <2>1, PhoneSpendKeeps DEF PlanTyped
  <2>3. EntriesFit'
    <3>. DEFINE row == [entry[m] EXCEPT !.fresh = FALSE]
    <3>1. row \in EntryRows /\ row.status # "gone" /\ entry' = [entry EXCEPT ![m] = row]
      BY <1>1, <2>1 DEF EntriesFit, EntryRows
    <3>. HIDE DEF row
    <3>. QED  BY <1>1, <2>1, <3>1, EntryKeeps
  <2>4. FlushesFit'
    BY <1>1, <2>1, FlushRests
  <2>5. ServerFits'
    BY <1>1, <2>1, <2>2, ServerRests
  <2>. QED  BY <1>1, <2>1, <2>2, <2>3, <2>4, <2>5 DEF OutboxInv
<1>3. ASSUME NEW m \in Mutation, ArriveLate(m) PROVE OutboxInv'
  BY <1>3, HandleKeeps, <1>1, FlushRests DEF ArriveLate, ServerFits, EntriesFit, OutboxInv,
     PlanTyped
<1>4. CASE AppKilled
  <2>. DEFINE sent == {Current(f) : f \in {g \in Flush : At(g, "send")}}
  <2>1. /\ Spend("faults") /\ flush' = [f \in Flush |-> AtRest]
        /\ \E some \in SUBSET sent : wire' = wire \cup some
        /\ UNCHANGED <<outbox, entry, created, chain, applied>>
    BY <1>4 DEF AppKilled
  <2>2. sent \subseteq Mutation
    BY <1>1, CurrentOf DEF At
  <2>3. PlanTyped' /\ obPlan'.what = obPlan.what
    BY <1>1, <2>1, PhoneSpendKeeps
  <2>4. FlushesFit'
    BY <2>1 DEF FlushesFit, FlushForm, AtRest
  <2>. HIDE DEF sent
  <2>5. ServerFits' /\ EntriesFit' /\ wire' \subseteq Mutation
    BY <1>1, <2>1, <2>2, <2>3, ServerRests DEF EntriesFit
  <2>. QED  BY <1>1, <2>1, <2>3, <2>4, <2>5 DEF OutboxInv
<1>5. CASE UNCHANGED outboxVars
  BY <1>1, <1>5, ServerRests, FlushRests DEF EntriesFit, PlanTyped, outboxVars, OutboxInv
<1>. QED  BY <1>2, <1>3, <1>4, <1>5

LEMMA OutboxNextInv == OutboxInv /\ [OutboxNext]_outboxVars => OutboxInv'
  BY EnqueueKeeps, LoadKeeps, FlushStepKeeps, OthersKeep DEF OutboxNext

-----------------------------------------------------------------------------
(* The outbox of observations.                                             *)

\* The rows, and what the outbox may have forgotten.
ObservationsFit ==
  /\ sequence \in Nat /\ box \subseteq 1..sequence /\ Cardinality(box) <= MAX_OBSERVATIONS
  /\ recorded \subseteq 1..sequence /\ lost \subseteq 1..sequence
  /\ obsLeft \in [observations : Nat, faults : Nat]
Remembered == 1..sequence \subseteq box \cup recorded \cup lost
MeasuredOnce ==
  /\ projected \in Seq(Nat) /\ Len(projected) = sequence
  /\ \A n \in 1..sequence : projected[n] <= 1 /\ (n \notin recorded => projected[n] = 0)

\* A request under way: the watermark has no gap below it, and the request that made a
\* record is the one that measures it.
UploadForm(b) ==
  /\ b \in [pc : {"idle", "check", "create", "project", "answer", "ack", "refuse"},
            sent : SUBSET (1..sequence), todo : SUBSET (1..sequence),
            refused : SUBSET (1..sequence), through : 0..sequence]
  /\ b.pc \in {"check", "create", "project"} => b.todo # {}
  /\ b.pc = "ack" => 1..b.through \subseteq recorded
  /\ b.pc = "project" => Least(b.todo) \in recorded /\ projected[Least(b.todo)] = 0
UploadsFit ==
  /\ upload = [f \in Uploader |-> upload[f]]
  /\ \A f \in Uploader : UploadForm(upload[f])
  /\ \A f, g \in Uploader : upload[f].pc = "project" /\ upload[g].pc = "project" /\ f # g
                              => Item(f) # Item(g)

ObservationInv == ObservationsFit /\ Remembered /\ MeasuredOnce /\ UploadsFit

LEMMA ObservationHolds == ObservationInv => ObservationTypeOK /\ ForgottenIsRecorded
<1>. SUFFICES ASSUME ObservationInv PROVE ObservationTypeOK /\ ForgottenIsRecorded
  OBVIOUS
<1>1. projected \in [1..sequence -> Nat]
  BY LenProperties DEF ObservationInv, MeasuredOnce
<1>2. upload \in [Uploader ->
       [pc : {"idle", "check", "create", "project", "answer", "ack", "refuse"},
        sent : SUBSET (1..sequence), todo : SUBSET (1..sequence),
        refused : SUBSET (1..sequence), through : 0..sequence]]
  BY DEF ObservationInv, UploadsFit, UploadForm
<1>3. ObservationTypeOK
  BY <1>1, <1>2 DEF ObservationInv, ObservationsFit, ObservationTypeOK
<1>4. ForgottenIsRecorded
  BY DEF ObservationInv, Remembered, MeasuredOnce, ForgottenIsRecorded
<1>. QED  BY <1>3, <1>4

LEMMA ObservationInitInv ==
  ASSUME ObservationInit
  PROVE  ObservationInv
<1>. PICK bounds \in ObservationPlans : ObservationInitOf(bounds)
  BY DEF ObservationInit
<1>1. ObservationsFit /\ Remembered
  BY FS_EmptySet, ObservationLimits DEF ObservationInitOf, ObservationsFit, Remembered
<1>2. MeasuredOnce
  BY EmptySeq DEF ObservationInitOf, MeasuredOnce
<1>3. UploadsFit
  BY DEF ObservationInitOf, UploadsFit, UploadForm, NotUploading
<1>. QED  BY <1>1, <1>2, <1>3 DEF ObservationInv

\* The newest few of a set: no more than the outbox holds, and the newest among them.
LEMMA NewestFit ==
  ASSUME NEW T \in SUBSET Nat, IsFiniteSet(T)
  PROVE  NewestOf(T) \subseteq T /\ Cardinality(NewestOf(T)) <= MAX_OBSERVATIONS
<1>. DEFINE kept == NewestOf(T)
<1>1. kept \subseteq T /\ IsFiniteSet(kept)
  BY FS_Subset DEF NewestOf
<1>2. CASE kept = {}
  BY <1>2, FS_EmptySet, ObservationLimits
<1>3. CASE kept # {}
  <2>1. PICK n \in kept : \A k \in kept : n <= k
    <3>1. kept \subseteq Nat
      BY <1>1
    <3>. HIDE DEF kept
    <3>. QED  BY <1>3, <3>1, LeastExists
  <2>2. kept \subseteq Later(T, n) \cup {n}
    <3>1. kept \subseteq Nat
      BY <1>1
    <3>2. ASSUME NEW k \in kept, k # n PROVE k \in Later(T, n)
      BY <1>1, <2>1, <3>1, <3>2 DEF Later
    <3>. QED  BY <3>2
  <2>3. IsFiniteSet(Later(T, n)) /\ Cardinality(Later(T, n)) < MAX_OBSERVATIONS
    BY <2>1, FS_Subset DEF Later, NewestOf
  <2>4. /\ IsFiniteSet(Later(T, n) \cup {n}) /\ Cardinality(Later(T, n)) \in Nat
        /\ Cardinality(Later(T, n) \cup {n}) <= Cardinality(Later(T, n)) + 1
    <3>1. PICK L : L = Later(T, n)
      OBVIOUS
    <3>2. IsFiniteSet(L) /\ Cardinality(L) \in Nat
      BY <2>3, <3>1, FS_CardinalityType
    <3>3. /\ IsFiniteSet(L \cup {n})
          /\ Cardinality(L \cup {n}) = IF n \in L THEN Cardinality(L) ELSE Cardinality(L) + 1
      BY <3>2, FS_AddElement
    <3>4. Cardinality(L \cup {n}) <= Cardinality(L) + 1
      BY <3>2, <3>3
    <3>. QED  BY <3>1, <3>2, <3>3, <3>4
  <2>5. Cardinality(kept) <= Cardinality(Later(T, n) \cup {n})
    BY <2>2, <2>4, FS_Subset
  <2>6. Cardinality(kept) \in Nat /\ Cardinality(Later(T, n) \cup {n}) \in Nat
    BY <1>1, <2>4, FS_CardinalityType
  <2>7. Cardinality(Later(T, n)) + 1 <= MAX_OBSERVATIONS
    BY <2>3, <2>4, ObservationLimits
  <2>8. MAX_OBSERVATIONS \in Nat
    BY ObservationLimits
  <2>. HIDE DEF kept
  <2>9. Cardinality(kept) <= MAX_OBSERVATIONS
    BY <2>4, <2>5, <2>6, <2>7, <2>8
  <2>. QED  BY <1>1, <2>9 DEF kept
<1>. QED  BY <1>1, <1>2, <1>3

LEMMA NewestKept ==
  ASSUME NEW T \in SUBSET Nat, NEW n \in T, \A k \in T : k <= n
  PROVE  n \in NewestOf(T)
<1>1. Later(T, n) = {}
  <2>1. ASSUME NEW k \in T PROVE ~(k > n) OBVIOUS
  <2>. QED  BY <2>1 DEF Later
<1>. QED  BY <1>1, FS_EmptySet, ObservationLimits DEF NewestOf

LEMMA BatchFit ==
  ASSUME NEW T \in SUBSET Nat, T # {}
  PROVE  OldestOf(T) \subseteq T /\ OldestOf(T) # {}
<1>1. PICK n \in T : \A k \in T : n <= k
  BY LeastExists
<1>2. T \ Later(T, n) = {n}
  <2>1. ASSUME NEW k \in T PROVE k > n <=> k # n BY <1>1
  <2>. QED  BY <1>1, <2>1 DEF Later
<1>3. n \in OldestOf(T)
  BY <1>2, FS_Singleton, ObservationLimits DEF OldestOf
<1>. QED  BY <1>3 DEF OldestOf

LEMMA WatermarkFits ==
  ASSUME ObservationsFit
  PROVE  ContiguousThrough \in 0..sequence /\ 1..ContiguousThrough \subseteq recorded
<1>. DEFINE T == {n \in 0..sequence : n + 1 \notin recorded}
<1>1. T \subseteq Nat /\ sequence \in T /\ sequence \in Nat
  BY DEF ObservationsFit
<1>2. /\ ContiguousThrough \in T
      /\ \A m \in T : ContiguousThrough <= m
  <2>1. ContiguousThrough = Least(T)
    BY DEF ContiguousThrough
  <2>. HIDE DEF T
  <2>. QED  BY <1>1, <2>1, LeastIs
<1>3. ASSUME NEW k \in 1..ContiguousThrough PROVE k \in recorded BY <1>1, <1>2
<1>. QED  BY <1>2, <1>3

LEMMA ItemOf ==
  ASSUME ObservationInv, NEW f \in Uploader, upload[f].todo # {}
  PROVE  Item(f) \in upload[f].todo /\ Item(f) \in 1..sequence
BY LeastIs DEF ObservationInv, UploadsFit, UploadForm, Item

\* What becomes of the requests when one of them moves.
LEMMA UploadMoves ==
  ASSUME ObservationInv, NEW f \in Uploader, NEW b, upload' = [upload EXCEPT ![f] = b],
         UploadForm(b)', sequence' = sequence, recorded \subseteq recorded',
         \A g \in Uploader \ {f} : upload[g].pc = "project" =>
            /\ projected'[Item(g)] = 0
            /\ b.pc = "project" => Item(g) # Least(b.todo)
  PROVE  UploadsFit'
BY DEF ObservationInv, UploadsFit, Item, UploadForm

\* The usual case: only the request moves.
LEMMA OneUploadMoves ==
  ASSUME ObservationInv, NEW f \in Uploader, NEW b, upload' = [upload EXCEPT ![f] = b],
         UploadForm(b), b.pc # "project", UNCHANGED <<sequence, recorded, projected>>
  PROVE  UploadsFit'
BY UploadMoves DEF UploadForm, ObservationInv, UploadsFit, Item

LEMMA IdleForm == ObservationInv => UploadForm(NotUploading)
  BY DEF ObservationInv, ObservationsFit, UploadForm, NotUploading

\* What an observation that is done with leaves of its request.
LEMMA ItemDoneForm ==
  ASSUME ObservationInv, NEW f \in Uploader, upload[f].todo # {}, NEW poison \in SUBSET {Item(f)},
         ItemDone(f, poison)
  PROVE  \E b : UploadForm(b) /\ b.pc \in {"check", "answer"} /\ upload' = [upload EXCEPT ![f] = b]
<1>. DEFINE rest == upload[f].todo \ {Item(f)}
            pc == IF rest = {} THEN "answer" ELSE "check"
            b == [upload[f] EXCEPT !.todo = rest, !.refused = @ \cup poison, !.pc = pc]
<1>1. upload' = [upload EXCEPT ![f] = b]
  BY DEF ItemDone, ObservationInv, UploadsFit, UploadForm
<1>2. UploadForm(upload[f]) /\ Item(f) \in 1..sequence
  BY ItemOf DEF ObservationInv, UploadsFit
<1>3. UploadForm(b) /\ b.pc \in {"check", "answer"}
  BY <1>2 DEF UploadForm
<1>. HIDE DEF b
<1>. QED  BY <1>1, <1>3

LEMMA RecordKeeps == ASSUME ObservationInv, RecordObservation PROVE ObservationInv'
<1>. DEFINE n == sequence + 1  T == box \cup {n}  kept == NewestOf(T)
<1>1. /\ sequence \in Nat /\ box \subseteq 1..sequence /\ recorded \subseteq 1..sequence
      /\ lost \subseteq 1..sequence /\ 1..sequence \subseteq box \cup recorded \cup lost
      /\ obsLeft \in [observations : Nat, faults : Nat]
  BY DEF ObservationInv, ObservationsFit, Remembered
<1>2. /\ sequence' = n /\ projected' = Append(projected, 0)
      /\ box' \subseteq kept /\ lost' = lost \cup (box \ box')
      /\ (n \in kept => n \in box')
      /\ obsLeft' \in [observations : Nat, faults : Nat]
      /\ UNCHANGED <<upload, recorded>>
  <2>1. /\ sequence' = n /\ projected' = Append(projected, 0) /\ obsLeft.observations > 0
        /\ UNCHANGED <<upload, recorded>>
    BY DEF RecordObservation
  <2>2. CASE /\ box' = kept /\ lost' = lost \cup (box \ kept)
             /\ obsLeft' = [obsLeft EXCEPT !.observations = @ - 1]
    BY <1>1, <2>1, <2>2
  <2>3. ASSUME NEW old \in box, obsLeft.faults > 0,
               box' = Later(kept, old), lost' = lost \cup (box \ box'),
               obsLeft' = [observations |-> obsLeft.observations - 1,
                           faults |-> obsLeft.faults - 1]
        PROVE  /\ box' \subseteq kept /\ lost' = lost \cup (box \ box')
               /\ (n \in kept => n \in box')
               /\ obsLeft' \in [observations : Nat, faults : Nat]
    <3>1. n > old
      BY <1>1
    <3>. HIDE DEF kept, n
    <3>. QED  BY <1>1, <2>1, <2>3, <3>1 DEF Later
  <2>4. \/ /\ box' = kept /\ lost' = lost \cup (box \ kept)
           /\ obsLeft' = [obsLeft EXCEPT !.observations = @ - 1]
        \/ /\ obsLeft.faults > 0
           /\ \E old \in box : box' = Later(kept, old) /\ lost' = lost \cup (box \ box')
           /\ obsLeft' = [observations |-> obsLeft.observations - 1,
                          faults |-> obsLeft.faults - 1]
    BY DEF RecordObservation
  <2>. HIDE DEF kept, n
  <2>. QED  BY <2>1, <2>2, <2>3, <2>4
<1>3. T \in SUBSET Nat /\ IsFiniteSet(T) /\ n \in T /\ \A k \in T : k <= n
  <2>1. IsFiniteSet(1..n) /\ n \in Nat /\ 1..n \subseteq Nat
    <3>1. n \in Nat
      BY <1>1
    <3>. HIDE DEF n
    <3>2. IsFiniteSet(1..n)
      BY <3>1, FS_Interval
    <3>. QED  BY <3>1, <3>2
  <2>2. T \in SUBSET (1..n) /\ n \in T
    BY <1>1
  <2>3. IsFiniteSet(T)
    <3>. HIDE DEF T, n
    <3>. QED  BY <2>1, <2>2, FS_Subset
  <2>4. \A k \in 1..n : k <= n
    BY <2>1
  <2>. HIDE DEF T, n
  <2>. QED  BY <2>1, <2>2, <2>3, <2>4
<1>4. kept \subseteq T /\ Cardinality(kept) <= MAX_OBSERVATIONS /\ n \in kept
  <2>. HIDE DEF T, n
  <2>. QED  BY <1>3, NewestFit, NewestKept
<1>. HIDE DEF kept
<1>5. IsFiniteSet(kept) /\ Cardinality(box') <= MAX_OBSERVATIONS
  BY <1>3, <1>4, FS_Subset, <1>2, FS_CardinalityType, ObservationLimits
<1>6. 1..n = 1..sequence \cup {n}
  BY <1>1
<1>7. ObservationsFit' /\ Remembered'
  BY <1>1, <1>2, <1>4, <1>5, <1>6 DEF ObservationsFit, Remembered
<1>8. projected \in Seq(Nat) /\ Len(projected) = sequence
  BY DEF ObservationInv, MeasuredOnce
<1>9. /\ projected' \in Seq(Nat) /\ Len(projected') = n /\ projected'[n] = 0
      /\ \A i \in 1..sequence : projected'[i] = projected[i]
  <2>1. projected' = Append(projected, 0)
    BY <1>2
  <2>2. 0 \in Nat
    OBVIOUS
  <2>3. /\ Append(projected, 0) \in Seq(Nat) /\ Len(Append(projected, 0)) = Len(projected) + 1
        /\ \A i \in 1..Len(projected) : Append(projected, 0)[i] = projected[i]
        /\ Append(projected, 0)[Len(projected) + 1] = 0
    BY <1>8, <2>2, AppendProperties
  <2>4. n = sequence + 1
    OBVIOUS
  <2>. HIDE DEF n
  <2>. QED  BY <1>8, <2>1, <2>3, <2>4
<1>10. MeasuredOnce'
  BY <1>2, <1>6, <1>9 DEF ObservationInv, MeasuredOnce
<1>11. UploadsFit'
  BY <1>1, <1>2, <1>6, <1>9 DEF ObservationInv, UploadsFit, UploadForm, Item
<1>. QED  BY <1>7, <1>10, <1>11 DEF ObservationInv

LEMMA RecordDiesKeeps == ASSUME ObservationInv, RecordDies PROVE ObservationInv'
<1>. DEFINE n == sequence + 1
<1>1. /\ sequence \in Nat /\ box \subseteq 1..sequence /\ recorded \subseteq 1..sequence
      /\ lost \subseteq 1..sequence /\ 1..sequence \subseteq box \cup recorded \cup lost
      /\ obsLeft \in [observations : Nat, faults : Nat]
      /\ projected \in Seq(Nat) /\ Len(projected) = sequence
      /\ Cardinality(box) <= MAX_OBSERVATIONS
  BY DEF ObservationInv, ObservationsFit, Remembered, MeasuredOnce
<1>2. /\ sequence' = n /\ projected' = Append(projected, 0) /\ lost' = lost \cup {n}
      /\ upload' = [f \in Uploader |-> NotUploading]
      /\ obsLeft' \in [observations : Nat, faults : Nat] /\ UNCHANGED <<box, recorded>>
  BY <1>1 DEF RecordDies
<1>3. 1..n = 1..sequence \cup {n}
  BY <1>1
<1>4. /\ projected' \in Seq(Nat) /\ Len(projected') = n /\ projected'[n] = 0
      /\ \A i \in 1..sequence : projected'[i] = projected[i]
  BY <1>1, <1>2, AppendProperties
<1>5. MeasuredOnce'
  BY <1>2, <1>3, <1>4 DEF ObservationInv, MeasuredOnce
<1>6. ObservationsFit' /\ Remembered'
  BY <1>1, <1>2, <1>3 DEF ObservationsFit, Remembered
<1>7. UploadsFit'
  BY <1>1, <1>2 DEF UploadsFit, UploadForm, NotUploading
<1>. QED  BY <1>5, <1>6, <1>7 DEF ObservationInv

\* The steps of one upload.
LEMMA UploadStepKeeps ==
  ASSUME ObservationInv, NEW f \in Uploader, StartUpload(f) \/ Uploading(f) \/ UploadFails(f)
  PROVE  ObservationInv'
<1>1. /\ sequence \in Nat /\ box \subseteq 1..sequence /\ recorded \subseteq 1..sequence
      /\ lost \subseteq 1..sequence /\ 1..sequence \subseteq box \cup recorded \cup lost
      /\ UploadForm(upload[f]) /\ IsFiniteSet(box) /\ ObservationsFit
  <2>1. sequence \in Nat /\ box \subseteq 1..sequence
    BY DEF ObservationInv, ObservationsFit
  <2>2. IsFiniteSet(box)
    <3>1. IsFiniteSet(1..sequence) /\ box \in SUBSET (1..sequence)
      BY <2>1, FS_Interval
    <3>. QED  BY <3>1, FS_Subset
  <2>. QED  BY <2>2 DEF ObservationInv, ObservationsFit, Remembered, UploadsFit
<1>2. Fault => obsLeft' \in [observations : Nat, faults : Nat]
  BY DEF Fault, ObservationInv, ObservationsFit
<1>3. ASSUME NEW now \in SUBSET box, box' = now,
             UNCHANGED sequence, recorded \subseteq recorded', recorded' \subseteq 1..sequence,
             lost \subseteq lost', lost' \subseteq 1..sequence,
             box \ now \subseteq recorded' \cup lost',
             obsLeft' \in [observations : Nat, faults : Nat]
      PROVE  ObservationsFit' /\ Remembered'
  <2>1. Cardinality(now) <= Cardinality(box) /\ IsFiniteSet(now)
    BY <1>1, <1>3, FS_Subset
  <2>2. Cardinality(now) \in Nat /\ Cardinality(box) \in Nat /\ Cardinality(box) <= MAX_OBSERVATIONS
    BY <1>1, <2>1, FS_CardinalityType DEF ObservationsFit
  <2>3. Cardinality(box') <= MAX_OBSERVATIONS
    BY <1>3, <2>1, <2>2, ObservationLimits
  <2>. QED  BY <1>1, <1>3, <2>3 DEF ObservationsFit, Remembered
<1>4. obsLeft \in [observations : Nat, faults : Nat]
  BY <1>1 DEF ObservationsFit
<1>5. CASE StartUpload(f)
  <2>. DEFINE b == [NotUploading EXCEPT !.pc = "check", !.sent = OldestOf(box),
                                        !.todo = OldestOf(box)]
  <2>1. /\ upload' = [upload EXCEPT ![f] = b] /\ box # {}
        /\ UNCHANGED <<sequence, box, recorded, projected, lost, obsLeft>>
    BY <1>5 DEF StartUpload
  <2>2. OldestOf(box) \subseteq 1..sequence /\ OldestOf(box) # {} BY <1>1, <2>1, BatchFit
  <2>3. UploadForm(b) /\ b.pc # "project"
    <3>1. PICK batch : batch = OldestOf(box)
      OBVIOUS
    <3>2. batch \subseteq 1..sequence /\ batch # {} /\ 0 \in 0..sequence
      BY <1>1, <2>2, <3>1
    <3>3. b = [NotUploading EXCEPT !.pc = "check", !.sent = batch, !.todo = batch]
      BY <3>1
    <3>. HIDE DEF b
    <3>4. /\ b.pc = "check" /\ b.sent = batch /\ b.todo = batch /\ b.refused = {} /\ b.through = 0
          /\ b = [pc |-> b.pc, sent |-> b.sent, todo |-> b.todo, refused |-> b.refused,
                  through |-> b.through]
      BY <3>3 DEF NotUploading
    <3>. QED  BY <3>2, <3>4 DEF UploadForm
  <2>. HIDE DEF b
  <2>4. UploadsFit'
    BY <2>1, <2>3, OneUploadMoves
  <2>5. MeasuredOnce'
    BY <2>1 DEF ObservationInv, MeasuredOnce
  <2>. QED  BY <1>1, <1>3, <1>4, <2>1, <2>4, <2>5 DEF ObservationInv
<1>6. CASE UploadFails(f)
  BY <1>6, IdleForm, OneUploadMoves, <1>1, <1>2, <1>3 DEF UploadFails, NotUploading, ObservationInv,
     MeasuredOnce
<1>7. CASE CheckDuplicate(f)
  <2>1. /\ upload[f].pc = "check" /\ upload[f].todo # {}
        /\ UNCHANGED <<sequence, box, recorded, projected, lost, obsLeft>>
        /\ ItemDone(f, {}) \/ upload' = [upload EXCEPT ![f].pc = "create"]
    BY <1>1, <1>7 DEF CheckDuplicate, UploadForm
  <2>2. UploadsFit'
    <3>1. CASE ItemDone(f, {})
      <4>1. {} \in SUBSET {Item(f)}
        OBVIOUS
      <4>2. PICK b : UploadForm(b) /\ b.pc \in {"check", "answer"} /\ upload' = [upload EXCEPT ![f] = b]
        BY <2>1, <3>1, <4>1, ItemDoneForm
      <4>. QED  BY <2>1, <4>2, OneUploadMoves
    <3>2. CASE upload' = [upload EXCEPT ![f].pc = "create"]
      <4>. DEFINE b == [upload[f] EXCEPT !.pc = "create"]
      <4>1. upload' = [upload EXCEPT ![f] = b]
        BY <3>2
      <4>2. UploadForm(b) /\ b.pc # "project"
        BY <1>1, <2>1 DEF UploadForm
      <4>. HIDE DEF b
      <4>. QED  BY <2>1, <4>1, <4>2, OneUploadMoves
    <3>. QED  BY <2>1, <3>1, <3>2
  <2>3. MeasuredOnce'
    BY <2>1 DEF ObservationInv, MeasuredOnce
  <2>. QED  BY <1>1, <1>3, <1>4, <2>1, <2>2, <2>3 DEF ObservationInv
<1>8. CASE CreateRecord(f)
  <2>1. /\ upload[f].pc = "create" /\ upload[f].todo # {} /\ Item(f) \in 1..sequence
        /\ UNCHANGED <<sequence, box, projected, lost>>
    BY <1>1, <1>8, ItemOf DEF CreateRecord, UploadForm
  <2>2. CASE /\ UNCHANGED recorded /\ obsLeft' \in [observations : Nat, faults : Nat]
             /\ \E poison \in SUBSET {Item(f)} : ItemDone(f, poison)
    <3>1. PICK poison \in SUBSET {Item(f)} : ItemDone(f, poison)
      BY <2>2
    <3>2. PICK b : UploadForm(b) /\ b.pc \in {"check", "answer"} /\ upload' = [upload EXCEPT ![f] = b]
      BY <2>1, <3>1, ItemDoneForm
    <3>3. UploadsFit'
      BY <2>1, <2>2, <3>2, OneUploadMoves
    <3>4. MeasuredOnce'
      BY <2>1, <2>2 DEF ObservationInv, MeasuredOnce
    <3>. QED  BY <1>1, <1>3, <2>1, <2>2, <3>3, <3>4 DEF ObservationInv
  <2>3. CASE /\ Item(f) \notin recorded /\ recorded' = recorded \cup {Item(f)}
             /\ upload' = [upload EXCEPT ![f].pc = "project"] /\ UNCHANGED obsLeft
    <3>. PICK b : b = [upload[f] EXCEPT !.pc = "project"]
      OBVIOUS
    <3>1. upload' = [upload EXCEPT ![f] = b] /\ b.pc = "project" /\ Least(b.todo) = Item(f)
      BY <1>1, <2>3 DEF Item, UploadForm
    <3>2. projected[Item(f)] = 0
      BY <2>1, <2>3 DEF ObservationInv, MeasuredOnce
    <3>3. UploadForm(b)'
      BY <1>1, <2>1, <2>3, <3>1, <3>2 DEF UploadForm
    <3>4. \A g \in Uploader \ {f} : upload[g].pc = "project" =>
             projected'[Item(g)] = 0 /\ Item(g) # Item(f)
      BY <2>1, <2>3 DEF ObservationInv, UploadsFit, UploadForm, Item
    <3>5. UploadsFit'
      <4>1. sequence' = sequence /\ recorded \subseteq recorded'
        BY <2>1, <2>3
      <4>2. \A g \in Uploader \ {f} : upload[g].pc = "project" =>
               projected'[Item(g)] = 0 /\ (b.pc = "project" => Item(g) # Least(b.todo))
        BY <3>1, <3>4
      <4>. QED  BY <3>1, <3>3, <4>1, <4>2, UploadMoves
    <3>6. MeasuredOnce'
      BY <2>1, <2>3 DEF ObservationInv, MeasuredOnce
    <3>. QED  BY <1>1, <1>3, <1>4, <2>1, <2>3, <3>5, <3>6 DEF ObservationInv
  <2>. QED  BY <1>2, <1>4, <1>8, <2>2, <2>3 DEF CreateRecord
<1>9. CASE Project(f)
  <2>1. /\ upload[f].pc = "project" /\ upload[f].todo # {} /\ Item(f) \in 1..sequence
        /\ Item(f) \in recorded /\ projected[Item(f)] = 0
        /\ UNCHANGED <<sequence, box, recorded, lost>> /\ ItemDone(f, {})
        /\ obsLeft' \in [observations : Nat, faults : Nat]
        /\ projected' = [projected EXCEPT ![Item(f)] = @ + 1] \/ UNCHANGED projected
    BY <1>1, <1>2, <1>4, <1>9, ItemOf DEF Project, UploadForm, Item
  <2>2. {} \in SUBSET {Item(f)}
    OBVIOUS
  <2>3. PICK b : UploadForm(b) /\ b.pc \in {"check", "answer"} /\ upload' = [upload EXCEPT ![f] = b]
    BY <2>1, <2>2, ItemDoneForm
  <2>4. /\ projected \in Seq(Nat) /\ Len(projected) = sequence
        /\ DOMAIN projected = 1..sequence
    BY LenProperties DEF ObservationInv, MeasuredOnce
  <2>5. /\ projected' \in Seq(Nat) /\ Len(projected') = sequence
        /\ \A n \in 1..sequence : n # Item(f) => projected'[n] = projected[n]
        /\ projected'[Item(f)] \in {0, 1}
    <3>1. CASE UNCHANGED projected
      BY <2>1, <2>4, <3>1
    <3>2. CASE projected' = [projected EXCEPT ![Item(f)] = @ + 1]
      <4>1. PICK i : i = Item(f)
        OBVIOUS
      <4>2. projected' = [projected EXCEPT ![i] = 1] /\ i \in 1..Len(projected) /\ 1 \in Nat
        BY <2>1, <2>4, <3>2, <4>1
      <4>3. /\ projected' \in Seq(Nat) /\ Len(projected') = Len(projected)
            /\ \A j \in 1..Len(projected) : projected'[j] = IF j = i THEN 1 ELSE projected[j]
        BY <2>4, <4>2, ExceptSeq
      <4>. QED  BY <2>1, <2>4, <4>1, <4>3
    <3>. QED  BY <2>1, <3>1, <3>2
  <2>6. \A g \in Uploader \ {f} : upload[g].pc = "project" => projected'[Item(g)] = 0
    <3>. SUFFICES ASSUME NEW g \in Uploader \ {f}, upload[g].pc = "project"
                  PROVE  projected'[Item(g)] = 0
      OBVIOUS
    <3>1. Item(g) # Item(f) /\ projected[Item(g)] = 0 /\ upload[g].todo # {}
      BY <2>1 DEF ObservationInv, UploadsFit, UploadForm, Item
    <3>2. Item(g) \in 1..sequence
      BY <3>1, ItemOf
    <3>. QED  BY <2>5, <3>1, <3>2
  <2>7. UploadForm(b)'
    BY <2>1, <2>3 DEF UploadForm
  <2>8. UploadsFit'
    BY <2>1, <2>3, <2>6, <2>7, UploadMoves
  <2>9. MeasuredOnce'
    BY <1>1, <2>1, <2>5 DEF ObservationInv, MeasuredOnce
  <2>. QED  BY <1>1, <1>3, <2>1, <2>8, <2>9 DEF ObservationInv
<1>10. CASE AnswerBatch(f)
  <2>. DEFINE b == [upload[f] EXCEPT !.pc = "ack", !.through = ContiguousThrough]
  <2>1. /\ upload' = [upload EXCEPT ![f] = b]
        /\ UNCHANGED <<sequence, box, recorded, projected, lost, obsLeft>>
    BY <1>1, <1>10 DEF AnswerBatch, UploadForm, ObservationInv, UploadsFit
  <2>2. UploadForm(b) /\ b.pc # "project"
    BY <1>1, WatermarkFits DEF UploadForm
  <2>. HIDE DEF b
  <2>3. UploadsFit'
    BY <2>1, <2>2, OneUploadMoves
  <2>4. MeasuredOnce'
    BY <2>1 DEF ObservationInv, MeasuredOnce
  <2>. QED  BY <1>1, <1>3, <1>4, <2>1, <2>3, <2>4 DEF ObservationInv
<1>11. CASE DropAcknowledged(f)
  <2>. DEFINE b == [upload[f] EXCEPT !.pc = "refuse"]
  <2>1. /\ upload[f].pc = "ack" /\ upload' = [upload EXCEPT ![f] = b]
        /\ box' = {n \in box : n \notin upload[f].sent \/ n > upload[f].through}
        /\ UNCHANGED <<sequence, recorded, projected, lost, obsLeft>>
    BY <1>11 DEF DropAcknowledged
  <2>2. UploadForm(b) /\ b.pc # "project"
    BY <1>1 DEF UploadForm
  <2>. HIDE DEF b
  <2>3. UploadsFit'
    BY <2>1, <2>2, OneUploadMoves
  <2>4. MeasuredOnce'
    BY <2>1 DEF ObservationInv, MeasuredOnce
  <2>5. box \ box' \subseteq recorded BY <1>1, <2>1 DEF UploadForm
  <2>. QED  BY <1>1, <1>3, <1>4, <2>1, <2>3, <2>4, <2>5 DEF ObservationInv
<1>12. CASE DropRefused(f)
  <2>1. /\ upload' = [upload EXCEPT ![f] = NotUploading]
        /\ box' = box \ upload[f].refused /\ lost' = lost \cup (upload[f].refused \ recorded)
        /\ UNCHANGED <<sequence, recorded, projected, obsLeft>>
        /\ upload[f].refused \subseteq 1..sequence
    BY <1>1, <1>12 DEF DropRefused, UploadForm
  <2>2. UploadsFit'
    BY <2>1, IdleForm, OneUploadMoves DEF NotUploading
  <2>3. MeasuredOnce'
    BY <2>1 DEF ObservationInv, MeasuredOnce
  <2>. QED  BY <1>1, <1>3, <1>4, <2>1, <2>2, <2>3 DEF ObservationInv
<1>. QED  BY <1>5, <1>6, <1>7, <1>8, <1>9, <1>10, <1>11, <1>12 DEF Uploading

LEMMA ObservationNextInv ==
  ObservationInv /\ [ObservationNext]_observationVars => ObservationInv'
<1>1. ASSUME ObservationInv, ObservationNext PROVE ObservationInv'
  BY <1>1, RecordKeeps, RecordDiesKeeps, UploadStepKeeps DEF ObservationNext
<1>2. ASSUME ObservationInv, UNCHANGED observationVars PROVE ObservationInv'
  <2>1. UploadsFit' /\ ObservationsFit'
    BY <1>2 DEF ObservationInv, observationVars, ObservationsFit, UploadsFit, UploadForm, Item
  <2>2. Remembered' /\ MeasuredOnce'
    BY <1>2 DEF ObservationInv, observationVars, Remembered, MeasuredOnce
  <2>. QED  BY <1>2, <2>1, <2>2 DEF ObservationInv, observationVars
<1>. QED  BY <1>1, <1>2

-----------------------------------------------------------------------------
\* PhoneSpec: whatever is lost, delayed, killed or sent twice, each of the two outboxes of
\* the phone forgets only what the server has taken, and no change takes effect and no
\* observation is measured twice (intent-outbox.ts, outbox.ts, edge-ingestion.ts).
THEOREM OutboxesAreKept == PhoneSpec => []OutboxesForgetNothing
<1>. DEFINE Inv == OutboxInv /\ ObservationInv
            phoneVars == <<outboxVars, observationVars>>
<1>1. PhoneInit => Inv
  BY OutboxInitInv, ObservationInitInv DEF PhoneInit
<1>2. Inv /\ [PhoneNext]_phoneVars => Inv'
  BY OutboxNextInv, ObservationNextInv DEF PhoneNext
<1>3. Inv => OutboxesForgetNothing
  BY OutboxHolds, ObservationHolds DEF OutboxesForgetNothing
<1>. QED  BY <1>1, <1>2, <1>3, PTL DEF PhoneSpec
-----------------------------------------------------------------------------
(* IntentEvents: the chain of versions.                                    *)

\* What is asked of the intent, and what VersionChain says apart from its types.
EventRow == [version : Nat, state : EventState, claim : Nat, live : BOOLEAN, attempts : Nat]
Ask == {plan.asks[c] : plan \in ChangePlans, c \in Change}
IntentKey == {NoKey} \cup {asks.key : asks \in Ask}
VersionRow == [status : IntentState, key : IntentKey]

\* A change that is about to write has read a version that there is.
SeenExists == \A c \in Change : chg[c].pc = "write" => chg[c].seen \in DOMAIN version

EventInv ==
  /\ version \in Seq(VersionRow) /\ Len(version) > 0
  /\ event \in Seq(EventRow)
  /\ chg \in [Change -> [asks : Ask, seen : Nat, pc : {"key", "read", "write", "done"}]]
  /\ SeenExists
  /\ VersionChain

LEMMA EventInitInv == EventInit => EventInv
<1>. SUFFICES ASSUME EventInit PROVE EventInv
  OBVIOUS
<1>1. PICK plan \in ChangePlans : EventInitOf(plan)
  BY DEF EventInit
<1>2. [status |-> "ACTIVE", key |-> NoKey] \in VersionRow
  BY DEF VersionRow, IntentState, IntentKey
<1>3. version \in Seq(VersionRow) /\ Len(version) = 1
  BY <1>1, <1>2 DEF EventInitOf
<1>4. Waiting(1) \in EventRow
  BY DEF Waiting, EventRow, EventState
<1>5. event \in Seq(EventRow) /\ Len(event) = 1 /\ event[1] = Waiting(1)
  BY <1>1, <1>4 DEF EventInitOf
<1>6. \A c \in Change : plan.asks[c] \in Ask
  BY DEF Ask
<1>7. chg \in [Change -> [asks : Ask, seen : Nat, pc : {"key", "read", "write", "done"}]]
  BY <1>1, <1>6 DEF EventInitOf
<1>8. SeenExists
  BY <1>1 DEF EventInitOf, SeenExists
<1>9. VersionChain
  BY <1>1, <1>3, <1>5 DEF EventInitOf, VersionChain, Newest, Waiting
<1>. QED  BY <1>3, <1>5, <1>7, <1>8, <1>9 DEF EventInv

\* The steps that leave the versions alone, and every event's version.
LEMMA SameVersions ==
  ASSUME EventInv, version' = version, event' \in Seq(EventRow), Len(event') = Len(event),
         \A e \in DOMAIN event : event'[e].version = event[e].version
  PROVE  VersionChain'
<1>1. DOMAIN event' = DOMAIN event /\ Newest' = Newest
  BY DEF EventInv, Newest
<1>2. ASSUME NEW v \in DOMAIN version
      PROVE  \E e \in DOMAIN event' : event'[e].version = v
  <2>1. PICK e \in DOMAIN event : event[e].version = v
    BY DEF EventInv, VersionChain
  <2>. QED  BY <1>1, <2>1
<1>. QED  BY <1>1, <1>2 DEF EventInv, VersionChain

LEMMA QueueKeepsChain ==
  ASSUME EventInv, UNCHANGED <<version, chg>>, event' \in Seq(EventRow),
         Len(event') = Len(event),
         \A e \in DOMAIN event : event'[e].version = event[e].version
  PROVE  EventInv'
BY SameVersions DEF EventInv, SeenExists

\* An update of one event, whatever its index, that keeps its version.
LEMMA OneEvent ==
  ASSUME EventInv, UNCHANGED <<version, chg>>, NEW e, NEW row,
         e \in DOMAIN event => row \in EventRow /\ row.version = event[e].version,
         event' = [event EXCEPT ![e] = row]
  PROVE  EventInv'
<1>1. event \in Seq(EventRow) /\ DOMAIN event = 1..Len(event)
  BY DEF EventInv
<1>2. CASE e \in DOMAIN event BY <1>1, <1>2, ExceptSeq, QueueKeepsChain
<1>3. CASE e \notin DOMAIN event
  <2>1. event' = event
    BY <1>1, <1>3
  <2>. QED  BY <1>1, <2>1, QueueKeepsChain
<1>. QED  BY <1>2, <1>3

LEMMA SameQueue ==
  ASSUME EventInv, UNCHANGED <<version, event, chg>>
  PROVE  EventInv'
BY QueueKeepsChain DEF EventInv

LEMMA ChangeOnly ==
  ASSUME EventInv, UNCHANGED <<version, event>>, NEW c \in Change,
         NEW pc \in {"key", "read", "done"}, ChangeAt(c, pc)
  PROVE  EventInv'
BY SameVersions DEF EventInv, ChangeAt, SeenExists

LEMMA CheckKeyInv ==
  ASSUME EventInv, NEW c \in Change, CheckKey(c) PROVE EventInv'
BY ChangeOnly DEF CheckKey

LEMMA ReadVersionInv ==
  ASSUME EventInv, NEW c \in Change, ReadVersion(c) PROVE EventInv'
<1>1. CASE chg' = [chg EXCEPT ![c].pc = "write", ![c].seen = Newest]
  <2>1. Newest \in Nat /\ Newest \in DOMAIN version
    BY DEF EventInv, Newest
  <2>2. /\ chg' \in [Change -> [asks : Ask, seen : Nat, pc : {"key", "read", "write", "done"}]]
        /\ SeenExists'
    BY <1>1, <2>1 DEF EventInv, SeenExists, ReadVersion
  <2>3. VersionChain'
    BY SameVersions DEF EventInv, ReadVersion
  <2>. QED  BY <2>2, <2>3 DEF EventInv, ReadVersion
<1>2. CASE ChangeAt(c, "done")
  BY <1>2, ChangeOnly DEF ReadVersion
<1>. QED  BY <1>1, <1>2 DEF ReadVersion

\* Of the versions, only the newest can be active.
LEMMA ActiveIsNewest ==
  ASSUME EventInv, NEW v, Active(v)
  PROVE  v = Newest
<1>1. version \in Seq(VersionRow) /\ DOMAIN version = 1..Len(version) /\ Len(version) \in Nat
  BY DEF EventInv
<1>2. v \in 1..Len(version) /\ version[v].status # "SUPERSEDED"
  BY <1>1 DEF Active
<1>3. \A u \in DOMAIN version : u < Len(version) => version[u].status = "SUPERSEDED"
  BY <1>1 DEF EventInv, VersionChain, Newest
<1>4. ~(v < Len(version))
  BY <1>1, <1>2, <1>3
<1>5. \A n \in Nat : \A u \in 1..n : ~(u < n) => u = n
  OBVIOUS
<1>6. v = Len(version)
  BY <1>1, <1>2, <1>4, <1>5
<1>. QED  BY <1>6 DEF Newest

\* The newest version's status is written, to one of those that end it.
LEMMA EndsVersion ==
  ASSUME EventInv, NEW s \in {"CANCELLED", "EXPIRED"},
         version' = [version EXCEPT ![Newest].status = s],
         event' \in Seq(EventRow), Len(event') >= Len(event),
         \A e \in DOMAIN event : event'[e].version = event[e].version
  PROVE  version' \in Seq(VersionRow) /\ Len(version') = Len(version) /\ VersionChain'
<1>1. /\ version \in Seq(VersionRow) /\ Newest \in DOMAIN version
      /\ DOMAIN version = 1..Len(version) /\ Len(version) \in Nat
  BY DEF EventInv, Newest
<1>. DEFINE row == [version[Newest] EXCEPT !.status = s]
<1>2. version[Newest] \in VersionRow /\ row \in VersionRow
  <2>1. version[Newest] \in VersionRow
    BY <1>1
  <2>. QED  BY <2>1 DEF VersionRow, IntentState
<1>3. version' = [version EXCEPT ![Newest] = row]
  BY <1>1
<1>4. /\ version' \in Seq(VersionRow) /\ Len(version') = Len(version)
      /\ \A v \in DOMAIN version : version'[v] = IF v = Newest THEN row ELSE version[v]
  BY <1>1, <1>2, <1>3, ExceptSeq
<1>5. DOMAIN version' = DOMAIN version /\ DOMAIN event \subseteq DOMAIN event'
  BY <1>1, <1>4 DEF EventInv
<1>6. \A v \in DOMAIN version : \E e \in DOMAIN event' : event'[e].version = v
  BY <1>5 DEF EventInv, VersionChain
<1>7. Newest' = Newest
  BY <1>4 DEF Newest
<1>8. \A v \in DOMAIN version : version'[v].key = version[v].key
  BY <1>1, <1>4 DEF VersionRow
<1>9. \A v \in DOMAIN version : /\ v < Newest => version'[v].status = "SUPERSEDED"
                                /\ v = Newest => version'[v].status # "SUPERSEDED"
  BY <1>1, <1>4 DEF EventInv, VersionChain, VersionRow
<1>10. \A v, u \in DOMAIN version :
         version[v].key = version[u].key /\ version[v].key # NoKey => v = u
  BY DEF EventInv, VersionChain
<1>11. VersionChain'
  <2>. HIDE DEF row
  <2>. QED  BY <1>5, <1>6, <1>7, <1>8, <1>9, <1>10 DEF VersionChain
<1>. QED  BY <1>4, <1>11

LEMMA ExpireInv ==
  ASSUME EventInv, Expire PROVE EventInv'
BY EndsVersion DEF EventInv, Expire, SeenExists

\* Emitting an event leaves those there are, and adds one of the version.
LEMMA EmittedAdds ==
  ASSUME EventInv, NEW v \in Nat, event' = Emitted(v)
  PROVE  /\ event' \in Seq(EventRow) /\ Len(event') = Len(event) + 1
         /\ \A e \in DOMAIN event : e \in DOMAIN event' /\ event'[e].version = event[e].version
         /\ \E e \in DOMAIN event' : event'[e].version = v
<1>1. Waiting(v) \in EventRow /\ Waiting(v).version = v
  BY DEF Waiting, EventRow, EventState
<1>2. event \in Seq(EventRow) /\ Len(event) \in Nat
  BY DEF EventInv
<1>3. /\ event' \in Seq(EventRow) /\ Len(event') = Len(event) + 1
      /\ \A e \in 1..Len(event) : event'[e] = event[e]
      /\ event'[Len(event) + 1] = Waiting(v)
  BY <1>1, <1>2, AppendProperties DEF Emitted
<1>4. DOMAIN event = 1..Len(event) /\ DOMAIN event' = 1..(Len(event) + 1)
  BY <1>2, <1>3
<1>. QED  BY <1>1, <1>2, <1>3, <1>4

LEMMA DoneOnly ==
  ASSUME EventInv, NEW c \in Change, ChangeAt(c, "done"),
         version' \in Seq(VersionRow), Len(version') >= Len(version)
  PROVE  /\ chg' \in [Change -> [asks : Ask, seen : Nat, pc : {"key", "read", "write", "done"}]]
         /\ SeenExists'
BY DEF EventInv, ChangeAt, SeenExists

LEMMA CancelInv ==
  ASSUME EventInv, NEW c \in Change, Cancel(c) PROVE EventInv'
<1>. DEFINE v == chg[c].seen
<1>1. CASE Active(v)
  BY <1>1, ActiveIsNewest, EmittedAdds, EndsVersion, DoneOnly DEF EventInv, Newest, Cancel
<1>2. CASE ~Active(v)
  BY <1>2, ChangeOnly DEF Cancel
<1>. QED  BY <1>1, <1>2

LEMMA SupersedeInv ==
  ASSUME EventInv, NEW c \in Change, Supersede(c) PROVE EventInv'
<1>. DEFINE v == chg[c].seen  k == Asks(c).key
            superseded == [version EXCEPT ![v].status = "SUPERSEDED"]
            next == [status |-> "ACTIVE", key |-> k]
<1>1. CASE Active(v) /\ ~KeyUsed(k)
  <2>1. /\ version \in Seq(VersionRow) /\ Len(version) \in Nat /\ v = Len(version)
        /\ v \in Nat /\ DOMAIN version = 1..Len(version) /\ v \in DOMAIN version
    BY <1>1, ActiveIsNewest DEF EventInv, Newest, Active
  <2>2. version' = Append(superseded, next) /\ event' = Emitted(v + 1)
    BY <1>1 DEF Supersede
  <2>3. k \in IntentKey
    BY DEF EventInv, Asks, IntentKey
  <2>4. next \in VersionRow
    BY <2>3 DEF VersionRow, IntentState
  <2>5. version[v] \in VersionRow
    BY <2>1
  <2>6. [version[v] EXCEPT !.status = "SUPERSEDED"] \in VersionRow
    BY <2>5 DEF VersionRow, IntentState
  <2>7. superseded = [version EXCEPT ![v] = [version[v] EXCEPT !.status = "SUPERSEDED"]]
    BY <2>1
  <2>8. /\ superseded \in Seq(VersionRow) /\ Len(superseded) = Len(version)
        /\ \A u \in 1..Len(version) : superseded[u] =
             IF u = v THEN [version[v] EXCEPT !.status = "SUPERSEDED"] ELSE version[u]
    BY <2>1, <2>6, <2>7, ExceptSeq
  <2>9. /\ version' \in Seq(VersionRow) /\ Len(version') = Len(version) + 1
        /\ \A u \in 1..Len(version) : version'[u] = superseded[u]
        /\ version'[Len(version) + 1] = next
    BY <2>2, <2>4, <2>8, AppendProperties
  <2>10. DOMAIN version' = 1..(Len(version) + 1) /\ Newest' = Len(version) + 1
    BY <2>1, <2>9 DEF Newest
  <2>11. /\ event' \in Seq(EventRow)
         /\ \A e \in DOMAIN event : e \in DOMAIN event' /\ event'[e].version = event[e].version
         /\ \E e \in DOMAIN event' : event'[e].version = v + 1
    BY <2>1, <2>2, EmittedAdds
  <2>12. /\ \A u \in 1..Len(version) : version'[u].status = "SUPERSEDED"
         /\ \A u \in 1..Len(version) : version'[u].key = version[u].key
    BY <2>1, <2>5, <2>8, <2>9 DEF EventInv, VersionChain, Newest, VersionRow
  <2>13. version'[Len(version) + 1].status = "ACTIVE" /\ version'[Len(version) + 1].key = k
    BY <2>9
  <2>14. \A u \in 1..Len(version) : \E e \in DOMAIN event' : event'[e].version = u
    BY <2>1, <2>11 DEF EventInv, VersionChain
  <2>15. k # NoKey => \A u \in 1..Len(version) : version[u].key # k
    BY <1>1, <2>1 DEF KeyUsed
  <2>16. ASSUME NEW u \in DOMAIN version'
         PROVE  /\ u < Newest' => version'[u].status = "SUPERSEDED"
                /\ u = Newest' => version'[u].status # "SUPERSEDED"
                /\ \E e \in DOMAIN event' : event'[e].version = u
    <3>1. CASE u \in 1..Len(version)
      BY <2>1, <2>10, <2>12, <2>14, <3>1
    <3>2. CASE u = Len(version) + 1
      BY <2>1, <2>10, <2>11, <2>13, <3>2
    <3>. QED  BY <2>1, <2>10, <3>1, <3>2
  <2>17. \A u, x \in DOMAIN version' :
            version'[u].key = version'[x].key /\ version'[u].key # NoKey => u = x
    <3>. SUFFICES ASSUME NEW u \in DOMAIN version', NEW x \in DOMAIN version',
                         version'[u].key = version'[x].key, version'[u].key # NoKey
                  PROVE  u = x
      OBVIOUS
    <3>1. CASE u \in 1..Len(version) /\ x \in 1..Len(version)
      BY <2>1, <2>12, <3>1 DEF EventInv, VersionChain
    <3>2. CASE u = Len(version) + 1 \/ x = Len(version) + 1
      BY <2>1, <2>10, <2>12, <2>13, <2>15, <3>2
    <3>. QED  BY <2>1, <2>10, <3>1, <3>2
  <2>18. VersionChain'
    BY <2>16, <2>17 DEF VersionChain
  <2>19. Len(version') >= Len(version) /\ Len(version') > 0
    BY <2>1, <2>9
  <2>20. /\ chg' \in [Change -> [asks : Ask, seen : Nat, pc : {"key", "read", "write", "done"}]]
         /\ SeenExists'
    BY <2>9, <2>19, DoneOnly DEF Supersede
  <2>. QED  BY <2>9, <2>11, <2>18, <2>19, <2>20 DEF EventInv
<1>2. CASE ~(Active(v) /\ ~KeyUsed(k))
  BY <1>2, ChangeOnly DEF Supersede
<1>. QED  BY <1>1, <1>2

\* What an evaluator or the reclaim does to one event.
LEMMA ClaimEventInv ==
  ASSUME EventInv, NEW w \in Evaluator, NEW e \in DOMAIN event, ClaimEvent(w, e)
  PROVE  EventInv'
<1>. DEFINE n == event[e].attempts + 1
            row == [event[e] EXCEPT !.state = "CLAIMED", !.claim = n, !.live = TRUE,
                                    !.attempts = n]
<1>1. event \in Seq(EventRow) /\ event[e] \in EventRow
  BY DEF EventInv
<1>2. row \in EventRow /\ row.version = event[e].version
  <2>1. n \in Nat
    BY <1>1 DEF EventRow
  <2>. QED  BY <1>1, <2>1 DEF EventRow, EventState
<1>3. event' = [event EXCEPT ![e] = row] /\ UNCHANGED <<version, chg>>
  BY <1>1 DEF ClaimEvent
<1>. HIDE DEF row
<1>. QED  BY <1>2, <1>3, OneEvent

LEMMA FinishInv ==
  ASSUME EventInv, NEW w \in Evaluator, NEW pc,
         NEW to \in {"COMPLETED", "FAILED", "DEAD_LETTER"}, Finish(w, pc, to)
  PROVE  EventInv'
<1>. DEFINE e == eva[w].event
            row == [event[e] EXCEPT !.state = to,
                                    !.live = IF to = "FAILED" THEN TRUE ELSE @]
<1>1. event \in Seq(EventRow)
  BY DEF EventInv
<1>2. e \in DOMAIN event => row \in EventRow /\ row.version = event[e].version
  <2>. SUFFICES ASSUME e \in DOMAIN event
                PROVE  row \in EventRow /\ row.version = event[e].version
    OBVIOUS
  <2>1. event[e] \in EventRow
    BY <1>1
  <2>. QED  BY <2>1 DEF EventRow, EventState
<1>3. CASE event[e].claim = eva[w].claim
  <2>1. event' = [event EXCEPT ![e] = row]
    BY <1>1, <1>3 DEF Finish
  <2>2. UNCHANGED <<version, chg>>
    BY DEF Finish
  <2>. HIDE DEF row, e
  <2>. QED  BY <1>2, <2>1, <2>2, OneEvent
<1>4. CASE event[e].claim # eva[w].claim
  BY <1>4, SameQueue DEF Finish
<1>. QED  BY <1>3, <1>4

LEMMA EventLeaseLapsesInv ==
  ASSUME EventInv, NEW e \in DOMAIN event, EventLeaseLapses(e)
  PROVE  EventInv'
<1>. DEFINE row == [event[e] EXCEPT !.live = FALSE]
<1>1. event \in Seq(EventRow) /\ event[e] \in EventRow
  BY DEF EventInv
<1>2. row \in EventRow /\ row.version = event[e].version
  BY <1>1 DEF EventRow
<1>3. event' = [event EXCEPT ![e] = row]
  BY <1>1 DEF EventLeaseLapses
<1>. QED  BY <1>2, <1>3, OneEvent DEF EventLeaseLapses

LEMMA ReclaimEventInv ==
  ASSUME EventInv, ReclaimEvent
  PROVE  EventInv'
<1>. DEFINE e == reclaimer.event
            dead == [event[e] EXCEPT !.state = "DEAD_LETTER"]
            again == [event[e] EXCEPT !.state = "PENDING", !.claim = 0]
<1>1. event \in Seq(EventRow)
  BY DEF EventInv
<1>2. e \in DOMAIN event => /\ dead \in EventRow /\ dead.version = event[e].version
                            /\ again \in EventRow /\ again.version = event[e].version
  <2>. SUFFICES ASSUME e \in DOMAIN event
                PROVE  /\ dead \in EventRow /\ dead.version = event[e].version
                       /\ again \in EventRow /\ again.version = event[e].version
    OBVIOUS
  <2>1. event[e] \in EventRow
    BY <1>1
  <2>. QED  BY <2>1 DEF EventRow, EventState
<1>3. \/ event' = [event EXCEPT ![e] = dead]
      \/ event' = [event EXCEPT ![e] = again]
  BY <1>1 DEF ReclaimEvent
<1>. QED  BY <1>2, <1>3, OneEvent DEF ReclaimEvent

LEMMA EventStep == EventInv /\ [EventNext]_evVars => EventInv'
<1>. SUFFICES ASSUME EventInv, [EventNext]_evVars PROVE EventInv'
  OBVIOUS
<1>1. ASSUME NEW c \in Change, Changing(c) PROVE EventInv'
  BY <1>1, CheckKeyInv, ReadVersionInv, SupersedeInv, CancelInv DEF Changing
<1>2. CASE Expire
  BY <1>2, ExpireInv
<1>3. ASSUME NEW w \in Evaluator, ClaimSome(w) PROVE EventInv'
  BY <1>3, ClaimEventInv DEF ClaimSome
<1>4. ASSUME NEW w \in Evaluator, Evaluating(w) PROVE EventInv'
  BY SameQueue, FinishInv, <1>4 DEF RereadClaim, Evaluate, CompleteEvent, FailEvent, Evaluating
<1>5. ASSUME NEW w \in Evaluator, EvaluatorCrash(w) PROVE EventInv'
  BY <1>5, SameQueue DEF EvaluatorCrash
<1>6. CASE LapseSome
  BY <1>6, EventLeaseLapsesInv DEF LapseSome
<1>7. ASSUME NEW e \in DOMAIN event, FindExpired(e) PROVE EventInv'
  BY <1>7, SameQueue DEF FindExpired
<1>8. CASE ReclaimEvent
  BY <1>8, ReclaimEventInv
<1>9. CASE UNCHANGED evVars
  BY <1>9, SameQueue DEF evVars
<1>. QED  BY <1>1, <1>2, <1>3, <1>4, <1>5, <1>6, <1>7, <1>8, <1>9 DEF EventNext

\* Whatever number of changes, cancellations and expiries race: only the newest version
\* of an intent is not SUPERSEDED, every version has an event in the queue that will
\* see it evaluated, and no idempotency key made two versions (supersedeIntent,
\* cancelIntent, expireStaleIntents).
THEOREM IntentVersionsFormAChain == EventSpec => []VersionChain
<1>1. EventInv => VersionChain
  BY DEF EventInv
<1>. QED  BY <1>1, EventInitInv, EventStep, PTL DEF EventSpec

===============================================================================
