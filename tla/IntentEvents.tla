----------------------------- MODULE IntentEvents -----------------------------
(***************************************************************************)
(* The versions of one connectivity intent and the queue of re-evaluation  *)
(* events they leave behind: supersession and cancellation (a read and a   *)
(* guarded transaction each), the workers that claim and evaluate events,  *)
(* and the cron job that reclaims what they leave.                         *)
(*                                                                         *)
(* Source: src/src/lib/control-plane (intent-service, reevaluation).  The  *)
(* claim id of an event is the number of the attempt that wrote it.        *)
(***************************************************************************)
EXTENDS Naturals, Sequences, FiniteSets

CONSTANTS
  Change,             \* calls of createIntent with supersedesIntentId, or of cancelIntent
  ChangePlans,        \* what they ask for (kind, idempotency key, expected version),
                      \* with the bounds on lapses and faults that go with it
  Evaluator,          \* processes running processOneEvent
  NoKey, NoVersion,   \* an argument left out
  EVENT_MAX_ATTEMPTS

VARIABLES
  version,    \* ConnectivityIntentRecord rows of the intent, by version
  event,      \* ReevaluationEvent rows, in the order of their creation
  chg,        \* per change: what it asks for, program counter, version read
  eva,        \* per evaluator: program counter, event, claim id and attempt
  reclaimer,  \* reclaimExpiredClaims, between its read and its write
  evaluated,  \* history: versions an event was evaluated for
  evLeft      \* bounds left: leases that lapse although their worker lives;
              \* crashes, evaluations that throw, expiries

evVars == <<version, event, chg, eva, reclaimer, evaluated, evLeft>>

IntentState == {"ACTIVE", "SUPERSEDED", "CANCELLED", "EXPIRED"}
EventState == {"PENDING", "CLAIMED", "COMPLETED", "FAILED", "DEAD_LETTER"}
Waiting(v) == [version |-> v, state |-> "PENDING", claim |-> 0, live |-> FALSE, attempts |-> 0]
NoEvent == [pc |-> "idle", event |-> 0, claim |-> 0, attempt |-> 0]

EventTypeOK ==
  /\ version \in Seq([status : IntentState, key : {NoKey} \cup
                        {plan.asks[c].key : plan \in ChangePlans, c \in Change}])
  /\ event \in Seq([version : Nat, state : EventState, claim : Nat, live : BOOLEAN,
                    attempts : Nat])
  /\ \A c \in Change : /\ chg[c].pc \in {"key", "read", "write", "done"}
                       /\ chg[c].seen \in Nat
  /\ eva \in [Evaluator -> [pc : {"idle", "reread", "evaluate", "complete", "fail"},
                            event : Nat, claim : Nat, attempt : Nat]]
  /\ reclaimer \in [pc : {"idle", "write"}, event : Nat, attempt : Nat]
  /\ evaluated \subseteq Nat
  /\ evLeft \in [lapses : Nat, faults : Nat]

Emitted(v) == Append(event, Waiting(v))

\* The intent was created, with its event, in one transaction.
EventInitOf(plan) ==
  /\ version = <<[status |-> "ACTIVE", key |-> NoKey]>>
  /\ event = <<Waiting(1)>>
  /\ chg = [c \in Change |-> [asks |-> plan.asks[c], seen |-> 0,
               pc |-> IF plan.asks[c].kind = "cancel" THEN "read" ELSE "key"]]
  /\ eva = [w \in Evaluator |-> NoEvent]
  /\ reclaimer = [pc |-> "idle", event |-> 0, attempt |-> 0]
  /\ evaluated = {}
  /\ evLeft = [lapses |-> plan.lapses, faults |-> plan.faults]

EventInit == \E plan \in ChangePlans : EventInitOf(plan)

-----------------------------------------------------------------------------
(* Changes of the intent.                                                  *)

Asks(c) == chg[c].asks
ChangeAt(c, pc) == chg' = [chg EXCEPT ![c].pc = pc]
KeyUsed(k) == k # NoKey /\ \E v \in DOMAIN version : version[v].key = k
Newest == Len(version)
Active(v) == v \in DOMAIN version /\ version[v].status = "ACTIVE"

\* A key that was used answers with the version it made.
CheckKey(c) ==
  /\ chg[c].pc = "key"
  /\ ChangeAt(c, IF KeyUsed(Asks(c).key) THEN "done" ELSE "read")
  /\ UNCHANGED <<version, event, eva, reclaimer, evaluated, evLeft>>

\* supersedeIntent takes the newest active version, cancelIntent the newest;
\* both refuse one that is not active or not the expected one.
ReadVersion(c) ==
  /\ chg[c].pc = "read"
  /\ IF Active(Newest) /\ Asks(c).expects \in {NoVersion, Newest}
       THEN chg' = [chg EXCEPT ![c].pc = "write", ![c].seen = Newest]
       ELSE ChangeAt(c, "done")
  /\ UNCHANGED <<version, event, eva, reclaimer, evaluated, evLeft>>

SupersedeQuietly(c) ==      \* mutant: the event is not in the transaction
  LET v == chg[c].seen  k == Asks(c).key IN
  /\ chg[c].pc = "write" /\ Asks(c).kind = "supersede"
  /\ version' = IF Active(v) /\ ~KeyUsed(k)
                  THEN Append([version EXCEPT ![v].status = "SUPERSEDED"],
                              [status |-> "ACTIVE", key |-> k])
                  ELSE version
  /\ ChangeAt(c, "done")
  /\ UNCHANGED <<event, eva, reclaimer, evaluated, evLeft>>

\* One transaction: the version read is superseded if it is still active, the
\* next one and its event are created. A key used meanwhile rolls it all back.
Supersede(c) ==
  LET v == chg[c].seen  k == Asks(c).key IN
  /\ chg[c].pc = "write" /\ Asks(c).kind = "supersede"
  /\ IF Active(v) /\ ~KeyUsed(k)
       THEN /\ version' = Append([version EXCEPT ![v].status = "SUPERSEDED"],
                                 [status |-> "ACTIVE", key |-> k])
            /\ event' = Emitted(v + 1)
       ELSE UNCHANGED <<version, event>>
  /\ ChangeAt(c, "done")
  /\ UNCHANGED <<eva, reclaimer, evaluated, evLeft>>

CancelUnguarded(c) ==       \* mutant: the row's status is not asked for
  LET v == chg[c].seen IN
  /\ chg[c].pc = "write" /\ Asks(c).kind = "cancel"
  /\ version' = [version EXCEPT ![v].status = "CANCELLED"]
  /\ event' = Emitted(v)
  /\ ChangeAt(c, "done")
  /\ UNCHANGED <<eva, reclaimer, evaluated, evLeft>>

Cancel(c) ==
  LET v == chg[c].seen IN
  /\ chg[c].pc = "write" /\ Asks(c).kind = "cancel"
  /\ IF Active(v)
       THEN /\ version' = [version EXCEPT ![v].status = "CANCELLED"]
            /\ event' = Emitted(v)
       ELSE UNCHANGED <<version, event>>
  /\ ChangeAt(c, "done")
  /\ UNCHANGED <<eva, reclaimer, evaluated, evLeft>>

\* expireStaleIntents: no event goes with it.
Expire ==
  /\ Active(Newest) /\ evLeft.faults > 0
  /\ evLeft' = [evLeft EXCEPT !.faults = @ - 1]
  /\ version' = [version EXCEPT ![Newest].status = "EXPIRED"]
  /\ UNCHANGED <<event, chg, eva, reclaimer, evaluated>>

-----------------------------------------------------------------------------
(* Evaluators: claimReevaluationEvent (whose update repeats what it read), *)
(* processOneEvent, evaluateEvent.                                         *)

ClaimableEvent(e) == \/ event[e].state = "PENDING"
                     \/ event[e].state \in {"CLAIMED", "FAILED"} /\ ~event[e].live

ClaimEvent(w, e) ==
  /\ eva[w].pc = "idle" /\ e \in DOMAIN event /\ ClaimableEvent(e)
  /\ LET n == event[e].attempts + 1 IN
     /\ event' = [event EXCEPT ![e].state = "CLAIMED", ![e].claim = n,
                               ![e].live = TRUE, ![e].attempts = n]
     /\ eva' = [eva EXCEPT ![w] = [pc |-> "reread", event |-> e, claim |-> n,
                                   attempt |-> n]]
  /\ UNCHANGED <<version, chg, reclaimer, evaluated, evLeft>>

\* The claim id is read back from the row: by then it may be another's, or none,
\* which ends the call (its failEvent then matches no row).
RereadClaim(w) ==
  /\ eva[w].pc = "reread"
  /\ LET id == event[eva[w].event].claim IN
     eva' = [eva EXCEPT ![w] = IF id = 0 THEN NoEvent
                               ELSE [@ EXCEPT !.pc = "evaluate", !.claim = id]]
  /\ UNCHANGED <<version, event, chg, reclaimer, evaluated, evLeft>>

\* Whether the version is still the intent's is for the executor to find out.
Evaluate(w) ==
  /\ eva[w].pc = "evaluate"
  /\ \/ /\ evaluated' = evaluated \cup {event[eva[w].event].version}
        /\ eva' = [eva EXCEPT ![w].pc = "complete"] /\ UNCHANGED evLeft
     \/ /\ evLeft.faults > 0 /\ evLeft' = [evLeft EXCEPT !.faults = @ - 1]
        /\ eva' = [eva EXCEPT ![w].pc = "fail"] /\ UNCHANGED evaluated
  /\ UNCHANGED <<version, event, chg, reclaimer>>

\* completeEvent and failEvent: fenced by the claim id, not by the state.
Finish(w, pc, to) ==
  LET e == eva[w].event IN
  /\ eva[w].pc = pc
  /\ event' = IF event[e].claim = eva[w].claim
                THEN [event EXCEPT ![e].state = to,
                                   ![e].live = IF to = "FAILED" THEN TRUE ELSE @]
                ELSE event
  /\ eva' = [eva EXCEPT ![w] = NoEvent]
  /\ UNCHANGED <<version, chg, reclaimer, evaluated, evLeft>>

CompleteEvent(w) == Finish(w, "complete", "COMPLETED")
FailEvent(w) == Finish(w, "fail", IF eva[w].attempt >= EVENT_MAX_ATTEMPTS
                                    THEN "DEAD_LETTER" ELSE "FAILED")

EvaluatorCrash(w) ==
  /\ eva[w].pc # "idle" /\ evLeft.faults > 0
  /\ evLeft' = [evLeft EXCEPT !.faults = @ - 1]
  /\ eva' = [eva EXCEPT ![w] = NoEvent]
  /\ UNCHANGED <<version, event, chg, reclaimer, evaluated>>

-----------------------------------------------------------------------------
(* Leases and the cron job.                                                *)

HeldBy(w, e) == eva[w].pc # "idle" /\ eva[w].event = e /\ eva[w].claim = event[e].claim

EventLeaseLapses(e) ==
  LET held == \E w \in Evaluator : HeldBy(w, e) IN
  /\ e \in DOMAIN event /\ event[e].state \in {"CLAIMED", "FAILED"} /\ event[e].live
  /\ held => evLeft.lapses > 0
  /\ evLeft' = IF held THEN [evLeft EXCEPT !.lapses = @ - 1] ELSE evLeft
  /\ event' = [event EXCEPT ![e].live = FALSE]
  /\ UNCHANGED <<version, chg, eva, reclaimer, evaluated>>

\* reclaimExpiredClaims reads the expired rows ...
FindExpired(e) ==
  /\ reclaimer.pc = "idle"
  /\ e \in DOMAIN event /\ event[e].state \in {"CLAIMED", "FAILED"} /\ ~event[e].live
  /\ reclaimer' = [pc |-> "write", event |-> e, attempt |-> event[e].attempts]
  /\ UNCHANGED <<version, event, chg, eva, evaluated, evLeft>>

\* ... and updates each by its id, whatever became of it since.
ReclaimEvent ==
  /\ reclaimer.pc = "write"
  /\ event' = IF reclaimer.attempt >= EVENT_MAX_ATTEMPTS
                THEN [event EXCEPT ![reclaimer.event].state = "DEAD_LETTER"]
                ELSE [event EXCEPT ![reclaimer.event].state = "PENDING",
                                   ![reclaimer.event].claim = 0]
  /\ reclaimer' = [reclaimer EXCEPT !.pc = "idle"]
  /\ UNCHANGED <<version, chg, eva, evaluated, evLeft>>

Changing(c) == CheckKey(c) \/ ReadVersion(c) \/ Supersede(c) \/ Cancel(c)
Evaluating(w) == RereadClaim(w) \/ Evaluate(w) \/ CompleteEvent(w) \/ FailEvent(w)
ClaimSome(w) == \E e \in DOMAIN event : ClaimEvent(w, e)
LapseSome == \E e \in DOMAIN event : EventLeaseLapses(e)

EventNext ==
  \/ \E c \in Change : Changing(c)
  \/ Expire
  \/ \E w \in Evaluator : ClaimSome(w) \/ Evaluating(w) \/ EvaluatorCrash(w)
  \/ LapseSome \/ (\E e \in DOMAIN event : FindExpired(e)) \/ ReclaimEvent

EventSpec == EventInit /\ [][EventNext]_evVars

-----------------------------------------------------------------------------
(* Properties.                                                             *)

\* However supersessions, cancellations, expiry and retries with the same key
\* race: every version but the newest is superseded by its successor, a key made
\* one version at most, and no version exists without an event that tells of it
\* (intent-service.ts:234 "$transaction").
VersionChain ==
  /\ \A v \in DOMAIN version :
       /\ v < Newest => version[v].status = "SUPERSEDED"
       /\ v = Newest => version[v].status # "SUPERSEDED"
       /\ \E e \in DOMAIN event : event[e].version = v
  /\ \A v, u \in DOMAIN version :
       version[v].key = version[u].key /\ version[v].key # NoKey => v = u

\* Every version is evaluated, or its event is dead-lettered for somebody to
\* look at: no crash, lapsed lease or unfenced reclaim loses a change.
AllEvaluated == \A v \in DOMAIN version :
  \/ v \in evaluated
  \/ \E e \in DOMAIN event : event[e].version = v /\ event[e].state = "DEAD_LETTER"

ChangeEvaluated == []<>AllEvaluated
===============================================================================
