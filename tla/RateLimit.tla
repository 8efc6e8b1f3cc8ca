------------------------------ MODULE RateLimit ------------------------------
(***************************************************************************)
(* checkRateLimit: a request takes one from the counter of each of its     *)
(* scopes (its API key, its tenant, a sensitive path), in that order, and  *)
(* a counter lives for one minute. Every statement is a step of its own;   *)
(* there is no lock and no transaction.                                    *)
(*                                                                         *)
(* Source: src/src/lib/api/rate-limit.ts, rate-limit-helper.ts.            *)
(***************************************************************************)
EXTENDS Naturals, Sequences, FiniteSets

CONSTANTS
  Asker,        \* the requests
  Scope,        \* the counters' owners: <<scope, scopeId>> of the source
  Limit,        \* the limit of a scope
  PRUNE_AGE,    \* minutes after which pruneRateLimitEvents deletes a counter
  LastMinute,   \* the bound of the clock
  RatePlans     \* the requests' scopes and the failing statements left

ASSUME RateAssumption ==
  /\ Limit \in [Scope -> Nat \ {0}]
  /\ PRUNE_AGE \in Nat \ {0} /\ LastMinute \in Nat
  /\ IsFiniteSet(Asker)
  /\ \A plan \in RatePlans :
       /\ plan.faults \in Nat
       /\ \A q \in Asker : plan.scopes[q] \in Seq(Scope) /\ plan.scopes[q] # <<>>

VARIABLES
  counter,   \* RateLimitCounter: count by scope and minute, 0 without a row
  asker,     \* per request: program counter, its scopes and place among them
  minute,    \* the wall clock, by windowKey
  faultsLeft

rateVars == <<counter, asker, minute, faultsLeft>>

Minute == 0..LastMinute
Verdict == {"allowed", "denied", "failed"}

AskerRow == [pc : {"idle", "update", "create", "retry", "done"},
             scopes : Seq(Scope), sensitive : BOOLEAN, at : Nat, window : Minute,
             counted : SUBSET Scope, erred : BOOLEAN, verdict : Verdict \cup {"none"}]

RateTypeOK ==
  /\ counter \in [Scope -> [Minute -> Nat]]
  /\ asker \in [Asker -> AskerRow]
  /\ minute \in Minute /\ faultsLeft \in Nat

RateInitOf(plan) ==
  /\ counter = [s \in Scope |-> [m \in Minute |-> 0]]
  /\ asker = [q \in Asker |-> [pc |-> "idle", scopes |-> plan.scopes[q],
                               sensitive |-> q \in plan.sensitive, at |-> 1, window |-> 0,
                               counted |-> {}, erred |-> FALSE, verdict |-> "none"]]
  /\ minute = 0 /\ faultsLeft = plan.faults

RateInit == \E plan \in RatePlans : RateInitOf(plan)

-----------------------------------------------------------------------------

CountOf(q) == counter[asker[q].scopes[asker[q].at]][asker[q].window]
LimitOf(q) == Limit[asker[q].scopes[asker[q].at]]

Counted(q, count) ==
  counter' = [counter EXCEPT ![asker[q].scopes[asker[q].at]][asker[q].window] = count]

AskerAt(q, pc) == asker' = [asker EXCEPT ![q].pc = pc]

Decided(q, verdict) ==
  asker' = [asker EXCEPT ![q].pc = "done", ![q].verdict = verdict]

\* After one scope the next; after the last one the request is allowed.
Onwards(q, counted) ==
  asker' = [asker EXCEPT
    ![q].counted = counted, ![q].at = @ + 1,
    ![q].pc = IF asker[q].at = Len(asker[q].scopes) THEN "done" ELSE "update",
    ![q].verdict = IF asker[q].at = Len(asker[q].scopes) THEN "allowed" ELSE @]

Passes(q) == Onwards(q, asker[q].counted \cup {asker[q].scopes[asker[q].at]})

\* The window is that of the request's arrival, for all of its scopes.
ReadClock(q) ==
  /\ asker[q].pc = "idle"
  /\ asker' = [asker EXCEPT ![q].pc = "update", ![q].window = minute]
  /\ UNCHANGED <<counter, minute, faultsLeft>>

UpdateUnguarded(q) == CountOf(q) # 0
UpdateHits(q) == CountOf(q) # 0 /\ CountOf(q) < LimitOf(q)

\* UPDATE ... SET count = count + 1 WHERE count < limit.
Increment(q) ==
  /\ asker[q].pc = "update"
  /\ IF UpdateHits(q) THEN Counted(q, CountOf(q) + 1) /\ Passes(q)
     ELSE AskerAt(q, "create") /\ UNCHANGED counter
  /\ UNCHANGED <<minute, faultsLeft>>

\* INSERT with count 1. Any error of it is taken for a row another request
\* made, and so is one of the database.
Create(q) ==
  /\ asker[q].pc = "create"
  /\ \/ CountOf(q) = 0 /\ Counted(q, 1) /\ Passes(q) /\ UNCHANGED faultsLeft
     \/ CountOf(q) # 0 /\ AskerAt(q, "retry") /\ UNCHANGED <<counter, faultsLeft>>
     \/ /\ faultsLeft > 0 /\ faultsLeft' = faultsLeft - 1
        /\ \E applied \in BOOLEAN :
             IF applied /\ CountOf(q) = 0 THEN Counted(q, 1) ELSE UNCHANGED counter
        /\ asker' = [asker EXCEPT ![q].pc = "retry", ![q].erred = TRUE]
  /\ UNCHANGED minute

\* The same update once more: no row, or a full one, denies. The scopes that
\* have passed keep what they counted.
RetryIncrement(q) ==
  /\ asker[q].pc = "retry"
  /\ IF UpdateHits(q) THEN Counted(q, CountOf(q) + 1) /\ Passes(q)
     ELSE Decided(q, "denied") /\ UNCHANGED counter
  /\ UNCHANGED <<minute, faultsLeft>>

\* A failing update, whether it was applied or not: a sensitive request is
\* denied, another goes on to its next scope uncounted.
UpdateFails(q) ==
  /\ asker[q].pc \in {"update", "retry"}
  /\ faultsLeft > 0 /\ faultsLeft' = faultsLeft - 1
  /\ \E applied \in BOOLEAN :
       IF applied /\ UpdateHits(q) THEN Counted(q, CountOf(q) + 1) ELSE UNCHANGED counter
  /\ IF asker[q].sensitive THEN Decided(q, "failed") ELSE Onwards(q, asker[q].counted)
  /\ UNCHANGED minute

\* No request takes as long as a counter is kept.
InProgress(q) == asker[q].pc \notin {"idle", "done"}

MinuteEnds ==
  /\ minute < LastMinute
  /\ \A q \in Asker : InProgress(q) => minute + 1 < asker[q].window + PRUNE_AGE
  /\ minute' = minute + 1
  /\ UNCHANGED <<counter, asker, faultsLeft>>


\* pruneRateLimitEvents: counters past their keeping are deleted.
Prune ==
  /\ counter' = [s \in Scope |-> [m \in Minute |->
                   IF m + PRUNE_AGE <= minute THEN 0 ELSE counter[s][m]]]
  /\ counter' # counter
  /\ UNCHANGED <<asker, minute, faultsLeft>>

RateStep(q) == ReadClock(q) \/ Increment(q) \/ Create(q) \/ RetryIncrement(q)

RateNext == \/ \E q \in Asker : RateStep(q) \/ UpdateFails(q)
            \/ MinuteEnds \/ Prune

RateSpec == RateInit /\ [][RateNext]_rateVars

-----------------------------------------------------------------------------

\* The requests that a scope let through in a minute.
LetThrough(s, m) == {q \in Asker : s \in asker[q].counted /\ asker[q].window = m}

(* However its requests interleave, a scope lets no more of them through   *)
(* in a minute than its limit, and a sensitive request that is allowed has *)
(* been counted by every scope it has, also when statements failed.        *)
AllowedWithinLimit ==
  /\ \A s \in Scope, m \in Minute : Cardinality(LetThrough(s, m)) <= Limit[s]
  /\ \A q \in Asker : asker[q].sensitive /\ asker[q].verdict = "allowed" =>
       asker[q].counted = {asker[q].scopes[i] : i \in DOMAIN asker[q].scopes}

(* A request whose statements succeed is denied by a full counter only:    *)
(* losing the race for a new minute's row denies nobody.                   *)
DeniedWhenFull ==
  \A q \in Asker :
    /\ asker[q].verdict = "denied" /\ ~asker[q].erred
    /\ asker[q].window + PRUNE_AGE > minute
    => CountOf(q) = LimitOf(q)

\* The counters let through what they should, and refuse nothing else.
RateLimitKept == AllowedWithinLimit /\ DeniedWhenFull
=============================================================================
