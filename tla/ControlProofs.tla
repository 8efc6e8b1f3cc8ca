----------------------------- MODULE ControlProofs -----------------------------
(***************************************************************************)
(* Theorems about the calls of the API: what its counters let through,     *)
(* what a request may write, and what runs of a session, with its          *)
(* resources and the workers that act on them; for every set of requests   *)
(* and visits, of decisions, API actions and processes.                    *)
(***************************************************************************)
EXTENDS RateLimit, SessionExecution, TenantAccess, SequenceTheorems, FiniteSetTheorems, TLAPS

-----------------------------------------------------------------------------
(* RateLimit: what the counters let through.                               *)

\* A request works on one of its scopes, within the time its counters are kept, and
\* has counted nothing before it starts.
AskersAtScope == \A q \in Asker :
  /\ asker[q].scopes # <<>>
  /\ asker[q].pc # "done" \/ asker[q].verdict = "denied" =>
       asker[q].at \in 1..Len(asker[q].scopes)
  /\ asker[q].pc # "done" => asker[q].verdict = "none"
  /\ asker[q].pc = "idle" => asker[q].counted = {} /\ asker[q].at = 1
  /\ InProgress(q) => minute < asker[q].window + PRUNE_AGE

\* What a scope let through stays within its limit, and within its counter for as
\* long as that is kept.
CountersHold == \A s \in Scope, m \in Minute :
  /\ counter[s][m] <= Limit[s]
  /\ Cardinality(LetThrough(s, m)) <= Limit[s]
  /\ m + PRUNE_AGE > minute => Cardinality(LetThrough(s, m)) <= counter[s][m]

Passed(scopes, n) == {scopes[i] : i \in 1..n}

\* A sensitive request is counted by each scope that it has passed.
SensitiveCounted == \A q \in Asker : asker[q].sensitive =>
  /\ asker[q].pc # "done" =>
       asker[q].counted = Passed(asker[q].scopes, asker[q].at - 1)
  /\ asker[q].verdict = "allowed" =>
       asker[q].counted = Passed(asker[q].scopes, Len(asker[q].scopes))

\* A request that lost the race for the row retries on one.
RetryFindsRow == \A q \in Asker :
  asker[q].pc = "retry" /\ ~asker[q].erred => CountOf(q) # 0

RateInv == /\ RateTypeOK /\ AskersAtScope /\ CountersHold /\ SensitiveCounted
           /\ RetryFindsRow /\ DeniedWhenFull

LEMMA RateInitInv == RateInit => RateInv
<1>. SUFFICES ASSUME RateInit PROVE RateInv
  OBVIOUS
<1>1. PICK plan \in RatePlans : RateInitOf(plan)
  BY DEF RateInit
<1>2. /\ plan.faults \in Nat /\ PRUNE_AGE \in Nat \ {0} /\ LastMinute \in Nat
      /\ Limit \in [Scope -> Nat \ {0}]
      /\ \A q \in Asker : plan.scopes[q] \in Seq(Scope) /\ plan.scopes[q] # <<>>
  BY RateAssumption
<1>3. 0 \in Minute
  BY <1>2 DEF Minute
<1>4. \A q \in Asker :
        /\ asker[q] \in AskerRow /\ asker[q].pc = "idle" /\ asker[q].verdict = "none"
        /\ asker[q].counted = {} /\ asker[q].at = 1 /\ asker[q].window = 0
        /\ asker[q].scopes = plan.scopes[q]
  BY <1>1, <1>2, <1>3 DEF RateInitOf, AskerRow
<1>5. RateTypeOK
  BY <1>1, <1>2, <1>3, <1>4 DEF RateInitOf, RateTypeOK
<1>6. AskersAtScope BY <1>2, <1>4 DEF AskersAtScope, InProgress
<1>7. CountersHold
  <2>1. ASSUME NEW s \in Scope, NEW m \in Minute
        PROVE  /\ counter[s][m] = 0 /\ LetThrough(s, m) = {} /\ Limit[s] \in Nat
    BY <1>1, <1>2, <1>4 DEF RateInitOf, LetThrough
  <2>. QED  BY <2>1, FS_EmptySet DEF CountersHold
<1>8. SensitiveCounted BY <1>4 DEF Passed, SensitiveCounted
<1>9. RetryFindsRow /\ DeniedWhenFull
  BY <1>4 DEF RetryFindsRow, DeniedWhenFull
<1>. QED  BY <1>5, <1>6, <1>7, <1>8, <1>9 DEF RateInv

AskerBecomes(q, row) ==
  /\ asker' \in [Asker -> AskerRow] /\ asker'[q] = row
  /\ \A x \in Asker : x # q => asker'[x] = asker[x]

\* What a request lets itself through, at most one counter's more.
LEMMA LetThroughGrows ==
  ASSUME RateTypeOK, NEW q \in Asker, NEW row \in AskerRow, AskerBecomes(q, row),
         NEW s \in Scope, NEW m \in Minute
  PROVE  /\ Cardinality(LetThrough(s, m)) \in Nat /\ Cardinality(LetThrough(s, m))' \in Nat
         /\ Cardinality(LetThrough(s, m))' <= Cardinality(LetThrough(s, m)) + 1
         /\ row.window = asker[q].window \/ row.counted = {} =>
              (s \notin row.counted \/ s \in asker[q].counted \/ m # row.window =>
                 Cardinality(LetThrough(s, m))' <= Cardinality(LetThrough(s, m)))
<1>. DEFINE old == LetThrough(s, m)
            new == {x \in Asker : s \in asker'[x].counted /\ asker'[x].window = m}
<1>1. IsFiniteSet(Asker)
  BY RateAssumption
<1>2. /\ IsFiniteSet(old) /\ IsFiniteSet(new) /\ Cardinality(old) \in Nat
      /\ Cardinality(new) \in Nat
  BY <1>1, FS_Subset, FS_CardinalityType DEF LetThrough
<1>3. new \subseteq old \cup {q}
  BY DEF LetThrough, AskerBecomes
<1>4. Cardinality(new) <= Cardinality(old) + 1
  <2>. HIDE DEF old, new
  <2>1. /\ IsFiniteSet(old \cup {q})
        /\ Cardinality(old \cup {q}) <= Cardinality(old) + 1
    BY <1>2, FS_AddElement
  <2>3. Cardinality(old \cup {q}) \in Nat
    BY <2>1, FS_CardinalityType
  <2>2. Cardinality(new) <= Cardinality(old \cup {q})
    BY <1>3, <2>1, FS_Subset
  <2>. QED  BY <1>2, <2>1, <2>2, <2>3
<1>5. ASSUME row.window = asker[q].window \/ row.counted = {},
             s \notin row.counted \/ s \in asker[q].counted \/ m # row.window
      PROVE  Cardinality(new) <= Cardinality(old)
  BY <1>5, <1>2, FS_Subset DEF LetThrough, AskerBecomes
<1>6. LetThrough(s, m)' = new
  BY DEF LetThrough
<1>. QED  BY <1>2, <1>4, <1>5, <1>6

\* Where a request in progress is.
LEMMA AskerIsAt ==
  ASSUME RateInv, NEW q \in Asker, InProgress(q)
  PROVE  /\ asker[q] \in AskerRow /\ asker[q].scopes \in Seq(Scope) /\ asker[q].window \in Minute
         /\ asker[q].at \in 1..Len(asker[q].scopes) /\ asker[q].scopes[asker[q].at] \in Scope
         /\ asker[q].counted \subseteq Scope /\ asker[q].verdict = "none"
         /\ CountOf(q) \in Nat /\ LimitOf(q) \in Nat \ {0} /\ CountOf(q) <= LimitOf(q)
         /\ asker[q].window + PRUNE_AGE > minute
<1>1. /\ RateTypeOK /\ asker[q] \in AskerRow /\ asker[q].at \in 1..Len(asker[q].scopes)
      /\ asker[q].verdict = "none"
      /\ minute < asker[q].window + PRUNE_AGE
  BY DEF RateInv, RateTypeOK, AskersAtScope, InProgress
<1>2. /\ asker[q].scopes \in Seq(Scope) /\ asker[q].window \in Minute
      /\ asker[q].counted \subseteq Scope
  BY <1>1 DEF AskerRow
<1>3. asker[q].scopes[asker[q].at] \in Scope
  BY <1>1, <1>2
<1>4. /\ CountOf(q) \in Nat /\ LimitOf(q) \in Nat \ {0} /\ CountOf(q) <= LimitOf(q)
  BY <1>1, <1>2, <1>3, RateAssumption
  DEF RateInv, RateTypeOK, CountOf, LimitOf, CountersHold
<1>5. PRUNE_AGE \in Nat /\ minute \in Nat /\ asker[q].window \in Nat
  BY <1>1, <1>2, RateAssumption DEF RateTypeOK, Minute
<1>. QED  BY <1>1, <1>2, <1>3, <1>4, <1>5

\* The counter of scope s and minute m is `count`, the others are as they were.
CountBecomes(s, m, count) ==
  /\ counter' \in [Scope -> [Minute -> Nat]] /\ counter'[s][m] = count
  /\ \A t \in Scope, n \in Minute : <<t, n>> # <<s, m>> => counter'[t][n] = counter[t][n]

LEMMA CountedBecomes ==
  ASSUME RateTypeOK, NEW q \in Asker, asker[q].scopes[asker[q].at] \in Scope,
         asker[q].window \in Minute, NEW count \in Nat,
         Counted(q, count) \/ (UNCHANGED counter /\ count = CountOf(q))
  PROVE  CountBecomes(asker[q].scopes[asker[q].at], asker[q].window, count)
<1>. DEFINE s == asker[q].scopes[asker[q].at]
            m == asker[q].window
<1>1. counter \in [Scope -> [Minute -> Nat]] /\ s \in Scope /\ m \in Minute
  BY DEF RateTypeOK
<1>2. CASE Counted(q, count)
  <2>1. counter' = [counter EXCEPT ![s] = [counter[s] EXCEPT ![m] = count]]
    BY <1>1, <1>2 DEF Counted
  <2>. HIDE DEF s, m
  <2>2. [counter[s] EXCEPT ![m] = count] \in [Minute -> Nat]
    BY <1>1
  <2>3. counter' \in [Scope -> [Minute -> Nat]]
    BY <1>1, <2>1, <2>2
  <2>4. counter'[s][m] = count
    BY <1>1, <2>1
  <2>5. \A t \in Scope, n \in Minute : <<t, n>> # <<s, m>> => counter'[t][n] = counter[t][n]
    BY <1>1, <2>1
  <2>. QED  BY <2>3, <2>4, <2>5 DEF CountBecomes, s, m
<1>3. CASE UNCHANGED counter /\ count = CountOf(q)
  BY <1>1, <1>3 DEF CountBecomes, CountOf
<1>. QED  BY <1>2, <1>3

\* A request in progress moves, and its counter with it.
LEMMA RequestMovesOn ==
  ASSUME RateInv, NEW q \in Asker, InProgress(q), UNCHANGED minute, faultsLeft' \in Nat,
         NEW s, s = asker[q].scopes[asker[q].at],
         NEW count \in Nat, CountBecomes(s, asker[q].window, count),
         CountOf(q) <= count, count <= LimitOf(q),
         NEW row \in AskerRow, AskerBecomes(q, row),
         row.window = asker[q].window, row.scopes = asker[q].scopes,
         row.sensitive = asker[q].sensitive, row.pc # "idle",
         \/ row.counted = asker[q].counted
         \/ row.counted = asker[q].counted \cup {s} /\ count = CountOf(q) + 1,
         row.pc # "done" \/ row.verdict = "denied" => row.at \in 1..Len(row.scopes),
         row.pc # "done" => row.verdict = "none",
         row.sensitive =>
           /\ row.pc # "done" => row.counted = Passed(row.scopes, row.at - 1)
           /\ row.verdict = "allowed" =>
                row.counted = Passed(row.scopes, Len(row.scopes)),
         row.pc = "retry" /\ ~row.erred => row.at = asker[q].at /\ count # 0,
         row.verdict = "denied" /\ ~row.erred => row.at = asker[q].at /\ count = LimitOf(q)
  PROVE  RateInv'
<1>1. /\ RateTypeOK /\ asker[q] \in AskerRow /\ asker[q].window \in Minute /\ s \in Scope
      /\ CountOf(q) \in Nat /\ LimitOf(q) \in Nat \ {0}
      /\ CountOf(q) = counter[s][asker[q].window] /\ LimitOf(q) = Limit[s]
      /\ asker[q].window + PRUNE_AGE > minute
  BY AskerIsAt DEF RateInv, CountOf, LimitOf
<1>2. RateTypeOK'
  BY <1>1 DEF RateTypeOK, AskerBecomes, CountBecomes
<1>3. AskersAtScope' BY DEF RateInv, AskersAtScope, AskerBecomes, InProgress
<1>4. CountersHold'
  <2>1. ASSUME NEW t \in Scope, NEW m \in Minute
        PROVE  /\ counter'[t][m] <= Limit[t]
               /\ Cardinality(LetThrough(t, m))' <= Limit[t]
               /\ m + PRUNE_AGE > minute => Cardinality(LetThrough(t, m))' <= counter'[t][m]
    <3>1. PICK old \in Nat, new \in Nat :
            /\ old = Cardinality(LetThrough(t, m)) /\ new = Cardinality(LetThrough(t, m))'
            /\ new <= old + 1
            /\ t \notin row.counted \/ t \in asker[q].counted \/ m # row.window => new <= old
      BY <1>1, LetThroughGrows
    <3>2. /\ counter[t][m] \in Nat /\ counter'[t][m] \in Nat /\ Limit[t] \in Nat
          /\ counter[t][m] <= Limit[t] /\ old <= Limit[t]
          /\ m + PRUNE_AGE > minute => old <= counter[t][m]
      <4>1. counter[t][m] \in Nat /\ counter'[t][m] \in Nat
        BY <1>1 DEF RateTypeOK, CountBecomes
      <4>2. Limit[t] \in Nat
        BY RateAssumption
      <4>3. /\ counter[t][m] <= Limit[t] /\ old <= Limit[t]
            /\ m + PRUNE_AGE > minute => old <= counter[t][m]
        BY <3>1 DEF RateInv, CountersHold
      <4>. QED  BY <4>1, <4>2, <4>3
    <3>3. CASE <<t, m>> = <<s, asker[q].window>>
      <4>1. counter'[t][m] = count /\ counter[t][m] = CountOf(q) /\ Limit[t] = LimitOf(q)
            /\ m + PRUNE_AGE > minute
        BY <1>1, <3>3 DEF CountBecomes
      <4>2. old <= CountOf(q) /\ CountOf(q) \in Nat /\ LimitOf(q) \in Nat
        BY <1>1, <3>2, <4>1
      <4>3. new <= count BY <3>1, <4>2
      <4>4. new <= Limit[t] /\ counter'[t][m] <= Limit[t]
        BY <4>1, <4>2, <4>3
      <4>. QED  BY <3>1, <4>1, <4>3, <4>4
    <3>4. CASE <<t, m>> # <<s, asker[q].window>> BY <3>4, <3>1, <3>2 DEF CountBecomes
    <3>. QED  BY <3>3, <3>4
  <2>. QED  BY <2>1 DEF CountersHold
<1>5. SensitiveCounted'
  BY DEF RateInv, SensitiveCounted, AskerBecomes
<1>6. \A x \in Asker :
        LET t == asker[x].scopes[asker[x].at]
            m == asker[x].window
        IN  x # q /\ t \in Scope /\ m \in Minute =>
              /\ counter[t][m] # 0 => counter'[t][m] # 0
              /\ counter[t][m] = Limit[t] => counter'[t][m] = Limit[t]
  <2>1. ASSUME NEW x \in Asker, NEW t \in Scope, NEW m \in Minute
        PROVE  /\ counter[t][m] # 0 => counter'[t][m] # 0
               /\ counter[t][m] = Limit[t] => counter'[t][m] = Limit[t]
    <3>1. CASE t = s /\ m = asker[q].window
      <4>1. counter'[t][m] = count /\ counter[t][m] = CountOf(q) /\ Limit[t] = LimitOf(q)
        BY <1>1, <3>1 DEF CountBecomes
      <4>2. CountOf(q) \in Nat /\ LimitOf(q) \in Nat
        BY <1>1
      <4>. QED  BY <4>1, <4>2
    <3>2. CASE ~(t = s /\ m = asker[q].window) BY <3>2 DEF CountBecomes
    <3>. QED  BY <3>1, <3>2
  <2>. QED  BY <2>1
<1>7. \A x \in Asker : asker[x].pc = "retry" \/ asker[x].verdict = "denied" =>
        asker[x].scopes[asker[x].at] \in Scope /\ asker[x].window \in Minute
  <2>1. ASSUME NEW x \in Asker, asker[x].pc = "retry" \/ asker[x].verdict = "denied"
        PROVE  asker[x].scopes[asker[x].at] \in Scope /\ asker[x].window \in Minute
    <3>1. asker[x] \in AskerRow /\ asker[x].at \in 1..Len(asker[x].scopes)
      BY <2>1 DEF RateInv, RateTypeOK, AskersAtScope
    <3>. QED  BY <3>1 DEF AskerRow
  <2>. QED  BY <2>1
<1>8. RetryFindsRow'
  <2>1. ASSUME NEW x \in Asker, asker'[x].pc = "retry", ~asker'[x].erred
        PROVE  counter'[asker'[x].scopes[asker'[x].at]][asker'[x].window] # 0
    <3>1. CASE x = q
      BY <1>1, <2>1, <3>1 DEF AskerBecomes, CountBecomes
    <3>2. CASE x # q
      BY <1>6, <1>7, <2>1, <3>2 DEF RateInv, RetryFindsRow, CountOf, AskerBecomes
    <3>. QED  BY <3>1, <3>2
  <2>. QED  BY <2>1 DEF RetryFindsRow, CountOf
<1>9. DeniedWhenFull'
  <2>1. ASSUME NEW x \in Asker, asker'[x].verdict = "denied", ~asker'[x].erred,
               asker'[x].window + PRUNE_AGE > minute
        PROVE  counter'[asker'[x].scopes[asker'[x].at]][asker'[x].window]
                 = Limit[asker'[x].scopes[asker'[x].at]]
    <3>1. CASE x = q
      BY <1>1, <2>1, <3>1 DEF AskerBecomes, CountBecomes
    <3>2. CASE x # q
      BY <1>6, <1>7, <2>1, <3>2 DEF RateInv, DeniedWhenFull, CountOf, LimitOf, AskerBecomes
    <3>. QED  BY <3>1, <3>2
  <2>. QED  BY <2>1 DEF DeniedWhenFull, CountOf, LimitOf
<1>. QED  BY <1>2, <1>3, <1>4, <1>5, <1>8, <1>9 DEF RateInv

LEMMA PassedOneMore ==
  ASSUME NEW scopes, NEW n \in Nat \ {0}
  PROVE  Passed(scopes, n) = Passed(scopes, n - 1) \cup {scopes[n]}
BY DEF Passed

LEMMA AskerUpdate ==
  ASSUME RateTypeOK, NEW q \in Asker, NEW row \in AskerRow, asker' = [asker EXCEPT ![q] = row]
  PROVE  AskerBecomes(q, row)
BY DEF RateTypeOK, AskerBecomes

LEMMA AskerAtBecomes ==
  ASSUME RateInv, NEW q \in Asker, InProgress(q), NEW pc \in {"create", "retry"},
         NEW erred \in BOOLEAN,
         \/ AskerAt(q, pc) /\ erred = asker[q].erred
         \/ asker' = [asker EXCEPT ![q].pc = pc, ![q].erred = TRUE] /\ erred
  PROVE  \E row \in AskerRow :
           /\ AskerBecomes(q, row) /\ row.pc = pc /\ row.erred = erred
           /\ row.scopes = asker[q].scopes /\ row.window = asker[q].window
           /\ row.sensitive = asker[q].sensitive /\ row.at = asker[q].at
           /\ row.counted = asker[q].counted /\ row.verdict = "none"
<1>. DEFINE row == [asker[q] EXCEPT !.pc = pc, !.erred = erred]
<1>1. RateTypeOK /\ asker \in [Asker -> AskerRow] /\ asker[q] \in AskerRow
      /\ asker[q].verdict = "none"
  BY AskerIsAt DEF RateInv, RateTypeOK
<1>2. /\ row \in AskerRow /\ row.pc = pc /\ row.erred = erred
      /\ row.scopes = asker[q].scopes /\ row.window = asker[q].window
      /\ row.sensitive = asker[q].sensitive /\ row.at = asker[q].at
      /\ row.counted = asker[q].counted /\ row.verdict = "none"
  BY <1>1 DEF AskerRow
<1>3. asker' = [asker EXCEPT ![q] = row]
  <2>1. CASE AskerAt(q, pc) /\ erred = asker[q].erred BY <1>1, <2>1 DEF AskerRow, AskerAt
  <2>2. CASE asker' = [asker EXCEPT ![q].pc = pc, ![q].erred = TRUE] /\ erred BY <2>2, <1>1
  <2>. QED  BY <2>1, <2>2
<1>. HIDE DEF row
<1>. QED  BY <1>1, <1>2, <1>3, AskerUpdate

LEMMA DecidedBecomes ==
  ASSUME RateInv, NEW q \in Asker, InProgress(q), NEW verdict \in Verdict,
         Decided(q, verdict)
  PROVE  \E row \in AskerRow :
           /\ AskerBecomes(q, row) /\ row.pc = "done" /\ row.erred = asker[q].erred
           /\ row.scopes = asker[q].scopes /\ row.window = asker[q].window
           /\ row.sensitive = asker[q].sensitive /\ row.at = asker[q].at
           /\ row.counted = asker[q].counted /\ row.verdict = verdict
<1>. DEFINE row == [asker[q] EXCEPT !.pc = "done", !.verdict = verdict]
<1>1. RateTypeOK /\ asker \in [Asker -> AskerRow] /\ asker[q] \in AskerRow
  BY DEF RateInv, RateTypeOK
<1>2. /\ row \in AskerRow /\ row.pc = "done" /\ row.erred = asker[q].erred
      /\ row.scopes = asker[q].scopes /\ row.window = asker[q].window
      /\ row.sensitive = asker[q].sensitive /\ row.at = asker[q].at
      /\ row.counted = asker[q].counted /\ row.verdict = verdict
  BY <1>1 DEF AskerRow
<1>3. asker' = [asker EXCEPT ![q] = row]
  BY <1>1 DEF Decided
<1>. HIDE DEF row
<1>. QED  BY <1>1, <1>2, <1>3, AskerUpdate

\* To the next scope, or after the last one allowed.
LEMMA OnwardsBecomes ==
  ASSUME RateInv, NEW q \in Asker, InProgress(q), NEW counted \in SUBSET Scope,
         Onwards(q, counted)
  PROVE  \E row \in AskerRow :
           /\ AskerBecomes(q, row) /\ row.erred = asker[q].erred
           /\ row.scopes = asker[q].scopes /\ row.window = asker[q].window
           /\ row.sensitive = asker[q].sensitive /\ row.at = asker[q].at + 1
           /\ row.counted = counted
           /\ \/ /\ asker[q].at = Len(asker[q].scopes)
                 /\ row.pc = "done" /\ row.verdict = "allowed"
              \/ /\ row.at \in 1..Len(row.scopes)
                 /\ row.pc = "update" /\ row.verdict = "none"
<1>1. RateTypeOK /\ asker \in [Asker -> AskerRow] /\ asker[q] \in AskerRow
      /\ asker[q].verdict = "none" /\ asker[q].at \in 1..Len(asker[q].scopes)
      /\ asker[q].scopes \in Seq(Scope)
  BY AskerIsAt DEF RateInv, RateTypeOK
<1>2. PICK next \in Nat : next = asker[q].at + 1
  BY <1>1
<1>3. CASE asker[q].at = Len(asker[q].scopes)
  <2>. DEFINE row == [asker[q] EXCEPT !.counted = counted, !.at = next, !.pc = "done",
                                      !.verdict = "allowed"]
  <2>1. /\ row \in AskerRow /\ row.erred = asker[q].erred
        /\ row.scopes = asker[q].scopes /\ row.window = asker[q].window
        /\ row.sensitive = asker[q].sensitive /\ row.at = next
        /\ row.counted = counted /\ row.pc = "done" /\ row.verdict = "allowed"
    BY <1>1, <1>2 DEF AskerRow, Verdict
  <2>2. asker' = [asker EXCEPT ![q] = row]
    BY <1>1, <1>2, <1>3 DEF Onwards
  <2>. HIDE DEF row
  <2>. QED  BY <1>1, <1>2, <1>3, <2>1, <2>2, AskerUpdate
<1>4. CASE asker[q].at # Len(asker[q].scopes)
  <2>. DEFINE row == [asker[q] EXCEPT !.counted = counted, !.at = next, !.pc = "update"]
  <2>1. /\ row \in AskerRow /\ row.erred = asker[q].erred
        /\ row.scopes = asker[q].scopes /\ row.window = asker[q].window
        /\ row.sensitive = asker[q].sensitive /\ row.at = next
        /\ row.counted = counted /\ row.pc = "update" /\ row.verdict = "none"
    BY <1>1, <1>2 DEF AskerRow
  <2>2. asker' = [asker EXCEPT ![q] = row]
    BY <1>1, <1>2, <1>4 DEF Onwards
  <2>3. next \in 1..Len(asker[q].scopes)
    BY <1>1, <1>2, <1>4
  <2>. HIDE DEF row
  <2>. QED  BY <1>1, <1>2, <2>1, <2>2, <2>3, AskerUpdate
<1>. QED  BY <1>3, <1>4

\* A scope counts the request and lets it through ...
LEMMA PassesInv ==
  ASSUME RateInv, NEW q \in Asker, InProgress(q), CountOf(q) < LimitOf(q),
         Counted(q, CountOf(q) + 1), Passes(q), UNCHANGED <<minute, faultsLeft>>
  PROVE  RateInv'
<1>1. RateTypeOK /\ faultsLeft' \in Nat /\ minute' = minute
  BY DEF RateInv, RateTypeOK
<1>2. PICK s \in Scope, count \in Nat :
        /\ s = asker[q].scopes[asker[q].at] /\ count = CountOf(q) + 1
        /\ CountOf(q) <= count /\ count <= LimitOf(q)
  BY AskerIsAt
<1>3. CountBecomes(s, asker[q].window, count) BY <1>2, AskerIsAt, <1>1, CountedBecomes
<1>4. PICK row \in AskerRow :
        /\ AskerBecomes(q, row) /\ row.erred = asker[q].erred
        /\ row.scopes = asker[q].scopes /\ row.window = asker[q].window
        /\ row.sensitive = asker[q].sensitive /\ row.at = asker[q].at + 1
        /\ row.counted = asker[q].counted \cup {s}
        /\ \/ /\ asker[q].at = Len(asker[q].scopes)
              /\ row.pc = "done" /\ row.verdict = "allowed"
           \/ /\ row.at \in 1..Len(row.scopes)
              /\ row.pc = "update" /\ row.verdict = "none"
  BY <1>2, AskerIsAt, OnwardsBecomes DEF Passes
<1>5. row.sensitive => row.counted = Passed(row.scopes, asker[q].at)
  <2>1. asker[q].at \in Nat \ {0} /\ asker[q].pc # "done"
    BY AskerIsAt DEF InProgress
  <2>2. /\ Passed(asker[q].scopes, asker[q].at)
             = Passed(asker[q].scopes, asker[q].at - 1) \cup {asker[q].scopes[asker[q].at]}
    BY <2>1, PassedOneMore
  <2>3. asker[q].sensitive =>
          asker[q].counted = Passed(asker[q].scopes, asker[q].at - 1)
    BY <2>1 DEF RateInv, SensitiveCounted
  <2>. QED  BY <1>2, <1>4, <2>2, <2>3
<1>6. asker[q].at = row.at - 1
  BY <1>4, AskerIsAt
<1>. QED  BY <1>1, <1>2, <1>3, <1>4, <1>5, <1>6, RequestMovesOn

\* ... or it does not, whatever the failing statement did to the counter.
LEMMA StaysInv ==
  ASSUME RateInv, NEW q \in Asker, InProgress(q), UNCHANGED minute, faultsLeft' \in Nat,
         NEW count \in Nat, CountOf(q) <= count, count <= LimitOf(q),
         Counted(q, count) \/ (UNCHANGED counter /\ count = CountOf(q)),
         NEW row \in AskerRow, AskerBecomes(q, row),
         row.window = asker[q].window, row.scopes = asker[q].scopes,
         row.sensitive = asker[q].sensitive, row.counted = asker[q].counted, row.pc # "idle",
         row.pc # "done" => row.verdict = "none",
         \/ row.at = asker[q].at /\ row.verdict # "allowed"
         \/ ~row.sensitive /\ row.verdict # "denied"
            /\ (row.pc # "done" => row.at \in 1..Len(row.scopes) /\ row.pc # "retry"),
         row.pc = "retry" /\ ~row.erred => count # 0,
         row.verdict = "denied" /\ ~row.erred => count = LimitOf(q)
  PROVE  RateInv'
<1>1. RateTypeOK
  BY DEF RateInv
<1>2. PICK s \in Scope : s = asker[q].scopes[asker[q].at]
  BY AskerIsAt
<1>3. CountBecomes(s, asker[q].window, count)
  BY <1>1, <1>2, CountedBecomes, AskerIsAt
<1>4. row.pc # "done" \/ row.verdict = "denied" => row.at \in 1..Len(row.scopes)
  BY AskerIsAt
<1>5. row.sensitive =>
        /\ row.pc # "done" => row.counted = Passed(row.scopes, row.at - 1)
        /\ row.verdict # "allowed"
  BY DEF RateInv, SensitiveCounted, InProgress
<1>6. /\ row.pc = "retry" /\ ~row.erred => row.at = asker[q].at /\ count # 0
      /\ row.verdict = "denied" /\ ~row.erred => row.at = asker[q].at /\ count = LimitOf(q)
  OBVIOUS
<1>. QED  BY <1>2, <1>3, <1>4, <1>5, <1>6, RequestMovesOn

-----------------------------------------------------------------------------

LEMMA ReadClockInv ==
  ASSUME RateInv, NEW q \in Asker, ReadClock(q)
  PROVE  RateInv'
<1>. DEFINE row == [asker[q] EXCEPT !.pc = "update", !.window = minute]
<1>1. /\ RateTypeOK /\ asker \in [Asker -> AskerRow] /\ asker[q] \in AskerRow
      /\ minute \in Minute /\ asker[q].pc = "idle" /\ asker[q].counted = {}
      /\ asker[q].at = 1 /\ asker[q].verdict = "none" /\ asker[q].scopes # <<>>
      /\ asker[q].at \in 1..Len(asker[q].scopes)
      /\ UNCHANGED <<counter, minute, faultsLeft>>
  BY DEF RateInv, RateTypeOK, AskersAtScope, ReadClock
<1>2. /\ row \in AskerRow /\ row.pc = "update" /\ row.window = minute
      /\ row.scopes = asker[q].scopes /\ row.at = asker[q].at /\ row.verdict = "none"
      /\ row.counted = {} /\ row.sensitive = asker[q].sensitive /\ row.erred = asker[q].erred
  BY <1>1 DEF AskerRow
<1>3. AskerBecomes(q, row)
  <2>1. asker' = [asker EXCEPT ![q] = row]
    BY <1>1 DEF ReadClock
  <2>. HIDE DEF row
  <2>. QED  BY <1>1, <1>2, <2>1, AskerUpdate
<1>. HIDE DEF row
<1>4. RateTypeOK'
  BY <1>1, <1>3 DEF RateTypeOK, AskerBecomes
<1>5. minute \in Nat /\ minute < minute + PRUNE_AGE
  BY <1>1, RateAssumption DEF Minute
<1>6. AskersAtScope'
  BY <1>1, <1>2, <1>3, <1>5 DEF RateInv, AskersAtScope, AskerBecomes, InProgress
<1>7. CountersHold'
  <2>1. ASSUME NEW t \in Scope, NEW m \in Minute
        PROVE  /\ counter'[t][m] <= Limit[t]
               /\ Cardinality(LetThrough(t, m))' <= Limit[t]
               /\ m + PRUNE_AGE > minute => Cardinality(LetThrough(t, m))' <= counter'[t][m]
    <3>1. PICK old \in Nat, new \in Nat :
            /\ old = Cardinality(LetThrough(t, m)) /\ new = Cardinality(LetThrough(t, m))'
            /\ new <= old
      BY <1>1, <1>2, <1>3, LetThroughGrows
    <3>2. /\ counter[t][m] \in Nat /\ counter'[t][m] = counter[t][m] /\ Limit[t] \in Nat
          /\ counter[t][m] <= Limit[t] /\ old <= Limit[t]
          /\ m + PRUNE_AGE > minute => old <= counter[t][m]
      BY <1>1, <3>1, RateAssumption DEF RateInv, RateTypeOK, CountersHold
    <3>3. new <= Limit[t] /\ (m + PRUNE_AGE > minute => new <= counter[t][m])
      BY <3>1, <3>2
    <3>. QED  BY <3>1, <3>2, <3>3
  <2>. QED  BY <1>1, <2>1 DEF CountersHold
<1>8. SensitiveCounted' BY <1>1, <1>2, <1>3 DEF Passed, AskerBecomes, RateInv, SensitiveCounted
<1>9. RetryFindsRow' /\ DeniedWhenFull'
  BY <1>1, <1>2, <1>3
  DEF RateInv, RetryFindsRow, DeniedWhenFull, CountOf, LimitOf, AskerBecomes
<1>. QED  BY <1>4, <1>6, <1>7, <1>8, <1>9 DEF RateInv

\* An update that hits counts one more, below the limit.
LEMMA HitsInv ==
  ASSUME RateInv, NEW q \in Asker, InProgress(q), CountOf(q) < LimitOf(q),
         Counted(q, CountOf(q) + 1) /\ Passes(q), UNCHANGED <<minute, faultsLeft>>
  PROVE  RateInv'
BY PassesInv

LEMMA IncrementInv ==
  ASSUME RateInv, NEW q \in Asker, Increment(q)
  PROVE  RateInv'
<1>1. InProgress(q) /\ UNCHANGED <<minute, faultsLeft>>
  BY DEF Increment, InProgress
<1>2. CASE UpdateHits(q)
  BY <1>1, <1>2, HitsInv DEF Increment, UpdateHits
<1>3. CASE ~UpdateHits(q)
  <2>1. AskerAt(q, "create") /\ UNCHANGED counter
    BY <1>3 DEF Increment
  <2>2. PICK row \in AskerRow :
          /\ AskerBecomes(q, row) /\ row.pc = "create" /\ row.erred = asker[q].erred
          /\ row.scopes = asker[q].scopes /\ row.window = asker[q].window
          /\ row.sensitive = asker[q].sensitive /\ row.at = asker[q].at
          /\ row.counted = asker[q].counted /\ row.verdict = "none"
    <3>1. asker[q].erred \in BOOLEAN
      BY <1>1, AskerIsAt DEF AskerRow
    <3>. QED  BY <1>1, <2>1, <3>1, AskerAtBecomes
  <2>3. PICK count \in Nat : count = CountOf(q) /\ CountOf(q) <= count /\ count <= LimitOf(q)
    BY <1>1, AskerIsAt
  <2>4. faultsLeft' \in Nat
    BY <1>1 DEF RateInv, RateTypeOK
  <2>. QED  BY <1>1, <2>1, <2>2, <2>3, <2>4, StaysInv
<1>. QED  BY <1>2, <1>3

\* The insert finds no row, finds one, or fails.
LEMMA CreateInv ==
  ASSUME RateInv, NEW q \in Asker, Create(q)
  PROVE  RateInv'
<1>1. InProgress(q) /\ UNCHANGED minute
  BY DEF Create, InProgress
<1>2. /\ CountOf(q) \in Nat /\ LimitOf(q) \in Nat \ {0} /\ CountOf(q) <= LimitOf(q)
      /\ asker[q].erred \in BOOLEAN /\ faultsLeft \in Nat
  BY <1>1, AskerIsAt DEF AskerRow, RateInv, RateTypeOK
<1>3. CASE CountOf(q) = 0 /\ Counted(q, 1) /\ Passes(q) /\ UNCHANGED faultsLeft
  BY <1>2, <1>3, <1>1, PassesInv
<1>4. CASE CountOf(q) # 0 /\ AskerAt(q, "retry") /\ UNCHANGED <<counter, faultsLeft>>
  <2>1. PICK row \in AskerRow :
          /\ AskerBecomes(q, row) /\ row.pc = "retry" /\ row.erred = asker[q].erred
          /\ row.scopes = asker[q].scopes /\ row.window = asker[q].window
          /\ row.sensitive = asker[q].sensitive /\ row.at = asker[q].at
          /\ row.counted = asker[q].counted /\ row.verdict = "none"
    BY <1>1, <1>2, <1>4, AskerAtBecomes
  <2>2. PICK count \in Nat : count = CountOf(q) /\ CountOf(q) <= count /\ count <= LimitOf(q)
    BY <1>2
  <2>. QED  BY <1>1, <1>2, <1>4, <2>1, <2>2, StaysInv
<1>5. CASE /\ faultsLeft > 0 /\ faultsLeft' = faultsLeft - 1
           /\ \E took \in BOOLEAN :
                IF took /\ CountOf(q) = 0 THEN Counted(q, 1) ELSE UNCHANGED counter
           /\ asker' = [asker EXCEPT ![q].pc = "retry", ![q].erred = TRUE]
  <2>1. PICK row \in AskerRow :
          /\ AskerBecomes(q, row) /\ row.pc = "retry" /\ row.erred = TRUE
          /\ row.scopes = asker[q].scopes /\ row.window = asker[q].window
          /\ row.sensitive = asker[q].sensitive /\ row.at = asker[q].at
          /\ row.counted = asker[q].counted /\ row.verdict = "none"
    BY <1>1, <1>5, AskerAtBecomes
  <2>2. PICK count \in Nat :
          /\ CountOf(q) <= count /\ count <= LimitOf(q)
          /\ Counted(q, count) \/ (UNCHANGED counter /\ count = CountOf(q))
    BY <1>2, <1>5
  <2>3. faultsLeft' \in Nat
    BY <1>2, <1>5
  <2>. QED  BY <1>1, <2>1, <2>2, <2>3, StaysInv
<1>. QED  BY <1>3, <1>4, <1>5 DEF Create

\* A retry that finds its row full is denied.
LEMMA RetryIncrementInv ==
  ASSUME RateInv, NEW q \in Asker, RetryIncrement(q)
  PROVE  RateInv'
<1>1. InProgress(q) /\ UNCHANGED <<minute, faultsLeft>> /\ asker[q].pc = "retry"
  BY DEF RetryIncrement, InProgress
<1>2. CASE UpdateHits(q)
  BY <1>1, <1>2, HitsInv DEF RetryIncrement, UpdateHits
<1>3. CASE ~UpdateHits(q)
  <2>1. Decided(q, "denied") /\ UNCHANGED counter
    BY <1>3 DEF RetryIncrement
  <2>2. PICK row \in AskerRow :
          /\ AskerBecomes(q, row) /\ row.pc = "done" /\ row.erred = asker[q].erred
          /\ row.scopes = asker[q].scopes /\ row.window = asker[q].window
          /\ row.sensitive = asker[q].sensitive /\ row.at = asker[q].at
          /\ row.counted = asker[q].counted /\ row.verdict = "denied"
    BY <1>1, <2>1, DecidedBecomes DEF Verdict
  <2>3. PICK count \in Nat :
          /\ count = CountOf(q) /\ CountOf(q) <= count /\ count <= LimitOf(q)
          /\ ~asker[q].erred => count = LimitOf(q)
    BY <1>1, AskerIsAt, <1>3 DEF RateInv, RetryFindsRow, UpdateHits
  <2>4. faultsLeft' \in Nat
    BY <1>1 DEF RateInv, RateTypeOK
  <2>. QED  BY <1>1, <2>1, <2>2, <2>3, <2>4, StaysInv
<1>. QED  BY <1>2, <1>3

LEMMA UpdateFailsInv ==
  ASSUME RateInv, NEW q \in Asker, UpdateFails(q)
  PROVE  RateInv'
<1>1. /\ InProgress(q) /\ UNCHANGED minute
      /\ CountOf(q) \in Nat /\ LimitOf(q) \in Nat /\ CountOf(q) <= LimitOf(q)
      /\ asker[q].counted \in SUBSET Scope
  BY AskerIsAt DEF UpdateFails, InProgress
<1>2. PICK count \in Nat :
        /\ CountOf(q) <= count /\ count <= LimitOf(q)
        /\ Counted(q, count) \/ (UNCHANGED counter /\ count = CountOf(q))
  BY <1>1 DEF UpdateFails, UpdateHits
<1>3. faultsLeft' \in Nat
  BY DEF RateInv, RateTypeOK, UpdateFails
<1>4. CASE asker[q].sensitive
  <2>1. Decided(q, "failed")
    BY <1>4 DEF UpdateFails
  <2>2. PICK row \in AskerRow :
          /\ AskerBecomes(q, row) /\ row.pc = "done" /\ row.erred = asker[q].erred
          /\ row.scopes = asker[q].scopes /\ row.window = asker[q].window
          /\ row.sensitive = asker[q].sensitive /\ row.at = asker[q].at
          /\ row.counted = asker[q].counted /\ row.verdict = "failed"
    BY <1>1, <2>1, DecidedBecomes DEF Verdict
  <2>. QED  BY <1>1, <1>2, <1>3, <2>2, StaysInv
<1>5. CASE ~asker[q].sensitive
  <2>1. Onwards(q, asker[q].counted)
    BY <1>5 DEF UpdateFails
  <2>2. PICK row \in AskerRow :
          /\ AskerBecomes(q, row) /\ row.erred = asker[q].erred
          /\ row.scopes = asker[q].scopes /\ row.window = asker[q].window
          /\ row.sensitive = asker[q].sensitive /\ row.at = asker[q].at + 1
          /\ row.counted = asker[q].counted
          /\ \/ /\ asker[q].at = Len(asker[q].scopes)
                /\ row.pc = "done" /\ row.verdict = "allowed"
             \/ /\ row.at \in 1..Len(row.scopes)
                /\ row.pc = "update" /\ row.verdict = "none"
    BY <1>1, <2>1, OnwardsBecomes
  <2>. QED  BY <1>1, <1>2, <1>3, <1>5, <2>2, StaysInv
<1>. QED  BY <1>4, <1>5

\* The minute passes for nobody who still needs its counters.
LEMMA MinuteEndsInv ==
  ASSUME RateInv, MinuteEnds
  PROVE  RateInv'
<1>1. /\ RateTypeOK /\ UNCHANGED <<counter, asker, faultsLeft>>
      /\ minute \in Nat /\ PRUNE_AGE \in Nat /\ LastMinute \in Nat
      /\ minute' = minute + 1 /\ minute < LastMinute
  BY RateAssumption DEF RateInv, RateTypeOK, Minute, MinuteEnds
<1>2. RateTypeOK'
  BY <1>1 DEF RateTypeOK, Minute
<1>3. AskersAtScope' BY <1>1 DEF MinuteEnds, RateInv, AskersAtScope, InProgress
<1>4. CountersHold' BY <1>1 DEF Minute, LetThrough, RateInv, CountersHold
<1>5. SensitiveCounted' /\ RetryFindsRow'
  BY <1>1 DEF RateInv, SensitiveCounted, RetryFindsRow, CountOf
<1>6. DeniedWhenFull'
  <2>1. ASSUME NEW q \in Asker, asker[q].window + PRUNE_AGE > minute'
        PROVE  asker[q].window + PRUNE_AGE > minute
    BY <1>1, <2>1 DEF RateTypeOK, AskerRow, Minute
  <2>. QED  BY <1>1, <2>1 DEF RateInv, DeniedWhenFull, CountOf, LimitOf
<1>. QED  BY <1>2, <1>3, <1>4, <1>5, <1>6 DEF RateInv

\* Pruning takes counters that nobody asks any more.
LEMMA PruneInv ==
  ASSUME RateInv, Prune
  PROVE  RateInv'
<1>1. /\ RateTypeOK /\ UNCHANGED <<asker, minute, faultsLeft>>
      /\ minute \in Nat /\ PRUNE_AGE \in Nat
      /\ Limit \in [Scope -> Nat \ {0}]
  BY RateAssumption DEF RateInv, RateTypeOK, Minute, Prune
<1>2. ASSUME NEW s \in Scope, NEW m \in Minute
      PROVE  /\ counter'[s][m] \in {0, counter[s][m]} /\ counter[s][m] \in Nat
             /\ m + PRUNE_AGE > minute => counter'[s][m] = counter[s][m]
  BY RateAssumption, <1>1 DEF Minute, RateTypeOK, Prune
<1>3. RateTypeOK' BY <1>1 DEF Prune, RateTypeOK
<1>4. AskersAtScope' /\ SensitiveCounted'
  BY <1>1 DEF RateInv, AskersAtScope, SensitiveCounted, InProgress
<1>5. CountersHold' BY <1>1, <1>2 DEF LetThrough, RateInv, CountersHold
<1>6. ASSUME NEW q \in Asker, asker[q].window + PRUNE_AGE > minute,
             asker[q].pc = "retry" \/ asker[q].verdict = "denied"
      PROVE  CountOf(q)' = CountOf(q)
  <2>1. asker[q] \in AskerRow /\ asker[q].at \in 1..Len(asker[q].scopes)
    BY <1>6 DEF RateInv, RateTypeOK, AskersAtScope
  <2>2. asker[q].scopes[asker[q].at] \in Scope /\ asker[q].window \in Minute
    BY <2>1 DEF AskerRow
  <2>. QED  BY <1>1, <1>2, <1>6, <2>2 DEF CountOf
<1>7. RetryFindsRow' BY AskerIsAt, <1>1, <1>6 DEF InProgress, RateInv, RetryFindsRow
<1>8. DeniedWhenFull' BY <1>1, <1>6 DEF LimitOf, RateInv, DeniedWhenFull
<1>. QED  BY <1>3, <1>4, <1>5, <1>7, <1>8 DEF RateInv

LEMMA RateStepInv ==
  ASSUME RateInv, RateNext \/ UNCHANGED rateVars
  PROVE  RateInv'
<1>1. CASE RateNext
  <2>1. ASSUME NEW q \in Asker, RateStep(q) \/ UpdateFails(q)
        PROVE  RateInv'
    BY <2>1, ReadClockInv, IncrementInv, CreateInv, RetryIncrementInv, UpdateFailsInv
    DEF RateStep
  <2>. QED  BY <1>1, <2>1, MinuteEndsInv, PruneInv DEF RateNext
<1>2. CASE UNCHANGED rateVars
  BY <1>2
  DEF rateVars, RateInv, RateTypeOK, AskersAtScope, CountersHold, SensitiveCounted,
      RetryFindsRow, DeniedWhenFull, LetThrough, CountOf, LimitOf, InProgress
<1>. QED  BY <1>1, <1>2

\* However many requests race for a minute's counters, and whichever statements
\* fail, no scope lets more of them through than its limit, a sensitive request is
\* allowed only when every scope has counted it, and none whose statements
\* succeeded is denied by a counter with room (checkRateLimit).
THEOREM LimitsAreKept == RateSpec => []RateLimitKept
<1>1. RateInv => RateLimitKept
  BY DEF RateInv, RateTypeOK, AskerRow, SensitiveCounted, Passed, CountersHold, RateLimitKept,
     AllowedWithinLimit
<1>. QED  BY RateInitInv, RateStepInv, <1>1, PTL DEF RateSpec

-----------------------------------------------------------------------------
(* SessionExecution: what a call holds, and what its session stands on.    *)

DecRow == [state : Open \cup Final, claim : Id, live : BOOLEAN, attempts : Nat]
SessRow == [state : SessionState, active : OrNone(Resource), claim : Id, live : BOOLEAN]
ResRow == [state : {"AVAILABLE", "RESERVED", "IN_USE"}, by : OrNone(Session)]
CallRow == [pc : Pc, job : OrNone(Job), from : OrNone(SessionState), prev : OrNone(Resource),
            seen : OrNone(ActionState \cup SessionState), lost : BOOLEAN, goal : Goal]

Works(c) == call[c].pc # "idle"
On(c, s) == Works(c) /\ S(c) = s
Owner(c) == sess[S(c)].claim = c
Up == {"ACTIVE", "DEGRADED", "SWITCHING"}

\* Where a call is: on its way to the reservation, with a reservation, moved to it,
\* about to report success.
Before == {"verify1", "switching", "reserve"}
Holding == {"bridge", "verify2", "markInUse", "usable", "verify3", "update"}
Moved == {"discover", "activate", "verify4", "releaseOld"}
Claimed == {"deadLetter", "claim", "mark", "slot", "requeue", "authority", "create", "freeSlot"}
Pre(c) == \/ call[c].pc \in Before
          \/ call[c].pc = "transit" /\ call[c].goal \in {"AUTHORIZED", "EXECUTING"}
Mid(c) == call[c].pc \in Holding \cup Moved
Finishing(c) == \/ call[c].pc = "invariant"
                \/ call[c].pc = "transit" /\ call[c].goal = "SUCCEEDED"
Past(c) == Mid(c) \/ Finishing(c)

\* What a call's program counter says of its job and its goal.
LocalsOf(c) ==
  /\ call[c].job \in Job
  /\ call[c].pc \in Claimed => Fenced(c)
  /\ call[c].pc \in {"simple", "simpleMove"} => ~Fenced(c)
  /\ call[c].pc = "transit" =>
       call[c].goal \in {"AUTHORIZED", "EXECUTING", "SUCCEEDED", "FAILED", Recon, "VIOLATED"}
  /\ call[c].pc \in {"catch", "giveBack", "revert"} => call[c].goal \in {"FAILED", Recon}
  /\ call[c].pc = "record" => call[c].goal \in {"SUCCEEDED", "FAILED", Recon}
  /\ call[c].pc = "simpleMove" => call[c].goal \in {"DEGRADED", "ACTIVE", "ENDED"}
  /\ Switching(c) /\ call[c].pc \in Before \cup Holding \cup Moved \cup {"giveBack", "revert"}
       => call[c].from \in {"ACTIVE", "DEGRADED"}
  /\ call[c].pc = "switching" => Switching(c)
  /\ call[c].pc \notin Claimed => act[J(c)] # "none"
  /\ call[c].pc \in Before \/ (call[c].pc = "transit" /\ call[c].goal = "EXECUTING")
       => act[J(c)] # "PLANNED"
LocalsInv == \A c \in Call : Works(c) => LocalsOf(c)
CronInv == cron.pc # "idle" => cron.job \in Job
JobInv == \A j \in Job : job[j].api \/ job[j].type \in {"ACTIVATE", "SWITCH"}
Sound == TypeOK /\ JobInv /\ CronInv /\ LocalsInv

\* A job of the API is worked on by one call; a job whose call may still come to reserve
\* has reserved nothing; one that reserved is started, and one that succeeded has reserved.
OneApiCall == \A c, d \in Call : Works(c) /\ Works(d) /\ J(c) = J(d) /\ ~Fenced(c) => c = d
NotYet == \A c \in Call : Works(c) /\ Pre(c) /\ (Fenced(c) => Owner(c)) => reserves[J(c)] = 0
Reservations == \A j \in Job :
  /\ reserves[j] <= 1
  /\ reserves[j] > 0 => act[j] \notin {"none", "PLANNED"}
  /\ reserves[j] = 0 /\ ~job[j].api => act[j] # "SUCCEEDED"
Tried == \A c \in Call : Works(c) /\ Fenced(c) /\ Past(c) => reserves[J(c)] > 0

\* Of a decision's calls one is past the reservation, and has not reported yet.
OnePast == \A c, d \in Call :
  Works(c) /\ Works(d) /\ J(c) = J(d) /\ Fenced(c) /\ Past(c) /\ Past(d) => c = d
Unreported == \A c \in Call : Works(c) /\ Fenced(c) /\ Past(c) => act[J(c)] # "SUCCEEDED"

\* The sessions the API leaves alone: as long as a call has the slot, nobody moves the
\* session but this call, and nobody takes what it reserved.
InSlot == {s \in Session : ~ApiRuns(s)}
PrevIsActive == \A s \in InSlot, c \in Call :
  On(c, s) /\ Owner(c) /\ (Pre(c) \/ call[c].pc \in Holding) => call[c].prev = sess[s].active
Stand == \A s \in InSlot :
  /\ sess[s].active = None \/ UsedBy(sess[s].active, s)
  /\ sess[s].state \in Up => sess[s].active # None
TargetHeld == \A s \in InSlot, c \in Call : On(c, s) /\ Owner(c) =>
  /\ call[c].pc \in (Holding \ {"update"}) \cup {"giveBack"} => sess[s].active # Target(c)
  /\ call[c].pc \in {"verify3", "update"} => UsedBy(Target(c), s)
  /\ call[c].pc \in Moved => sess[s].active = Target(c)

ReserveInv == OneApiCall /\ NotYet /\ Reservations /\ Tried /\ OnePast /\ Unreported
StandInv == PrevIsActive /\ Stand /\ TargetHeld
SlotInv == ReserveInv /\ StandInv

\* A session that is activated once, and has nothing before.
Once(s) == s \in InSlot /\ SingleActivation(s)
ToActivate(s) == \E j \in Job : job[j].session = s /\ job[j].type = "ACTIVATE" /\ reserves[j] = 0
Unactivated == \A s \in Session : Once(s) /\ ToActivate(s) =>
  /\ sess[s].active = None /\ sess[s].state \notin Up
  /\ \A c \in Call : On(c, s) => call[c].prev = None /\ call[c].from \notin {"ACTIVE", "DEGRADED"}
FromNothing == \A s \in Session, c \in Call :
  Once(s) /\ On(c, s) /\ job[J(c)].type = "ACTIVATE" => call[c].prev = None

\* What a call leaves to its session besides the resource the session stands on, should
\* it fail now: its target until the session has moved, then the resource it moved from.
Covers(c) == IF call[c].pc \in Holding THEN {Target(c)} ELSE {call[c].prev} \ {Target(c)}
Answers(j, r) ==
  /\ act[j] \notin {"none", "SUCCEEDED"} /\ reserves[j] > 0
  /\ \A c \in Call : Works(c) /\ J(c) = j /\ Past(c) => Mid(c) /\ r \in Covers(c)
Told == \A s \in Session, r \in Resource :
  Once(s) /\ res[r].by = s /\ r # sess[s].active =>
    \E j \in Job : job[j].session = s /\ Answers(j, r)

OrphanInv == Unactivated /\ FromNothing /\ Told

-----------------------------------------------------------------------------
(* The steps of a call that reserve nothing and move no session.           *)

OthersStay(c) == /\ call' \in [Call -> CallRow]
                 /\ \A d \in Call \ {c} : call'[d] = call[d]

ActForward(c) == \A j \in Job :
  \/ act'[j] = act[j]
  \/ act[j] = "none" /\ act'[j] = "PLANNED"
  \/ /\ act'[j] \notin {"none", "PLANNED"}
     /\ act'[j] = "SUCCEEDED" => Works(c) /\ J(c) = j /\ Finishing(c) /\ ~Past(c)'

SlotForward(c) == \A s \in Session :
  /\ sess'[s].active = sess[s].active
  /\ \/ sess'[s].claim = sess[s].claim \/ sess'[s].claim \notin Call
     \/ sess'[s].claim = c /\ call'[c].pc = "authority"
  /\ \/ sess'[s].state \notin Up \/ sess[s].state \in Up
     \/ Works(c) /\ s = S(c) /\ (Fenced(c) => Owner(c) /\ call[c].pc \in Moved)

ResForward(c) == \A r \in Resource :
  \/ res'[r] = res[r]
  \/ /\ Works(c) /\ res[r].by = S(c)
     /\ \/ res'[r] = [state |-> "IN_USE", by |-> S(c)]
        \/ /\ res'[r].by = None
           /\ S(c) \in InSlot => /\ Owner(c) /\ r # sess[S(c)].active
                                 /\ call'[c].pc \notin {"verify3", "update"}

Starts(c) == /\ call[c].pc = "idle" /\ call'[c].pc \in Claimed \cup {"load"}
             /\ call'[c].prev = None /\ call'[c].from = None
             /\ Fenced(c)' \/ act[J(c)'] = "none"
Follows(c) ==
  /\ Works(c) /\ call'[c].pc # "idle"
  /\ call'[c].job = call[c].job /\ call'[c].from = call[c].from /\ call'[c].prev = call[c].prev
  /\ Pre(c)' => Pre(c)
  /\ call'[c].pc \in Holding => call[c].pc \in Holding
  /\ call'[c].pc \in Holding \ {"update"} => call[c].pc \in Holding \ {"update"}
  /\ call'[c].pc = "giveBack" => call[c].pc \in (Holding \ {"update"}) \cup {"giveBack"}
  /\ call'[c].pc \in {"verify3", "update"} =>
       call[c].pc \in {"verify3", "update"} \/ UsedBy(Target(c), S(c))
  /\ call'[c].pc \in Moved => call[c].pc \in Moved
  /\ Finishing(c)' => \/ Finishing(c) \/ ~Fenced(c)
                      \/ /\ call[c].pc \in Moved
                         /\ \/ call[c].prev \in {None, Target(c)} \/ ~Switching(c)
                            \/ res'[call[c].prev].by # S(c)

Forward(c) ==
  /\ OthersStay(c)
  /\ Starts(c) \/ Follows(c) \/ call'[c].pc = "idle"
  /\ ActForward(c) /\ SlotForward(c) /\ ResForward(c)
  /\ job' = job /\ reserves' = reserves

LEMMA Working ==
  ASSUME Sound, NEW c \in Call, Works(c)
  PROVE  /\ call[c] \in CallRow /\ J(c) \in Job /\ LocalsOf(c)
         /\ S(c) \in Session /\ Target(c) \in Resource /\ job[J(c)] \in JobRow
BY DEF Sound, TypeOK, CallRow, LocalsInv, LocalsOf, J, S, Target, JobRow

\* A call that has something to lose after the step had it before.
LEMMA RunKept ==
  ASSUME Sound, Sound', NEW c \in Call, Forward(c),
         NEW d \in Call, Works(d)', call'[d].pc \notin Claimed \cup {"load"}
  PROVE  /\ Works(d) /\ call'[d].job = call[d].job /\ call'[d].from = call[d].from
         /\ call'[d].prev = call[d].prev
         /\ d # c => call'[d] = call[d]
         /\ d = c => Follows(c)
         /\ J(d) \in Job /\ S(d) \in Session /\ Target(d) \in Resource
         /\ J(d)' = J(d) /\ S(d)' = S(d) /\ Target(d)' = Target(d)
         /\ Fenced(d)' = Fenced(d) /\ Switching(d)' = Switching(d)
         /\ Owner(d)' => Owner(d)
<1>1. Works(d) /\ call'[d].job = call[d].job /\ call'[d].from = call[d].from
      /\ call'[d].prev = call[d].prev /\ (d # c => call'[d] = call[d]) /\ (d = c => Follows(c))
  BY DEF Forward, OthersStay, Starts, Follows, Works
<1>2. J(d) \in Job /\ S(d) \in Session /\ Target(d) \in Resource
  BY <1>1, Working
<1>3. J(d)' = J(d) /\ S(d)' = S(d) /\ Target(d)' = Target(d) /\ Fenced(d)' = Fenced(d)
      /\ Switching(d)' = Switching(d)
  BY <1>1 DEF Forward, J, S, Target, Fenced, Switching
<1>4. Owner(d)' => Owner(d) BY <1>2, <1>3 DEF Forward, SlotForward, Owner, Claimed
<1>. QED  BY <1>1, <1>2, <1>3, <1>4

LEMMA InSlotKept ==
  ASSUME job' = job
  PROVE  /\ InSlot' = InSlot
         /\ \A s : SingleActivation(s)' = SingleActivation(s) /\ Once(s)' = Once(s)
BY DEF InSlot, ApiRuns, SingleActivation, Once

LEMMA FencedInSlot ==
  ASSUME Sound, NEW c \in Call, Works(c), S(c) \in InSlot
  PROVE  Fenced(c)
BY Working DEF InSlot, ApiRuns, Fenced, S

LEMMA ForwardSlot ==
  ASSUME Sound, Sound', SlotInv, NEW c \in Call, Forward(c)
  PROVE  SlotInv'
<1>. USE DEF Claimed
<1>1. OneApiCall'
  <2>. SUFFICES ASSUME NEW d \in Call, NEW e \in Call, Works(d)', Works(e)', J(d)' = J(e)',
                       ~Fenced(d)'
                PROVE  d = e
    BY DEF OneApiCall
  <2>0. ~Fenced(e)'
    BY DEF Fenced
  <2>1. ASSUME NEW f \in Call, Works(f)', ~Fenced(f)'
        PROVE  \/ Works(f) /\ J(f)' = J(f) /\ ~Fenced(f)
               \/ f = c /\ call[c].pc = "idle" /\ act[J(c)'] = "none"
    BY <2>1 DEF Forward, OthersStay, Starts, Follows, Works, J, Fenced
  <2>2. ASSUME NEW f \in Call, Works(f), ~Fenced(f)
        PROVE  act[J(f)] # "none"
    BY <2>2, Working DEF LocalsOf
  <2>. QED  BY <2>0, <2>1, <2>2 DEF SlotInv, ReserveInv, OneApiCall
<1>2. NotYet'
  <2>. SUFFICES ASSUME NEW d \in Call, Works(d)', Pre(d)', Fenced(d)' => Owner(d)'
                PROVE  reserves'[J(d)'] = 0
    BY DEF NotYet
  <2>1. call'[d].pc \notin Claimed \cup {"load"}
    BY DEF Pre, Before
  <2>2. Pre(d)
    BY <2>1, RunKept DEF Follows, Pre
  <2>. QED  BY <2>1, <2>2, RunKept DEF SlotInv, ReserveInv, NotYet, Forward
<1>3. Reservations'
  <2>1. ASSUME NEW j \in Job, act'[j] = "SUCCEEDED", act[j] # "SUCCEEDED", ~job[j].api
        PROVE  reserves[j] > 0
    BY <2>1 DEF Forward, ActForward, SlotInv, ReserveInv, Tried, Past, Fenced
  <2>2. ASSUME NEW j \in Job
        PROVE  act[j] \notin {"none", "PLANNED"} => act'[j] \notin {"none", "PLANNED"}
    BY DEF Forward, ActForward
  <2>3. \A j \in Job : reserves[j] \in Nat
    BY DEF Sound, TypeOK
  <2>. QED  BY <2>1, <2>2, <2>3 DEF SlotInv, ReserveInv, Reservations, Forward
<1>4. Tried'
  <2>. SUFFICES ASSUME NEW d \in Call, Works(d)', Fenced(d)', Past(d)'
                PROVE  reserves'[J(d)'] > 0
    BY DEF Tried
  <2>1. call'[d].pc \notin Claimed \cup {"load"}
    BY DEF Past, Mid, Finishing, Holding, Moved
  <2>2. Past(d)
    BY <2>1, RunKept DEF Follows, Past, Mid, Finishing
  <2>. QED  BY <2>1, <2>2, RunKept DEF SlotInv, ReserveInv, Tried, Forward
<1>5. PrevIsActive'
  <2>. SUFFICES ASSUME NEW s \in InSlot', NEW d \in Call, On(d, s)', Owner(d)',
                       Pre(d)' \/ call'[d].pc \in Holding
                PROVE  call'[d].prev = sess'[s].active
    BY DEF PrevIsActive
  <2>1. Works(d)' /\ S(d)' = s /\ call'[d].pc \notin Claimed \cup {"load"}
    BY DEF Pre, Before, Holding, On
  <2>2. Pre(d) \/ call[d].pc \in Holding
    BY <2>1, RunKept DEF Follows, Pre
  <2>3. s \in InSlot /\ s \in Session
    BY InSlotKept DEF Forward, InSlot
  <2>. QED  BY <2>1, <2>2, <2>3, RunKept DEF SlotInv, StandInv, PrevIsActive, On, Forward, SlotForward
<1>6. Stand'
  <2>. SUFFICES ASSUME NEW s \in InSlot
                PROVE  /\ sess'[s].active = None \/ UsedBy(sess[s].active, s)'
                       /\ sess'[s].state \in Up => sess'[s].active # None
    BY InSlotKept DEF Stand, Forward
  <2>1. s \in Session /\ sess'[s].active = sess[s].active /\ sess[s] \in SessRow
    BY DEF InSlot, Forward, SlotForward, Sound, TypeOK, SessRow
  <2>2. ASSUME sess[s].active # None
        PROVE  UsedBy(sess[s].active, s)'
    BY <2>1, <2>2 DEF SlotInv, StandInv, Stand, SessRow, OrNone, Forward, ResForward, UsedBy
  <2>3. ASSUME sess'[s].state \in Up
        PROVE  sess[s].active # None
    BY FencedInSlot, Working, NullAssumption, <2>3, <2>1 DEF SlotInv, StandInv, Stand, TargetHeld,
       On, Forward, SlotForward
  <2>. QED  BY <2>1, <2>2, <2>3
<1>7. TargetHeld'
  <2>. SUFFICES ASSUME NEW s \in InSlot, NEW d \in Call, Works(d)', S(d)' = s, Owner(d)',
                       call'[d].pc \in Holding \cup {"giveBack"} \cup Moved
                PROVE  /\ call'[d].pc \in (Holding \ {"update"}) \cup {"giveBack"}
                            => sess'[s].active # Target(d)'
                       /\ call'[d].pc \in {"verify3", "update"} => UsedBy(Target(d), s)'
                       /\ call'[d].pc \in Moved => sess'[s].active = Target(d)'
    BY InSlotKept DEF TargetHeld, Forward, On, Holding
  <2>1. call'[d].pc \notin Claimed \cup {"load"}
    BY DEF Holding, Moved
  <2>2. /\ Works(d) /\ S(d) = s /\ Owner(d) /\ Target(d)' = Target(d) /\ Target(d) \in Resource
        /\ d # c => call'[d] = call[d]
        /\ d = c => Follows(c)
    BY <2>1, RunKept
  <2>3. s \in Session /\ sess'[s].active = sess[s].active
    BY DEF InSlot, Forward, SlotForward
  <2>4. ASSUME call'[d].pc \in {"verify3", "update"}
        PROVE  UsedBy(Target(d), s)'
    BY <2>2, <2>4 DEF SlotInv, StandInv, TargetHeld, On, Follows, UsedBy, Owner, Forward, ResForward
  <2>5. ASSUME call'[d].pc \in (Holding \ {"update"}) \cup {"giveBack"}
        PROVE  sess[s].active # Target(d)
    BY <2>2, <2>5 DEF SlotInv, StandInv, TargetHeld, On, Follows, Holding
  <2>6. ASSUME call'[d].pc \in Moved
        PROVE  sess[s].active = Target(d)
    BY <2>2, <2>6 DEF SlotInv, StandInv, TargetHeld, On, Follows
  <2>. QED  BY <2>2, <2>3, <2>4, <2>5, <2>6
<1>8. ASSUME NEW d \in Call, Works(d)', Fenced(d)', Past(d)'
      PROVE  Works(d) /\ Fenced(d) /\ Past(d) /\ J(d)' = J(d) /\ J(d) \in Job
  BY <1>8, RunKept DEF Past, Mid, Finishing, Holding, Moved, Follows
<1>9. OnePast'
  <2>. SUFFICES ASSUME NEW d \in Call, NEW e \in Call, Works(d)', Works(e)', J(d)' = J(e)',
                       Fenced(d)', Past(d)', Past(e)'
                PROVE  d = e
    BY DEF OnePast
  <2>1. Fenced(e)'
    BY DEF Fenced
  <2>. QED  BY <1>8, <2>1 DEF SlotInv, ReserveInv, OnePast
<1>10. Unreported'
  <2>. SUFFICES ASSUME NEW d \in Call, Works(d)', Fenced(d)', Past(d)', act'[J(d)'] = "SUCCEEDED"
                PROVE  FALSE
    BY DEF Unreported
  <2>1. Works(d) /\ Fenced(d) /\ Past(d) /\ J(d)' = J(d) /\ J(d) \in Job
    BY <1>8
  <2>2. act[J(d)] # "SUCCEEDED"
    BY <2>1 DEF SlotInv, ReserveInv, Unreported
  <2>3. Works(c) /\ J(c) = J(d) /\ Finishing(c) /\ ~Past(c)'
    BY <2>1, <2>2 DEF Forward, ActForward
  <2>. QED  BY <2>1, <2>3 DEF SlotInv, ReserveInv, OnePast, Past
<1>. QED  BY <1>1, <1>2, <1>3, <1>4, <1>5, <1>6, <1>7, <1>9, <1>10 DEF SlotInv, ReserveInv, StandInv

LEMMA OnlyActivation ==
  ASSUME JobInv, NEW s, SingleActivation(s), NEW i \in Job, NEW j \in Job,
         job[i].session = s, job[j].session = s,
         job[i].type = "ACTIVATE", job[j].type = "ACTIVATE"
  PROVE  i = j
<1>. DEFINE starts == {k \in Job : job[k].session = s /\ job[k].type = "ACTIVATE"}
<1>1. IsFiniteSet(starts) /\ IsFiniteSet({i, j}) /\ {i, j} \subseteq starts
  BY PlanAssumption, FS_Subset, FS_AddElement, FS_EmptySet
<1>2. Cardinality(starts) <= 1
  BY DEF SingleActivation
<1>3. ASSUME i # j
      PROVE  FALSE
  <2>1. IsFiniteSet({i}) /\ Cardinality({i}) = 1 /\ j \notin {i} /\ {i} \cup {j} = {i, j}
    BY <1>3, FS_Singleton
  <2>2. Cardinality({i, j}) = 2
    BY <2>1, FS_AddElement
  <2>. QED  BY <1>1, <1>2, <2>2, FS_Subset, FS_CardinalityType
<1>. QED  BY <1>3

\* A call past its reservation that works on a session not activated yet: there is none.
LEMMA NoneIsPast ==
  ASSUME Sound, SlotInv, Unactivated, NEW c \in Call, Works(c), Once(S(c)),
         ToActivate(S(c)), Past(c), call[c].pc # "transit", call[c].pc # "invariant"
  PROVE  FALSE
<1>1. J(c) \in Job /\ S(c) \in Session /\ Fenced(c) /\ LocalsOf(c)
  BY Working, FencedInSlot DEF Once
<1>2. job[J(c)].type \in {"ACTIVATE", "SWITCH"}
  BY <1>1 DEF Sound, JobInv, Fenced
<1>3. CASE job[J(c)].type = "ACTIVATE"
  <2>1. PICK i \in Job : job[i].session = S(c) /\ job[i].type = "ACTIVATE" /\ reserves[i] = 0
    BY DEF ToActivate
  <2>2. i = J(c)
    BY <1>1, <1>3, <2>1, OnlyActivation DEF Sound, S, Once
  <2>. QED  BY <1>1, <2>1, <2>2 DEF SlotInv, ReserveInv, Tried
<1>4. CASE job[J(c)].type = "SWITCH"
  BY <1>1, <1>4 DEF LocalsOf, Switching, Past, Mid, Finishing, Unactivated, On
<1>. QED  BY <1>2, <1>3, <1>4

LEMMA ForwardUnactivated ==
  ASSUME Sound, Sound', SlotInv, Unactivated, NEW c \in Call, Forward(c)
  PROVE  Unactivated'
<1>. SUFFICES ASSUME NEW s \in Session, Once(s), ToActivate(s)
              PROVE  /\ sess'[s].active = None /\ sess'[s].state \notin Up
                     /\ \A d \in Call : On(d, s)' =>
                          call'[d].prev = None /\ call'[d].from \notin {"ACTIVE", "DEGRADED"}
  BY InSlotKept DEF Unactivated, Forward, ToActivate
<1>1. sess'[s].active = None /\ sess[s].state \notin Up
  BY DEF Unactivated, Forward, SlotForward
<1>2. sess'[s].state \notin Up
  BY FencedInSlot, NoneIsPast, <1>1 DEF Once, Moved, Past, Mid, Forward, SlotForward
<1>3. ASSUME NEW d \in Call, On(d, s)'
      PROVE  call'[d].prev = None /\ call'[d].from \notin {"ACTIVE", "DEGRADED"}
  <2>1. CASE d = c /\ Starts(c)
    BY <2>1, NullAssumption DEF Starts, SessionState
  <2>2. CASE d # c \/ Follows(c)
    BY <1>3, <2>2 DEF On, Works, Forward, OthersStay, Follows, S, J, Unactivated
  <2>. QED  BY <1>3, <2>1, <2>2 DEF Forward, On, Works
<1>. QED  BY <1>1, <1>2, <1>3

LEMMA ForwardFromNothing ==
  ASSUME Sound, FromNothing, NEW c \in Call, Forward(c)
  PROVE  FromNothing'
<1>. SUFFICES ASSUME NEW s \in Session, NEW d \in Call, Once(s), On(d, s)',
                     job[J(d)'].type = "ACTIVATE"
              PROVE  call'[d].prev = None
  BY InSlotKept DEF FromNothing, Forward
<1>1. CASE d = c /\ Starts(c)
  BY <1>1 DEF Starts
<1>2. CASE d # c \/ Follows(c)
  BY <1>2 DEF On, Works, Forward, OthersStay, Follows, S, J, FromNothing
<1>. QED  BY <1>1, <1>2 DEF Forward, On, Works

LEMMA ForwardTold ==
  ASSUME Sound, Sound', SlotInv, OrphanInv, NEW c \in Call, Forward(c)
  PROVE  Told'
<1>. SUFFICES ASSUME NEW s \in Session, NEW r \in Resource, Once(s), res'[r].by = s,
                     r # sess'[s].active
              PROVE  \E j \in Job : job[j].session = s /\ Answers(j, r)'
  BY InSlotKept DEF Told, Forward
<1>1. res[r].by = s /\ r # sess[s].active
  BY NullAssumption DEF Forward, ResForward, SlotForward
<1>2. PICK j \in Job : job[j].session = s /\ Answers(j, r)
  BY <1>1 DEF OrphanInv, Told
<1>3. reserves'[j] > 0
  BY <1>2 DEF Answers, Forward
<1>4. act'[j] \notin {"none", "SUCCEEDED"}
  BY <1>2 DEF Answers, Past, Mid, Finishing, Holding, Moved, Forward, ActForward
<1>5. ASSUME NEW d \in Call, Works(d)', J(d)' = j, Past(d)'
      PROVE  Mid(d)' /\ r \in Covers(d)'
  <2>0. call'[d].pc \notin Claimed \cup {"load"}
    BY <1>5 DEF Past, Mid, Finishing, Holding, Moved, Claimed
  <2>1. Works(d) /\ J(d) = j /\ S(d) = s /\ Target(d)' = Target(d) /\ call'[d].prev = call[d].prev
    BY <1>2, <1>5, <2>0, RunKept DEF S
  <2>2. Fenced(d)
    BY <2>1, FencedInSlot DEF Once
  <2>3. CASE d # c \/ ~Finishing(c)'
    BY <1>5, <2>0, <2>3, RunKept, <1>2, <2>1 DEF Follows, Finishing, Answers, Past, Mid, Covers,
       Holding, Moved
  <2>4. CASE d = c /\ Finishing(c)'
    <3>1. Follows(c)
      BY <1>5, <2>0, <2>4, RunKept
    <3>2. ~Finishing(c)
      BY <1>2, <2>1, <2>4 DEF Answers, Past, Mid, Finishing, Holding, Moved
    <3>3. /\ call[c].pc \in Moved
          /\ call[c].prev \in {None, Target(c)} \/ ~Switching(c) \/ res'[call[c].prev].by # S(c)
      BY <2>2, <2>4, <3>1, <3>2 DEF Follows
    <3>4. r = call[c].prev /\ r # Target(c)
      BY <1>2, <2>1, <2>4, <3>3 DEF Answers, Past, Mid, Covers, Holding, Moved
    <3>5. ~Switching(c)
      BY <2>1, <2>4, <3>3, <3>4, NullAssumption
    <3>6. job[J(c)].type = "ACTIVATE"
      BY <1>2, <2>1, <2>2, <2>4, <3>5 DEF Sound, JobInv, Fenced, Switching
    <3>7. call[c].prev = None
      BY <2>1, <2>4, <3>6 DEF OrphanInv, FromNothing, On
    <3>. QED  BY <3>4, <3>7, NullAssumption
  <2>. QED  BY <2>3, <2>4
<1>. QED  BY <1>2, <1>3, <1>4, <1>5 DEF Answers

-----------------------------------------------------------------------------
(* The steps of a call, one by one.                                        *)

LeftRow == [lapses : Nat, crashes : Nat, faults : Nat, pump : BOOLEAN]

\* The call goes on at `pc` with `goal`, in the same run.
Sets(c, pc, goal) ==
  /\ OthersStay(c)
  /\ call'[c].pc = pc /\ call'[c].goal = goal /\ call'[c].job = call[c].job
  /\ call'[c].from = call[c].from /\ call'[c].prev = call[c].prev

LEMMA NewLocals ==
  ASSUME Sound, NEW c \in Call, NEW l \in CallRow, Locals(c, l)
  PROVE  OthersStay(c) /\ call'[c] = l
BY DEF Sound, TypeOK, CallRow, Locals, OthersStay

LEMMA Going ==
  ASSUME Sound, NEW c \in Call, NEW pc \in Pc, Goto(c, pc)
  PROVE  Sets(c, pc, call[c].goal)
<1>. DEFINE l == [call[c] EXCEPT !.pc = pc]
<1>1. call[c] \in CallRow
  BY DEF Sound, TypeOK, CallRow
<1>2. /\ l \in CallRow /\ l.pc = pc /\ l.goal = call[c].goal /\ l.job = call[c].job
      /\ l.from = call[c].from /\ l.prev = call[c].prev
  BY <1>1 DEF CallRow
<1>. HIDE DEF l
<1>3. Locals(c, l)
  BY DEF Goto, l
<1>. QED  BY <1>2, <1>3, NewLocals DEF Sets

LEMMA Telling ==
  ASSUME Sound, NEW c \in Call, NEW pc \in Pc, NEW goal \in Goal,
         Locals(c, [call[c] EXCEPT !.pc = pc, !.goal = goal])
  PROVE  Sets(c, pc, goal)
<1>. DEFINE l == [call[c] EXCEPT !.pc = pc, !.goal = goal]
<1>1. call[c] \in CallRow
  BY DEF Sound, TypeOK, CallRow
<1>2. /\ l \in CallRow /\ l.pc = pc /\ l.goal = goal /\ l.job = call[c].job
      /\ l.from = call[c].from /\ l.prev = call[c].prev
  BY <1>1 DEF CallRow
<1>. HIDE DEF l
<1>3. Locals(c, l)
  BY DEF l
<1>. QED  BY <1>2, <1>3, NewLocals DEF Sets

LEMMA Aiming ==
  ASSUME Sound, NEW c \in Call, NEW pc \in Pc, NEW goal \in Goal,
         NEW seen \in OrNone(ActionState \cup SessionState),
         Locals(c, [call[c] EXCEPT !.pc = pc, !.goal = goal, !.seen = seen])
  PROVE  Sets(c, pc, goal)
<1>. DEFINE l == [call[c] EXCEPT !.pc = pc, !.goal = goal, !.seen = seen]
<1>1. call[c] \in CallRow
  BY DEF Sound, TypeOK, CallRow
<1>2. /\ l \in CallRow /\ l.pc = pc /\ l.goal = goal /\ l.job = call[c].job
      /\ l.from = call[c].from /\ l.prev = call[c].prev
  BY <1>1 DEF CallRow
<1>. HIDE DEF l
<1>3. Locals(c, l)
  BY DEF l
<1>. QED  BY <1>2, <1>3, NewLocals DEF Sets

LEMMA Returning ==
  ASSUME Sound, NEW c \in Call, Return(c)
  PROVE  OthersStay(c) /\ call'[c].pc = "idle"
<1>1. Idle \in CallRow /\ Idle.pc = "idle"
  BY DEF Idle, CallRow, Pc, Goal, OrNone
<1>. QED  BY <1>1, NewLocals DEF Return

LEMMA SoundStep ==
  ASSUME Sound, NEW c \in Call, OthersStay(c), ActForward(c),
         Works(c)' => LocalsOf(c)',
         job' = job, cron' = cron, gone' = gone,
         dec' \in [Job -> DecRow], act' \in [Job -> ActionState],
         sess' \in [Session -> SessRow], res' \in [Resource -> ResRow],
         reserves' \in [Job -> Nat], left' \in LeftRow
  PROVE  Sound'
<1>1. TypeOK'
  BY DEF Sound, TypeOK, OthersStay, CallRow, DecRow, SessRow, ResRow, LeftRow
<1>2. ASSUME NEW d \in Call, d # c, Works(d)'
      PROVE  LocalsOf(d)'
  BY <1>2, Working DEF OthersStay, Works, J, Fenced, Switching, ActForward, LocalsOf, Claimed,
     Before
<1>3. LocalsInv'
  BY <1>2 DEF LocalsInv
<1>. QED  BY <1>1, <1>3 DEF Sound, JobInv, CronInv

LEMMA TypedVars ==
  ASSUME Sound
  PROVE  /\ dec \in [Job -> DecRow] /\ act \in [Job -> ActionState]
         /\ sess \in [Session -> SessRow] /\ res \in [Resource -> ResRow]
         /\ reserves \in [Job -> Nat] /\ left \in LeftRow /\ call \in [Call -> CallRow]
BY DEF Sound, TypeOK, CallRow, DecRow, SessRow, ResRow, LeftRow

\* The call only goes on: rows of decisions and what is left of the bounds may change.
LEMMA Going_on ==
  ASSUME Sound, NEW c \in Call, Works(c), NEW pc, NEW goal, Sets(c, pc, goal),
         pc # "idle" => LocalsOf(c)' /\ Follows(c),
         UNCHANGED <<job, act, sess, res, gone, cron, reserves>>,
         dec' \in [Job -> DecRow], left' \in LeftRow
  PROVE  Sound' /\ Forward(c)
BY TypedVars, SoundStep DEF ActForward, SlotForward, ResForward, Sets, Works, Forward

LEMMA Ending ==
  ASSUME Sound, NEW c \in Call, OthersStay(c), call'[c].pc = "idle",
         UNCHANGED <<job, act, res, gone, cron, reserves>>, SlotForward(c),
         dec' \in [Job -> DecRow], sess' \in [Session -> SessRow], left' \in LeftRow
  PROVE  Sound' /\ Forward(c)
BY TypedVars, SoundStep DEF ActForward, ResForward, Works, Forward

LEMMA DeadLetterStep ==
  ASSUME Sound, NEW c \in Call, DeadLetter(c)
  PROVE  Sound' /\ Forward(c)
BY Returning, TypedVars, Ending DEF DeadLetter, DecRow, Final, SlotForward

LEMMA ClaimingRow ==
  ASSUME Sound, NEW j \in Job, NEW id \in Id, ClaimRow(j, id)
  PROVE  dec' \in [Job -> DecRow]
<1>1. PICK n \in Nat : n = dec[j].attempts + 1
  BY TypedVars DEF DecRow
<1>2. [state |-> "EXECUTION_CLAIMED", claim |-> id, live |-> TRUE, attempts |-> n] \in DecRow
  BY DEF DecRow, Open
<1>3. dec' = [dec EXCEPT ![j] = [state |-> "EXECUTION_CLAIMED", claim |-> id, live |-> TRUE,
                                 attempts |-> n]]
  BY <1>1 DEF ClaimRow
<1>. QED  BY <1>2, <1>3, TypedVars

LEMMA ClaimDecisionStep ==
  ASSUME Sound, NEW c \in Call, ClaimDecision(c)
  PROVE  Sound' /\ Forward(c)
<1>0. Works(c) /\ J(c) \in Job /\ Fenced(c)
  BY Working DEF ClaimDecision, Works, LocalsOf, Claimed
<1>1. CASE Claimable(J(c))
  <2>1. Sets(c, "mark", call[c].goal)
    BY <1>1, Going DEF ClaimDecision, Pc
  <2>2. dec' \in [Job -> DecRow]
    BY <1>0, <1>1, ClaimingRow DEF ClaimDecision, Id
  <2>3. LocalsOf(c)' /\ Follows(c)
    BY <1>0, <2>1, TypedVars DEF ClaimDecision, Sets, LocalsOf, Follows, Claimed, Before,
      Holding, Moved, Pre, Finishing, Works, Fenced, J, Switching
  <2>. QED  BY <1>0, <2>1, <2>2, <2>3, Going_on, TypedVars DEF ClaimDecision
<1>2. CASE ~Claimable(J(c))
  BY <1>2, Returning, Ending, TypedVars DEF ClaimDecision, SlotForward
<1>. QED  BY <1>1, <1>2

LEMMA MarkExecutingStep ==
  ASSUME Sound, NEW c \in Call, MarkExecuting(c)
  PROVE  Sound' /\ Forward(c)
<1>0. Works(c) /\ J(c) \in Job /\ Fenced(c)
  BY Working DEF MarkExecuting, Works, LocalsOf, Claimed
<1>1. Sets(c, "slot", call[c].goal)
  BY Going DEF MarkExecuting, Pc
<1>2. dec' \in [Job -> DecRow]
  BY TypedVars DEF MarkExecuting, DecRow, Open
<1>3. LocalsOf(c)' /\ Follows(c)
  BY <1>0, <1>1 DEF MarkExecuting, Sets, LocalsOf, Follows, Claimed, Before, Holding, Moved, Pre,
    Finishing, Works, Fenced, J, Switching
<1>. QED  BY <1>0, <1>1, <1>2, <1>3, Going_on, TypedVars DEF MarkExecuting

LEMMA OwnedRow ==
  ASSUME Sound, NEW c \in Call, SkipIfOwned(c)
  PROVE  dec' \in [Job -> DecRow]
BY TypedVars DEF SkipIfOwned, DecRow, Final

LEMMA AcquireSlotStep ==
  ASSUME Sound, NEW c \in Call, AcquireSlot(c)
  PROVE  Sound' /\ Forward(c)
<1>0. Works(c) /\ J(c) \in Job /\ Fenced(c) /\ S(c) \in Session
  BY Working DEF AcquireSlot, Works, LocalsOf, Claimed
<1>1. CASE SkipIfOwned(c) /\ Return(c) /\ UNCHANGED sess
  BY <1>1, Returning, OwnedRow, Ending, TypedVars DEF AcquireSlot, SlotForward
<1>2. CASE Goto(c, "requeue") /\ UNCHANGED sess /\ UNCHANGED dec
  <2>1. Sets(c, "requeue", call[c].goal)
    BY <1>2, Going DEF Pc
  <2>2. LocalsOf(c)' /\ Follows(c)
    BY <1>0, <2>1 DEF AcquireSlot, Sets, LocalsOf, Follows, Claimed, Before, Holding, Moved, Pre,
      Finishing, Works, Fenced, J, Switching
  <2>. QED  BY <1>0, <1>2, <2>1, <2>2, Going_on, TypedVars DEF AcquireSlot
<1>3. CASE /\ Goto(c, "authority") /\ UNCHANGED dec
           /\ sess' = [sess EXCEPT ![S(c)].claim = c, ![S(c)].live = TRUE]
  <2>1. Sets(c, "authority", call[c].goal)
    BY <1>3, Going DEF Pc
  <2>2. LocalsOf(c)' /\ Follows(c)
    BY <1>0, <2>1 DEF AcquireSlot, Sets, LocalsOf, Follows, Claimed, Before, Holding, Moved, Pre,
      Finishing, Works, Fenced, J, Switching
  <2>3. sess' \in [Session -> SessRow] /\ SlotForward(c)
    BY <1>0, <1>3, <2>1, TypedVars DEF SessRow, SlotForward, Sets, Id
  <2>4. ActForward(c) /\ ResForward(c) /\ OthersStay(c)
    BY <2>1 DEF ActForward, ResForward, AcquireSlot, Sets
  <2>5. Sound'
    BY <1>3, <2>2, <2>3, <2>4, SoundStep, TypedVars DEF AcquireSlot
  <2>. QED  BY <2>2, <2>3, <2>4, <2>5 DEF Forward, AcquireSlot
<1>. QED  BY <1>1, <1>2, <1>3 DEF AcquireSlot

LEMMA RequeueStep ==
  ASSUME Sound, NEW c \in Call, Requeue(c)
  PROVE  Sound' /\ Forward(c)
<1>1. OthersStay(c) /\ call'[c].pc = "idle"
  BY Returning DEF Requeue
<1>2. dec' \in [Job -> DecRow]
  BY TypedVars DEF Requeue, DecRow, Open, Id
<1>3. SlotForward(c)
  BY DEF Requeue, SlotForward
<1>4. sess' \in [Session -> SessRow] /\ left' \in LeftRow
  BY TypedVars DEF Requeue
<1>. QED  BY <1>1, <1>2, <1>3, <1>4, Ending DEF Requeue

LEMMA FaultLeft ==
  ASSUME Sound, Fault
  PROVE  left' \in LeftRow
<1>1. PICK n \in Nat : n = left.faults - 1
  BY TypedVars DEF Fault, LeftRow
<1>2. left' = [left EXCEPT !.faults = n]
  BY <1>1 DEF Fault
<1>. QED  BY <1>2, TypedVars DEF LeftRow

LEMMA VerifyAuthorityStep ==
  ASSUME Sound, NEW c \in Call, VerifyAuthority(c)
  PROVE  Sound' /\ Forward(c)
<1>0. Works(c) /\ J(c) \in Job /\ Fenced(c)
  BY Working DEF VerifyAuthority, Works, LocalsOf, Claimed
<1>1. dec' \in [Job -> DecRow] /\ left' \in LeftRow
  BY OwnedRow, FaultLeft, TypedVars DEF VerifyAuthority
<1>2. PICK pc \in {"create", "freeSlot"} : Goto(c, pc)
  BY DEF VerifyAuthority
<1>3. Sets(c, pc, call[c].goal)
  BY <1>2, Going DEF Pc
<1>4. LocalsOf(c)' /\ Follows(c)
  BY <1>0, <1>3 DEF VerifyAuthority, Sets, LocalsOf, Follows, Claimed, Before, Holding, Moved, Pre,
    Finishing, Works, Fenced, J, Switching
<1>. QED  BY <1>0, <1>1, <1>3, <1>4, Going_on, TypedVars DEF VerifyAuthority

LEMMA CreateActionStep ==
  ASSUME Sound, NEW c \in Call, CreateAction(c)
  PROVE  Sound' /\ Forward(c)
<1>0. Works(c) /\ J(c) \in Job /\ Fenced(c)
  BY Working DEF CreateAction, Works, LocalsOf, Claimed
<1>1. Sets(c, "load", call[c].goal)
  BY Going DEF CreateAction, Pc
<1>2. act' \in [Job -> ActionState] /\ ActForward(c) /\ act'[J(c)] # "none"
  BY <1>0, TypedVars DEF CreateAction, ActionState, ActForward
<1>3. LocalsOf(c)' /\ Follows(c)
  BY <1>0, <1>1, <1>2 DEF CreateAction, Sets, LocalsOf, Follows, Claimed, Before, Holding, Moved, Pre,
    Finishing, Works, Fenced, J, Switching
<1>4. SlotForward(c) /\ ResForward(c) /\ OthersStay(c)
  BY <1>1 DEF SlotForward, ResForward, CreateAction, Sets
<1>5. Sound'
  BY <1>2, <1>3, <1>4, SoundStep, TypedVars DEF CreateAction
<1>. QED  BY <1>2, <1>3, <1>4, <1>5 DEF Forward, CreateAction

LEMMA DisownedRows ==
  ASSUME Sound, NEW c \in Call, sess' = Disowned(c, sess)
  PROVE  sess' \in [Session -> SessRow] /\ SlotForward(c)
BY TypedVars, NullAssumption DEF Disowned, SessRow, Id, SlotForward

LEMMA DisownedDecisions ==
  ASSUME Sound, NEW c \in Call, dec' = Disowned(c, dec)
  PROVE  dec' \in [Job -> DecRow]
BY TypedVars DEF Disowned, DecRow, Id

LEMMA ReadDecisionStep ==
  ASSUME Sound, NEW c \in Call, ReadDecision(c)
  PROVE  Sound' /\ Forward(c)
<1>1. PICK j \in Job, pc \in {"deadLetter", "claim"} :
        ~job[j].api /\ Locals(c, [Idle EXCEPT !.job = j, !.pc = pc])
  BY DEF ReadDecision
<1>. DEFINE l == [Idle EXCEPT !.job = j, !.pc = pc]
<1>2. l \in CallRow /\ l.pc = pc /\ l.job = j /\ l.prev = None /\ l.from = None
  BY DEF Idle, CallRow, Pc, Goal, OrNone
<1>. HIDE DEF l
<1>3. OthersStay(c) /\ call'[c] = l
  BY <1>1, <1>2, NewLocals DEF l
<1>4. sess' \in [Session -> SessRow] /\ SlotForward(c) /\ dec' \in [Job -> DecRow]
  BY DisownedRows, DisownedDecisions DEF ReadDecision
<1>5. ActForward(c) /\ ResForward(c)
  BY DEF ActForward, ResForward, ReadDecision
<1>6. LocalsOf(c)' /\ Starts(c)
  BY <1>1, <1>2, <1>3 DEF ReadDecision, LocalsOf, Starts, Claimed, Before, Holding, Moved, Fenced, J,
    Switching
<1>7. Sound'
  BY <1>3, <1>4, <1>5, <1>6, SoundStep, TypedVars DEF ReadDecision
<1>. QED  BY <1>3, <1>4, <1>5, <1>6, <1>7 DEF Forward, ReadDecision

LEMMA PostActionStep ==
  ASSUME Sound, NEW c \in Call, PostAction(c)
  PROVE  Sound' /\ Forward(c)
<1>1. PICK j \in Job : /\ job[j].api /\ act[j] = "none" /\ act' = [act EXCEPT ![j] = "PLANNED"]
                       /\ Locals(c, [Idle EXCEPT !.pc = "load", !.job = j])
  BY DEF PostAction
<1>. DEFINE l == [Idle EXCEPT !.pc = "load", !.job = j]
<1>2. l \in CallRow /\ l.pc = "load" /\ l.job = j /\ l.prev = None /\ l.from = None
  BY DEF Idle, CallRow, Pc, Goal, OrNone
<1>. HIDE DEF l
<1>3. OthersStay(c) /\ call'[c] = l
  BY <1>1, <1>2, NewLocals DEF l
<1>4. sess' \in [Session -> SessRow] /\ SlotForward(c) /\ dec' \in [Job -> DecRow]
  BY DisownedRows, DisownedDecisions DEF PostAction
<1>5. ActForward(c) /\ ResForward(c) /\ act' \in [Job -> ActionState] /\ act'[j] = "PLANNED"
  BY <1>1, TypedVars DEF ActForward, ResForward, PostAction, ActionState
<1>6. LocalsOf(c)' /\ Starts(c)
  BY <1>1, <1>2, <1>3, <1>5 DEF PostAction, LocalsOf, Starts, Claimed, Before, Holding, Moved, Fenced,
    J, Switching
<1>7. Sound'
  BY <1>3, <1>4, <1>5, <1>6, SoundStep, TypedVars DEF PostAction
<1>. QED  BY <1>3, <1>4, <1>5, <1>6, <1>7 DEF Forward, PostAction

LEMMA LoadRefused ==
  ASSUME Sound, NEW c \in Call, LoadAction(c), act[J(c)] # "PLANNED"
  PROVE  Sound' /\ Forward(c)
<1>0. Works(c) /\ J(c) \in Job /\ LocalsOf(c)
  BY Working DEF LoadAction, Works
<1>1. Sets(c, "record", "FAILED")
  BY Telling DEF LoadAction, Pc, Goal
<1>2. LocalsOf(c)' /\ Follows(c)
  BY <1>0, <1>1 DEF LoadAction, Sets, LocalsOf, Follows, Claimed, Before, Holding, Moved, Pre,
    Finishing, Works, Fenced, J, Switching
<1>. QED  BY <1>0, <1>1, <1>2, Going_on, TypedVars DEF LoadAction

LEMMA TransitReadStep ==
  ASSUME Sound, NEW c \in Call, TransitRead(c)
  PROVE  Sound' /\ Forward(c)
<1>0. /\ Works(c) /\ J(c) \in Job /\ LocalsOf(c) /\ call[c] \in CallRow
      /\ act[J(c)] \in ActionState
  BY Working, TypedVars DEF TransitRead, Works
<1>1. \/ Sets(c, call[c].pc, call[c].goal)
      \/ Sets(c, "catch", "FAILED") \/ Sets(c, "record", "FAILED")
  <2>1. CASE Locals(c, [call[c] EXCEPT !.seen = act[J(c)]])
    BY <1>0, <2>1, Aiming DEF CallRow, OrNone
  <2>2. CASE Raise(c, "FAILED")
    BY <2>2, Aiming DEF Raise, Pc, Goal, OrNone
  <2>3. CASE Locals(c, [call[c] EXCEPT !.pc = "record", !.goal = "FAILED"])
    BY <2>3, Telling DEF Pc, Goal
  <2>. QED  BY <2>1, <2>2, <2>3 DEF TransitRead
<1>2. PICK pc, goal : /\ Sets(c, pc, goal)
                      /\ \/ pc = call[c].pc /\ goal = call[c].goal
                         \/ pc \in {"catch", "record"} /\ goal = "FAILED"
  BY <1>1
<1>3. LocalsOf(c)' /\ Follows(c)
  BY <1>0, <1>2 DEF TransitRead, Sets, LocalsOf, Follows, Claimed, Before, Holding, Moved, Pre,
    Finishing, Works, Fenced, J, Switching
<1>. QED  BY <1>0, <1>2, <1>3, Going_on, TypedVars DEF TransitRead

LEMMA TransitWriteStep ==
  ASSUME Sound, NEW c \in Call, TransitWrite(c)
  PROVE  Sound' /\ Forward(c)
<1>0. /\ Works(c) /\ J(c) \in Job /\ LocalsOf(c) /\ call[c] \in CallRow
      /\ job[J(c)].api \/ job[J(c)].type \in {"ACTIVATE", "SWITCH"}
      /\ call[c].goal \in {"AUTHORIZED", "EXECUTING", "SUCCEEDED", "FAILED", Recon, "VIOLATED"}
      /\ call[c].pc = "catch" => call[c].goal \in {"FAILED", Recon}
  BY Working DEF TransitWrite, Works, LocalsOf, Sound, JobInv
<1>. DEFINE pc == CASE call[c].goal = "AUTHORIZED" -> "transit"
                    [] call[c].goal = "EXECUTING"  -> Started(c)
                    [] OTHER                       -> "record"
            goal == CASE call[c].goal = "AUTHORIZED" -> "EXECUTING"
                      [] call[c].goal = "EXECUTING"  -> IF Started(c) = "catch" THEN "FAILED" ELSE "none"
                      [] call[c].goal = "VIOLATED"   -> "FAILED"
                      [] OTHER                       -> call[c].goal
<1>1. /\ Started(c) \in {"verify1", "catch", "simple"}
      /\ Started(c) = "simple" => ~Fenced(c)
      /\ Started(c) = "verify1" /\ Switching(c) => call[c].from \in {"ACTIVE", "DEGRADED"}
  BY <1>0 DEF Started, Fenced, Switching
<1>2. \/ call[c].goal = "AUTHORIZED" /\ pc = "transit" /\ goal = "EXECUTING"
      \/ call[c].goal = "EXECUTING" /\ pc \in {"verify1", "simple"} /\ pc = Started(c) /\ goal = "none"
      \/ call[c].goal = "EXECUTING" /\ pc = "catch" /\ goal = "FAILED"
      \/ call[c].goal \in {"SUCCEEDED", "FAILED", Recon} /\ pc = "record" /\ goal = call[c].goal
      \/ call[c].goal = "VIOLATED" /\ pc = "record" /\ goal = "FAILED"
  BY <1>0, <1>1 DEF Recon
<1>3. Locals(c, [call[c] EXCEPT !.pc = pc, !.goal = goal, !.seen = None])
  BY <1>0 DEF TransitWrite, CallRow
<1>. HIDE DEF pc, goal
<1>4. pc \in Pc /\ goal \in Goal
  BY <1>2 DEF Pc, Goal
<1>5. Sets(c, pc, goal)
  BY <1>3, <1>4, Aiming DEF OrNone
<1>6. /\ act' \in [Job -> ActionState] /\ ActForward(c)
      /\ act'[J(c)] \notin {"none", "PLANNED"}
  <2>1. ActionOf(call[c].goal) \in ActionState \ {"none", "PLANNED"}
    BY <1>0 DEF ActionOf, ActionState, Recon
  <2>2. ActionOf(call[c].goal) = "SUCCEEDED" => Finishing(c) /\ ~Past(c)'
    BY <1>0, <1>2, <1>5 DEF ActionOf, Finishing, TransitWrite, Recon, Sets, Past, Mid, Holding, Moved
  <2>. QED  BY <1>0, <2>1, <2>2, TypedVars DEF TransitWrite, ActForward
<1>7. LocalsOf(c)' /\ Follows(c)
  BY <1>0, <1>1, <1>2, <1>5, <1>6 DEF TransitWrite, Recon, Sets, LocalsOf, Follows,
    Claimed, Before, Holding, Moved, Pre,
    Finishing, Works, Fenced, J, Switching
<1>8. SlotForward(c) /\ ResForward(c) /\ OthersStay(c)
  BY <1>5 DEF SlotForward, ResForward, TransitWrite, Sets
<1>9. Sound'
  BY <1>6, <1>7, <1>8, SoundStep, TypedVars DEF TransitWrite
<1>. QED  BY <1>6, <1>7, <1>8, <1>9 DEF Forward, TransitWrite

LEMMA VerifySlotStep ==
  ASSUME Sound, NEW c \in Call, VerifySlot(c)
  PROVE  Sound' /\ Forward(c)
<1>1. PICK pc \in {"verify1", "verify2", "verify3", "verify4"},
           then \in {"switching", "reserve", "markInUse", "update", "releaseOld"} :
        /\ Verified(c, pc, then)
        /\ \/ pc = "verify1" /\ then = (IF Switching(c) THEN "switching" ELSE "reserve")
           \/ <<pc, then>> \in {<<"verify2", "markInUse">>, <<"verify3", "update">>,
                                <<"verify4", "releaseOld">>}
  BY DEF VerifySlot
<1>0. /\ Works(c) /\ J(c) \in Job /\ LocalsOf(c)
  BY <1>1, Working DEF Verified, Works
<1>2. Sets(c, then, call[c].goal) \/ Sets(c, "catch", Recon)
  BY <1>1, Going, Aiming DEF Verified, Raise, Pc, Goal, OrNone
<1>3. CASE Sets(c, then, call[c].goal)
  <2>1. LocalsOf(c)' /\ Follows(c)
    BY <1>0, <1>1, <1>3 DEF Verified, Sets, LocalsOf, Follows, Claimed, Before, Holding, Moved, Pre,
      Finishing, Works, Fenced, J, Switching
  <2>. QED  BY <1>0, <1>1, <1>3, <2>1, Going_on, TypedVars DEF Verified
<1>4. CASE Sets(c, "catch", Recon)
  <2>1. LocalsOf(c)' /\ Follows(c)
    BY <1>0, <1>1, <1>4 DEF Verified, Sets, LocalsOf, Follows, Claimed, Before, Holding, Moved, Pre,
      Finishing, Works, Fenced, J, Switching
  <2>. QED  BY <1>0, <1>1, <1>4, <2>1, Going_on, TypedVars DEF Verified
<1>. QED  BY <1>2, <1>3, <1>4

\* A change of the session's state keeps the rows, and shows a session as connected only
\* if it was, or if its call has moved it.
LEMMA StateMoves ==
  ASSUME Sound, NEW c \in Call, Works(c), NEW to \in SessionState,
         sess' = [sess EXCEPT ![S(c)].state = to],
         to \in Up => \/ sess[S(c)].state \in Up
                      \/ Fenced(c) => Owner(c) /\ call[c].pc \in Moved
  PROVE  sess' \in [Session -> SessRow] /\ SlotForward(c)
BY Working, TypedVars DEF SessRow, SlotForward

LEMMA MovesStep ==
  ASSUME Sound, NEW c \in Call, Works(c), NEW allowed, NEW to \in SessionState,
         NEW pc1 \in Pc, NEW goal1 \in Goal, NEW pc2 \in Pc, NEW goal2 \in Goal,
         NEW then, NEW refused, then \in CallRow, refused \in CallRow,
         then.pc = pc1, then.goal = goal1, then.job = call[c].job,
         then.from = call[c].from, then.prev = call[c].prev,
         refused.pc = pc2, refused.goal = goal2, refused.job = call[c].job,
         refused.from = call[c].from, refused.prev = call[c].prev,
         Moves(c, allowed, to, then, refused),
         UNCHANGED <<job, dec, act, res, gone, cron, reserves, left>>,
         allowed \subseteq Up \/ call[c].pc \in Moved,
         \A pc, goal :
           /\ Sets(c, pc, goal)
           /\ \/ pc = pc1 /\ goal = goal1
              \/ pc = pc2 /\ goal = goal2 /\ Fenced(c)
              \/ pc = call[c].pc /\ goal = call[c].goal /\ ~Fenced(c)
              \/ pc = "catch" /\ goal = "FAILED" /\ ~Fenced(c)
           => LocalsOf(c)' /\ Follows(c)
  PROVE  Sound' /\ Forward(c)
<1>0. S(c) \in Session /\ sess[S(c)] \in SessRow /\ call[c] \in CallRow
  BY Working, TypedVars
<1>1. ASSUME Locals(c, then)
      PROVE  Sets(c, pc1, goal1)
  BY <1>1, NewLocals DEF Sets
<1>2. ASSUME Locals(c, refused)
      PROVE  Sets(c, pc2, goal2)
  BY <1>2, NewLocals DEF Sets
<1>3. CASE Fenced(c) /\ Locals(c, refused) /\ UNCHANGED sess
  BY <1>2, <1>3, Going_on, TypedVars DEF Sets
<1>4. CASE /\ Fenced(c) /\ Holds(c) /\ sess[S(c)].state \in allowed
           /\ sess' = [sess EXCEPT ![S(c)].state = to] /\ Locals(c, then)
  BY <1>1, <1>4, StateMoves, SoundStep, TypedVars DEF Sets, Holds, Owner, ActForward, ResForward,
     Forward
<1>5. CASE ~Fenced(c) /\ UNCHANGED sess /\ Locals(c, [call[c] EXCEPT !.seen = sess[S(c)].state])
  <2>1. Locals(c, [call[c] EXCEPT !.pc = call[c].pc, !.goal = call[c].goal,
                                  !.seen = sess[S(c)].state])
    BY <1>0, <1>5 DEF CallRow
  <2>2. Sets(c, call[c].pc, call[c].goal)
    BY <1>0, <2>1, Aiming DEF CallRow, SessRow, OrNone
  <2>. QED  BY <1>0, <1>5, <2>2, Going_on, TypedVars DEF Works
<1>6. CASE ~Fenced(c) /\ UNCHANGED sess /\ Raise(c, "FAILED")
  <2>1. Sets(c, "catch", "FAILED")
    BY <1>6, Aiming DEF Raise, Pc, Goal, OrNone
  <2>. QED  BY <1>6, <2>1, Going_on, TypedVars
<1>7. CASE /\ ~Fenced(c) /\ sess' = [sess EXCEPT ![S(c)].state = to]
           /\ Locals(c, [then EXCEPT !.seen = None])
  <2>. DEFINE l == [then EXCEPT !.seen = None]
  <2>1. /\ l \in CallRow /\ l.pc = pc1 /\ l.goal = goal1 /\ l.job = call[c].job
        /\ l.from = call[c].from /\ l.prev = call[c].prev
    BY DEF CallRow, OrNone
  <2>. HIDE DEF l
  <2>2. Sets(c, pc1, goal1) /\ OthersStay(c) BY <1>7, <2>1, NewLocals DEF l, Sets
  <2>3. LocalsOf(c)' /\ Follows(c)
    BY <2>2
  <2>4. sess' \in [Session -> SessRow] /\ SlotForward(c)
    BY <1>7, StateMoves
  <2>5. ActForward(c) /\ ResForward(c)
    BY DEF ActForward, ResForward
  <2>6. Sound'
    BY <2>2, <2>3, <2>4, <2>5, SoundStep, TypedVars
  <2>. QED  BY <2>2, <2>3, <2>4, <2>5, <2>6 DEF Forward
<1>. QED  BY <1>3, <1>4, <1>5, <1>6, <1>7 DEF Moves

LEMMA AtRow ==
  ASSUME Sound, NEW c \in Call, NEW pc \in Pc
  PROVE  /\ At(c, pc) \in CallRow /\ At(c, pc).pc = pc /\ At(c, pc).goal = call[c].goal
         /\ At(c, pc).job = call[c].job /\ At(c, pc).from = call[c].from
         /\ At(c, pc).prev = call[c].prev
BY TypedVars DEF CallRow, At

LEMMA LostRow ==
  ASSUME Sound, NEW c \in Call
  PROVE  /\ Lost(c) \in CallRow /\ Lost(c).pc = "catch" /\ Lost(c).goal = Recon
         /\ Lost(c).job = call[c].job /\ Lost(c).from = call[c].from
         /\ Lost(c).prev = call[c].prev
<1>1. call[c] \in CallRow
  BY TypedVars
<1>2. "catch" \in Pc /\ Recon \in Goal
  BY DEF Pc, Goal
<1>. QED  BY <1>1, <1>2 DEF CallRow, Lost

LEMMA BeginSwitchStep ==
  ASSUME Sound, NEW c \in Call, BeginSwitch(c)
  PROVE  Sound' /\ Forward(c)
<1>0. Works(c) /\ J(c) \in Job /\ LocalsOf(c) /\ call[c] \in CallRow
  BY Working DEF BeginSwitch, Works
<1>1. ASSUME NEW pc, NEW goal, Sets(c, pc, goal),
             \/ pc = "reserve" /\ goal = call[c].goal
             \/ pc = "catch" /\ goal = Recon
             \/ pc = call[c].pc /\ goal = call[c].goal
             \/ pc = "catch" /\ goal = "FAILED"
      PROVE  LocalsOf(c)' /\ Follows(c)
  BY <1>0, <1>1 DEF BeginSwitch, Sets, LocalsOf, Follows, Claimed, Before, Holding, Moved, Pre,
    Finishing, Works, Fenced, J, Switching
<1>2. call[c].goal \in Goal /\ "reserve" \in Pc /\ "catch" \in Pc /\ Recon \in Goal
      /\ "SWITCHING" \in SessionState /\ {"ACTIVE", "DEGRADED"} \subseteq Up
  BY <1>0 DEF CallRow, Pc, Goal, SessionState, Up
<1>. QED  BY <1>0, <1>1, <1>2, AtRow, LostRow, MovesStep DEF BeginSwitch

LEMMA DiscoverStep ==
  ASSUME Sound, NEW c \in Call, Discover(c)
  PROVE  Sound' /\ Forward(c)
<1>0. Works(c) /\ J(c) \in Job /\ LocalsOf(c) /\ call[c] \in CallRow /\ call[c].pc \in Moved
  BY Working DEF Discover, Works, Moved
<1>1. ASSUME NEW pc, NEW goal, Sets(c, pc, goal),
             \/ pc = "activate" /\ goal = call[c].goal
             \/ pc = "catch" /\ goal = Recon
             \/ pc = call[c].pc /\ goal = call[c].goal
             \/ pc = "catch" /\ goal = "FAILED"
      PROVE  LocalsOf(c)' /\ Follows(c)
  BY <1>0, <1>1 DEF Discover, Sets, LocalsOf, Follows, Claimed, Before, Holding, Moved, Pre,
    Finishing, Works, Fenced, J, Switching
<1>2. call[c].goal \in Goal /\ "activate" \in Pc /\ "catch" \in Pc /\ Recon \in Goal
      /\ "DISCOVERING" \in SessionState
  BY <1>0 DEF CallRow, Pc, Goal, SessionState
<1>. QED  BY <1>0, <1>1, <1>2, AtRow, LostRow, MovesStep DEF Discover

LEMMA BecomeActiveStep ==
  ASSUME Sound, NEW c \in Call, BecomeActive(c)
  PROVE  Sound' /\ Forward(c)
<1>0. Works(c) /\ J(c) \in Job /\ LocalsOf(c) /\ call[c] \in CallRow /\ call[c].pc \in Moved
  BY Working DEF BecomeActive, Works, Moved
<1>. DEFINE pc1 == IF Switching(c) THEN "verify4" ELSE "invariant"
<1>1. ASSUME NEW pc, NEW goal, Sets(c, pc, goal),
             \/ pc = pc1 /\ goal = call[c].goal
             \/ pc = "catch" /\ goal = Recon
             \/ pc = call[c].pc /\ goal = call[c].goal
             \/ pc = "catch" /\ goal = "FAILED"
      PROVE  LocalsOf(c)' /\ Follows(c)
  BY <1>0, <1>1 DEF BecomeActive, Sets, LocalsOf, Follows, Claimed, Before, Holding, Moved, Pre,
    Finishing, Works, Fenced, J, Switching
<1>2. call[c].goal \in Goal /\ pc1 \in Pc /\ "catch" \in Pc /\ Recon \in Goal
      /\ "ACTIVE" \in SessionState
  BY <1>0 DEF CallRow, Pc, Goal, SessionState
<1>3. PICK allowed : Moves(c, allowed, "ACTIVE", At(c, pc1), Lost(c))
  BY DEF BecomeActive
<1>. HIDE DEF pc1
<1>. QED  BY <1>0, <1>1, <1>2, <1>3, AtRow, LostRow, MovesStep DEF BecomeActive

LEMMA RevertStep ==
  ASSUME Sound, NEW c \in Call, Revert(c)
  PROVE  Sound' /\ Forward(c)
<1>0. Works(c) /\ J(c) \in Job /\ LocalsOf(c) /\ call[c] \in CallRow
  BY Working DEF Revert, Works
<1>. DEFINE pc1 == IF call[c].goal = Recon THEN "transit" ELSE "catch"
            then == [call[c] EXCEPT !.seen = None, !.pc = pc1]
            back == IF call[c].from = "DEGRADED" THEN "DEGRADED" ELSE "ACTIVE"
<1>1. /\ then \in CallRow /\ then.pc = pc1 /\ then.goal = call[c].goal
      /\ then.job = call[c].job /\ then.from = call[c].from /\ then.prev = call[c].prev
  <2>1. pc1 \in Pc /\ None \in OrNone(ActionState \cup SessionState)
    BY DEF Pc, OrNone
  <2>. HIDE DEF pc1
  <2>. QED  BY <1>0, <2>1 DEF CallRow
<1>2. ASSUME NEW pc, NEW goal, Sets(c, pc, goal),
             \/ pc = pc1 /\ goal = call[c].goal
             \/ pc = call[c].pc /\ goal = call[c].goal
             \/ pc = "catch" /\ goal = "FAILED"
      PROVE  LocalsOf(c)' /\ Follows(c)
  BY <1>0, <1>2 DEF Revert, Recon, Sets, LocalsOf, Follows, Claimed, Before, Holding, Moved, Pre,
    Finishing, Works, Fenced, J, Switching
<1>3. call[c].goal \in Goal /\ pc1 \in Pc /\ {"SWITCHING"} \subseteq Up /\ back \in SessionState
  BY <1>0 DEF CallRow, Pc, Goal, SessionState, Up
<1>4. Moves(c, {"SWITCHING"}, back, then, then)
  BY DEF Revert
<1>. HIDE DEF pc1, then, back
<1>. QED  BY <1>0, <1>1, <1>2, <1>3, <1>4, MovesStep DEF Revert

LEMMA SimpleMoveStep ==
  ASSUME Sound, NEW c \in Call, SimpleMove(c)
  PROVE  Sound' /\ Forward(c)
<1>0. /\ Works(c) /\ J(c) \in Job /\ LocalsOf(c) /\ call[c] \in CallRow /\ ~Fenced(c)
      /\ call[c].goal \in SessionState
  BY Working DEF SimpleMove, Works, LocalsOf, SessionState
<1>. DEFINE then == [call[c] EXCEPT !.pc = "transit", !.goal = "SUCCEEDED"]
<1>1. /\ then \in CallRow /\ then.pc = "transit" /\ then.goal = "SUCCEEDED"
      /\ then.job = call[c].job /\ then.from = call[c].from /\ then.prev = call[c].prev
      /\ "transit" \in Pc /\ "SUCCEEDED" \in Goal
  BY <1>0 DEF CallRow, Pc, Goal
<1>2. ASSUME NEW pc, NEW goal, Sets(c, pc, goal),
             \/ pc = "transit" /\ goal = "SUCCEEDED"
             \/ pc = call[c].pc /\ goal = call[c].goal
             \/ pc = "catch" /\ goal = "FAILED"
      PROVE  LocalsOf(c)' /\ Follows(c)
  BY <1>0, <1>2 DEF SimpleMove, Sets, LocalsOf, Follows, Claimed, Before, Holding, Moved, Pre,
    Finishing, Works, Fenced, J, Switching
<1>3. Moves(c, {}, call[c].goal, then, then)
  BY DEF SimpleMove
<1>. HIDE DEF then
<1>. QED  BY <1>0, <1>1, <1>2, <1>3, MovesStep DEF SimpleMove

\* What was not reserved, or was given back, ends in a failure.
LEMMA Failing ==
  ASSUME Sound, NEW c \in Call, Works(c), NEW goal \in {"FAILED", Recon}, Fails(c, goal),
         call[c].pc \in Before \cup Holding \cup {"giveBack"}, act' = act, job' = job
  PROVE  \E pc \in {"revert", "transit", "catch"} :
           Sets(c, pc, goal) /\ LocalsOf(c)' /\ Follows(c)
<1>0. J(c) \in Job /\ LocalsOf(c) /\ call[c] \in CallRow
  BY Working
<1>1. PICK pc \in {"revert", "transit", "catch"} :
        /\ Sets(c, pc, goal)
        /\ pc = "revert" => Switching(c)
        /\ pc = "transit" => goal = Recon
  BY Telling, Aiming DEF Goal, Pc, Aim, OrNone, Raise, Fails
<1>2. LocalsOf(c)' /\ Follows(c)
  BY <1>0, <1>1 DEF Recon, Sets, LocalsOf, Follows, Claimed, Before, Holding, Moved, Pre,
    Finishing, Works, Fenced, J, Switching
<1>. QED  BY <1>1, <1>2

LEMMA WithResource ==
  ASSUME Sound, NEW c \in Call, Works(c), NEW pc, NEW goal, Sets(c, pc, goal),
         LocalsOf(c)', Follows(c), ResForward(c), res' \in [Resource -> ResRow],
         UNCHANGED <<job, dec, act, sess, gone, cron, reserves, left>>
  PROVE  Sound' /\ Forward(c)
BY TypedVars, SoundStep DEF ActForward, SlotForward, Sets, Forward

LEMMA ReserveRefused ==
  ASSUME Sound, NEW c \in Call, ReserveTarget(c), ~Reservable(c)
  PROVE  Sound' /\ Forward(c)
<1>0. Works(c)
  BY DEF ReserveTarget, Works
<1>1. PICK pc \in {"revert", "transit", "catch"} :
        Sets(c, pc, "FAILED") /\ LocalsOf(c)' /\ Follows(c)
  BY <1>0, Failing DEF ReserveTarget, Before
<1>. QED  BY <1>0, <1>1, Going_on, TypedVars DEF ReserveTarget

LEMMA ResolveBindingStep ==
  ASSUME Sound, NEW c \in Call, ResolveBinding(c)
  PROVE  Sound' /\ Forward(c)
<1>0. Works(c) /\ J(c) \in Job /\ LocalsOf(c) /\ left' \in LeftRow
  BY Working, FaultLeft, TypedVars DEF ResolveBinding, Works
<1>1. Sets(c, "verify2", call[c].goal) \/ Sets(c, "giveBack", "FAILED")
  BY Going, Telling DEF ResolveBinding, Pc, Goal
<1>2. PICK pc, goal : /\ Sets(c, pc, goal)
                      /\ pc = "verify2" \/ (pc = "giveBack" /\ goal = "FAILED")
  BY <1>1
<1>3. LocalsOf(c)' /\ Follows(c)
  BY <1>0, <1>2 DEF ResolveBinding, Sets, LocalsOf, Follows, Claimed, Before, Holding, Moved, Pre,
    Finishing, Works, Fenced, J, Switching
<1>. QED  BY <1>0, <1>2, <1>3, Going_on, TypedVars DEF ResolveBinding

LEMMA MarkInUseStep ==
  ASSUME Sound, NEW c \in Call, MarkInUse(c)
  PROVE  Sound' /\ Forward(c)
<1>0. Works(c) /\ J(c) \in Job /\ LocalsOf(c) /\ S(c) \in Session /\ Target(c) \in Resource
  BY Working DEF MarkInUse, Works
<1>1. /\ Sets(c, "usable", call[c].goal) \/ Sets(c, "giveBack", "FAILED")
      /\ ResForward(c) /\ res' \in [Resource -> ResRow]
  <2>1. CASE Reserved(c)
    <3>1. res' = [res EXCEPT ![Target(c)].state = "IN_USE"] /\ Goto(c, "usable")
      BY <2>1 DEF MarkInUse
    <3>2. res[Target(c)] = [state |-> "RESERVED", by |-> S(c)]
      BY <2>1 DEF Reserved, ReservedBy
    <3>3. res' = [res EXCEPT ![Target(c)] = [state |-> "IN_USE", by |-> S(c)]]
      <4>1. [res[Target(c)] EXCEPT !.state = "IN_USE"] = [state |-> "IN_USE", by |-> S(c)]
        BY <3>2
      <4>. QED  BY <3>1, <4>1
    <3>. QED  BY <1>0, <3>1, <3>2, <3>3, Going, TypedVars DEF ResForward, ResRow, OrNone, Pc
  <2>2. CASE ~Reserved(c) BY <2>2, Telling, TypedVars DEF MarkInUse, ResForward, Pc, Goal
  <2>. QED  BY <2>1, <2>2
<1>2. PICK pc, goal : /\ Sets(c, pc, goal)
                      /\ pc = "usable" \/ (pc = "giveBack" /\ goal = "FAILED")
  BY <1>1
<1>3. LocalsOf(c)' /\ Follows(c)
  BY <1>0, <1>2 DEF MarkInUse, Sets, LocalsOf, Follows, Claimed, Before, Holding, Moved, Pre,
    Finishing, Works, Fenced, J, Switching
<1>. QED  BY <1>0, <1>1, <1>2, <1>3, WithResource DEF MarkInUse

LEMMA VerifyUsableStep ==
  ASSUME Sound, NEW c \in Call, VerifyUsable(c)
  PROVE  Sound' /\ Forward(c)
<1>0. Works(c) /\ J(c) \in Job /\ LocalsOf(c) /\ left' \in LeftRow
  BY Working, FaultLeft, TypedVars DEF VerifyUsable, Works
<1>1. \/ Sets(c, "verify3", call[c].goal) /\ UsedBy(Target(c), S(c))
      \/ Sets(c, "giveBack", Recon)
  BY Going, Telling DEF VerifyUsable, Pc, Goal
<1>2. PICK pc, goal : /\ Sets(c, pc, goal)
                      /\ \/ pc = "verify3" /\ UsedBy(Target(c), S(c))
                         \/ pc = "giveBack" /\ goal = Recon
  BY <1>1
<1>3. LocalsOf(c)' /\ Follows(c)
  BY <1>0, <1>2 DEF VerifyUsable, Sets, LocalsOf, Follows, Claimed, Before, Holding, Moved, Pre,
    Finishing, Works, Fenced, J, Switching
<1>. QED  BY <1>0, <1>2, <1>3, Going_on, TypedVars DEF VerifyUsable

\* A resource is released by a call of its session which holds the slot.
LEMMA Releasing ==
  ASSUME Sound, NEW c \in Call, Works(c), NEW r \in Resource,
         Released(c, r) \/ NotReleased(c, r) \/ UNCHANGED res,
         call'[c].pc \notin {"verify3", "update"},
         S(c) \in InSlot /\ Owner(c) => r # sess[S(c)].active
  PROVE  ResForward(c) /\ res' \in [Resource -> ResRow]
BY TypedVars, FencedInSlot DEF ResForward, Released, MayTouch, Holds, Owner, OwnedBy, ResRow,
   OrNone, NotReleased

LEMMA GiveBackStep ==
  ASSUME Sound, SlotInv, NEW c \in Call, GiveBack(c)
  PROVE  Sound' /\ Forward(c)
<1>0. Works(c) /\ J(c) \in Job /\ LocalsOf(c) /\ Target(c) \in Resource
  BY Working DEF GiveBack, Works
<1>1. PICK goal \in {"FAILED", Recon} : Fails(c, goal)
  BY <1>0 DEF GiveBack, LocalsOf
<1>2. PICK pc \in {"revert", "transit", "catch"} :
        Sets(c, pc, goal) /\ LocalsOf(c)' /\ Follows(c)
  BY <1>0, <1>1, Failing DEF GiveBack
<1>3. S(c) \in InSlot /\ Owner(c) => Target(c) # sess[S(c)].active
  BY <1>0 DEF SlotInv, StandInv, TargetHeld, GiveBack, On
<1>4. ResForward(c) /\ res' \in [Resource -> ResRow]
  BY <1>0, <1>2, <1>3, Releasing DEF GiveBack, Sets
<1>. QED  BY <1>0, <1>2, <1>4, WithResource DEF GiveBack

LEMMA UpdateRefused ==
  ASSUME Sound, NEW c \in Call, UpdateSession(c), ~MayMove(c)
  PROVE  Sound' /\ Forward(c)
<1>0. Works(c) /\ J(c) \in Job /\ LocalsOf(c)
  BY Working DEF UpdateSession, Works
<1>1. Sets(c, "catch", Recon)
  BY Aiming DEF UpdateSession, Raise, Pc, Goal, OrNone
<1>2. LocalsOf(c)' /\ Follows(c)
  BY <1>0, <1>1 DEF UpdateSession, Sets, LocalsOf, Follows, Claimed, Before, Holding, Moved, Pre,
    Finishing, Works, Fenced, J, Switching
<1>. QED  BY <1>0, <1>1, <1>2, Going_on, TypedVars DEF UpdateSession

LEMMA ReleaseOldStep ==
  ASSUME Sound, SlotInv, NEW c \in Call, ReleaseOld(c)
  PROVE  Sound' /\ Forward(c)
<1>0. /\ Works(c) /\ J(c) \in Job /\ LocalsOf(c) /\ Target(c) \in Resource
      /\ call[c] \in CallRow /\ S(c) \in Session
  BY Working DEF ReleaseOld, Works
<1>1. CASE call[c].prev \in {None, Target(c)} /\ Goto(c, "invariant") /\ UNCHANGED res
  <2>1. Sets(c, "invariant", call[c].goal)
    BY <1>1, Going DEF Pc
  <2>2. LocalsOf(c)' /\ Follows(c)
    BY <1>0, <1>1, <2>1 DEF ReleaseOld, Sets, LocalsOf, Follows, Claimed, Before, Holding, Moved, Pre,
      Finishing, Works, Fenced, J, Switching
  <2>. QED  BY <1>0, <1>1, <2>1, <2>2, Going_on, TypedVars DEF ReleaseOld
<1>2. CASE call[c].prev \notin {None, Target(c)} /\ Released(c, call[c].prev) /\ Goto(c, "invariant")
  <2>1. Sets(c, "invariant", call[c].goal)
    BY <1>2, Going DEF Pc
  <2>2. call[c].prev \in Resource
    BY <1>0, <1>2 DEF CallRow, OrNone
  <2>3. res'[call[c].prev].by # S(c)
    BY <1>0, <1>2, <2>2, TypedVars, NullAssumption DEF Released
  <2>4. LocalsOf(c)' /\ Follows(c)
    BY <1>0, <2>1, <2>3 DEF ReleaseOld, Sets, LocalsOf, Follows, Claimed, Before, Holding, Moved, Pre,
      Finishing, Works, Fenced, J, Switching
  <2>5. S(c) \in InSlot /\ Owner(c) => call[c].prev # sess[S(c)].active
    BY <1>0, <1>2 DEF SlotInv, StandInv, TargetHeld, ReleaseOld, On, Moved
  <2>6. ResForward(c) /\ res' \in [Resource -> ResRow]
    BY <1>0, <1>2, <2>1, <2>2, <2>5, Releasing DEF Sets
  <2>. QED  BY <1>0, <2>1, <2>4, <2>6, WithResource DEF ReleaseOld
<1>3. CASE NotReleased(c, call[c].prev) /\ Aim(c, Recon)
  <2>1. Sets(c, "transit", Recon)
    BY <1>3, Aiming DEF Aim, Pc, Goal, OrNone
  <2>2. LocalsOf(c)' /\ Follows(c)
    BY <1>0, <2>1 DEF ReleaseOld, Recon, Sets, LocalsOf, Follows, Claimed, Before, Holding, Moved, Pre,
      Finishing, Works, Fenced, J, Switching
  <2>. QED  BY <1>0, <1>3, <2>1, <2>2, Going_on, TypedVars DEF ReleaseOld, NotReleased
<1>. QED  BY <1>1, <1>2, <1>3 DEF ReleaseOld

LEMMA CheckInvariantStep ==
  ASSUME Sound, NEW c \in Call, CheckInvariant(c)
  PROVE  Sound' /\ Forward(c)
<1>0. Works(c) /\ J(c) \in Job /\ LocalsOf(c) /\ left' \in LeftRow
  BY Working, FaultLeft, TypedVars DEF CheckInvariant, Works
<1>1. PICK goal \in {"SUCCEEDED", "VIOLATED"} : Aim(c, goal)
  BY DEF CheckInvariant
<1>2. Sets(c, "transit", goal)
  BY <1>1, Aiming DEF Aim, Pc, Goal, OrNone
<1>3. LocalsOf(c)' /\ Follows(c)
  BY <1>0, <1>2 DEF CheckInvariant, Sets, LocalsOf, Follows, Claimed, Before, Holding, Moved, Pre,
    Finishing, Works, Fenced, J, Switching
<1>. QED  BY <1>0, <1>2, <1>3, Going_on, TypedVars DEF CheckInvariant

LEMMA SimpleStartStep ==
  ASSUME Sound, NEW c \in Call, SimpleStart(c)
  PROVE  Sound' /\ Forward(c)
<1>0. /\ Works(c) /\ J(c) \in Job /\ LocalsOf(c) /\ call[c] \in CallRow /\ ~Fenced(c)
      /\ S(c) \notin InSlot
  BY Working, FencedInSlot DEF SimpleStart, Works, LocalsOf
<1>1. \/ Aim(c, "SUCCEEDED")
      \/ \E to \in {"DEGRADED", "ACTIVE", "ENDED"} :
           Locals(c, [call[c] EXCEPT !.pc = "simpleMove", !.goal = to])
  BY DEF SimpleStart
<1>2. \/ Sets(c, "transit", "SUCCEEDED")
      \/ \E to \in {"DEGRADED", "ACTIVE", "ENDED"} : Sets(c, "simpleMove", to)
  BY <1>1, Aiming, Telling DEF Aim, Pc, Goal, OrNone
<1>3. PICK pc, goal : /\ Sets(c, pc, goal)
                      /\ \/ pc = "transit" /\ goal = "SUCCEEDED"
                         \/ pc = "simpleMove" /\ goal \in {"DEGRADED", "ACTIVE", "ENDED"}
  BY <1>2
<1>4. LocalsOf(c)' /\ Follows(c)
  BY <1>0, <1>3 DEF SimpleStart, Sets, LocalsOf, Follows, Claimed, Before, Holding, Moved, Pre,
    Finishing, Works, Fenced, J, Switching
<1>5. \/ UNCHANGED res
      \/ call[c].prev \in Resource /\ (Released(c, call[c].prev) \/ NotReleased(c, call[c].prev))
  BY <1>0 DEF SimpleStart, CallRow, OrNone
<1>6. ResForward(c) /\ res' \in [Resource -> ResRow]
  BY TypedVars, <1>0, <1>3, <1>5, Releasing DEF ResForward, Sets
<1>. QED  BY <1>0, <1>3, <1>4, <1>6, WithResource DEF SimpleStart

LEMMA RecordOutcomeStep ==
  ASSUME Sound, NEW c \in Call, RecordOutcome(c)
  PROVE  Sound' /\ Forward(c)
<1>0. Works(c) /\ J(c) \in Job /\ LocalsOf(c) /\ call[c].goal \in {"SUCCEEDED", "FAILED", Recon}
  BY Working DEF RecordOutcome, Works, LocalsOf
<1>1. CASE Fenced(c)
  <2>1. Sets(c, "freeSlot", call[c].goal)
    BY <1>1, Going DEF RecordOutcome, Pc
  <2>2. dec' \in [Job -> DecRow]
    <3>1. PICK state \in Final : dec' = [dec EXCEPT ![J(c)].state = state]
      BY <1>0, <1>1 DEF RecordOutcome, Final, Recon
    <3>. QED  BY <3>1, TypedVars DEF DecRow
  <2>3. LocalsOf(c)' /\ Follows(c)
    BY <1>0, <1>1, <2>1 DEF RecordOutcome, Sets, LocalsOf, Follows, Claimed, Before, Holding, Moved, Pre,
      Finishing, Works, Fenced, J, Switching
  <2>. QED  BY <1>0, <1>1, <2>1, <2>2, <2>3, Going_on, TypedVars DEF RecordOutcome
<1>2. CASE ~Fenced(c) BY <1>2, Returning, Ending, TypedVars DEF RecordOutcome, SlotForward
<1>. QED  BY <1>1, <1>2

LEMMA FreeSlotStep ==
  ASSUME Sound, NEW c \in Call, FreeSlot(c)
  PROVE  Sound' /\ Forward(c)
<1>0. Works(c) /\ S(c) \in Session
  BY Working DEF FreeSlot, Works
<1>1. OthersStay(c) /\ call'[c].pc = "idle"
  BY Returning DEF FreeSlot
<1>2. sess' \in [Session -> SessRow] /\ SlotForward(c)
  <2>1. CASE sess' = sess
    BY <2>1, TypedVars DEF SlotForward
  <2>2. CASE sess' = [sess EXCEPT ![S(c)].claim = None, ![S(c)].live = FALSE]
    <3>. DEFINE row == [sess[S(c)] EXCEPT !.claim = None, !.live = FALSE]
    <3>1. row \in SessRow
      BY <1>0, TypedVars DEF SessRow, Id
    <3>2. row.active = sess[S(c)].active /\ row.state = sess[S(c)].state /\ row.claim = None
      BY <1>0, TypedVars DEF SessRow
    <3>3. sess' = [sess EXCEPT ![S(c)] = row]
      BY <2>2
    <3>. HIDE DEF row
    <3>. QED  BY <1>0, <3>1, <3>2, <3>3, TypedVars, NullAssumption DEF SlotForward
  <2>. QED  BY <2>1, <2>2 DEF FreeSlot
<1>. QED  BY <1>1, <1>2, Ending, TypedVars DEF FreeSlot

LEMMA LiveRow ==
  ASSUME Sound, NEW c, NEW s \in Session, NEW live \in BOOLEAN,
         sess' = [sess EXCEPT ![s].live = live]
  PROVE  sess' \in [Session -> SessRow] /\ SlotForward(c)
<1>. DEFINE row == [sess[s] EXCEPT !.live = live]
<1>1. row \in SessRow
  BY TypedVars DEF SessRow
<1>2. row.active = sess[s].active /\ row.state = sess[s].state /\ row.claim = sess[s].claim
  BY TypedVars DEF SessRow
<1>3. sess' = [sess EXCEPT ![s] = row]
  OBVIOUS
<1>. HIDE DEF row
<1>. QED  BY <1>1, <1>2, <1>3, TypedVars DEF SlotForward

LEMMA RenewSlotStep ==
  ASSUME Sound, NEW c \in Call, RenewSlot(c)
  PROVE  Sound' /\ Forward(c)
<1>0. Works(c) /\ J(c) \in Job /\ LocalsOf(c) /\ S(c) \in Session /\ call[c] \in CallRow
  BY Working DEF RenewSlot, Works, Beating
<1>1. Sets(c, call[c].pc, call[c].goal)
  <2>1. CASE UNCHANGED call
    BY <2>1, TypedVars DEF Sets, OthersStay
  <2>2. CASE Locals(c, [call[c] EXCEPT !.lost = TRUE])
    <3>. DEFINE l == [call[c] EXCEPT !.lost = TRUE]
    <3>1. /\ l \in CallRow /\ l.pc = call[c].pc /\ l.goal = call[c].goal /\ l.job = call[c].job
          /\ l.from = call[c].from /\ l.prev = call[c].prev
      BY <1>0 DEF CallRow
    <3>. HIDE DEF l
    <3>2. OthersStay(c) /\ call'[c] = l
      BY <2>2, <3>1, NewLocals DEF l
    <3>. QED  BY <3>1, <3>2 DEF Sets
  <2>. QED  BY <2>1, <2>2 DEF RenewSlot
<1>2. LocalsOf(c)' /\ Follows(c)
  BY <1>0, <1>1 DEF RenewSlot, Sets, LocalsOf, Follows, Claimed, Before, Holding, Moved, Pre,
    Finishing, Works, Fenced, J, Switching
<1>3. sess' \in [Session -> SessRow] /\ SlotForward(c)
  BY TypedVars, <1>0, LiveRow DEF SlotForward, RenewSlot
<1>4. ActForward(c) /\ ResForward(c) /\ OthersStay(c)
  BY <1>1 DEF ActForward, ResForward, RenewSlot, Sets
<1>5. Sound'
  BY <1>2, <1>3, <1>4, SoundStep, TypedVars DEF RenewSlot
<1>. QED  BY <1>2, <1>3, <1>4, <1>5 DEF Forward, RenewSlot

LEMMA CrashStep ==
  ASSUME Sound, NEW c \in Call, Crash(c)
  PROVE  Sound' /\ Forward(c)
<1>1. OthersStay(c) /\ call'[c].pc = "idle"
  BY Returning DEF Crash
<1>2. sess' \in [Session -> SessRow] /\ SlotForward(c) /\ dec' \in [Job -> DecRow]
  BY DisownedRows, DisownedDecisions DEF Crash
<1>3. left' \in LeftRow
  <2>1. PICK n \in Nat : n = left.crashes - 1
    BY TypedVars DEF Crash, LeftRow
  <2>2. left' = [left EXCEPT !.crashes = n]
    BY <2>1 DEF Crash
  <2>. QED  BY <2>2, TypedVars DEF LeftRow
<1>. QED  BY <1>1, <1>2, <1>3, Ending DEF Crash

-----------------------------------------------------------------------------
(* The steps that read the session, reserve, and move the session.         *)

\* In a step of a running call every call keeps its job.
LEMMA SameJobs ==
  ASSUME Sound, NEW c \in Call, Works(c), OthersStay(c), job' = job,
         call'[c].job = call[c].job, call'[c].pc # "idle"
  PROVE  \A d \in Call :
           /\ Works(d)' = Works(d) /\ J(d)' = J(d) /\ S(d)' = S(d) /\ Target(d)' = Target(d)
           /\ Fenced(d)' = Fenced(d) /\ Switching(d)' = Switching(d)
           /\ d # c => call'[d] = call[d]
BY DEF OthersStay, Works, J, S, Target, Fenced, Switching

LEMMA OneApiKept ==
  ASSUME Sound, SlotInv, NEW c \in Call, Works(c), OthersStay(c), job' = job,
         call'[c].job = call[c].job, call'[c].pc # "idle"
  PROVE  OneApiCall'
BY SameJobs DEF SlotInv, ReserveInv, OneApiCall

LEMMA LoadedStep ==
  ASSUME Sound, SlotInv, NEW c \in Call, LoadAction(c), act[J(c)] = "PLANNED"
  PROVE  Sound' /\ SlotInv' /\ (OrphanInv => OrphanInv')
<1>0. /\ Works(c) /\ J(c) \in Job /\ LocalsOf(c) /\ call[c] \in CallRow /\ S(c) \in Session
      /\ job[J(c)].api \/ job[J(c)].type \in {"ACTIVATE", "SWITCH"}
  BY Working DEF LoadAction, Works, Sound, JobInv
<1>. DEFINE l == [call[c] EXCEPT !.pc = "transit", !.goal = "AUTHORIZED",
                                 !.from = sess[S(c)].state, !.prev = sess[S(c)].active]
<1>1. /\ l \in CallRow /\ l.pc = "transit" /\ l.goal = "AUTHORIZED" /\ l.job = call[c].job
      /\ l.from = sess[S(c)].state /\ l.prev = sess[S(c)].active
  BY <1>0, TypedVars DEF CallRow, Pc, Goal, SessRow, OrNone
<1>2. Locals(c, l)
  BY DEF LoadAction
<1>3. UNCHANGED <<job, dec, act, sess, res, gone, cron, reserves, left>>
  BY DEF LoadAction
<1>. HIDE DEF l
<1>4. OthersStay(c) /\ call'[c] = l
  BY <1>1, <1>2, NewLocals
<1>5. \A d \in Call :
        /\ Works(d)' = Works(d) /\ J(d)' = J(d) /\ S(d)' = S(d) /\ Target(d)' = Target(d)
        /\ Fenced(d)' = Fenced(d) /\ Switching(d)' = Switching(d)
        /\ d # c => call'[d] = call[d]
        /\ Owner(d)' = Owner(d)
  BY <1>0, <1>1, <1>3, <1>4, SameJobs DEF Owner
<1>6. Sound'
  <2>1. LocalsOf(c)'
    BY <1>0, <1>1, <1>3, <1>4, <1>5 DEF LocalsOf, Claimed, Before, Holding, Moved, LoadAction
  <2>2. ActForward(c)
    BY <1>3 DEF ActForward
  <2>. QED  BY <1>3, <1>4, <2>1, <2>2, SoundStep, TypedVars
<1>7. reserves[J(c)] = 0
  BY <1>0, TypedVars DEF SlotInv, ReserveInv, Reservations
<1>8. \A d \in Call : /\ Past(d)' => Past(d) /\ d # c
                      /\ d # c => Pre(d)' = Pre(d)
  BY <1>1, <1>4, <1>5 DEF Past, Mid, Finishing, Pre, Holding, Moved
<1>9. ReserveInv'
  <2>1. OneApiCall'
    BY <1>0, <1>1, <1>3, <1>4, OneApiKept
  <2>2. NotYet'
    BY <1>3, <1>5, <1>7, <1>8 DEF SlotInv, ReserveInv, NotYet
  <2>3. Reservations'
    BY <1>3 DEF SlotInv, ReserveInv, Reservations
  <2>4. Tried' /\ OnePast' /\ Unreported'
    BY <1>3, <1>5, <1>8 DEF SlotInv, ReserveInv, Tried, OnePast, Unreported
  <2>. QED  BY <2>1, <2>2, <2>3, <2>4 DEF ReserveInv
<1>10. StandInv'
  <2>1. PrevIsActive'
    <3>. SUFFICES ASSUME NEW s \in InSlot, NEW d \in Call, On(d, s)', Owner(d)',
                         Pre(d)' \/ call'[d].pc \in Holding
                  PROVE  call'[d].prev = sess'[s].active
      BY <1>3, InSlotKept DEF PrevIsActive
    <3>. QED  BY <1>1, <1>3, <1>4, <1>5, <1>8 DEF SlotInv, StandInv, PrevIsActive, On
  <2>2. Stand'
    BY <1>3, InSlotKept DEF SlotInv, StandInv, Stand, UsedBy
  <2>3. TargetHeld'
    <3>. SUFFICES ASSUME NEW s \in InSlot, NEW d \in Call, On(d, s)', Owner(d)',
                         call'[d].pc \in Holding \cup Moved \cup {"giveBack"}
                  PROVE  /\ call'[d].pc \in (Holding \ {"update"}) \cup {"giveBack"}
                              => sess'[s].active # Target(d)'
                         /\ call'[d].pc \in {"verify3", "update"} => UsedBy(Target(d), s)'
                         /\ call'[d].pc \in Moved => sess'[s].active = Target(d)'
      BY <1>3, InSlotKept DEF TargetHeld, Holding
    <3>1. d # c
      BY <1>1, <1>4 DEF Holding, Moved
    <3>2. On(d, s) /\ Owner(d) /\ Target(d)' = Target(d) /\ call'[d] = call[d]
      BY <1>5, <3>1 DEF On
    <3>. QED  BY <1>3, <3>2 DEF SlotInv, StandInv, TargetHeld, UsedBy
  <2>. QED  BY <2>1, <2>2, <2>3 DEF StandInv
<1>11. ASSUME OrphanInv
       PROVE  OrphanInv'
  <2>1. \A s : /\ Once(s)' = Once(s) /\ ToActivate(s)' = ToActivate(s)
               /\ \A d \in Call : On(d, s)' = On(d, s)
    BY <1>3, <1>5, InSlotKept DEF ToActivate, On
  <2>2. Unactivated'
    BY <1>1, <1>3, <1>4, <1>5, <1>11, <2>1 DEF OrphanInv, Unactivated, Up, On
  <2>3. FromNothing'
    <3>. SUFFICES ASSUME NEW s \in Session, NEW d \in Call, Once(s), On(d, s),
                         job[J(d)].type = "ACTIVATE"
                  PROVE  call'[d].prev = None
      BY <1>3, <1>5, <2>1 DEF FromNothing
    <3>1. CASE d = c
      BY <1>0, <1>7, <3>1, <1>1, <1>4, <1>11 DEF ToActivate, On, S, OrphanInv, Unactivated
    <3>2. CASE d # c
      BY <1>5, <1>11, <3>2 DEF OrphanInv, FromNothing
    <3>. QED  BY <3>1, <3>2
  <2>4. Told' BY <1>3, <1>5, <1>8, <1>11, <2>1 DEF Answers, Mid, Covers, OrphanInv, Told
  <2>. QED  BY <2>2, <2>3, <2>4 DEF OrphanInv
<1>. QED  BY <1>6, <1>9, <1>10, <1>11 DEF SlotInv

LEMMA ReservedStep ==
  ASSUME Sound, SlotInv, NEW c \in Call, ReserveTarget(c), Reservable(c)
  PROVE  Sound' /\ SlotInv' /\ (OrphanInv => OrphanInv')
<1>0. /\ Works(c) /\ J(c) \in Job /\ LocalsOf(c) /\ call[c] \in CallRow /\ S(c) \in Session
      /\ Target(c) \in Resource /\ call[c].pc = "reserve" /\ Pre(c) /\ ~Past(c)
  BY Working DEF ReserveTarget, Works, Pre, Before, Past, Mid, Finishing, Holding, Moved
<1>1. /\ Sets(c, "bridge", call[c].goal) /\ OthersStay(c) /\ call'[c].pc = "bridge"
      /\ call'[c].prev = call[c].prev /\ call'[c].from = call[c].from
  BY Going DEF ReserveTarget, Pc, Sets
<1>2. /\ res' = [res EXCEPT ![Target(c)] = [state |-> "RESERVED", by |-> S(c)]]
      /\ reserves' = [reserves EXCEPT ![J(c)] = reserves[J(c)] + 1]
      /\ UNCHANGED <<job, dec, act, sess, gone, cron, left>>
  BY DEF ReserveTarget
<1>3. Fenced(c) => Owner(c)
  BY DEF Reservable, MayTouch, Holds, Owner
<1>4. reserves[J(c)] = 0 /\ reserves'[J(c)] = 1
  BY <1>0, <1>2, <1>3, TypedVars DEF SlotInv, ReserveInv, NotYet
<1>5. \A d \in Call :
        /\ Works(d)' = Works(d) /\ J(d)' = J(d) /\ S(d)' = S(d) /\ Target(d)' = Target(d)
        /\ Fenced(d)' = Fenced(d) /\ Switching(d)' = Switching(d)
        /\ d # c => call'[d] = call[d]
        /\ Owner(d)' = Owner(d)
  BY <1>0, <1>1, <1>2, SameJobs DEF Owner, Sets
<1>6. Sound'
  <2>1. LocalsOf(c)'
    BY <1>0, <1>1, <1>2, <1>5 DEF LocalsOf, Claimed, Before, Holding, Moved, Sets
  <2>2. ActForward(c)
    BY <1>2 DEF ActForward
  <2>3. res' \in [Resource -> ResRow] /\ reserves' \in [Job -> Nat]
    BY <1>0, <1>2, <1>4, TypedVars DEF ResRow, OrNone
  <2>. QED  BY <1>1, <1>2, <2>1, <2>2, <2>3, SoundStep, TypedVars
<1>7. \A j \in Job : reserves'[j] = IF j = J(c) THEN 1 ELSE reserves[j]
  BY <1>2, <1>4, TypedVars
<1>8. \A d \in Call :
        /\ d # c => Past(d)' = Past(d) /\ Pre(d)' = Pre(d) /\ Mid(d)' = Mid(d)
        /\ d = c => ~Pre(d)' /\ Mid(d)'
  BY <1>1, <1>5 DEF Past, Mid, Finishing, Pre, Holding, Moved, Before
<1>9. ASSUME NEW d \in Call, Works(d), Past(d), Fenced(d)
      PROVE  J(d) # J(c)
  BY <1>4, <1>9 DEF SlotInv, ReserveInv, Tried
<1>10. \A r \in Resource : \A s : UsedBy(r, s) => UsedBy(r, s)' /\ r # Target(c)
  BY <1>0, <1>2, TypedVars DEF UsedBy, Reservable, Available
<1>11. act[J(c)] \notin {"none", "PLANNED"}
  BY <1>0 DEF LocalsOf, Claimed, Before
<1>12. ReserveInv'
  <2>1. OneApiCall'
    BY <1>0, <1>1, <1>2, OneApiKept DEF Sets
  <2>2. NotYet'
    <3>. SUFFICES ASSUME NEW d \in Call, Works(d), Pre(d)', Fenced(d) => Owner(d)
                  PROVE  reserves'[J(d)] = 0
      BY <1>2, <1>5 DEF NotYet
    <3>1. d # c /\ Pre(d) /\ J(d) \in Job
      BY <1>8, Working
    <3>2. J(d) # J(c) BY <1>0, <1>3, <3>1 DEF Owner, Fenced, S, SlotInv, ReserveInv, OneApiCall
    <3>. QED  BY <1>7, <3>1, <3>2 DEF SlotInv, ReserveInv, NotYet
  <2>3. Reservations'
    BY <1>2, <1>7, <1>11 DEF SlotInv, ReserveInv, Reservations
  <2>4. Tried'
    BY <1>5, <1>7, <1>8, Working DEF SlotInv, ReserveInv, Tried
  <2>5. OnePast'
    <3>. SUFFICES ASSUME NEW d \in Call, NEW e \in Call, Works(d), Works(e), J(d) = J(e),
                         Fenced(d), Past(d)', Past(e)'
                  PROVE  d = e
      BY <1>5 DEF OnePast
    <3>1. Fenced(e)
      BY <1>2 DEF Fenced
    <3>. QED  BY <1>8, <1>9, <3>1 DEF SlotInv, ReserveInv, OnePast
  <2>6. Unreported'
    BY <1>0, <1>4, <1>2, <1>5, <1>8 DEF SlotInv, ReserveInv, Reservations, Fenced, Unreported
  <2>. QED  BY <2>1, <2>2, <2>3, <2>4, <2>5, <2>6 DEF ReserveInv
<1>13. StandInv'
  <2>1. PrevIsActive'
    <3>. SUFFICES ASSUME NEW s \in InSlot, NEW d \in Call, On(d, s), Owner(d),
                         Pre(d)' \/ call'[d].pc \in Holding
                  PROVE  call'[d].prev = sess[s].active
      BY <1>2, <1>5, InSlotKept DEF PrevIsActive, On
    <3>. QED  BY <1>0, <1>1, <1>5, <1>8 DEF SlotInv, StandInv, PrevIsActive
  <2>2. Stand'
    <3>. SUFFICES ASSUME NEW s \in InSlot
                  PROVE  /\ sess[s].active = None \/ UsedBy(sess[s].active, s)'
                         /\ sess[s].state \in Up => sess[s].active # None
      BY <1>2, InSlotKept DEF Stand, UsedBy
    <3>1. sess[s].active = None \/ sess[s].active \in Resource
      BY TypedVars DEF InSlot, SessRow, OrNone
    <3>2. /\ sess[s].active = None \/ UsedBy(sess[s].active, s)
          /\ sess[s].state \in Up => sess[s].active # None
      BY DEF SlotInv, StandInv, Stand
    <3>3. \A r \in Resource : UsedBy(r, s) => UsedBy(r, s)'
      BY <1>10
    <3>4. UNCHANGED sess
      BY <1>2
    <3>5. ASSUME sess[s].active \in Resource, UsedBy(sess[s].active, s)
          PROVE  UsedBy(sess[s].active, s)'
      BY <3>3, <3>4, <3>5 DEF UsedBy
    <3>6. sess[s].active = None \/ UsedBy(sess[s].active, s)'
      BY <3>1, <3>2, <3>5
    <3>. QED  BY <3>2, <3>6
  <2>3. TargetHeld'
    <3>. SUFFICES ASSUME NEW s \in InSlot, NEW d \in Call, On(d, s), Owner(d),
                         call'[d].pc \in Holding \cup Moved \cup {"giveBack"}
                  PROVE  /\ call'[d].pc \in (Holding \ {"update"}) \cup {"giveBack"}
                              => sess[s].active # Target(d)
                         /\ call'[d].pc \in {"verify3", "update"} => UsedBy(Target(d), s)'
                         /\ call'[d].pc \in Moved => sess[s].active = Target(d)
      BY <1>5, <1>2, InSlotKept DEF UsedBy, TargetHeld, Holding, On
    <3>1. CASE d = c
      BY <1>0, <1>10, NullAssumption, <1>1, <3>1 DEF SlotInv, StandInv, Stand, Moved
    <3>2. CASE d # c
      BY <1>5, <1>10, <3>2, Working DEF SlotInv, StandInv, TargetHeld, On, UsedBy
    <3>. QED  BY <3>1, <3>2
  <2>. QED  BY <2>1, <2>2, <2>3 DEF StandInv
<1>14. ASSUME OrphanInv
       PROVE  OrphanInv'
  <2>1. \A s : /\ Once(s)' = Once(s) /\ (ToActivate(s)' => ToActivate(s))
               /\ \A d \in Call : On(d, s)' = On(d, s)
    BY <1>2, <1>4, <1>7, <1>5, InSlotKept DEF ToActivate, On
  <2>2. Unactivated'
    BY <1>1, <1>2, <1>5, <1>14, <2>1 DEF OrphanInv, Unactivated, Up
  <2>3. FromNothing'
    BY <1>1, <1>2, <1>5, <1>14, <2>1 DEF OrphanInv, FromNothing
  <2>4. Told'
    <3>. SUFFICES ASSUME NEW s \in Session, NEW r \in Resource, Once(s), res'[r].by = s,
                         r # sess[s].active
                  PROVE  \E j \in Job : job[j].session = s /\ Answers(j, r)'
      BY <1>2, <2>1 DEF Told
    <3>1. CASE r = Target(c)
      <4>1. s = S(c)
        BY <1>0, <1>2, <3>1, TypedVars
      <4>2. Fenced(c)
        BY <1>0, <4>1, FencedInSlot DEF Once
      <4>3. act[J(c)] \notin {"none", "SUCCEEDED"}
        BY <1>0, <1>4, <1>11, <4>2 DEF SlotInv, ReserveInv, Reservations, Fenced
      <4>4. ASSUME NEW d \in Call, Works(d)', J(d)' = J(c), Past(d)'
            PROVE  Mid(d)' /\ r \in Covers(d)'
        <5>1. d = c
          BY <1>5, <1>8, <1>9, <4>2, <4>4 DEF Fenced
        <5>. QED  BY <1>1, <1>5, <1>8, <3>1, <5>1 DEF Covers, Holding
      <4>. QED  BY <1>0, <1>2, <1>4, <4>1, <4>3, <4>4 DEF Answers, S
    <3>2. CASE r # Target(c)
      <4>1. res[r].by = s
        BY <1>2, <3>2, TypedVars
      <4>2. PICK j \in Job : job[j].session = s /\ Answers(j, r)
        BY <1>14, <4>1 DEF OrphanInv, Told
      <4>3. j # J(c)
        BY <1>4, <4>2 DEF Answers
      <4>4. ASSUME NEW d \in Call, Works(d)', J(d)' = j, Past(d)'
            PROVE  Mid(d)' /\ r \in Covers(d)'
        BY <1>5, <1>8, <4>3, <4>4, <4>2 DEF Answers, Covers
      <4>. QED  BY <1>2, <1>7, <4>2, <4>3, <4>4 DEF Answers
    <3>. QED  BY <3>1, <3>2
  <2>. QED  BY <2>2, <2>3, <2>4 DEF OrphanInv
<1>. QED  BY <1>6, <1>12, <1>13, <1>14 DEF SlotInv

LEMMA UpdatedStep ==
  ASSUME Sound, SlotInv, NEW c \in Call, UpdateSession(c), MayMove(c)
  PROVE  Sound' /\ SlotInv' /\ (OrphanInv => OrphanInv')
<1>0. /\ Works(c) /\ J(c) \in Job /\ LocalsOf(c) /\ call[c] \in CallRow /\ S(c) \in Session
      /\ Target(c) \in Resource /\ call[c].pc = "update" /\ Mid(c) /\ Past(c) /\ ~Pre(c)
  BY Working DEF UpdateSession, Works, Pre, Before, Past, Mid, Finishing, Holding, Moved
<1>. PICK pc \in {"discover", "activate", "invariant"} :
       Goto(c, pc) /\ (pc = "invariant" => ~Switching(c))
  BY DEF UpdateSession
<1>1. /\ Sets(c, pc, call[c].goal) /\ OthersStay(c) /\ call'[c].pc = pc
      /\ call'[c].prev = call[c].prev /\ call'[c].from = call[c].from
  BY Going DEF Pc, Sets
<1>2. /\ sess' = [sess EXCEPT ![S(c)].active = Target(c)]
      /\ UNCHANGED <<job, dec, act, res, gone, cron, reserves, left>>
  BY DEF UpdateSession
<1>3. /\ sess' \in [Session -> SessRow]
      /\ \A s \in Session : /\ sess'[s].claim = sess[s].claim /\ sess'[s].state = sess[s].state
                            /\ s # S(c) => sess'[s].active = sess[s].active
      /\ sess'[S(c)].active = Target(c)
  <2>. DEFINE row == [sess[S(c)] EXCEPT !.active = Target(c)]
  <2>1. /\ row \in SessRow /\ row.active = Target(c)
        /\ row.claim = sess[S(c)].claim /\ row.state = sess[S(c)].state
    BY <1>0, TypedVars DEF SessRow, OrNone
  <2>2. sess' = [sess EXCEPT ![S(c)] = row]
    BY <1>2
  <2>. HIDE DEF row
  <2>. QED  BY <1>0, <2>1, <2>2, TypedVars
<1>4. \A d \in Call :
        /\ Works(d)' = Works(d) /\ J(d)' = J(d) /\ S(d)' = S(d) /\ Target(d)' = Target(d)
        /\ Fenced(d)' = Fenced(d) /\ Switching(d)' = Switching(d)
        /\ d # c => call'[d] = call[d]
        /\ Works(d) => Owner(d)' = Owner(d)
  BY <1>0, <1>1, <1>2, <1>3, SameJobs, Working DEF Owner, Sets
<1>5. \A d \in Call :
        /\ Past(d)' => Past(d)
        /\ d # c => Pre(d)' = Pre(d) /\ Mid(d)' = Mid(d)
        /\ d = c => ~Pre(d)' /\ call'[d].pc \notin Holding
  BY <1>0, <1>1, <1>4 DEF Past, Mid, Finishing, Pre, Holding, Moved, Before
<1>6. Fenced(c) => Owner(c)
  BY DEF MayMove, Holds, Owner
<1>7. ASSUME S(c) \in InSlot
      PROVE  /\ Fenced(c) /\ Owner(c) /\ UsedBy(Target(c), S(c)) /\ call[c].prev = sess[S(c)].active
             /\ \A d \in Call : Works(d) /\ S(d) = S(c) /\ Owner(d) => d = c
  BY <1>0, <1>6, <1>7, FencedInSlot DEF SlotInv, StandInv, TargetHeld, PrevIsActive, On, Holding,
     Owner
<1>8. Sound'
  <2>1. LocalsOf(c)'
    BY <1>0, <1>1, <1>2, <1>4 DEF LocalsOf, Claimed, Before, Holding, Moved, Sets
  <2>2. ActForward(c)
    BY <1>2 DEF ActForward
  <2>. QED  BY <1>1, <1>2, <1>3, <2>1, <2>2, SoundStep, TypedVars
<1>9. ReserveInv'
  BY <1>0, <1>1, <1>2, OneApiKept, <1>4, <1>5 DEF Sets, SlotInv, ReserveInv, NotYet, Reservations,
     Tried, OnePast, Unreported
<1>10. StandInv'
  <2>1. PrevIsActive'
    <3>. SUFFICES ASSUME NEW s \in InSlot, NEW d \in Call, On(d, s), Owner(d),
                         Pre(d)' \/ call'[d].pc \in Holding
                  PROVE  call'[d].prev = sess'[s].active
      BY <1>2, <1>4, InSlotKept DEF PrevIsActive, On
    <3>1. d # c /\ s # S(c) /\ s \in Session
      BY <1>5, <1>7 DEF On, InSlot
    <3>. QED  BY <1>3, <1>4, <1>5, <3>1 DEF SlotInv, StandInv, PrevIsActive
  <2>2. Stand'
    <3>. SUFFICES ASSUME NEW s \in InSlot
                  PROVE  /\ sess'[s].active = None \/ UsedBy(sess[s].active, s)'
                         /\ sess'[s].state \in Up => sess'[s].active # None
      BY <1>2, InSlotKept DEF Stand
    <3>1. s \in Session
      BY DEF InSlot
    <3>2. CASE s = S(c)
      BY <1>0, <1>2, <1>3, <1>7, <3>2, NullAssumption DEF UsedBy
    <3>3. CASE s # S(c)
      BY <1>2, <1>3, <3>1, <3>3 DEF SlotInv, StandInv, Stand, UsedBy
    <3>. QED  BY <3>2, <3>3
  <2>3. TargetHeld'
    <3>. SUFFICES ASSUME NEW s \in InSlot, NEW d \in Call, On(d, s), Owner(d),
                         call'[d].pc \in Holding \cup Moved \cup {"giveBack"}
                  PROVE  /\ call'[d].pc \in (Holding \ {"update"}) \cup {"giveBack"}
                              => sess'[s].active # Target(d)
                         /\ call'[d].pc \in {"verify3", "update"} => UsedBy(Target(d), s)
                         /\ call'[d].pc \in Moved => sess'[s].active = Target(d)
      BY <1>2, <1>4, InSlotKept DEF TargetHeld, Holding, On, UsedBy
    <3>1. CASE d = c
      BY <1>1, <1>3, <1>5, <3>1 DEF On, Holding
    <3>2. CASE d # c BY <1>7, <3>2, <1>3, <1>4 DEF On, InSlot, SlotInv, StandInv, TargetHeld
    <3>. QED  BY <3>1, <3>2
  <2>. QED  BY <2>1, <2>2, <2>3 DEF StandInv
<1>11. ASSUME OrphanInv
       PROVE  OrphanInv'
  <2>1. \A s : /\ Once(s)' = Once(s) /\ ToActivate(s)' = ToActivate(s)
               /\ \A d \in Call : On(d, s)' = On(d, s)
    BY <1>2, <1>4, InSlotKept DEF ToActivate, On
  <2>2. \A d \in Call : call'[d].prev = call[d].prev /\ call'[d].from = call[d].from
    BY <1>1, <1>4
  <2>3. Unactivated' BY <1>0, <1>11, NoneIsPast, <1>3, <2>1, <2>2 DEF OrphanInv, Unactivated
  <2>4. FromNothing'
    BY <1>2, <1>4, <1>11, <2>1, <2>2 DEF OrphanInv, FromNothing
  <2>5. Told'
    <3>. SUFFICES ASSUME NEW s \in Session, NEW r \in Resource, Once(s), res[r].by = s,
                         r # sess'[s].active
                  PROVE  \E j \in Job : job[j].session = s /\ Answers(j, r)'
      BY <1>2, <2>1 DEF Told
    <3>1. ASSUME NEW j \in Job, Answers(j, r), job[j].session = s, J(c) # j
          PROVE  \E k \in Job : job[k].session = s /\ Answers(k, r)'
      BY <1>4, <1>5, <3>1, <1>2 DEF Answers, Covers
    <3>2. CASE r # sess[s].active
      <4>1. PICK j \in Job : job[j].session = s /\ Answers(j, r)
        BY <1>11, <3>2 DEF OrphanInv, Told
      <4>2. J(c) # j
        <5>. SUFFICES ASSUME J(c) = j  PROVE FALSE
          OBVIOUS
        <5>1. s = S(c) /\ r \in Covers(c)
          BY <1>0, <4>1 DEF Answers, S
        <5>. QED  BY <1>0, <1>3, <5>1 DEF Covers, Holding
      <4>. QED  BY <3>1, <4>1, <4>2
    <3>3. CASE r = sess[s].active
      <4>1. s = S(c) /\ S(c) \in InSlot
        BY <1>3, <3>3 DEF Once
      <4>2. r = call[c].prev /\ r # Target(c) /\ Fenced(c)
        BY <1>3, <1>7, <3>3, <4>1
      <4>3. act[J(c)] \notin {"none", "SUCCEEDED"} /\ reserves[J(c)] > 0
        BY <1>0, <4>2 DEF SlotInv, ReserveInv, Unreported, Tried, LocalsOf, Claimed
      <4>4. pc # "invariant"
        <5>. SUFFICES ASSUME pc = "invariant"  PROVE FALSE
          OBVIOUS
        <5>1. job[J(c)].type = "ACTIVATE"
          BY <1>0, <4>2 DEF Sound, JobInv, Fenced, Switching
        <5>2. call[c].prev = None
          BY <1>0, <1>11, <4>1, <5>1 DEF OrphanInv, FromNothing, On
        <5>. QED  BY <4>2, <5>2, NullAssumption
      <4>5. ASSUME NEW d \in Call, Works(d)', J(d)' = J(c), Past(d)'
            PROVE  Mid(d)' /\ r \in Covers(d)'
        <5>1. d = c
          BY <1>0, <1>4, <1>5, <4>2, <4>5 DEF SlotInv, ReserveInv, OnePast
        <5>2. call'[c].pc \in Moved /\ call'[c].pc \notin Holding
          BY <1>1, <1>5, <4>4 DEF Moved
        <5>. QED  BY <1>1, <1>4, <4>2, <5>1, <5>2 DEF Covers, Mid
      <4>. QED  BY <1>0, <1>2, <4>1, <4>3, <4>5 DEF Answers, S
    <3>. QED  BY <3>2, <3>3
  <2>. QED  BY <2>3, <2>4, <2>5 DEF OrphanInv
<1>. QED  BY <1>8, <1>9, <1>10, <1>11 DEF SlotInv

-----------------------------------------------------------------------------
(* The steps of the cron route and of time.                                *)

\* No call moves; a claim may be taken from a session, and is not given.
Elsewhere ==
  /\ UNCHANGED <<job, act, res, call, reserves>>
  /\ \A s \in Session :
       /\ sess'[s].active = sess[s].active /\ sess'[s].state = sess[s].state
       /\ sess'[s].claim = sess[s].claim \/ sess'[s].claim \notin Call

LEMMA ElsewhereKeeps ==
  ASSUME Sound, SlotInv, Elsewhere
  PROVE  SlotInv' /\ (OrphanInv => OrphanInv')
<1>1. \A d \in Call :
        /\ Works(d)' = Works(d) /\ J(d)' = J(d) /\ S(d)' = S(d) /\ Target(d)' = Target(d)
        /\ Fenced(d)' = Fenced(d) /\ Pre(d)' = Pre(d) /\ Past(d)' = Past(d) /\ Mid(d)' = Mid(d)
        /\ Covers(d)' = Covers(d)
        /\ Works(d) /\ Owner(d)' => Owner(d)
  <2>1. ASSUME NEW d \in Call, Works(d), Owner(d)'
        PROVE  Owner(d)
    BY <2>1, Working DEF Elsewhere, Owner, S, J
  <2>. QED  BY <2>1 DEF Elsewhere, Works, J, S, Target, Fenced, Pre, Past, Mid, Finishing, Covers
<1>2. \A s : /\ (s \in InSlot)' = (s \in InSlot) /\ Once(s)' = Once(s)
             /\ ToActivate(s)' = ToActivate(s) /\ \A d \in Call : On(d, s)' = On(d, s)
  BY <1>1, InSlotKept DEF Elsewhere, ToActivate, On
<1>3. ReserveInv'
  BY <1>1 DEF SlotInv, ReserveInv, OneApiCall, NotYet, Reservations, Elsewhere, Tried, OnePast,
     Unreported
<1>4. StandInv'
  <2>1. \A s \in InSlot : s \in Session /\ sess'[s].active = sess[s].active
    BY DEF InSlot, Elsewhere
  <2>2. PrevIsActive'
    <3>. SUFFICES ASSUME NEW s \in InSlot, NEW d \in Call, On(d, s), Owner(d),
                         Pre(d) \/ call[d].pc \in Holding
                  PROVE  call[d].prev = sess'[s].active
      BY <1>1, <1>2, InSlotKept DEF PrevIsActive, Elsewhere, On
    <3>. QED  BY <2>1 DEF SlotInv, StandInv, PrevIsActive
  <2>3. Stand'
    <3>. SUFFICES ASSUME NEW s \in InSlot
                  PROVE  /\ sess'[s].active = None \/ UsedBy(sess[s].active, s)'
                         /\ sess'[s].state \in Up => sess'[s].active # None
      BY InSlotKept DEF Stand, Elsewhere
    <3>. QED  BY <2>1 DEF SlotInv, StandInv, Stand, UsedBy, Elsewhere
  <2>4. TargetHeld'
    <3>. SUFFICES ASSUME NEW s \in InSlot, NEW d \in Call, On(d, s), Owner(d)
                  PROVE  /\ call[d].pc \in (Holding \ {"update"}) \cup {"giveBack"}
                              => sess'[s].active # Target(d)
                         /\ call[d].pc \in {"verify3", "update"} => UsedBy(Target(d), s)
                         /\ call[d].pc \in Moved => sess'[s].active = Target(d)
      BY <1>1, <1>2, InSlotKept DEF TargetHeld, Elsewhere, On, UsedBy
    <3>. QED  BY <2>1 DEF SlotInv, StandInv, TargetHeld
  <2>. QED  BY <2>2, <2>3, <2>4 DEF StandInv
<1>5. ASSUME OrphanInv
      PROVE  OrphanInv'
  <2>1. Unactivated' /\ FromNothing'
    BY <1>2, <1>5 DEF OrphanInv, Unactivated, FromNothing, Elsewhere, J, On, Works, S
  <2>2. Told'
    <3>. SUFFICES ASSUME NEW s \in Session, NEW r \in Resource, Once(s), res[r].by = s,
                         r # sess[s].active
                  PROVE  \E j \in Job : job[j].session = s /\ Answers(j, r)'
      BY <1>2 DEF Told, Elsewhere
    <3>1. PICK j \in Job : job[j].session = s /\ Answers(j, r)
      BY <1>5 DEF OrphanInv, Told
    <3>. QED  BY <1>1, <3>1 DEF Answers, Elsewhere
  <2>. QED  BY <2>1, <2>2 DEF OrphanInv
<1>. QED  BY <1>3, <1>4, <1>5 DEF SlotInv

LEMMA ElsewhereSound ==
  ASSUME Sound, UNCHANGED <<job, act, res, call, reserves>>,
         dec' \in [Job -> DecRow], sess' \in [Session -> SessRow], left' \in LeftRow,
         gone' \subseteq Job, cron' \in [pc : {"idle", "claim", "mark"}, job : OrNone(Job)],
         CronInv'
  PROVE  Sound'
<1>1. TypeOK'
  BY DEF Sound, TypeOK, DecRow, SessRow, LeftRow
<1>2. LocalsInv' /\ JobInv'
  BY DEF Sound, LocalsInv, JobInv, LocalsOf, Works, Fenced, Switching, J
<1>. QED  BY <1>1, <1>2 DEF Sound

LEMMA LapsesLeft ==
  ASSUME Sound, NEW id, Lapses(id)
  PROVE  left' \in LeftRow
<1>1. CASE Carried(id)
  <2>1. PICK n \in Nat : n = left.lapses - 1
    BY <1>1, TypedVars DEF Lapses, LeftRow
  <2>2. left' = [left EXCEPT !.lapses = n]
    BY <1>1, <2>1 DEF Lapses
  <2>. QED  BY <2>2, TypedVars DEF LeftRow
<1>2. CASE ~Carried(id)
  BY <1>2, TypedVars DEF Lapses
<1>. QED  BY <1>1, <1>2

LEMMA ReclaimingStep ==
  ASSUME Sound, Reclaiming
  PROVE  Sound' /\ Elsewhere
<1>1. ASSUME NEW j \in Job, ReclaimDecision(j)
      PROVE  Sound' /\ Elsewhere
  <2>1. dec' \in [Job -> DecRow]
    <3>1. CASE dec' = [dec EXCEPT ![j].state = "DEAD_LETTER"]
      BY <3>1, TypedVars DEF DecRow, Final
    <3>2. CASE dec' = [dec EXCEPT ![j].state = "PENDING", ![j].claim = None]
      BY <3>2, TypedVars DEF DecRow, Open, Id
    <3>. QED  BY <1>1, <3>1, <3>2 DEF ReclaimDecision
  <2>2. Sound'
    BY <1>1, <2>1, ElsewhereSound, TypedVars DEF ReclaimDecision, Sound, TypeOK, CronInv
  <2>. QED  BY <1>1, <2>2 DEF ReclaimDecision, Elsewhere
<1>2. ASSUME NEW s \in Session, ReclaimSlot(s)
      PROVE  Sound' /\ Elsewhere
  <2>1. sess' \in [Session -> SessRow]
    BY <1>2, TypedVars DEF ReclaimSlot, SessRow, Id
  <2>2. Sound'
    BY <1>2, <2>1, ElsewhereSound, TypedVars DEF ReclaimSlot, Sound, TypeOK, CronInv
  <2>. QED  BY <1>2, <2>2, TypedVars, NullAssumption DEF ReclaimSlot, Elsewhere, SessRow
<1>. QED  BY <1>1, <1>2 DEF Reclaiming

LEMMA PumpingStep ==
  ASSUME Sound, Pumping
  PROVE  Sound' /\ Elsewhere
<1>0. /\ cron \in [pc : {"idle", "claim", "mark"}, job : OrNone(Job)]
      /\ gone \subseteq Job /\ (cron.pc # "idle" => cron.job \in Job)
  BY DEF Sound, TypeOK, CronInv
<1>1. ASSUME NEW j \in Job, CronFind(j)
      PROVE  Sound' /\ Elsewhere
  <2>1. dec' \in [Job -> DecRow]
    BY <1>1, TypedVars DEF CronFind, DecRow, Final
  <2>2. cron' \in [pc : {"idle", "claim", "mark"}, job : OrNone(Job)] /\ CronInv'
    BY <1>0, <1>1 DEF CronFind, CronInv, OrNone
  <2>3. Sound'
    BY <1>0, <1>1, <2>1, <2>2, ElsewhereSound, TypedVars DEF CronFind
  <2>. QED  BY <1>1, <2>3 DEF CronFind, Elsewhere
<1>2. ASSUME CronClaim
      PROVE  Sound' /\ Elsewhere
  BY <1>0, <1>2, ClaimingRow, TypedVars, ElsewhereSound DEF CronClaim, Id, CronInv, OrNone, NoCron,
     Elsewhere
<1>3. ASSUME CronMark
      PROVE  Sound' /\ Elsewhere
  BY <1>3, TypedVars, <1>0, ElsewhereSound DEF CronMark, DecRow, Open, CronInv, OrNone, NoCron,
     Elsewhere
<1>. QED  BY <1>1, <1>2, <1>3 DEF Pumping

LEMMA WorldStep ==
  ASSUME Sound, Lapsing \/ \E j \in Job : IntentEnds(j)
  PROVE  Sound' /\ Elsewhere
<1>0. /\ cron \in [pc : {"idle", "claim", "mark"}, job : OrNone(Job)]
      /\ gone \subseteq Job /\ CronInv
  BY DEF Sound, TypeOK
<1>1. ASSUME NEW s \in Session, SlotLapses(s)
      PROVE  Sound' /\ Elsewhere
  BY <1>1, LiveRow, LapsesLeft, <1>0, ElsewhereSound, TypedVars DEF SlotLapses, CronInv, Elsewhere,
     SessRow
<1>2. ASSUME NEW j \in Job, ClaimLapses(j)
      PROVE  Sound' /\ Elsewhere
  <2>1. dec' \in [Job -> DecRow] /\ left' \in LeftRow
    BY <1>2, LapsesLeft, TypedVars DEF ClaimLapses, DecRow
  <2>2. Sound'
    BY <1>0, <1>2, <2>1, ElsewhereSound, TypedVars DEF ClaimLapses, CronInv
  <2>. QED  BY <1>2, <2>2 DEF ClaimLapses, Elsewhere
<1>3. ASSUME NEW j \in Job, IntentEnds(j)
      PROVE  Sound' /\ Elsewhere
  BY <1>0, <1>3, FaultLeft, ElsewhereSound, TypedVars DEF IntentEnds, CronInv, Elsewhere
<1>. QED  BY <1>1, <1>2, <1>3 DEF Lapsing

LEMMA ForwardKeeps ==
  ASSUME Sound, SlotInv, NEW c \in Call, Sound' /\ Forward(c)
  PROVE  Sound' /\ SlotInv' /\ (OrphanInv => OrphanInv')
BY ForwardSlot, ForwardUnactivated, ForwardFromNothing, ForwardTold DEF OrphanInv

LEMMA CallStep ==
  ASSUME Sound, SlotInv, NEW c \in Call,
         ReadDecision(c) \/ PostAction(c) \/ Proceed(c) \/ RenewSlot(c) \/ Crash(c)
  PROVE  Sound' /\ SlotInv' /\ (OrphanInv => OrphanInv')
<1>1. CASE ReadDecision(c) \/ PostAction(c) \/ RenewSlot(c) \/ Crash(c)
  BY <1>1, ReadDecisionStep, PostActionStep, RenewSlotStep, CrashStep, ForwardKeeps
<1>2. CASE Claiming(c)
  <2>1. Sound' /\ Forward(c)
    BY <1>2, DeadLetterStep, ClaimDecisionStep, MarkExecutingStep, AcquireSlotStep, RequeueStep,
       VerifyAuthorityStep, CreateActionStep DEF Claiming
  <2>. QED  BY <2>1, ForwardKeeps
<1>3. CASE Executing(c)
  <2>1. CASE LoadAction(c)
    BY <2>1, LoadRefused, LoadedStep, ForwardKeeps
  <2>2. CASE ReserveTarget(c)
    BY <2>2, ReserveRefused, ReservedStep, ForwardKeeps
  <2>3. CASE UpdateSession(c)
    BY <2>3, UpdateRefused, UpdatedStep, ForwardKeeps
  <2>4. CASE TransitRead(c) \/ TransitWrite(c) \/ VerifySlot(c) \/ BeginSwitch(c)
             \/ ResolveBinding(c) \/ MarkInUse(c) \/ VerifyUsable(c)
    BY <2>4, TransitReadStep, TransitWriteStep, VerifySlotStep, BeginSwitchStep,
       ResolveBindingStep, MarkInUseStep, VerifyUsableStep, ForwardKeeps
  <2>5. CASE GiveBack(c) \/ Revert(c) \/ Discover(c) \/ BecomeActive(c) \/ ReleaseOld(c)
    BY <2>5, GiveBackStep, RevertStep, DiscoverStep, BecomeActiveStep, ReleaseOldStep, ForwardKeeps
  <2>6. CASE CheckInvariant(c) \/ SimpleStart(c) \/ SimpleMove(c) \/ RecordOutcome(c)
             \/ FreeSlot(c)
    BY <2>6, CheckInvariantStep, SimpleStartStep, SimpleMoveStep, RecordOutcomeStep, FreeSlotStep,
       ForwardKeeps
  <2>. QED  BY <1>3, <2>1, <2>2, <2>3, <2>4, <2>5, <2>6 DEF Executing
<1>. QED  BY <1>1, <1>2, <1>3 DEF Proceed

LEMMA SessionNext ==
  ASSUME Sound, SlotInv, [Next]_vars
  PROVE  Sound' /\ SlotInv' /\ (OrphanInv => OrphanInv')
<1>1. CASE Reclaiming \/ Pumping \/ Lapsing \/ \E j \in Job : IntentEnds(j)
  BY <1>1, ReclaimingStep, PumpingStep, WorldStep, ElsewhereKeeps
<1>2. CASE UNCHANGED vars
  BY <1>2, ElsewhereSound, TypedVars, ElsewhereKeeps DEF vars, Elsewhere, Sound, TypeOK, CronInv
<1>. QED  BY <1>1, <1>2, CallStep DEF Next

-----------------------------------------------------------------------------
(* The theorems of SessionExecution.                                       *)

LEMMA SessionInit ==
  ASSUME Init
  PROVE  Sound /\ SlotInv
<1>. PICK p \in Plans :
       /\ job = p.jobs /\ left = p.bounds
       /\ sess = [s \in Session |-> [state |-> p.state[s], active |-> p.active[s],
                                     claim |-> None, live |-> FALSE]]
       /\ res = [r \in Resource |->
                   IF \E s \in Session : p.active[s] = r
                     THEN [state |-> "IN_USE", by |-> CHOOSE s \in Session : p.active[s] = r]
                     ELSE [state |-> "AVAILABLE", by |-> None]]
       /\ dec = [j \in Job |-> [state |-> p.decision[j], claim |-> None,
                                live |-> FALSE, attempts |-> 0]]
  BY DEF Init
<1>0. /\ act = [j \in Job |-> "none"] /\ gone = {} /\ call = [c \in Call |-> Idle]
      /\ cron = NoCron /\ reserves = [j \in Job |-> 0]
  BY DEF Init
<1>1. /\ p.jobs \in [Job -> JobRow]
      /\ p.state \in [Session -> SessionState] /\ p.active \in [Session -> OrNone(Resource)]
      /\ p.decision \in [Job -> Open \cup Final]
      /\ p.bounds \in [lapses : Nat, crashes : Nat, faults : Nat, pump : BOOLEAN]
      /\ \A j \in Job : p.jobs[j].api \/ p.jobs[j].type \in {"ACTIVATE", "SWITCH"}
      /\ \A s \in Session :
           /\ p.state[s] \in {"ACTIVE", "DEGRADED", "SWITCHING"} => p.active[s] # None
           /\ \A t \in Session : p.active[s] = p.active[t] => s = t \/ p.active[s] = None
  BY PlanAssumption
<1>2. \A c \in Call : ~Works(c)
  BY <1>0 DEF Works, Idle
<1>3. TypeOK
  <2>1. Idle \in CallRow
    BY DEF Idle, CallRow, Pc, Goal, OrNone
  <2>2. res \in [Resource -> ResRow]
    <3>. SUFFICES ASSUME NEW r \in Resource
                  PROVE  res[r] \in ResRow
      OBVIOUS
    <3>1. CASE \E s \in Session : p.active[s] = r
      <4>. DEFINE by == CHOOSE s \in Session : p.active[s] = r
      <4>1. by \in Session /\ res[r] = [state |-> "IN_USE", by |-> by]
        BY <3>1
      <4>. QED  BY <4>1 DEF ResRow, OrNone
    <3>2. CASE ~\E s \in Session : p.active[s] = r
      BY <3>2 DEF ResRow, OrNone
    <3>. QED  BY <3>1, <3>2
  <2>3. sess \in [Session -> SessRow] /\ dec \in [Job -> DecRow]
    BY <1>1 DEF SessRow, DecRow, Id
  <2>4. act \in [Job -> ActionState] /\ call \in [Call -> CallRow]
        /\ cron \in [pc : {"idle", "claim", "mark"}, job : OrNone(Job)]
        /\ reserves \in [Job -> Nat] /\ gone \subseteq Job
    BY <1>0, <2>1 DEF ActionState, NoCron, OrNone
  <2>. QED  BY <1>1, <2>2, <2>3, <2>4 DEF TypeOK, CallRow, DecRow, SessRow, ResRow
<1>4. Sound
  BY <1>0, <1>1, <1>2, <1>3 DEF Sound, JobInv, CronInv, LocalsInv, NoCron
<1>5. ReserveInv
  BY <1>0, <1>2 DEF ReserveInv, OneApiCall, NotYet, Reservations, Tried, OnePast, Unreported
<1>6. PrevIsActive /\ TargetHeld
  BY <1>2 DEF PrevIsActive, TargetHeld, On
<1>7. Stand
  <2>. SUFFICES ASSUME NEW s \in InSlot
                PROVE  /\ sess[s].active = None \/ UsedBy(sess[s].active, s)
                       /\ sess[s].state \in Up => sess[s].active # None
    BY DEF Stand
  <2>1. s \in Session /\ sess[s].active = p.active[s] /\ sess[s].state = p.state[s]
    BY DEF InSlot
  <2>2. ASSUME p.active[s] # None
        PROVE  UsedBy(sess[s].active, s)
    <3>1. p.active[s] \in Resource
      BY <1>1, <2>1, <2>2 DEF OrNone
    <3>. DEFINE by == CHOOSE t \in Session : p.active[t] = p.active[s]
    <3>2. by \in Session /\ p.active[by] = p.active[s]
      BY <2>1
    <3>3. by = s
      BY <1>1, <2>1, <2>2, <3>2
    <3>. HIDE DEF by
    <3>4. res[p.active[s]] = [state |-> "IN_USE", by |-> by]
      BY <2>1, <3>1 DEF by
    <3>. QED  BY <2>1, <3>3, <3>4 DEF UsedBy
  <2>. QED  BY <1>1, <2>1, <2>2 DEF Up
<1>. QED  BY <1>4, <1>5, <1>6, <1>7 DEF SlotInv, StandInv

\* The cases in which a session is activated that has nothing yet: an ACTIVATE of a
\* session that stands on a resource leaves that one to nobody.
ActivatesTheIdle ==
  \A p \in Plans, j \in Job : ~p.jobs[j].api /\ p.jobs[j].type = "ACTIVATE" =>
    /\ p.active[p.jobs[j].session] = None
    /\ p.state[p.jobs[j].session] \notin {"ACTIVE", "DEGRADED", "SWITCHING"}

LEMMA OrphanInit ==
  ASSUME Init, ActivatesTheIdle
  PROVE  OrphanInv
<1>. PICK p \in Plans :
       /\ job = p.jobs
       /\ sess = [s \in Session |-> [state |-> p.state[s], active |-> p.active[s],
                                     claim |-> None, live |-> FALSE]]
       /\ res = [r \in Resource |->
                   IF \E s \in Session : p.active[s] = r
                     THEN [state |-> "IN_USE", by |-> CHOOSE s \in Session : p.active[s] = r]
                     ELSE [state |-> "AVAILABLE", by |-> None]]
  BY DEF Init
<1>1. \A c \in Call : ~Works(c)
  BY DEF Init, Works, Idle
<1>2. Unactivated
  <2>. SUFFICES ASSUME NEW s \in Session, Once(s), ToActivate(s)
                PROVE  sess[s].active = None /\ sess[s].state \notin Up
    BY <1>1 DEF Unactivated, On
  <2>1. PICK j \in Job : job[j].session = s /\ job[j].type = "ACTIVATE"
    BY DEF ToActivate
  <2>2. ~job[j].api
    BY <2>1 DEF Once, InSlot, ApiRuns
  <2>. QED  BY <2>1, <2>2 DEF ActivatesTheIdle, Up
<1>3. FromNothing
  BY <1>1 DEF FromNothing, On
<1>4. Told
  <2>. SUFFICES ASSUME NEW s \in Session, NEW r \in Resource, res[r].by = s
                PROVE  r = sess[s].active
    BY DEF Told
  <2>1. s # None
    BY NullAssumption
  <2>2. \E t \in Session : p.active[t] = r
    BY <2>1
  <2>3. s = CHOOSE t \in Session : p.active[t] = r
    BY <2>2
  <2>. QED  BY <2>2, <2>3
<1>. QED  BY <1>2, <1>3, <1>4 DEF OrphanInv

LEMMA SessionsHold == Spec => [](Sound /\ SlotInv)
<1>1. Init => Sound /\ SlotInv
  BY SessionInit
<1>2. Sound /\ SlotInv /\ [Next]_vars => (Sound /\ SlotInv)'
  BY SessionNext
<1>. QED  BY <1>1, <1>2, PTL DEF Spec

\* Whatever the interleaving of workers, leases, crashes, the API and the cron route,
\* every row and every call's locals keep their type.
THEOREM SessionsTyped == Spec => []TypeOK
<1>1. Sound /\ SlotInv => TypeOK
  BY DEF Sound
<1>. QED  BY <1>1, SessionsHold, PTL

\* A job's action reserves its target once, however often its decision is claimed, lost,
\* put back and executed again, and by however many processes, with or without a slot.
THEOREM ReservesOnce == Spec => []ReservedOnce
<1>1. Sound /\ SlotInv => ReservedOnce
  BY DEF SlotInv, ReserveInv, Reservations, ReservedOnce
<1>. QED  BY <1>1, SessionsHold, PTL

\* In the cases that activate idle sessions, what a session activated once holds besides
\* the resource it stands on is told of by an action that did not report success.
THEOREM ReservationsHaveAnAction ==
  ASSUME ActivatesTheIdle
  PROVE  Spec => []ReservationsAccounted
<1>. DEFINE I == Sound /\ SlotInv /\ OrphanInv
<1>1. Init => I
  BY SessionInit, OrphanInit
<1>2. I /\ [Next]_vars => I'
  BY SessionNext
<1>3. I => ReservationsAccounted
  <2>. SUFFICES ASSUME I
                PROVE  ReservedOnce /\ NoSilentOrphan
    BY DEF ReservationsAccounted
  <2>1. ReservedOnce
    BY DEF SlotInv, ReserveInv, Reservations, ReservedOnce
  <2>2. NoSilentOrphan
    <3>. SUFFICES ASSUME NEW s \in Session, NEW r \in Resource, ~ApiRuns(s), SingleActivation(s),
                         res[r].by = s, r # sess[s].active
                  PROVE  \E j \in Job : job[j].session = s /\ act[j] \notin {"none", "SUCCEEDED"}
      BY DEF NoSilentOrphan
    <3>1. Once(s)
      BY DEF Once, InSlot
    <3>. QED  BY <3>1 DEF OrphanInv, Told, Answers
  <2>. QED  BY <2>1, <2>2
<1>. HIDE DEF I
<1>. QED  BY <1>1, <1>2, <1>3, PTL DEF Spec

-----------------------------------------------------------------------------
(* The sessions the API leaves alone implement SessionConnectivity.        *)

Phase == [s \in Session |-> IF ApiRuns(s) THEN "ENDED" ELSE sess[s].state]
Standing == [s \in Session |-> IF ApiRuns(s) THEN None ELSE sess[s].active]
Held == [s \in Session |-> IF ApiRuns(s) THEN {} ELSE {r \in Resource : UsedBy(r, s)}]
Connected == [Connectivity!Next]_(Connectivity!vars)

\* A session in the slot keeps what it stands on, its state, and what it uses.
SameSeat == \A s \in InSlot : sess'[s].active = sess[s].active
SamePhase == \A s \in InSlot : sess'[s].state = sess[s].state
SameUse == \A s \in InSlot, r \in Resource : UsedBy(r, s)' = UsedBy(r, s)

LEMMA Unmoved ==
  ASSUME job' = job
  PROVE  /\ SameSeat => Standing' = Standing
         /\ SamePhase => Phase' = Phase
         /\ SameUse => Held' = Held
<1>1. \A s \in Session : ApiRuns(s)' = ApiRuns(s) /\ (~ApiRuns(s) => s \in InSlot)
  BY DEF ApiRuns, InSlot
<1>2. SameSeat => Standing' = Standing
  BY <1>1 DEF SameSeat, Standing
<1>3. SamePhase => Phase' = Phase
  BY <1>1 DEF SamePhase, Phase
<1>4. SameUse => Held' = Held
  <2>. SUFFICES ASSUME SameUse, NEW s \in Session, ~ApiRuns(s)
                PROVE  {r \in Resource : UsedBy(r, s)'} = {r \in Resource : UsedBy(r, s)}
    BY <1>1 DEF Held
  <2>. QED  BY <1>1 DEF SameUse
<1>. QED  BY <1>2, <1>3, <1>4

LEMMA Stuttering ==
  ASSUME job' = job, SameSeat, SamePhase, SameUse
  PROVE  Connected
BY Unmoved DEF Connected, Connectivity!vars, Standing, Phase, Held

LEMMA Entering ==
  ASSUME Sound, job' = job, SameSeat, SameUse, NEW s \in InSlot,
         NEW p \in {"DISCOVERING", "ACTIVE", "DEGRADED", "SWITCHING"},
         sess' = [sess EXCEPT ![s].state = p], sess[s].state # "ENDED",
         p = "ACTIVE" => sess[s].active # None
  PROVE  Connected
<1>1. Standing' = Standing /\ Held' = Held
  BY Unmoved
<1>2. s \in Session /\ ~ApiRuns(s) /\ \A t \in Session : ApiRuns(t)' = ApiRuns(t)
  BY DEF InSlot, ApiRuns
<1>3. Phase[s] # "ENDED" /\ (p = "ACTIVE" => Standing[s] # None)
  BY <1>2 DEF Phase, Standing
<1>4. Phase' = [Phase EXCEPT ![s] = p]
  BY <1>2, TypedVars DEF Phase, SessRow
<1>5. Connectivity!Enter(s, p)
  BY <1>1, <1>3, <1>4 DEF Connectivity!Enter, Phase, Standing, Held
<1>. QED  BY <1>2, <1>5 DEF Connected, Connectivity!Next

LEMMA Seating ==
  ASSUME Sound, job' = job, SamePhase, SameUse, NEW s \in InSlot, NEW r \in Resource,
         sess' = [sess EXCEPT ![s].active = r], UsedBy(r, s)
  PROVE  Connected
<1>1. Phase' = Phase /\ Held' = Held
  BY Unmoved
<1>2. s \in Session /\ ~ApiRuns(s) /\ \A t \in Session : ApiRuns(t)' = ApiRuns(t)
  BY DEF InSlot, ApiRuns
<1>3. r \in Held[s]
  BY <1>2 DEF Held
<1>4. Standing' = [Standing EXCEPT ![s] = r]
  BY <1>2, TypedVars DEF Standing, SessRow
<1>5. Connectivity!Move(s, r)
  BY <1>1, <1>3, <1>4 DEF Connectivity!Move, Phase, Standing, Held
<1>. QED  BY <1>2, <1>5 DEF Connected, Connectivity!Next

LEMMA Using ==
  ASSUME job' = job, SamePhase, SameSeat, NEW s \in InSlot, NEW r \in Resource,
         \A t \in Session, q \in Resource :
           UsedBy(q, t)' = (UsedBy(q, t) \/ (q = r /\ t = s)),
         \A t \in Session : ~UsedBy(r, t)
  PROVE  Connected
<1>1. Phase' = Phase /\ Standing' = Standing
  BY Unmoved
<1>2. s \in Session /\ ~ApiRuns(s) /\ \A t \in Session : ApiRuns(t)' = ApiRuns(t)
  BY DEF InSlot, ApiRuns
<1>3. \A t \in Session : r \notin Held[t]
  BY DEF Held
<1>4. Held' = [Held EXCEPT ![s] = @ \cup {r}] BY <1>2 DEF Held
<1>5. Connectivity!TakeUp(s, r)
  BY <1>1, <1>3, <1>4 DEF Connectivity!TakeUp, Phase, Standing, Held
<1>. QED  BY <1>2, <1>5 DEF Connected, Connectivity!Next

LEMMA Dropping ==
  ASSUME job' = job, SamePhase, SameSeat, NEW s \in InSlot, NEW r \in Resource,
         \A t \in Session, q \in Resource :
           UsedBy(q, t)' = (UsedBy(q, t) /\ ~(q = r /\ t = s)),
         UsedBy(r, s), r # sess[s].active
  PROVE  Connected
<1>1. Phase' = Phase /\ Standing' = Standing
  BY Unmoved
<1>2. s \in Session /\ ~ApiRuns(s) /\ \A t \in Session : ApiRuns(t)' = ApiRuns(t)
  BY DEF InSlot, ApiRuns
<1>3. r \in Held[s] /\ r # Standing[s]
  BY <1>2 DEF Held, Standing
<1>4. Held' = [Held EXCEPT ![s] = @ \ {r}] BY <1>2 DEF Held
<1>5. Connectivity!Drop(s, r)
  BY <1>1, <1>3, <1>4 DEF Connectivity!Drop, Phase, Standing, Held
<1>. QED  BY <1>2, <1>5 DEF Connected, Connectivity!Next

\* Most steps leave sessions and resources as they are, but for a claim and its lease.
Quiet == /\ job' = job /\ res' = res
         /\ \A s \in Session : /\ sess'[s].active = sess[s].active
                               /\ sess'[s].state = sess[s].state

LEMMA QuietStep ==
  ASSUME Quiet
  PROVE  Connected
BY Stuttering DEF Quiet, SameSeat, SamePhase, SameUse, InSlot, UsedBy

LEMMA QuietCalls ==
  ASSUME Sound, NEW c \in Call,
         \/ ReadDecision(c) \/ PostAction(c) \/ RenewSlot(c) \/ Crash(c) \/ Claiming(c)
         \/ LoadAction(c) \/ TransitRead(c) \/ TransitWrite(c) \/ VerifySlot(c)
         \/ ResolveBinding(c) \/ VerifyUsable(c) \/ CheckInvariant(c)
         \/ RecordOutcome(c) \/ FreeSlot(c)
  PROVE  Quiet
<1>1. CASE ReadDecision(c) \/ PostAction(c) \/ Crash(c)
  <2>1. sess' = Disowned(c, sess) /\ job' = job /\ res' = res
    BY <1>1 DEF ReadDecision, PostAction, Crash
  <2>. QED  BY <2>1, TypedVars DEF Disowned, Quiet, SessRow
<1>2. CASE RenewSlot(c) \/ FreeSlot(c) \/ AcquireSlot(c)
  <2>1. /\ Works(c) /\ S(c) \in Session /\ job' = job /\ res' = res
    BY <1>2, Working DEF RenewSlot, FreeSlot, AcquireSlot, Works, Beating
  <2>2. CASE sess' = sess
    BY <2>1, <2>2 DEF Quiet
  <2>3. ASSUME NEW row, sess' = [sess EXCEPT ![S(c)] = row],
               row.active = sess[S(c)].active, row.state = sess[S(c)].state
        PROVE  Quiet
    BY <2>1, <2>3, TypedVars DEF Quiet
  <2>4. ASSUME NEW claim, NEW live, sess' = [sess EXCEPT ![S(c)].claim = claim, ![S(c)].live = live]
        PROVE  Quiet
    <3>. DEFINE row == [sess[S(c)] EXCEPT !.claim = claim, !.live = live]
    <3>1. row.active = sess[S(c)].active /\ row.state = sess[S(c)].state
      BY <2>1, TypedVars DEF SessRow
    <3>2. sess' = [sess EXCEPT ![S(c)] = row]
      BY <2>4
    <3>. HIDE DEF row
    <3>. QED  BY <2>3, <3>1, <3>2
  <2>5. CASE sess' = [sess EXCEPT ![S(c)].live = TRUE]
    BY <2>1, <2>5, TypedVars DEF Quiet, SessRow
  <2>. QED  BY <1>2, <2>2, <2>4, <2>5 DEF RenewSlot, FreeSlot, AcquireSlot
<1>3. CASE DeadLetter(c) \/ ClaimDecision(c) \/ MarkExecuting(c) \/ Requeue(c)
           \/ VerifyAuthority(c) \/ CreateAction(c)
  BY <1>3 DEF DeadLetter, ClaimDecision, MarkExecuting, Requeue, VerifyAuthority, CreateAction, Quiet
<1>4. CASE \/ LoadAction(c) \/ TransitRead(c) \/ TransitWrite(c) \/ VerifySlot(c)
           \/ ResolveBinding(c) \/ VerifyUsable(c) \/ CheckInvariant(c) \/ RecordOutcome(c)
  BY <1>4 DEF LoadAction, TransitRead, TransitWrite, VerifySlot, Verified, ResolveBinding,
     VerifyUsable, CheckInvariant, RecordOutcome, Quiet
<1>. QED  BY <1>1, <1>2, <1>3, <1>4 DEF Claiming

LEMMA MovesConnect ==
  ASSUME Sound, NEW c \in Call, Works(c), NEW allowed, NEW then, NEW refused,
         NEW to \in SessionState, Moves(c, allowed, to, then, refused), UNCHANGED <<job, res>>,
         S(c) \in InSlot /\ Owner(c) /\ sess[S(c)].state \in allowed =>
           /\ sess[S(c)].state # "ENDED"
           /\ to \in {"DISCOVERING", "ACTIVE", "DEGRADED", "SWITCHING"}
           /\ to = "ACTIVE" => sess[S(c)].active # None
  PROVE  Connected
<1>1. S(c) \in Session /\ SameUse
  BY Working DEF SameUse, UsedBy
<1>2. CASE sess' = sess
  BY <1>2, QuietStep DEF Quiet
<1>3. CASE sess' = [sess EXCEPT ![S(c)].state = to]
  <2>1. /\ SameSeat
        /\ \A s \in Session : s # S(c) => sess'[s].state = sess[s].state
    BY <1>1, <1>3, TypedVars DEF SameSeat, InSlot, SessRow
  <2>2. CASE S(c) \in InSlot
    <3>1. (Holds(c) /\ sess[S(c)].state \in allowed) \/ sess' = sess
      BY <1>3, <2>2, FencedInSlot DEF Moves
    <3>. QED  BY <1>1, <1>2, <1>3, <2>1, <2>2, <3>1, Entering DEF Holds, Owner
  <2>3. CASE S(c) \notin InSlot BY <2>1, <2>3, <1>1, Stuttering DEF SamePhase, InSlot
  <2>. QED  BY <2>2, <2>3
<1>. QED  BY <1>2, <1>3 DEF Moves

LEMMA MovingConnects ==
  ASSUME Sound, SlotInv, NEW c \in Call,
         BeginSwitch(c) \/ Revert(c) \/ Discover(c) \/ BecomeActive(c) \/ SimpleMove(c)
  PROVE  Connected
<1>0. Works(c) /\ LocalsOf(c) /\ Target(c) \in Resource /\ S(c) \in Session
  BY Working DEF BeginSwitch, Revert, Discover, BecomeActive, SimpleMove, Works
<1>1. ASSUME S(c) \in InSlot, sess[S(c)].state \in Up
      PROVE  sess[S(c)].active # None
  BY <1>1 DEF SlotInv, StandInv, Stand
<1>2. CASE BeginSwitch(c) BY <1>2, <1>0, MovesConnect DEF BeginSwitch, SessionState
<1>3. CASE Revert(c)
  <2>. DEFINE back == IF call[c].from = "DEGRADED" THEN "DEGRADED" ELSE "ACTIVE"
              then == [call[c] EXCEPT !.seen = None,
                         !.pc = IF call[c].goal = Recon THEN "transit" ELSE "catch"]
  <2>1. Moves(c, {"SWITCHING"}, back, then, then) /\ UNCHANGED <<job, res>>
    BY <1>3 DEF Revert
  <2>2. back \in {"DEGRADED", "ACTIVE"}
    OBVIOUS
  <2>. HIDE DEF back, then
  <2>. QED  BY <1>0, <1>1, <2>1, <2>2, MovesConnect DEF SessionState, Up
<1>4. CASE Discover(c) BY <1>4, <1>0, MovesConnect DEF Discover, SessionState
<1>5. CASE BecomeActive(c)
  <2>. DEFINE allowed == IF Switching(c) THEN {"SWITCHING"}
                                         ELSE {"DISCOVERING", "RESERVED", "SWITCHING"}
              then == At(c, IF Switching(c) THEN "verify4" ELSE "invariant")
  <2>1. Moves(c, allowed, "ACTIVE", then, Lost(c)) /\ UNCHANGED <<job, res>>
    BY <1>5 DEF BecomeActive
  <2>2. "ENDED" \notin allowed
    OBVIOUS
  <2>3. ASSUME S(c) \in InSlot, Owner(c)
        PROVE  sess[S(c)].active # None
    BY <1>0, <1>5, <2>3, NullAssumption DEF SlotInv, StandInv, TargetHeld, On, Moved, BecomeActive
  <2>. HIDE DEF allowed, then
  <2>. QED  BY <1>0, <2>1, <2>2, <2>3, MovesConnect DEF SessionState
<1>6. CASE SimpleMove(c)
  <2>. DEFINE then == [call[c] EXCEPT !.pc = "transit", !.goal = "SUCCEEDED"]
  <2>1. Moves(c, {}, call[c].goal, then, then) /\ UNCHANGED <<job, res>>
    BY <1>6 DEF SimpleMove
  <2>2. call[c].goal \in SessionState
    BY <1>0, <1>6 DEF LocalsOf, SimpleMove, SessionState
  <2>. HIDE DEF then
  <2>. QED  BY <1>0, <2>1, <2>2, MovesConnect
<1>. QED  BY <1>2, <1>3, <1>4, <1>5, <1>6

LEMMA ReleasingConnects ==
  ASSUME Sound, NEW c \in Call, Works(c), NEW r \in Resource, Released(c, r),
         UNCHANGED <<job, sess>>, S(c) \in InSlot => r # sess[S(c)].active
  PROVE  Connected
<1>1. SameSeat /\ SamePhase /\ S(c) \in Session
  BY Working DEF SameSeat, SamePhase
<1>2. \A t \in Session, q \in Resource :
        UsedBy(q, t)' = (UsedBy(q, t) /\ ~(q = r /\ t = S(c)))
  BY <1>1, TypedVars, NullAssumption DEF Released, OwnedBy, UsedBy
<1>3. CASE S(c) \in InSlot /\ UsedBy(r, S(c))
  BY <1>1, <1>2, <1>3, Dropping
<1>4. CASE S(c) \notin InSlot \/ ~UsedBy(r, S(c))
  <2>1. SameUse
    <3>. SUFFICES ASSUME NEW s \in InSlot, NEW q \in Resource
                  PROVE  UsedBy(q, s)' = UsedBy(q, s)
      BY DEF SameUse
    <3>1. s \in Session /\ (s = S(c) => ~UsedBy(r, s))
      BY <1>4 DEF InSlot
    <3>. QED  BY <1>2, <3>1 DEF UsedBy
  <2>. QED  BY <1>1, <2>1, Stuttering
<1>. QED  BY <1>3, <1>4

LEMMA ResourcesConnect ==
  ASSUME Sound, SlotInv, NEW c \in Call,
         ReserveTarget(c) \/ MarkInUse(c) \/ GiveBack(c) \/ ReleaseOld(c) \/ SimpleStart(c)
  PROVE  Connected
<1>0. /\ Works(c) /\ LocalsOf(c) /\ Target(c) \in Resource /\ S(c) \in Session
      /\ call[c] \in CallRow /\ UNCHANGED <<job, sess>> /\ SameSeat /\ SamePhase
  BY Working DEF ReserveTarget, MarkInUse, GiveBack, ReleaseOld, SimpleStart, Works, SameSeat, SamePhase
<1>1. ASSUME res' = res
      PROVE  Connected
  BY <1>0, <1>1, QuietStep DEF Quiet
<1>2. CASE ReserveTarget(c)
  BY <1>2, <1>0, TypedVars, Stuttering, <1>1 DEF ReserveTarget, Reservable, Available, SameUse,
     UsedBy
<1>3. CASE MarkInUse(c)
  <2>1. CASE Reserved(c)
    <3>1. /\ res' = [res EXCEPT ![Target(c)].state = "IN_USE"]
          /\ res[Target(c)] = [state |-> "RESERVED", by |-> S(c)]
      BY <1>3, <2>1 DEF MarkInUse, Reserved, ReservedBy
    <3>2. res' = [res EXCEPT ![Target(c)] = [state |-> "IN_USE", by |-> S(c)]]
      <4>1. [res[Target(c)] EXCEPT !.state = "IN_USE"] = [state |-> "IN_USE", by |-> S(c)]
        BY <3>1
      <4>. QED  BY <3>1, <4>1
    <3>3. \A t \in Session : ~UsedBy(Target(c), t)
      BY <3>1 DEF UsedBy
    <3>4. \A t \in Session, q \in Resource :
            UsedBy(q, t)' = (UsedBy(q, t) \/ (q = Target(c) /\ t = S(c)))
      BY <1>0, <3>2, <3>3, TypedVars DEF UsedBy
    <3>5. CASE S(c) \in InSlot
      BY <1>0, <3>3, <3>4, <3>5, Using
    <3>6. CASE S(c) \notin InSlot
      <4>1. SameUse
        <5>. SUFFICES ASSUME NEW s \in InSlot, NEW q \in Resource
                      PROVE  UsedBy(q, s)' = UsedBy(q, s)
          BY DEF SameUse
        <5>1. s \in Session /\ s # S(c)
          BY <3>6 DEF InSlot
        <5>. QED  BY <3>4, <5>1 DEF UsedBy
      <4>. QED  BY <1>0, <4>1, Stuttering
    <3>. QED  BY <3>5, <3>6
  <2>. QED  BY <1>1, <1>3, <2>1 DEF MarkInUse
<1>4. CASE GiveBack(c)
  <2>1. CASE Released(c, Target(c))
    <3>1. S(c) \in InSlot => sess[S(c)].active # Target(c)
      <4>. SUFFICES ASSUME S(c) \in InSlot
                    PROVE  sess[S(c)].active # Target(c)
        OBVIOUS
      <4>1. Owner(c)
        BY <1>0, <2>1, FencedInSlot DEF Released, MayTouch, Holds, Owner
      <4>. QED  BY <1>0, <1>4, <4>1 DEF SlotInv, StandInv, TargetHeld, On, GiveBack
    <3>. QED  BY <1>0, <2>1, <3>1, ReleasingConnects
  <2>. QED  BY <1>1, <1>4, <2>1 DEF GiveBack, NotReleased
<1>5. CASE ReleaseOld(c)
  <2>. DEFINE old == call[c].prev
  <2>1. CASE old \notin {None, Target(c)} /\ Released(c, old)
    <3>1. old \in Resource
      BY <1>0, <2>1 DEF CallRow, OrNone
    <3>2. S(c) \in InSlot => sess[S(c)].active # old
      <4>. SUFFICES ASSUME S(c) \in InSlot
                    PROVE  sess[S(c)].active # old
        OBVIOUS
      <4>1. Owner(c)
        BY <1>0, <2>1, FencedInSlot DEF Released, MayTouch, Holds, Owner
      <4>. QED  BY <1>0, <1>5, <2>1, <4>1 DEF SlotInv, StandInv, TargetHeld, On, ReleaseOld, Moved
    <3>. QED  BY <1>0, <2>1, <3>1, <3>2, ReleasingConnects
  <2>. QED  BY <1>1, <1>5, <2>1 DEF ReleaseOld, NotReleased
<1>6. CASE SimpleStart(c)
  BY <1>0, <1>6, FencedInSlot, ReleasingConnects, <1>1 DEF LocalsOf, SimpleStart, CallRow, OrNone,
     NotReleased
<1>. QED  BY <1>2, <1>3, <1>4, <1>5, <1>6

LEMMA UpdatingConnects ==
  ASSUME Sound, SlotInv, NEW c \in Call, UpdateSession(c)
  PROVE  Connected
<1>0. /\ Works(c) /\ Target(c) \in Resource /\ S(c) \in Session /\ UNCHANGED <<job, res>>
      /\ call[c].pc = "update"
  BY Working DEF UpdateSession, Works
<1>1. CASE ~MayMove(c)
  BY <1>0, <1>1, QuietStep DEF UpdateSession, Quiet
<1>2. CASE MayMove(c)
  <2>1. sess' = [sess EXCEPT ![S(c)].active = Target(c)]
    BY <1>2 DEF UpdateSession
  <2>2. SamePhase /\ SameUse
    BY <1>0, <2>1, TypedVars DEF SamePhase, SameUse, UsedBy, InSlot, SessRow
  <2>3. CASE S(c) \in InSlot
    <3>1. Owner(c)
      BY <1>0, <1>2, <2>3, FencedInSlot DEF MayMove, Holds, Owner
    <3>2. UsedBy(Target(c), S(c))
      BY <1>0, <2>3, <3>1 DEF SlotInv, StandInv, TargetHeld, On
    <3>. QED  BY <1>0, <2>1, <2>2, <2>3, <3>2, Seating
  <2>4. CASE S(c) \notin InSlot
    BY <1>0, <2>1, <2>4, TypedVars, <2>2, Stuttering DEF SameSeat, InSlot, SessRow
  <2>. QED  BY <2>3, <2>4
<1>. QED  BY <1>1, <1>2

LEMMA ConnectNext ==
  ASSUME Sound, SlotInv, [Next]_vars
  PROVE  Connected
<1>1. ASSUME NEW c \in Call,
             ReadDecision(c) \/ PostAction(c) \/ Proceed(c) \/ RenewSlot(c) \/ Crash(c)
      PROVE  Connected
  BY <1>1, QuietCalls, QuietStep, MovingConnects, ResourcesConnect, UpdatingConnects
     DEF Proceed, Executing
<1>2. CASE Reclaiming \/ Pumping \/ Lapsing \/ (\E j \in Job : IntentEnds(j))
  BY <1>2, ReclaimingStep, PumpingStep, WorldStep, QuietStep DEF Elsewhere, Quiet
<1>3. CASE UNCHANGED vars
  BY <1>3, QuietStep DEF vars, Quiet
<1>. QED  BY <1>1, <1>2, <1>3 DEF Next

LEMMA ConnectInit ==
  ASSUME Sound, SlotInv
  PROVE  Connectivity!Init
<1>1. \A s \in Session : Held[s] \subseteq Resource /\ (Standing[s] = None \/ Standing[s] \in Held[s])
  <2>. SUFFICES ASSUME NEW s \in Session, ~ApiRuns(s), sess[s].active # None
                PROVE  sess[s].active \in Resource /\ UsedBy(sess[s].active, s)
    BY DEF Held, Standing
  <2>. QED  BY TypedVars DEF SlotInv, StandInv, Stand, InSlot, SessRow, OrNone
<1>2. \A s \in Session : Phase[s] = "ACTIVE" => Standing[s] # None
  BY DEF SlotInv, StandInv, Stand, InSlot, Phase, Standing, Up
<1>3. \A s, t \in Session : s # t => Held[s] \cap Held[t] = {}
  BY DEF Held, UsedBy
<1>. QED  BY <1>1, <1>2, <1>3 DEF Connectivity!Init, Connectivity!Stands, Phase, Standing, Held

\* A session no API action is run on implements SessionConnectivity: it moves only to a
\* resource it has IN_USE, never gives up the one it stands on, shares none with another
\* session, and is ACTIVE only on a resource.
THEOREM BreaksAfterMaking == Spec => MakeBeforeBreak
<1>1. Init => Connectivity!Init
  BY SessionInit, ConnectInit
<1>2. Sound /\ SlotInv /\ [Next]_vars => [Connectivity!Next]_(Connectivity!vars)
  BY ConnectNext DEF Connected
<1>. QED  BY <1>1, <1>2, SessionsHold, PTL DEF Spec, MakeBeforeBreak, Connectivity!Spec

-----------------------------------------------------------------------------
(* TenantAccess: what a request may write, and what a quota bounds.        *)

\* Where a request of each kind may be, besides the beginning and the end.
OfficePlaces ==
  {"countStaff", "findAccount", "findMember", "addMember", "promote", "remove", "makeKey",
   "findKey", "revokeKey", "countCustomers", "findEmail", "addCustomer", "findCustomer",
   "editCustomer", "countOrders", "createOrder", "entitlement"}
FounderPlaces == {"own", "subscription", "balance", "signin"}
AccessPlaces == OfficePlaces \cup FounderPlaces \cup
  {"begin", "done", "refused", "session", "member", "choose", "setFirm", "approve",
   "slug", "account", "slugAgain", "found"}
KindsAt(at) ==
  CASE at \in {"countStaff", "findAccount", "addMember"} -> {"invite"}
    [] at = "findMember" -> {"invite", "promote", "remove"}
    [] at = "promote" -> {"promote"} [] at = "remove" -> {"remove"}
    [] at = "makeKey" -> {"newkey"} [] at \in {"findKey", "revokeKey"} -> {"revoke"}
    [] at \in {"countCustomers", "findEmail", "addCustomer"} -> {"customer"}
    [] at \in {"findCustomer", "editCustomer"} -> {"edit"}
    [] at \in {"countOrders", "createOrder"} -> {"order"}
    [] at = "entitlement" -> {"session"}
    [] at \in {"session", "member"} -> ForFirm
    [] at \in {"choose", "setFirm"} -> {"switch"}
    [] at = "approve" -> {"approve"}
    [] OTHER -> {"signup"}

BearerRights == (Firm \cup {Nobody}) \X (VIEW \cup {"none"} \cup KeyScopes)
VisitRows == [does : Requests, limit : [Firm -> LimitRows], at : AccessPlaces,
              user : Person \cup {Nobody}, firm : Firm \cup {Nobody},
              row : Credential \cup {Nobody}]

RowsTyped ==
  /\ members \in [Firm -> [Person -> MemberRows]]
  /\ logins \in [Credential -> LoginRows]
  /\ keys \in [Credential -> KeyRows]
  /\ records \in [Firm -> [customers : SUBSET Emails, placed : Nat]]
  /\ founded \in [Firm -> FoundedRows]
VisitsTyped ==
  /\ visit \in [Visit -> VisitRows]
  /\ held \in [Visit -> SUBSET BearerRights]
  /\ \A u, v \in Visit : visit[u].limit = visit[v].limit

\* A tenant that was founded, and whose founder has become its owner.
OpenFirm(f) ==
  /\ founded[f].by # Nobody
  /\ \A v \in Visit : founded[f].by = v => visit[v].at # "own"

\* A request that has passed the checks of its route had one of the rights it asks for.
RightsFor(v) == IF ByKey(v) THEN {"write", "admin"} ELSE RolesFor(visit[v].does.kind)
Cleared(v) ==
  /\ \E right \in RightsFor(v) : <<visit[v].firm, right>> \in held[v]
  /\ IF ByKey(v) THEN visit[v].does.kind = "session"
     ELSE visit[v].firm \in Firm /\ OpenFirm(visit[v].firm)

\* What a founder's tenant has by the time of each step.
FurnishedAt(at) == CASE at \in {"own", "subscription"} -> {}
                     [] at = "balance" -> {"subscription"}
                     [] OTHER -> {"subscription", "balance"}

Fits(v) ==
  LET does == visit[v].does  at == visit[v].at
  IN /\ at = "begin" => visit[v].user = Nobody
     /\ at \notin {"begin", "done", "refused"} => does.kind \in KindsAt(at)
     /\ at \in {"session", "member"} => visit[v].user \in Person /\ ~ByKey(v)
     /\ at \in OfficePlaces => Cleared(v)
     /\ at = "revokeKey" => keys[does.of].firm = visit[v].firm
     /\ at = "editCustomer" => does.of = visit[v].firm
     /\ at \in {"promote", "remove"} => visit[v].row # Nobody
     /\ at \in FounderPlaces \/ (at = "done" /\ does.kind = "signup") =>
          founded[does.of] = [by |-> v, has |-> FurnishedAt(at), live |-> TRUE]
VisitsFit == \A v \in Visit : Fits(v)

\* While a request is in progress, what its user is in each tenant counts among the rights
\* that its bearer has had.
HoldsNow == \A v \in Visit :
  visit[v].user # Nobody /\ visit[v].at \notin {"begin", "done", "refused"} =>
    \A f \in Firm : <<f, members[f][visit[v].user].role>> \in held[v]

\* Tenants that requests founded, the members of tenants and keys that requests made.
FoundersKnown == \A f \in Firm : \A v \in Visit : founded[f].by = v =>
  /\ visit[v].does.kind = "signup" /\ visit[v].does.of = f
  /\ visit[v].at \in FounderPlaces \cup {"done"}
MembersOfOpen == \A f \in Firm : \A p \in Person :
  /\ members[f][p].role = "none" <=> members[f][p].row = Nobody
  /\ members[f][p].role # "none" => OpenFirm(f)
KeysApart == \A v \in Visit : keys[v].firm # Nobody => visit[v].at = "done"

ActsPast == \A a \in acts :
  /\ a.by \in Visit /\ visit[a.by].at # "begin"
  /\ \E right \in a.rights : <<a.firm, right>> \in held[a.by]

\* Requests that have counted and are to fill a quota: when nobody else was, one at most,
\* and it finds room.
Quotas == {"staff", "customers", "orders"}
FillerKind(what) == CASE what = "staff" -> "invite" [] what = "customers" -> "customer"
                      [] OTHER -> "order"
Filler(v, f, what) == /\ visit[v].firm = f /\ visit[v].at \in Filling(what)
                      /\ visit[v].does.kind = FillerKind(what)
QuotaHolds(f, what) ==
  /\ \A v \in Visit : TotalOf(f, what) <= visit[v].limit[f][what]
  /\ \A v \in Visit : Filler(v, f, what) => TotalOf(f, what) < visit[v].limit[f][what]
  /\ \A u, v \in Visit : Filler(u, f, what) /\ Filler(v, f, what) => u = v
QuotasHold == \A f \in Firm : \A what \in Quotas :
  <<f, what>> \notin crowded => QuotaHolds(f, what)
CustomersFinite == \A f \in Firm : IsFiniteSet(records[f].customers)

AccessInv ==
  /\ RowsTyped /\ VisitsTyped /\ VisitsFit /\ HoldsNow /\ FoundersKnown /\ MembersOfOpen
  /\ KeysApart /\ ActsPast /\ QuotasHold /\ CustomersFinite

\* A step of one request: the others stay where they are, rights are only added, and what
\* a tenant was founded by and what a key is for do not change.
VisitStep(v) ==
  /\ visit' \in [Visit -> VisitRows] /\ held' \in [Visit -> SUBSET BearerRights]
  /\ \A u \in Visit \ {v} : visit'[u] = visit[u] /\ held[u] \subseteq held'[u]
  /\ visit'[v].does = visit[v].does /\ visit'[v].limit = visit[v].limit
  /\ visit[v].at = "begin" \/ held[v] \subseteq held'[v]
  /\ visit[v].at \notin {"done", "refused"} /\ visit'[v].at # "begin"
  /\ visit[v].at \in FounderPlaces => visit'[v].at \in FounderPlaces \cup {"done"}
  /\ visit'[v].at = "own" => visit[v].at = "found"
  /\ \A c \in Credential : keys'[c].firm = keys[c].firm \/ (c = v /\ visit'[v].at = "done")
  /\ \A f \in Firm : \/ founded'[f] = founded[f]
                     \/ founded[f].by = v /\ founded'[f].by = v
                     \/ /\ founded[f].by = Nobody /\ founded'[f].by = v
                        /\ visit[v].does.kind = "signup" /\ visit[v].does.of = f
                        /\ visit'[v].at = "own"

LEMMA VisitIsCredential ==
  /\ Nobody \notin Person /\ Nobody \notin Firm /\ Nobody \notin Credential
  /\ \A v \in Visit : v \in Credential /\ v # Nobody
BY AccessAssumption

LEMMA OpenStays ==
  ASSUME AccessInv, NEW v \in Visit, VisitStep(v), NEW f \in Firm, OpenFirm(f)
  PROVE  OpenFirm(f)'
BY DEF VisitStep, OpenFirm, AccessInv, FoundersKnown, FounderPlaces

LEMMA ClearedStays ==
  ASSUME AccessInv, NEW v \in Visit, VisitStep(v), NEW u \in Visit, Cleared(u),
         visit'[u].firm = visit[u].firm, visit'[u].does = visit[u].does,
         held[u] \subseteq held'[u]
  PROVE  Cleared(u)'
<1>1. ByKey(u)' <=> ByKey(u)
  BY DEF ByKey
<1>2. RightsFor(u)' = RightsFor(u)
  BY <1>1 DEF RightsFor, RolesFor
<1>3. \E right \in RightsFor(u) : <<visit[u].firm, right>> \in held'[u]
  BY DEF Cleared
<1>4. CASE ByKey(u)
  BY <1>1, <1>2, <1>3, <1>4 DEF Cleared
<1>5. CASE ~ByKey(u)
  <2>1. PICK f \in Firm : f = visit[u].firm /\ OpenFirm(f)
    BY <1>5 DEF Cleared
  <2>2. OpenFirm(f)'
    BY <2>1, OpenStays
  <2>3. visit'[u].firm = f
    BY <2>1
  <2>4. (visit[u].firm \in Firm /\ OpenFirm(visit[u].firm))'
    BY <2>2, <2>3 DEF OpenFirm
  <2>. QED  BY <1>1, <1>2, <1>3, <1>5, <2>4 DEF Cleared
<1>. QED  BY <1>4, <1>5

LEMMA OthersFit ==
  ASSUME AccessInv, NEW v \in Visit, VisitStep(v), NEW u \in Visit, u # v
  PROVE  Fits(u)'
<1>1. visit'[u] = visit[u] /\ held[u] \subseteq held'[u] /\ Fits(u)
  BY DEF AccessInv, VisitsFit, VisitStep
<1>2. ByKey(u)' <=> ByKey(u)
  BY <1>1 DEF ByKey
<1>3. visit[u].at \in OfficePlaces => Cleared(u)'
  BY <1>1, ClearedStays DEF Fits
<1>4. ASSUME visit[u].at = "revokeKey"
      PROVE  keys'[visit[u].does.of].firm = visit[u].firm
  <2>1. visit[u].does.kind = "revoke" /\ visit[u].at \in OfficePlaces
    BY <1>1, <1>4 DEF Fits, KindsAt, OfficePlaces
  <2>2. visit[u].does \in Requests
    BY DEF AccessInv, VisitsTyped, VisitRows
  <2>3. visit[u].does.of \in Credential
    BY <2>1, <2>2, AccessAssumption DEF WellFormed
  <2>4. visit[u].firm \in Firm
    BY <1>1, <2>1 DEF Fits, Cleared
  <2>5. keys[visit[u].does.of].firm # Nobody
    BY <1>1, <1>4, <2>4, VisitIsCredential DEF Fits
  <2>6. visit[u].does.of # v
    BY <2>5 DEF AccessInv, KeysApart, VisitStep
  <2>. QED  BY <1>1, <1>4, <2>3, <2>6 DEF Fits, VisitStep
<1>5. ASSUME visit[u].at \in FounderPlaces
             \/ (visit[u].at = "done" /\ visit[u].does.kind = "signup")
      PROVE  founded'[visit[u].does.of]
               = [by |-> u, has |-> FurnishedAt(visit[u].at), live |-> TRUE]
  BY <1>1, <1>5, AccessAssumption, VisitIsCredential DEF Fits, KindsAt, FounderPlaces, AccessInv,
     VisitsTyped, VisitRows, WellFormed, VisitStep
<1>. QED  BY <1>1, <1>2, <1>3, <1>4, <1>5 DEF Fits

\* What remains to be shown of a step.
LEMMA StepKeepsAccess ==
  ASSUME AccessInv, NEW v \in Visit, VisitStep(v), RowsTyped', Fits(v)', HoldsNow',
         MembersOfOpen', ActsPast', QuotasHold', CustomersFinite'
  PROVE  AccessInv'
<1>1. VisitsTyped' BY DEF VisitStep, VisitsTyped, AccessInv
<1>2. VisitsFit'
  BY OthersFit DEF VisitsFit
<1>3. FoundersKnown'
  <2>. SUFFICES ASSUME NEW f \in Firm, NEW u \in Visit, founded'[f].by = u
                PROVE  /\ visit'[u].does.kind = "signup" /\ visit'[u].does.of = f
                       /\ visit'[u].at \in FounderPlaces \cup {"done"}
    BY DEF FoundersKnown
  <2>1. CASE founded[f].by = u BY <2>1 DEF AccessInv, FoundersKnown, VisitStep
  <2>2. CASE founded[f].by # u BY <2>2 DEF VisitStep, FounderPlaces
  <2>. QED  BY <2>1, <2>2
<1>4. KeysApart'
  <2>. SUFFICES ASSUME NEW u \in Visit, keys'[u].firm # Nobody PROVE visit'[u].at = "done"
    BY DEF KeysApart
  <2>1. keys[u].firm # Nobody => visit[u].at = "done"
    BY DEF AccessInv, KeysApart
  <2>. QED  BY <2>1, VisitIsCredential DEF VisitStep
<1>. QED  BY <1>1, <1>2, <1>3, <1>4 DEF AccessInv

LEMMA TurnFacts ==
  ASSUME VisitsTyped, NEW v \in Visit, NEW place \in AccessPlaces, Turns(v, place)
  PROVE  /\ visit' \in [Visit -> VisitRows]
         /\ \A u \in Visit \ {v} : visit'[u] = visit[u]
         /\ visit'[v].does = visit[v].does /\ visit'[v].limit = visit[v].limit
         /\ visit'[v].user = visit[v].user /\ visit'[v].firm = visit[v].firm
         /\ visit'[v].row = visit[v].row /\ visit'[v].at = place
<1>1. visit[v] \in VisitRows
  BY DEF VisitsTyped
<1>. DEFINE row == [visit[v] EXCEPT !.at = place]
<1>2. /\ row \in VisitRows /\ row.does = visit[v].does /\ row.limit = visit[v].limit
      /\ row.user = visit[v].user /\ row.firm = visit[v].firm
      /\ row.row = visit[v].row /\ row.at = place
  BY <1>1 DEF VisitRows
<1>3. visit' = [visit EXCEPT ![v] = row]
  BY DEF Turns
<1>. HIDE DEF row
<1>. QED  BY <1>2, <1>3 DEF VisitsTyped

LEMMA QuotasTyped ==
  ASSUME RowsTyped, CustomersFinite, NEW f \in Firm, NEW what \in Quotas
  PROVE  /\ TotalOf(f, what) \in Nat
         /\ IsFiniteSet(Staff(f))
BY AccessAssumption, FS_Subset, FS_CardinalityType DEF Staff, RowsTyped, CustomersFinite, TotalOf

\* What the members were: nobody's rights are lost, and tenants stay open.
LEMMA MembersUnmoved ==
  ASSUME AccessInv, NEW v \in Visit, VisitStep(v), members' = members,
         \/ visit'[v].user = visit[v].user
         \/ \A f \in Firm : <<f, members[f][visit'[v].user].role>> \in held'[v]
  PROVE  HoldsNow' /\ MembersOfOpen'
<1>1. HoldsNow'
  <2>. SUFFICES ASSUME NEW u \in Visit, visit'[u].user # Nobody,
                       visit'[u].at \notin {"begin", "done", "refused"}, NEW f \in Firm
                PROVE  <<f, members[f][visit'[u].user].role>> \in held'[u]
    BY DEF HoldsNow
  <2>1. CASE u = v /\ visit'[v].user = visit[v].user
    BY <2>1 DEF AccessInv, VisitsFit, Fits, VisitStep, HoldsNow
  <2>2. CASE u # v
    BY <2>2 DEF VisitStep, AccessInv, HoldsNow
  <2>. QED  BY <2>1, <2>2
<1>2. MembersOfOpen'
  <2>. SUFFICES ASSUME NEW f \in Firm, NEW p \in Person
                PROVE  (/\ members[f][p].role = "none" <=> members[f][p].row = Nobody
                        /\ members[f][p].role # "none" => OpenFirm(f))'
    BY DEF MembersOfOpen
  <2>1. /\ members[f][p].role = "none" <=> members[f][p].row = Nobody
        /\ members[f][p].role # "none" => OpenFirm(f)
    BY DEF AccessInv, MembersOfOpen
  <2>. QED  BY <2>1, OpenStays
<1>. QED  BY <1>1, <1>2

\* A quota that nobody fills and for which nobody new has counted.
LEMMA QuotaUnmoved ==
  ASSUME AccessInv, NEW v \in Visit, VisitStep(v), NEW f \in Firm, NEW what \in Quotas,
         <<f, what>> \notin crowded, TotalOf(f, what)' = TotalOf(f, what),
         Filler(v, f, what)' => Filler(v, f, what)
  PROVE  QuotaHolds(f, what)'
BY DEF AccessInv, QuotasHold, VisitStep, Filler, QuotaHolds

LEMMA QuotasUnmoved ==
  ASSUME AccessInv, NEW v \in Visit, VisitStep(v), members' = members, records' = records,
         crowded \subseteq crowded',
         \A f \in Firm : \A what \in Quotas : <<f, what>> \notin crowded' =>
           (Filler(v, f, what)' => Filler(v, f, what))
  PROVE  QuotasHold' /\ CustomersFinite'
<1>1. \A f \in Firm, what \in Quotas : TotalOf(f, what)' = TotalOf(f, what)
  BY DEF TotalOf, Staff
<1>2. QuotasHold'
  <2>. SUFFICES ASSUME NEW f \in Firm, NEW what \in Quotas, <<f, what>> \notin crowded'
                PROVE  QuotaHolds(f, what)'
    BY DEF QuotasHold
  <2>. QED  BY <1>1, QuotaUnmoved
<1>3. CustomersFinite'
  BY DEF AccessInv, CustomersFinite
<1>. QED  BY <1>2, <1>3

LEMMA ActsUnmoved ==
  ASSUME AccessInv, NEW v \in Visit, VisitStep(v), acts' = acts
  PROVE  ActsPast'
<1>. SUFFICES ASSUME NEW a \in acts
              PROVE  /\ a.by \in Visit /\ visit'[a.by].at # "begin"
                     /\ \E right \in a.rights : <<a.firm, right>> \in held'[a.by]
  BY DEF ActsPast
<1>1. /\ a.by \in Visit /\ visit[a.by].at # "begin"
      /\ \E right \in a.rights : <<a.firm, right>> \in held[a.by]
  BY DEF AccessInv, ActsPast
<1>. QED  BY <1>1 DEF VisitStep

LEMMA ActAdded ==
  ASSUME AccessInv, NEW v \in Visit, VisitStep(v), NEW firm, NEW rights,
         Acts(v, firm, rights), \E right \in rights : <<firm, right>> \in held'[v]
  PROVE  ActsPast'
<1>. DEFINE deed == [by |-> v, firm |-> firm, rights |-> rights]
<1>1. acts' = acts \cup {deed} /\ deed.by = v /\ deed.firm = firm /\ deed.rights = rights
  BY DEF Acts
<1>. HIDE DEF deed
<1>. SUFFICES ASSUME NEW a \in acts'
              PROVE  /\ a.by \in Visit /\ visit'[a.by].at # "begin"
                     /\ \E right \in a.rights : <<a.firm, right>> \in held'[a.by]
  BY DEF ActsPast
<1>2. CASE a = deed
  BY <1>1, <1>2 DEF VisitStep
<1>3. CASE a \in acts BY <1>3 DEF AccessInv, ActsPast, VisitStep
<1>. QED  BY <1>1, <1>2, <1>3

\* A step that writes no row but an account or a login.
Looks == UNCHANGED <<members, keys, records, founded, held, acts, crowded>>

LEMMA LookIsStep ==
  ASSUME AccessInv, NEW v \in Visit, NEW place \in AccessPlaces, Turns(v, place), Looks,
         visit[v].at \notin FounderPlaces \cup {"done", "refused"},
         place \notin {"begin", "own"}
  PROVE  VisitStep(v)
BY TurnFacts DEF AccessInv, VisitStep, Looks, VisitsTyped

LEMMA RowsUnmoved ==
  ASSUME RowsTyped, UNCHANGED <<members, keys, records, founded>>,
         logins' \in [Credential -> LoginRows]
  PROVE  RowsTyped'
BY DEF RowsTyped

\* A request goes on, or ends, without having passed the checks of a route.
LEMMA PlainTurn ==
  ASSUME AccessInv, NEW v \in Visit, NEW place \in AccessPlaces, Turns(v, place), Looks,
         logins' \in [Credential -> LoginRows],
         visit[v].at \notin FounderPlaces \cup {"done", "refused"},
         place \notin OfficePlaces \cup FounderPlaces \cup {"begin", "session", "member"},
         place = "done" => visit[v].does.kind # "signup",
         place \notin {"done", "refused"} => visit[v].does.kind \in KindsAt(place)
  PROVE  AccessInv'
<1>1. VisitStep(v)
  BY LookIsStep DEF FounderPlaces
<1>2. /\ visit'[v].does = visit[v].does /\ visit'[v].at = place
      /\ visit'[v].user = visit[v].user
  BY TurnFacts DEF AccessInv
<1>3. RowsTyped'
  BY RowsUnmoved DEF AccessInv, Looks
<1>4. Fits(v)'
  BY <1>2 DEF Fits, OfficePlaces, FounderPlaces
<1>5. \A f \in Firm, what \in Quotas : ~Filler(v, f, what)'
  BY <1>2 DEF Filler, Filling, OfficePlaces
<1>6. HoldsNow' /\ MembersOfOpen'
  BY <1>1, <1>2, MembersUnmoved DEF Looks
<1>7. QuotasHold' /\ CustomersFinite'
  BY <1>1, <1>5, QuotasUnmoved DEF Looks
<1>8. ActsPast'
  BY <1>1, ActsUnmoved DEF Looks
<1>. QED  BY <1>1, <1>3, <1>4, <1>6, <1>7, <1>8, StepKeepsAccess

LEMMA Refused ==
  ASSUME AccessInv, NEW v \in Visit, Denied(v), Looks, logins' = logins,
         visit[v].at \notin FounderPlaces \cup {"done", "refused"}
  PROVE  AccessInv'
BY PlainTurn DEF AccessPlaces, OfficePlaces, FounderPlaces, AccessInv, RowsTyped, Denied

\* A request that has passed the checks of its route goes on.
LEMMA OfficeTurn ==
  ASSUME AccessInv, NEW v \in Visit, NEW place \in OfficePlaces, Turns(v, place),
         UNCHANGED <<members, keys, records, founded, held, acts, logins>>,
         crowded \subseteq crowded', visit[v].at \in OfficePlaces,
         visit[v].does.kind \in KindsAt(place), place \notin {"promote", "remove"},
         place = "revokeKey" => keys[visit[v].does.of].firm = visit[v].firm,
         place = "editCustomer" => visit[v].does.of = visit[v].firm,
         QuotasHold'
  PROVE  AccessInv'
<1>1. place \in AccessPlaces /\ place \notin FounderPlaces \cup {"begin", "done", "session", "member"}
  BY DEF AccessPlaces, OfficePlaces, FounderPlaces
<1>2. visit[v].at \notin FounderPlaces \cup {"done", "refused", "begin", "found"}
  BY DEF OfficePlaces, FounderPlaces
<1>3. /\ visit'[v].does = visit[v].does /\ visit'[v].at = place
      /\ visit'[v].user = visit[v].user /\ visit'[v].firm = visit[v].firm
      /\ visit' \in [Visit -> VisitRows]
      /\ \A u \in Visit \ {v} : visit'[u] = visit[u]
      /\ visit'[v].limit = visit[v].limit
  BY <1>1, TurnFacts DEF AccessInv
<1>4. VisitStep(v)
  BY <1>1, <1>2, <1>3 DEF VisitStep, AccessInv, VisitsTyped, FounderPlaces
<1>5. RowsTyped'
  BY RowsUnmoved DEF AccessInv, RowsTyped
<1>6. Cleared(v)' BY <1>3, <1>4, ClearedStays DEF AccessInv, VisitsFit, Fits
<1>7. Fits(v)'
  BY <1>1, <1>3, <1>6 DEF Fits
<1>8. HoldsNow' /\ MembersOfOpen'
  BY <1>3, <1>4, MembersUnmoved
<1>9. CustomersFinite'
  BY DEF AccessInv, CustomersFinite
<1>10. ActsPast'
  BY <1>4, ActsUnmoved
<1>. QED  BY <1>4, <1>5, <1>7, <1>8, <1>9, <1>10, StepKeepsAccess

LEMMA RequestOf ==
  ASSUME AccessInv, NEW v \in Visit
  PROVE  /\ WellFormed(visit[v].does) /\ visit[v] \in VisitRows
         /\ v \in Credential /\ v # Nobody
BY AccessAssumption DEF AccessInv, VisitsTyped, VisitRows

LEMMA RightsTyped ==
  ASSUME AccessInv, NEW m \in [Firm -> [Person -> MemberRows]],
         NEW k \in [Credential -> KeyRows], NEW u \in Visit
  PROVE  RightsIn(m, k, u) \subseteq BearerRights
<1>. SUFFICES ASSUME NEW right \in RightsIn(m, k, u) PROVE right \in BearerRights
  OBVIOUS
<1>1. visit[u].does.key \in Credential \cup {Nobody} /\ visit[u].user \in Person \cup {Nobody}
  BY RequestOf DEF WellFormed, VisitRows
<1>2. ASSUME visit[u].user # Nobody, NEW f \in Firm,
             right = <<f, m[f][visit[u].user].role>>
      PROVE  right \in BearerRights
  BY <1>1, <1>2 DEF MemberRows, BearerRights
<1>3. ASSUME visit[u].does.key # Nobody, NEW scope \in k[visit[u].does.key].scopes,
             right = <<k[visit[u].does.key].firm, scope>>
      PROVE  right \in BearerRights
  BY <1>1, <1>3 DEF KeyRows, BearerRights
<1>. QED  BY <1>2, <1>3 DEF RightsIn

LEMMA HeldFacts ==
  ASSUME AccessInv, NEW m \in [Firm -> [Person -> MemberRows]],
         NEW k \in [Credential -> KeyRows], HeldIn(m, k)
  PROVE  /\ held' \in [Visit -> SUBSET BearerRights]
         /\ \A u \in Visit : held[u] \subseteq held'[u]
         /\ \A u \in Visit : visit[u].at \notin {"begin", "done", "refused"}
                             /\ visit[u].user # Nobody =>
              \A f \in Firm : <<f, m[f][visit[u].user].role>> \in held'[u]
<1>1. \A u \in Visit : RightsIn(m, k, u) \subseteq BearerRights
  BY RightsTyped
<1>2. ASSUME NEW u \in Visit
      PROVE  held'[u] \in SUBSET BearerRights /\ held[u] \subseteq held'[u]
  BY <1>1 DEF AccessInv, VisitsTyped, HeldIn
<1>3. held' \in [Visit -> SUBSET BearerRights]
  BY <1>2 DEF HeldIn
<1>4. ASSUME NEW u \in Visit, visit[u].at \notin {"begin", "done", "refused"},
             visit[u].user # Nobody, NEW f \in Firm
      PROVE  <<f, m[f][visit[u].user].role>> \in held'[u]
  BY <1>4 DEF RightsIn, HeldIn
<1>. QED  BY <1>2, <1>3, <1>4

LEMMA MembersMoved ==
  ASSUME AccessInv, NEW v \in Visit, VisitStep(v), keys' = keys,
         members' \in [Firm -> [Person -> MemberRows]], HeldIn(members', keys),
         visit'[v].user = visit[v].user, visit[v].at # "begin"
  PROVE  HoldsNow'
<1>1. keys \in [Credential -> KeyRows]
  BY DEF AccessInv, RowsTyped
<1>2. \A u \in Visit : visit[u].at \notin {"begin", "done", "refused"}
                       /\ visit[u].user # Nobody =>
        \A f \in Firm : <<f, members'[f][visit[u].user].role>> \in held'[u]
  BY <1>1, HeldFacts
<1>. SUFFICES ASSUME NEW u \in Visit, visit'[u].user # Nobody,
                     visit'[u].at \notin {"begin", "done", "refused"}, NEW f \in Firm
              PROVE  <<f, members'[f][visit'[u].user].role>> \in held'[u]
  BY DEF HoldsNow
<1>3. visit'[u].user = visit[u].user /\ visit[u].at \notin {"begin", "done", "refused"}
  BY DEF VisitStep
<1>. QED  BY <1>2, <1>3

\* Who is to fill a quota has passed the checks of its route.
LEMMA FillerCleared ==
  ASSUME AccessInv, NEW u \in Visit, NEW f \in Firm, NEW what \in Quotas, Filler(u, f, what)
  PROVE  OpenFirm(f) /\ visit[u].at \in OfficePlaces
BY DEF Filler, Filling, FillerKind, Quotas, OfficePlaces, AccessInv, VisitsFit, Fits, Cleared

LEMMA AccountWalks ==
  ASSUME AccessInv, NEW v \in Visit,
         \/ Login(v) \/ Logout(v) \/ ChooseFirm(v) \/ SetActiveTenant(v)
         \/ JoinWaitlist(v) \/ ReadEntry(v) \/ ApproveWaitlistEntry(v)
         \/ SignUpReads(v) \/ SignUpReadsSlug(v) \/ CreateAccount(v)
  PROVE  AccessInv'
<1>. DEFINE does == visit[v].does
<1>1. WellFormed(does) /\ v \in Credential
  BY RequestOf
<1>2. logins \in [Credential -> LoginRows]
  BY DEF AccessInv, RowsTyped
<1>3. NoLogin \in LoginRows
  BY DEF NoLogin, LoginRows
<1>4. \A at \in {"done", "setFirm", "approve", "slug", "account", "slugAgain", "found"} :
        at \in AccessPlaces
        /\ at \notin OfficePlaces \cup FounderPlaces
                      \cup {"begin", "session", "member", "refused"}
  BY DEF AccessPlaces, OfficePlaces, FounderPlaces
<1>5. ~(visit[v].at \in FounderPlaces \cup {"done", "refused"})
  BY DEF Login, Logout, ChooseFirm, SetActiveTenant, JoinWaitlist, ReadEntry,
         ApproveWaitlistEntry, SignUpReads, SignUpReadsSlug, CreateAccount, Does, FounderPlaces
<1>6. Looks
  BY DEF Login, Logout, ChooseFirm, SetActiveTenant, JoinWaitlist, ReadEntry, Looks,
         ApproveWaitlistEntry, SignUpReads, SignUpReadsSlug, CreateAccount, rowVars, historyVars
<1>7. Fits(v)
  BY DEF AccessInv, VisitsFit
<1>8. logins' \in [Credential -> LoginRows]
  <2>1. CASE Login(v) BY <1>1, <2>1, <1>2 DEF WellFormed, Login, Does, LoginRows
  <2>2. CASE Logout(v)
    BY <1>2, <1>3, <2>2 DEF Logout
  <2>3. CASE SetActiveTenant(v)
    <3>1. does.kind = "switch"
      BY <1>7, <2>3 DEF SetActiveTenant, Fits, KindsAt
    <3>2. does.of \in Firm /\ does.token \in Credential
      BY <1>1, <3>1 DEF WellFormed
    <3>. DEFINE row == [logins[does.token] EXCEPT !.firm = does.of]
    <3>3. logins[does.token] \in LoginRows
      BY <1>2, <3>2
    <3>4. row \in LoginRows
      BY <3>2, <3>3 DEF LoginRows
    <3>5. logins' = logins \/ logins' = [logins EXCEPT ![does.token] = row]
      BY <2>3 DEF SetActiveTenant
    <3>. HIDE DEF row
    <3>. QED  BY <1>2, <3>4, <3>5
  <2>4. CASE logins' = logins
    BY <1>2, <2>4
  <2>. QED  BY <2>1, <2>2, <2>3, <2>4 DEF ChooseFirm, JoinWaitlist, ReadEntry, rowVars,
         ApproveWaitlistEntry, SignUpReads, SignUpReadsSlug, CreateAccount
<1>9. CASE Denied(v)
  BY <1>5, <1>6, <1>8, <1>9, PlainTurn DEF AccessPlaces, OfficePlaces, FounderPlaces, Denied
<1>10. ASSUME NEW place \in {"done", "setFirm", "approve", "slug", "account", "slugAgain", "found"},
              Turns(v, place), place = "done" => does.kind # "signup",
              place # "done" => does.kind \in KindsAt(place)
       PROVE  AccessInv'
  BY <1>4, <1>5, <1>6, <1>8, <1>10, PlainTurn
<1>11. \/ Denied(v)
       \/ Turns(v, "done") /\ does.kind \in {"login", "logout", "switch", "join", "approve"}
       \/ Turns(v, "setFirm") /\ does.kind = "switch"
       \/ Turns(v, "approve") /\ does.kind = "approve"
       \/ does.kind = "signup" /\ \/ Turns(v, "slug") \/ Turns(v, "account")
                                  \/ Turns(v, "slugAgain") \/ Turns(v, "found")
  BY <1>7 DEF Login, Logout, ChooseFirm, SetActiveTenant, JoinWaitlist, ReadEntry, Ends,
         ApproveWaitlistEntry, SignUpReads, SignUpReadsSlug, CreateAccount, Does, Fits, KindsAt
<1>. HIDE DEF does
<1>12. CASE Turns(v, "done") /\ does.kind \in {"login", "logout", "switch", "join", "approve"}
  BY <1>10, <1>12
<1>13. CASE Turns(v, "setFirm") /\ does.kind = "switch"
  BY <1>10, <1>13 DEF KindsAt
<1>14. CASE Turns(v, "approve") /\ does.kind = "approve"
  BY <1>10, <1>14 DEF KindsAt
<1>15. CASE does.kind = "signup" /\ \/ Turns(v, "slug") \/ Turns(v, "account")
                                    \/ Turns(v, "slugAgain") \/ Turns(v, "found")
  BY <1>10, <1>15 DEF KindsAt
<1>. QED  BY <1>9, <1>11, <1>12, <1>13, <1>14, <1>15

\* A founder's step: from one of its places to the next.
LEMMA FounderTurn ==
  ASSUME AccessInv, NEW v \in Visit, visit[v].at \in FounderPlaces
  PROVE  /\ visit[v].does.kind = "signup" /\ visit[v].does.of \in Firm
         /\ visit[v].does.person \in Person
         /\ founded[visit[v].does.of]
              = [by |-> v, has |-> FurnishedAt(visit[v].at), live |-> TRUE]
BY RequestOf DEF AccessInv, VisitsFit, Fits, FounderPlaces, KindsAt, WellFormed

LEMMA SignInKeeps ==
  ASSUME AccessInv, NEW v \in Visit, SignIn(v)
  PROVE  AccessInv'
<1>1. /\ visit[v].at = "signin" /\ Turns(v, "done")
      /\ UNCHANGED <<members, keys, records, founded, held, acts, crowded>>
  BY DEF SignIn, Ends, historyVars
<1>2. "done" \in AccessPlaces /\ "done" \notin OfficePlaces
  BY DEF AccessPlaces, OfficePlaces, FounderPlaces
<1>3. /\ visit'[v].does = visit[v].does /\ visit'[v].at = "done"
      /\ visit'[v].user = visit[v].user
      /\ visit' \in [Visit -> VisitRows] /\ visit'[v].limit = visit[v].limit
      /\ \A u \in Visit \ {v} : visit'[u] = visit[u]
  BY <1>1, <1>2, TurnFacts DEF AccessInv
<1>4. VisitStep(v)
  BY <1>1, <1>3 DEF VisitStep, AccessInv, VisitsTyped, FounderPlaces
<1>5. RowsTyped'
  BY <1>1, FounderTurn, RequestOf, RowsUnmoved DEF FounderPlaces, LoginRows, SignIn, AccessInv,
     RowsTyped
<1>6. Fits(v)'
  BY <1>1, <1>2, <1>3, FounderTurn DEF Fits, FounderPlaces, FurnishedAt
<1>7. \A f \in Firm, what \in Quotas : ~Filler(v, f, what)'
  BY <1>3 DEF Filler, Filling
<1>8. HoldsNow' /\ MembersOfOpen'
  BY <1>1, <1>3, <1>4, MembersUnmoved
<1>9. QuotasHold' /\ CustomersFinite'
  BY <1>1, <1>4, <1>7, QuotasUnmoved
<1>10. ActsPast'
  BY <1>1, <1>4, ActsUnmoved
<1>. QED  BY <1>4, <1>5, <1>6, <1>8, <1>9, <1>10, StepKeepsAccess

LEMMA FurnishKeeps ==
  ASSUME AccessInv, NEW v \in Visit, Furnish(v)
  PROVE  AccessInv'
<1>. DEFINE at == visit[v].at
            next == IF at = "subscription" THEN "balance" ELSE "signin"
            f == visit[v].does.of
<1>1. /\ at \in {"subscription", "balance"} /\ Turns(v, next)
      /\ UNCHANGED <<members, keys, records, logins, held, acts, crowded>>
  BY DEF Furnish, historyVars
<1>2. /\ next \in AccessPlaces /\ next \notin OfficePlaces /\ next \in FounderPlaces
      /\ at \in FounderPlaces /\ next \notin {"begin", "own", "done"}
  BY <1>1 DEF AccessPlaces, OfficePlaces, FounderPlaces
<1>3. /\ visit'[v].does = visit[v].does /\ visit'[v].at = next
      /\ visit'[v].user = visit[v].user
      /\ visit' \in [Visit -> VisitRows] /\ visit'[v].limit = visit[v].limit
      /\ \A u \in Visit \ {v} : visit'[u] = visit[u]
  BY <1>1, <1>2, TurnFacts DEF AccessInv
<1>4. /\ visit[v].does.kind = "signup" /\ f \in Firm
      /\ founded[f] = [by |-> v, has |-> FurnishedAt(at), live |-> TRUE]
  BY <1>2, FounderTurn
<1>5. founded \in [Firm -> FoundedRows]
  BY DEF AccessInv, RowsTyped
<1>. DEFINE row == [founded[f] EXCEPT !.has = @ \cup {at}]
<1>6. founded' = [founded EXCEPT ![f] = row]
  BY DEF Furnish
<1>7. row = [by |-> v, has |-> FurnishedAt(next), live |-> TRUE]
  <2>1. FurnishedAt(at) \cup {at} = FurnishedAt(next)
    BY <1>1 DEF FurnishedAt
  <2>2. founded[f] \in FoundedRows
    BY <1>4, <1>5
  <2>3. row = [by |-> founded[f].by, has |-> founded[f].has \cup {at}, live |-> founded[f].live]
    <3>. DEFINE old == founded[f]
    <3>1. old = [by |-> old.by, has |-> old.has, live |-> old.live]
      BY <2>2 DEF FoundedRows
    <3>2. row = [old EXCEPT !.has = old.has \cup {at}]
      OBVIOUS
    <3>3. ASSUME NEW has PROVE [old EXCEPT !.has = has] = [by |-> old.by, has |-> has, live |-> old.live]
      BY <3>1
    <3>. QED  BY <3>2, <3>3
  <2>4. founded[f].by = v /\ founded[f].has = FurnishedAt(at) /\ founded[f].live = TRUE
    BY <1>4
  <2>. QED  BY <2>1, <2>3, <2>4, Zenon
<1>8. row \in FoundedRows /\ row.by = v
  BY <1>1, <1>7, RequestOf DEF FoundedRows, FurnishedAt
<1>. HIDE DEF row
<1>9. founded' \in [Firm -> FoundedRows] /\ founded'[f] = row
      /\ \A g \in Firm \ {f} : founded'[g] = founded[g]
  BY <1>4, <1>5, <1>6, <1>8
<1>10. VisitStep(v)
  <2>1. \A g \in Firm : founded'[g] = founded[g] \/ (founded[g].by = v /\ founded'[g].by = v)
    BY <1>4, <1>8, <1>9
  <2>2. visit[v].at \notin {"done", "refused", "begin"}
    BY <1>1
  <2>. HIDE DEF next, at, f
  <2>. QED  BY <1>1, <1>2, <1>3, <2>1, <2>2 DEF VisitStep, AccessInv, VisitsTyped
<1>11. RowsTyped'
  BY <1>1, <1>9 DEF AccessInv, RowsTyped
<1>12. Fits(v)' BY <1>7, <1>9, <1>1, <1>2, <1>3, <1>4 DEF Fits, KindsAt
<1>13. \A g \in Firm, what \in Quotas : ~Filler(v, g, what)'
  BY <1>1, <1>3 DEF Filler, Filling
<1>14. HoldsNow' /\ MembersOfOpen'
  BY <1>1, <1>3, <1>10, MembersUnmoved
<1>15. QuotasHold' /\ CustomersFinite'
  BY <1>1, <1>10, <1>13, QuotasUnmoved
<1>16. ActsPast'
  BY <1>1, <1>10, ActsUnmoved
<1>. QED  BY <1>10, <1>11, <1>12, <1>14, <1>15, <1>16, StepKeepsAccess

LEMMA CreateTenantKeeps ==
  ASSUME AccessInv, NEW v \in Visit, CreateTenant(v)
  PROVE  AccessInv'
<1>. DEFINE f == visit[v].does.of
            row == [by |-> v, has |-> {}, live |-> TRUE]
<1>1. visit[v].at = "found" /\ UNCHANGED <<members, keys, records, logins, held, acts, crowded>>
  BY DEF CreateTenant, historyVars
<1>2. CASE Denied(v) /\ UNCHANGED founded
  BY <1>1, <1>2, Refused DEF Looks, FounderPlaces
<1>3. CASE founded[f].by = Nobody /\ founded' = [founded EXCEPT ![f] = row] /\ Turns(v, "own")
  <2>1. "own" \in AccessPlaces /\ "own" \notin OfficePlaces /\ "own" \in FounderPlaces
    BY DEF AccessPlaces, OfficePlaces, FounderPlaces
  <2>2. /\ visit'[v].does = visit[v].does /\ visit'[v].at = "own"
        /\ visit'[v].user = visit[v].user
        /\ visit' \in [Visit -> VisitRows] /\ visit'[v].limit = visit[v].limit
        /\ \A u \in Visit \ {v} : visit'[u] = visit[u]
    BY <1>3, <2>1, TurnFacts DEF AccessInv
  <2>3. visit[v].does.kind = "signup" /\ f \in Firm
    BY <1>1, RequestOf DEF AccessInv, VisitsFit, Fits, KindsAt, WellFormed
  <2>4. row \in FoundedRows /\ row.by = v
    BY RequestOf DEF FoundedRows
  <2>5. row = [by |-> v, has |-> FurnishedAt("own"), live |-> TRUE]
    BY DEF FurnishedAt
  <2>. HIDE DEF row
  <2>6. founded' \in [Firm -> FoundedRows] /\ founded'[f] = row
        /\ \A g \in Firm \ {f} : founded'[g] = founded[g]
    BY <1>3, <2>3, <2>4 DEF AccessInv, RowsTyped
  <2>7. VisitStep(v)
    <3>1. \A g \in Firm : founded'[g] = founded[g]
                          \/ (g = f /\ founded[g].by = Nobody /\ founded'[g].by = v)
      BY <1>3, <2>4, <2>6
    <3>. QED  BY <1>1, <2>1, <2>2, <2>3, <3>1 DEF VisitStep, AccessInv, VisitsTyped, FounderPlaces
  <2>8. RowsTyped'
    BY <1>1, <2>6 DEF AccessInv, RowsTyped
  <2>9. Fits(v)'
    BY <2>1, <2>2, <2>3, <2>5, <2>6 DEF Fits, KindsAt
  <2>10. \A g \in Firm, what \in Quotas : ~Filler(v, g, what)'
    BY <2>2 DEF Filler, Filling
  <2>11. HoldsNow' /\ MembersOfOpen'
    BY <1>1, <2>2, <2>7, MembersUnmoved
  <2>12. QuotasHold' /\ CustomersFinite'
    BY <1>1, <2>7, <2>10, QuotasUnmoved
  <2>13. ActsPast'
    BY <1>1, <2>7, ActsUnmoved
  <2>. QED  BY <2>7, <2>8, <2>9, <2>11, <2>12, <2>13, StepKeepsAccess
<1>. QED  BY <1>2, <1>3 DEF CreateTenant

\* The founder becomes the first member of a tenant in which nobody has worked yet.
LEMMA AddOwnerKeeps ==
  ASSUME AccessInv, NEW v \in Visit, AddOwner(v)
  PROVE  AccessInv'
<1>. DEFINE f == visit[v].does.of
            p == visit[v].does.person
            owner == [role |-> "owner", row |-> v]
<1>1. /\ visit[v].at = "own" /\ Turns(v, "subscription")
      /\ UNCHANGED <<logins, keys, records, founded, acts, crowded>>
      /\ HeldIn(members', keys) /\ members' = [members EXCEPT ![f][p] = owner]
  BY DEF AddOwner
<1>2. /\ "subscription" \in AccessPlaces /\ "subscription" \notin OfficePlaces
      /\ "subscription" \in FounderPlaces
  BY DEF AccessPlaces, OfficePlaces, FounderPlaces
<1>3. /\ visit'[v].does = visit[v].does /\ visit'[v].at = "subscription"
      /\ visit'[v].user = visit[v].user
      /\ visit' \in [Visit -> VisitRows] /\ visit'[v].limit = visit[v].limit
      /\ \A u \in Visit \ {v} : visit'[u] = visit[u]
  BY <1>1, <1>2, TurnFacts DEF AccessInv
<1>4. /\ visit[v].does.kind = "signup" /\ f \in Firm /\ p \in Person
      /\ founded[f] = [by |-> v, has |-> {}, live |-> TRUE]
  BY <1>1, FounderTurn DEF FounderPlaces, FurnishedAt
<1>5. owner \in MemberRows /\ owner.role = "owner" /\ owner.row = v
  BY RequestOf DEF MemberRows, VIEW, WRITE, MANAGE
<1>. HIDE DEF owner
<1>6. members \in [Firm -> [Person -> MemberRows]]
  BY DEF AccessInv, RowsTyped
<1>7. /\ members' \in [Firm -> [Person -> MemberRows]] /\ members'[f][p] = owner
      /\ \A g \in Firm, q \in Person : g # f \/ q # p => members'[g][q] = members[g][q]
  BY <1>1, <1>4, <1>5, <1>6
<1>8. held' \in [Visit -> SUBSET BearerRights] /\ \A u \in Visit : held[u] \subseteq held'[u]
  BY <1>1, <1>7, HeldFacts DEF AccessInv, RowsTyped
<1>9. VisitStep(v)
  BY <1>1, <1>2, <1>3, <1>8 DEF VisitStep, FounderPlaces
<1>10. ~OpenFirm(f)
  BY <1>1, <1>4 DEF OpenFirm
<1>11. \A q \in Person : members[f][q].role = "none"
  BY <1>4, <1>10 DEF AccessInv, MembersOfOpen
<1>12. OpenFirm(f)' BY <1>1, <1>4, RequestOf, <1>3 DEF OpenFirm
<1>13. RowsTyped'
  BY <1>1, <1>7 DEF AccessInv, RowsTyped
<1>14. Fits(v)'
  BY <1>1, <1>2, <1>3, <1>4 DEF Fits, KindsAt, FurnishedAt
<1>15. HoldsNow'
  BY <1>1, <1>3, <1>7, <1>9, MembersMoved
<1>16. MembersOfOpen'
  <2>. SUFFICES ASSUME NEW g \in Firm, NEW q \in Person
                PROVE  /\ members'[g][q].role = "none" <=> members'[g][q].row = Nobody
                       /\ members'[g][q].role # "none" => OpenFirm(g)'
    BY DEF MembersOfOpen
  <2>1. CASE g = f /\ q = p BY <1>5, <1>7, <2>1, RequestOf, <1>3, <1>12 DEF OpenFirm
  <2>2. CASE ~(g = f /\ q = p) BY <1>7, <2>2, <1>9, OpenStays DEF AccessInv, MembersOfOpen
  <2>. QED  BY <2>1, <2>2
<1>17. ActsPast'
  BY <1>1, <1>9, ActsUnmoved
<1>18. CustomersFinite'
  BY <1>1 DEF AccessInv, CustomersFinite
<1>19. QuotasHold'
  <2>. SUFFICES ASSUME NEW g \in Firm, NEW what \in Quotas, <<g, what>> \notin crowded'
                PROVE  QuotaHolds(g, what)'
    BY DEF QuotasHold
  <2>1. ~Filler(v, g, what)'
    BY <1>3 DEF Filler, Filling
  <2>2. CASE g = f /\ what = "staff"
    <3>1. \A u \in Visit : ~Filler(u, g, what)
      BY <1>10, <2>2, FillerCleared
    <3>2. \A u \in Visit : ~Filler(u, g, what)'
      BY <1>3, <2>1, <3>1 DEF Filler
    <3>3. \A q \in Person : members'[g][q].role # "none" <=> q = p
      BY <1>4, <1>5, <1>7, <1>11, <2>2
    <3>4. Staff(g)' = {p}
      BY <1>4, <3>3 DEF Staff
    <3>5. TotalOf(g, what)' = 1
      BY <2>2, <3>4, FS_Singleton DEF TotalOf
    <3>6. \A u \in Visit : visit'[u].limit[g][what] \in Nat \ {0}
      <4>. SUFFICES ASSUME NEW u \in Visit PROVE visit'[u].limit[g][what] \in Nat \ {0}
        OBVIOUS
      <4>1. visit'[u].limit \in [Firm -> LimitRows]
        BY <1>3 DEF VisitRows
      <4>2. visit'[u].limit[g] \in LimitRows
        BY <4>1
      <4>. QED  BY <2>2, <4>2 DEF LimitRows
    <3>7. \A u \in Visit : TotalOf(g, what)' <= visit'[u].limit[g][what]
      BY <3>5, <3>6
    <3>. QED  BY <3>2, <3>7 DEF QuotaHolds
  <2>3. CASE ~(g = f /\ what = "staff")
    <3>1. TotalOf(g, what)' = TotalOf(g, what)
      <4>1. CASE what = "staff"
        BY <1>7, <2>3, <4>1 DEF TotalOf, Staff
      <4>2. CASE what # "staff"
        BY <1>1, <4>2 DEF TotalOf
      <4>. QED  BY <4>1, <4>2
    <3>. QED  BY <1>1, <1>9, <2>1, <3>1, QuotaUnmoved
  <2>. QED  BY <2>2, <2>3
<1>. QED  BY <1>9, <1>13, <1>14, <1>15, <1>16, <1>17, <1>18, <1>19, StepKeepsAccess

LEMMA RequireUserKeeps ==
  ASSUME AccessInv, NEW v \in Visit, RequireUser(v)
  PROVE  AccessInv'
<1>. DEFINE user == logins[visit[v].does.token].user
            place == IF visit[v].does.kind = "switch" THEN "choose" ELSE "session"
            rights == {<<f, members[f][user].role>> : f \in Firm}
<1>1. /\ visit[v].at = "begin" /\ ~ByKey(v) /\ visit[v].does.kind \in ForFirm \cup {"switch"}
      /\ UNCHANGED <<members, logins, keys, records, founded, acts, crowded>>
  BY DEF RequireUser, rowVars
<1>2. CASE Denied(v) /\ UNCHANGED held
  BY <1>1, <1>2, Refused DEF Looks, FounderPlaces
<1>3. CASE /\ user # Nobody /\ held' = [held EXCEPT ![v] = rights]
           /\ visit' = [visit EXCEPT ![v].user = user, ![v].at = place]
  <2>1. logins \in [Credential -> LoginRows] /\ members \in [Firm -> [Person -> MemberRows]]
        /\ held \in [Visit -> SUBSET BearerRights] /\ visit \in [Visit -> VisitRows]
    BY DEF AccessInv, RowsTyped, VisitsTyped
  <2>2. visit[v].does.token \in Credential
    BY <1>1, RequestOf DEF WellFormed, ForFirm
  <2>3. user \in Person BY <2>1, <2>2, <1>3 DEF LoginRows
  <2>4. place \in {"choose", "session"} /\ visit[v].does.kind \in KindsAt(place)
    BY <1>1 DEF KindsAt, ForFirm
  <2>5. place \in AccessPlaces /\ place \notin OfficePlaces \cup FounderPlaces
                                               \cup {"begin", "done", "refused", "own"}
    BY DEF AccessPlaces, OfficePlaces, FounderPlaces
  <2>6. rights \in SUBSET BearerRights
    <3>. SUFFICES ASSUME NEW f \in Firm PROVE <<f, members[f][user].role>> \in BearerRights
      OBVIOUS
    <3>1. members[f][user] \in MemberRows
      BY <2>1, <2>3
    <3>. QED  BY <3>1 DEF MemberRows, BearerRights
  <2>7. \A f \in Firm : <<f, members[f][user].role>> \in rights
    OBVIOUS
  <2>. HIDE DEF user, rights, place
  <2>8. /\ visit' \in [Visit -> VisitRows] /\ visit'[v].at = place /\ visit'[v].user = user
        /\ visit'[v].does = visit[v].does /\ visit'[v].limit = visit[v].limit
        /\ \A u \in Visit \ {v} : visit'[u] = visit[u]
    <3>. DEFINE row == [visit[v] EXCEPT !.user = user, !.at = place]
    <3>1. /\ row \in VisitRows /\ row.at = place /\ row.user = user
          /\ row.does = visit[v].does /\ row.limit = visit[v].limit
      BY <2>1, <2>3, <2>5 DEF VisitRows
    <3>2. visit' = [visit EXCEPT ![v] = row]
      BY <1>3, <2>1
    <3>. HIDE DEF row
    <3>. QED  BY <2>1, <3>1, <3>2
  <2>9. /\ held' \in [Visit -> SUBSET BearerRights] /\ held'[v] = rights
        /\ \A u \in Visit \ {v} : held'[u] = held[u]
    BY <1>3, <2>1, <2>6
  <2>10. VisitStep(v)
    BY <1>1, <2>5, <2>8, <2>9 DEF VisitStep, FounderPlaces
  <2>11. RowsTyped'
    BY <1>1 DEF AccessInv, RowsTyped
  <2>12. Fits(v)'
    BY <1>1, <2>3, <2>4, <2>5, <2>8 DEF Fits, ByKey
  <2>13. \A f \in Firm, what \in Quotas : ~Filler(v, f, what)'
    BY <2>4, <2>8 DEF Filler, Filling
  <2>14. HoldsNow' /\ MembersOfOpen' BY <2>7, <2>8, <2>9, <1>1, <2>10, MembersUnmoved
  <2>15. QuotasHold' /\ CustomersFinite'
    BY <1>1, <2>10, <2>13, QuotasUnmoved
  <2>16. ActsPast'
    BY <1>1, <2>10, ActsUnmoved
  <2>. QED  BY <2>10, <2>11, <2>12, <2>14, <2>15, <2>16, StepKeepsAccess
<1>. QED  BY <1>2, <1>3 DEF RequireUser

\* A request reads the tenant it is for.
LEMMA FirmRead ==
  ASSUME VisitsTyped, NEW v \in Visit, NEW firm \in Firm \cup {Nobody},
         NEW place \in AccessPlaces, visit' = [visit EXCEPT ![v].firm = firm, ![v].at = place]
  PROVE  /\ visit' \in [Visit -> VisitRows] /\ visit'[v].at = place /\ visit'[v].firm = firm
         /\ visit'[v].does = visit[v].does /\ visit'[v].limit = visit[v].limit
         /\ visit'[v].user = visit[v].user
         /\ \A u \in Visit \ {v} : visit'[u] = visit[u]
<1>1. visit \in [Visit -> VisitRows]
  BY DEF VisitsTyped
<1>. DEFINE row == [visit[v] EXCEPT !.firm = firm, !.at = place]
<1>2. /\ row \in VisitRows /\ row.at = place /\ row.firm = firm
      /\ row.does = visit[v].does /\ row.limit = visit[v].limit /\ row.user = visit[v].user
  BY <1>1 DEF VisitRows
<1>3. visit' = [visit EXCEPT ![v] = row]
  BY <1>1
<1>. HIDE DEF row
<1>. QED  BY <1>1, <1>2, <1>3

LEMMA FirmReadKeeps ==
  ASSUME AccessInv, NEW v \in Visit, NEW firm \in Firm \cup {Nobody},
         NEW place \in AccessPlaces, visit' = [visit EXCEPT ![v].firm = firm, ![v].at = place],
         UNCHANGED <<members, logins, keys, records, founded, acts, crowded>>,
         held' \in [Visit -> SUBSET BearerRights],
         \A u \in Visit \ {v} : held'[u] = held[u],
         visit[v].at = "begin" \/ held' = held,
         visit[v].at \in {"begin", "session", "member"},
         place \notin FounderPlaces \cup {"begin", "own", "done"},
         \A what \in Quotas :
           ~(place \in Filling(what) /\ visit[v].does.kind = FillerKind(what)),
         Fits(v)'
  PROVE  AccessInv'
<1>1. /\ visit' \in [Visit -> VisitRows] /\ visit'[v].at = place /\ visit'[v].firm = firm
      /\ visit'[v].does = visit[v].does /\ visit'[v].limit = visit[v].limit
      /\ visit'[v].user = visit[v].user
      /\ \A u \in Visit \ {v} : visit'[u] = visit[u]
  BY FirmRead DEF AccessInv
<1>2. VisitStep(v)
  BY <1>1 DEF VisitStep, FounderPlaces
<1>3. RowsTyped'
  BY DEF AccessInv, RowsTyped
<1>4. \A f \in Firm, what \in Quotas : ~Filler(v, f, what)'
  BY <1>1 DEF Filler
<1>5. HoldsNow' /\ MembersOfOpen'
  BY <1>1, <1>2, MembersUnmoved
<1>6. QuotasHold' /\ CustomersFinite'
  BY <1>2, <1>4, QuotasUnmoved
<1>7. ActsPast'
  BY <1>2, ActsUnmoved
<1>. QED  BY <1>2, <1>3, <1>5, <1>6, <1>7, StepKeepsAccess

LEMMA ReadSessionKeeps ==
  ASSUME AccessInv, NEW v \in Visit, ReadSession(v)
  PROVE  AccessInv'
<1>. DEFINE login == logins[visit[v].does.token]
<1>1. /\ visit[v].at = "session"
      /\ UNCHANGED <<members, logins, keys, records, founded, acts, crowded, held>>
  BY DEF ReadSession, rowVars, historyVars
<1>2. CASE Denied(v)
  BY <1>1, <1>2, Refused DEF Looks, FounderPlaces
<1>3. CASE visit' = [visit EXCEPT ![v].firm = login.firm, ![v].at = "member"]
  <2>1. Fits(v) /\ VisitsTyped
    BY DEF AccessInv, VisitsFit
  <2>2. visit[v].does.kind \in ForFirm /\ visit[v].user \in Person /\ ~ByKey(v)
    BY <1>1, <2>1 DEF Fits, KindsAt
  <2>3. visit[v].does.token \in Credential
    BY <2>2, RequestOf DEF WellFormed, ForFirm
  <2>4. login.firm \in Firm \cup {Nobody} BY <2>3 DEF AccessInv, RowsTyped, LoginRows
  <2>5. /\ "member" \in AccessPlaces /\ "member" \notin OfficePlaces \cup FounderPlaces
        /\ \A what \in Quotas : "member" \notin Filling(what)
    BY DEF AccessPlaces, OfficePlaces, FounderPlaces, Filling
  <2>. HIDE DEF login
  <2>. DEFINE place == "member"
  <2>6. /\ visit' \in [Visit -> VisitRows] /\ visit'[v].at = place /\ visit'[v].firm = login.firm
        /\ visit'[v].does = visit[v].does /\ visit'[v].limit = visit[v].limit
        /\ visit'[v].user = visit[v].user
        /\ \A u \in Visit \ {v} : visit'[u] = visit[u]
    <3>1. PICK firm \in Firm \cup {Nobody} : firm = login.firm
      BY <2>4
    <3>2. place \in AccessPlaces /\ visit' = [visit EXCEPT ![v].firm = firm, ![v].at = place]
      BY <1>3, <2>5, <3>1
    <3>. HIDE DEF place
    <3>3. /\ visit' \in [Visit -> VisitRows] /\ visit'[v].at = place /\ visit'[v].firm = firm
          /\ visit'[v].does = visit[v].does /\ visit'[v].limit = visit[v].limit
          /\ visit'[v].user = visit[v].user
          /\ \A u \in Visit \ {v} : visit'[u] = visit[u]
      BY <2>1, <3>2, FirmRead
    <3>. QED  BY <3>1, <3>3
  <2>7. Fits(v)'
    BY <2>2, <2>5, <2>6 DEF Fits, KindsAt, ByKey
  <2>. QED  BY <1>1, <1>3, <2>1, <2>4, <2>5, <2>7, FirmReadKeeps DEF VisitsTyped
<1>. QED  BY <1>2, <1>3 DEF ReadSession

LEMMA ReadMembershipKeeps ==
  ASSUME AccessInv, NEW v \in Visit, ReadMembership(v)
  PROVE  AccessInv'
<1>. DEFINE kind == visit[v].does.kind
            user == visit[v].user
<1>1. /\ visit[v].at = "member"
      /\ UNCHANGED <<members, logins, keys, records, founded, acts, crowded, held>>
  BY DEF ReadMembership, rowVars, historyVars
<1>2. CASE Denied(v)
  BY <1>1, <1>2, Refused DEF Looks, FounderPlaces
<1>3. ASSUME NEW f \in ActiveFirm(v), members[f][user].role \in RolesFor(kind),
             visit' = [visit EXCEPT ![v].firm = f, ![v].at = FirstStep(kind)]
      PROVE  AccessInv'
  <2>1. Fits(v) /\ VisitsTyped /\ HoldsNow /\ MembersOfOpen
    BY DEF AccessInv, VisitsFit
  <2>2. kind \in ForFirm /\ user \in Person /\ user # Nobody /\ ~ByKey(v)
    BY <1>1, <2>1, VisitIsCredential DEF Fits, KindsAt
  <2>3. f \in Firm /\ members[f][user].role # "none"
    BY <1>3 DEF ActiveFirm, FirmsOf
  <2>4. OpenFirm(f) /\ <<f, members[f][user].role>> \in held[v]
    BY <1>1, <2>1, <2>2, <2>3 DEF HoldsNow, MembersOfOpen
  <2>5. PICK place \in AccessPlaces : place = FirstStep(kind)
    BY <2>2 DEF FirstStep, ForFirm, AccessPlaces, OfficePlaces
  <2>6. /\ place \in OfficePlaces /\ place \notin FounderPlaces \cup {"begin", "own", "done"}
        /\ place \notin {"session", "member", "revokeKey", "editCustomer", "promote", "remove"}
        /\ kind \in KindsAt(place)
        /\ \A what \in Quotas : ~(place \in Filling(what) /\ kind = FillerKind(what))
    BY <2>2, <2>5 DEF FirstStep, ForFirm, OfficePlaces, FounderPlaces, KindsAt, Filling,
                      FillerKind, Quotas
  <2>7. /\ visit' \in [Visit -> VisitRows] /\ visit'[v].at = place /\ visit'[v].firm = f
        /\ visit'[v].does = visit[v].does /\ visit'[v].limit = visit[v].limit
        /\ visit'[v].user = visit[v].user
        /\ \A u \in Visit \ {v} : visit'[u] = visit[u]
    <3>1. /\ VisitsTyped /\ f \in Firm \cup {Nobody}
          /\ visit' = [visit EXCEPT ![v].firm = f, ![v].at = place]
      BY <1>3, <2>1, <2>3, <2>5
    <3>. QED  BY <3>1, FirmRead
  <2>8. Cleared(v)'
    <3>1. ~ByKey(v)' /\ RightsFor(v)' = RolesFor(kind)
      BY <2>2, <2>7 DEF ByKey, RightsFor
    <3>2. OpenFirm(f)'
      BY <1>3, <2>1, <2>6, <2>7, <1>1, <2>4 DEF VisitsTyped, FounderPlaces, OpenFirm
    <3>3. (visit[v].firm \in Firm /\ OpenFirm(visit[v].firm))'
      BY <2>3, <2>7, <3>2 DEF OpenFirm
    <3>4. <<visit'[v].firm, members[f][user].role>> \in held'[v]
      BY <1>1, <2>4, <2>7
    <3>. QED  BY <1>3, <3>1, <3>3, <3>4 DEF Cleared
  <2>9. Fits(v)'
    <3>. HIDE DEF kind
    <3>. QED  BY <2>6, <2>7, <2>8 DEF Fits, kind
  <2>. QED  BY <1>1, <1>3, <2>1, <2>3, <2>5, <2>6, <2>9, FirmReadKeeps DEF VisitsTyped
<1>. QED  BY <1>2, <1>3 DEF ReadMembership

LEMMA VerifyKeyKeeps ==
  ASSUME AccessInv, NEW v \in Visit, VerifyKey(v)
  PROVE  AccessInv'
<1>. DEFINE key == keys[visit[v].does.key]
<1>1. /\ visit[v].at = "begin" /\ visit[v].does.kind = "session" /\ visit[v].does.key # Nobody
      /\ UNCHANGED <<members, logins, keys, records, founded, acts, crowded>>
  BY DEF VerifyKey, rowVars, Does, ByKey
<1>2. CASE Denied(v) /\ UNCHANGED held
  BY <1>1, <1>2, Refused DEF Looks, FounderPlaces
<1>3. CASE /\ key.valid /\ key.scopes \cap {"write", "admin"} # {}
           /\ visit' = [visit EXCEPT ![v].firm = key.firm, ![v].at = "entitlement"]
           /\ held' = [held EXCEPT ![v] = RightsIn(members, keys, v)]
  <2>1. /\ members \in [Firm -> [Person -> MemberRows]] /\ keys \in [Credential -> KeyRows]
        /\ held \in [Visit -> SUBSET BearerRights] /\ VisitsTyped
    BY DEF AccessInv, RowsTyped, VisitsTyped
  <2>2. visit[v].does.key \in Credential
    BY <1>1, RequestOf DEF WellFormed
  <2>3. key \in KeyRows
    BY <2>1, <2>2
  <2>4. PICK scope \in key.scopes : scope \in {"write", "admin"}
    BY <1>3
  <2>5. <<key.firm, scope>> \in RightsIn(members, keys, v)
    BY <1>1, <1>3, <2>4 DEF RightsIn
  <2>6. RightsIn(members, keys, v) \in SUBSET BearerRights
    BY <2>1, RightsTyped
  <2>7. PICK firm \in Firm \cup {Nobody} : firm = key.firm
    BY <2>3 DEF KeyRows
  <2>. DEFINE place == "entitlement"
  <2>8. /\ place \in AccessPlaces /\ place \in OfficePlaces
        /\ place \notin FounderPlaces \cup {"begin", "own", "done", "session", "member",
                                            "revokeKey", "editCustomer", "promote", "remove"}
        /\ \A what \in Quotas : place \notin Filling(what)
        /\ KindsAt(place) = {"session"}
    BY DEF AccessPlaces, OfficePlaces, FounderPlaces, Filling, KindsAt
  <2>9. visit' = [visit EXCEPT ![v].firm = firm, ![v].at = place]
    BY <1>3, <2>7
  <2>. HIDE DEF place, key
  <2>10. /\ visit' \in [Visit -> VisitRows] /\ visit'[v].at = place /\ visit'[v].firm = firm
         /\ visit'[v].does = visit[v].does /\ visit'[v].limit = visit[v].limit
         /\ visit'[v].user = visit[v].user
         /\ \A u \in Visit \ {v} : visit'[u] = visit[u]
    BY <2>1, <2>8, <2>9, FirmRead
  <2>11. /\ held' \in [Visit -> SUBSET BearerRights]
         /\ held'[v] = RightsIn(members, keys, v)
         /\ \A u \in Visit \ {v} : held'[u] = held[u]
    BY <1>3, <2>1, <2>6
  <2>12. Cleared(v)' BY <1>1, <2>10, <2>5, <2>7, <2>11, <2>4 DEF ByKey, RightsFor, Cleared
  <2>13. Fits(v)'
    BY <1>1, <2>8, <2>10, <2>12 DEF Fits
  <2>. QED  BY <1>1, <2>7, <2>8, <2>9, <2>11, <2>13, FirmReadKeeps
<1>. QED  BY <1>2, <1>3 DEF VerifyKey

LEMMA OfficeStep ==
  ASSUME AccessInv, NEW v \in Visit, NEW place \in OfficePlaces, Turns(v, place),
         UNCHANGED <<keys, founded, held>>, visit[v].at \in OfficePlaces
  PROVE  /\ VisitStep(v) /\ visit'[v].does = visit[v].does /\ visit'[v].at = place
         /\ visit'[v].firm = visit[v].firm /\ visit'[v].limit = visit[v].limit
         /\ \A u \in Visit \ {v} : visit'[u] = visit[u]
BY TurnFacts DEF AccessPlaces, OfficePlaces, FounderPlaces, AccessInv, VisitStep, VisitsTyped

LEMMA OfficeWalk ==
  ASSUME AccessInv, NEW v \in Visit, NEW place \in OfficePlaces, Turns(v, place),
         UNCHANGED <<members, keys, records, founded, held, acts, logins, crowded>>,
         visit[v].at \in OfficePlaces,
         visit[v].does.kind \in KindsAt(place), place \notin {"promote", "remove"},
         place = "revokeKey" => keys[visit[v].does.of].firm = visit[v].firm,
         place = "editCustomer" => visit[v].does.of = visit[v].firm,
         \A what \in Quotas : place \in Filling(what) => visit[v].at \in Filling(what)
  PROVE  AccessInv'
BY OfficeStep, QuotasUnmoved, OfficeTurn DEF Filler

LEMMA AtOffice ==
  ASSUME AccessInv, NEW v \in Visit, visit[v].at \in OfficePlaces
  PROVE  /\ visit[v].does.kind \in KindsAt(visit[v].at) /\ Cleared(v)
         /\ visit[v].at \notin FounderPlaces \cup {"done", "refused", "begin", "found"}
         /\ visit[v].does.kind # "session" =>
              visit[v].firm \in Firm /\ OpenFirm(visit[v].firm) /\ ~ByKey(v)
BY DEF AccessInv, VisitsFit, OfficePlaces, FounderPlaces, Fits, Cleared

\* What is found before a write.
LEMMA FindsKeep ==
  ASSUME AccessInv, NEW v \in Visit,
         FindAccount(v) \/ FindKey(v) \/ FindEmail(v) \/ FindCustomer(v)
  PROVE  AccessInv'
<1>1. visit[v].at \in {"findAccount", "findKey", "findEmail", "findCustomer"}
      /\ UNCHANGED <<members, keys, records, founded, held, acts, logins, crowded>>
  BY DEF FindAccount, FindKey, FindEmail, FindCustomer, rowVars, historyVars
<1>2. visit[v].at \in OfficePlaces
  BY <1>1 DEF OfficePlaces
<1>3. visit[v].does.kind \in KindsAt(visit[v].at)
      /\ visit[v].at \notin FounderPlaces \cup {"done", "refused"}
  BY <1>2, AtOffice
<1>4. CASE Denied(v)
  BY <1>1, <1>3, <1>4, Refused DEF Looks
<1>5. ASSUME NEW place \in {"findMember", "revokeKey", "addCustomer", "editCustomer"},
             Turns(v, place), visit[v].does.kind \in KindsAt(place),
             place = "revokeKey" => keys[visit[v].does.of].firm = visit[v].firm,
             place = "editCustomer" => visit[v].does.of = visit[v].firm,
             \A what \in Quotas : place \in Filling(what) => visit[v].at \in Filling(what)
      PROVE  AccessInv'
  BY <1>1, <1>2, <1>5, OfficeWalk DEF OfficePlaces
<1>6. CASE FindAccount(v) BY <1>6, <1>3, <1>5 DEF FindAccount, KindsAt, Filling
<1>7. CASE FindKey(v) /\ ~Denied(v) BY <1>7, <1>3, <1>5 DEF FindKey, KindsAt, Filling
<1>8. CASE FindEmail(v) /\ ~Denied(v) BY <1>8, <1>3, <1>5 DEF FindEmail, KindsAt, Filling
<1>9. CASE FindCustomer(v) /\ ~Denied(v) BY <1>9, <1>3, <1>5 DEF FindCustomer, KindsAt, Filling
<1>. QED  BY <1>4, <1>6, <1>7, <1>8, <1>9

LEMMA FindMemberKeeps ==
  ASSUME AccessInv, NEW v \in Visit, FindMember(v)
  PROVE  AccessInv'
<1>. DEFINE kind == visit[v].does.kind
            found == members[visit[v].firm][visit[v].does.person]
<1>1. visit[v].at = "findMember"
      /\ UNCHANGED <<members, keys, records, founded, held, acts, logins, crowded>>
  BY DEF FindMember, rowVars, historyVars
<1>2. visit[v].at \in OfficePlaces
  BY <1>1 DEF OfficePlaces
<1>3. /\ kind \in {"invite", "promote", "remove"} /\ Cleared(v) /\ visit[v].firm \in Firm
      /\ visit[v].at \notin FounderPlaces \cup {"done", "refused", "begin", "found"}
  BY <1>1, <1>2, AtOffice DEF KindsAt
<1>4. CASE Denied(v)
  BY <1>1, <1>3, <1>4, Refused DEF Looks
<1>5. CASE kind = "invite" /\ Turns(v, "addMember")
  BY <1>5, <1>1, <1>2, OfficeWalk DEF KindsAt, OfficePlaces, Filling
<1>6. CASE /\ kind \in {"promote", "remove"} /\ found.role # "none"
           /\ visit' = [visit EXCEPT ![v].row = found.row, ![v].at = kind]
  <2>1. /\ members \in [Firm -> [Person -> MemberRows]] /\ visit \in [Visit -> VisitRows]
        /\ held \in [Visit -> SUBSET BearerRights]
    BY DEF AccessInv, RowsTyped, VisitsTyped
  <2>2. visit[v].does.person \in Person
    BY <1>6, RequestOf DEF WellFormed
  <2>3. found \in MemberRows /\ found.row # Nobody
    BY <1>3, <2>1, <2>2, <1>6 DEF AccessInv, MembersOfOpen
  <2>4. found.row \in Credential \cup {Nobody}
    BY <2>3 DEF MemberRows
  <2>5. PICK place \in AccessPlaces : place = kind /\ place \in {"promote", "remove"}
    BY <1>6 DEF AccessPlaces, OfficePlaces
  <2>6. place \in OfficePlaces /\ place \notin FounderPlaces \cup {"begin", "done", "own"}
        /\ kind \in KindsAt(place) /\ \A what \in Quotas : place \notin Filling(what)
    BY <2>5 DEF OfficePlaces, FounderPlaces, KindsAt, Filling
  <2>. HIDE DEF found
  <2>7. /\ visit' \in [Visit -> VisitRows] /\ visit'[v].at = place
        /\ visit'[v].row = found.row /\ visit'[v].firm = visit[v].firm
        /\ visit'[v].does = visit[v].does /\ visit'[v].limit = visit[v].limit
        /\ visit'[v].user = visit[v].user
        /\ \A u \in Visit \ {v} : visit'[u] = visit[u]
    <3>. DEFINE row == [visit[v] EXCEPT !.row = found.row, !.at = place]
    <3>1. /\ row \in VisitRows /\ row.at = place /\ row.row = found.row
          /\ row.firm = visit[v].firm /\ row.user = visit[v].user
          /\ row.does = visit[v].does /\ row.limit = visit[v].limit
      BY <2>1, <2>4 DEF VisitRows
    <3>2. visit' = [visit EXCEPT ![v] = row]
      BY <1>6, <2>1, <2>5
    <3>. HIDE DEF row
    <3>. QED  BY <2>1, <3>1, <3>2
  <2>. HIDE DEF kind
  <2>8. VisitStep(v)
    BY <1>1, <1>3, <2>1, <2>6, <2>7 DEF VisitStep
  <2>9. Cleared(v)'
    BY <1>1, <1>3, <2>7, <2>8, ClearedStays
  <2>10. Fits(v)'
    BY <2>3, <2>5, <2>6, <2>7, <2>9 DEF Fits, kind
  <2>11. RowsTyped'
    BY <1>1 DEF AccessInv, RowsTyped
  <2>12. \A f \in Firm, what \in Quotas : ~Filler(v, f, what)'
    BY <2>6, <2>7 DEF Filler
  <2>13. HoldsNow' /\ MembersOfOpen'
    BY <1>1, <2>7, <2>8, MembersUnmoved
  <2>14. QuotasHold' /\ CustomersFinite'
    BY <1>1, <2>8, <2>12, QuotasUnmoved
  <2>15. ActsPast'
    BY <1>1, <2>8, ActsUnmoved
  <2>. QED  BY <2>8, <2>10, <2>11, <2>13, <2>14, <2>15, StepKeepsAccess
<1>. QED  BY <1>3, <1>4, <1>5, <1>6 DEF FindMember

\* Who finds room and is alone is the one that is to fill the quota.
LEMMA CountsKeep ==
  ASSUME AccessInv, NEW v \in Visit, NEW what \in Quotas, Counts(v, what),
         visit[v].at = CASE what = "staff" -> "countStaff"
                         [] what = "customers" -> "countCustomers" [] OTHER -> "countOrders"
  PROVE  AccessInv'
<1>. DEFINE f == visit[v].firm
            others == {u \in Visit \ {v} : visit[u].firm = f /\ visit[u].at \in Filling(what)
                                           /\ visit[u].does.kind = visit[v].does.kind}
            place == CASE what = "staff" -> "findAccount" [] what = "customers" -> "findEmail"
                       [] OTHER -> "createOrder"
<1>1. UNCHANGED <<members, keys, records, founded, held, acts, logins>>
  BY DEF Counts, rowVars
<1>2. visit[v].at \in OfficePlaces /\ ~(visit[v].at \in Filling(what))
  BY DEF OfficePlaces, Filling, Quotas
<1>3. visit[v].does.kind = FillerKind(what)
  BY <1>2, AtOffice DEF KindsAt, FillerKind, Quotas
<1>4. f \in Firm /\ visit[v].at \notin FounderPlaces \cup {"done", "refused"}
  BY <1>2, <1>3, AtOffice DEF FillerKind, Quotas
<1>5. CASE Denied(v) /\ UNCHANGED crowded
  BY <1>1, <1>4, <1>5, Refused DEF Looks
<1>6. CASE /\ ~Full(f, what, visit[v].limit[f][what]) /\ Turns(v, place)
           /\ crowded' = IF others = {} THEN crowded ELSE crowded \cup {<<f, what>>}
  <2>1. /\ place \in OfficePlaces /\ visit[v].does.kind \in KindsAt(place)
        /\ place \notin {"promote", "remove", "revokeKey", "editCustomer"}
        /\ \A w \in Quotas : visit[v].does.kind = FillerKind(w) => w = what
    BY <1>3 DEF OfficePlaces, KindsAt, FillerKind, Quotas
  <2>2. crowded \subseteq crowded'
    BY <1>6
  <2>3. PICK g \in Firm : g = f
    BY <1>4
  <2>. HIDE DEF place
  <2>4. /\ VisitStep(v) /\ visit'[v].does = visit[v].does
        /\ visit'[v].firm = g /\ visit'[v].limit = visit[v].limit
        /\ \A u \in Visit \ {v} : visit'[u] = visit[u]
    BY <1>1, <1>2, <1>6, <2>1, <2>3, OfficeStep
  <2>5. \A h \in Firm, w \in Quotas : TotalOf(h, w)' = TotalOf(h, w)
    BY <1>1 DEF TotalOf, Staff
  <2>6. ASSUME <<g, what>> \notin crowded' PROVE QuotaHolds(g, what)'
    <3>1. others = {} /\ <<g, what>> \notin crowded
      BY <1>6, <2>3, <2>6
    <3>2. \A u \in Visit : Filler(u, g, what)' => u = v
      <4>. SUFFICES ASSUME NEW u \in Visit, Filler(u, g, what)', u # v PROVE FALSE
        OBVIOUS
      <4>1. u \in others
        BY <1>3, <2>3, <2>4 DEF Filler
      <4>. QED  BY <3>1, <4>1
    <3>3. QuotaHolds(g, what)
      BY <3>1 DEF AccessInv, QuotasHold
    <3>4. TotalOf(g, what) < visit[v].limit[g][what]
      BY QuotasTyped, RequestOf, <1>6, <2>3 DEF AccessInv, VisitRows, LimitRows, Quotas, Full
    <3>5. \A u \in Visit : TotalOf(g, what)' <= visit'[u].limit[g][what]
      BY <2>4, <2>5, <3>3 DEF QuotaHolds, VisitStep
    <3>6. \A u \in Visit : Filler(u, g, what)' => TotalOf(g, what)' < visit'[u].limit[g][what]
      BY <2>4, <2>5, <3>2, <3>4
    <3>. QED  BY <3>2, <3>5, <3>6 DEF QuotaHolds
  <2>7. QuotasHold'
    <3>. SUFFICES ASSUME NEW h \in Firm, NEW w \in Quotas, <<h, w>> \notin crowded'
                  PROVE  QuotaHolds(h, w)'
      BY DEF QuotasHold
    <3>1. CASE h = g /\ w = what
      BY <2>6, <3>1
    <3>2. CASE ~(h = g /\ w = what) BY <2>1, <2>4, <3>2, <2>2, <2>5, QuotaUnmoved DEF Filler
    <3>. QED  BY <3>1, <3>2
  <2>. QED  BY <1>1, <1>2, <1>6, <2>1, <2>2, <2>7, OfficeTurn
<1>. QED  BY <1>5, <1>6 DEF Counts

\* The write that ends a request.
LEMMA EndFacts ==
  ASSUME AccessInv, NEW v \in Visit, Ends(v), visit[v].at \in OfficePlaces,
         held' \in [Visit -> SUBSET BearerRights], \A u \in Visit : held[u] \subseteq held'[u],
         founded' = founded, \A c \in Credential : c # v => keys'[c].firm = keys[c].firm
  PROVE  /\ VisitStep(v) /\ Fits(v)' /\ visit'[v].user = visit[v].user
         /\ \A f \in Firm, what \in Quotas : ~Filler(v, f, what)'
<1>. DEFINE place == "done"
<1>1. place \in AccessPlaces
      /\ place \notin OfficePlaces \cup FounderPlaces \cup {"begin", "own", "session", "member"}
      /\ \A what \in Quotas : place \notin Filling(what)
  BY DEF AccessPlaces, OfficePlaces, FounderPlaces, Filling
<1>2. Turns(v, place)
  BY DEF Ends
<1>3. visit[v].does.kind # "signup"
      /\ visit[v].at \notin FounderPlaces \cup {"done", "refused", "begin", "found"}
  BY AtOffice DEF KindsAt, OfficePlaces, ForFirm
<1>4. place = "done"
  OBVIOUS
<1>. HIDE DEF place
<1>5. /\ visit'[v].does = visit[v].does /\ visit'[v].limit = visit[v].limit
      /\ visit'[v].user = visit[v].user /\ visit'[v].at = place
      /\ visit' \in [Visit -> VisitRows]
      /\ \A u \in Visit \ {v} : visit'[u] = visit[u]
  BY <1>1, <1>2, TurnFacts DEF AccessInv
<1>6. VisitStep(v)
  BY <1>1, <1>3, <1>4, <1>5 DEF VisitStep
<1>7. Fits(v)'
  BY <1>1, <1>3, <1>4, <1>5 DEF Fits
<1>8. \A f \in Firm, what \in Quotas : ~Filler(v, f, what)'
  BY <1>1, <1>5 DEF Filler
<1>. QED  BY <1>5, <1>6, <1>7, <1>8

LEMMA HeldUnmoved ==
  ASSUME AccessInv, held' = held
  PROVE  held' \in [Visit -> SUBSET BearerRights] /\ \A u \in Visit : held[u] \subseteq held'[u]
BY DEF AccessInv, VisitsTyped

\* A quota of which one who was to fill it has left less room, or none has.
LEMMA QuotaFilled ==
  ASSUME AccessInv, NEW v \in Visit, VisitStep(v), NEW f \in Firm, NEW what \in Quotas,
         <<f, what>> \notin crowded, TotalOf(f, what)' \in Nat, ~Filler(v, f, what)',
         \/ TotalOf(f, what)' <= TotalOf(f, what)
         \/ Filler(v, f, what) /\ TotalOf(f, what)' = TotalOf(f, what) + 1
  PROVE  QuotaHolds(f, what)'
<1>1. QuotaHolds(f, what)
  BY DEF AccessInv, QuotasHold
<1>2. \A u \in Visit : Filler(u, f, what)' => Filler(u, f, what) /\ u # v
  BY DEF VisitStep, Filler
<1>3. \A u \in Visit : visit'[u].limit = visit[u].limit /\ visit[u].limit = visit[v].limit
  BY DEF VisitStep, AccessInv, VisitsTyped
<1>4. TotalOf(f, what) \in Nat
  BY QuotasTyped DEF AccessInv
<1>5. visit[v].limit[f][what] \in Nat BY RequestOf DEF VisitRows, LimitRows, Quotas
<1>6. CASE TotalOf(f, what)' <= TotalOf(f, what)
  BY <1>1, <1>3, <1>4, <1>5, <1>6, <1>2 DEF QuotaHolds
<1>7. CASE Filler(v, f, what) /\ TotalOf(f, what)' = TotalOf(f, what) + 1
  BY <1>1, <1>2, <1>7, <1>3, <1>4, <1>5 DEF QuotaHolds
<1>. QED  BY <1>6, <1>7

\* The rows of members change for one tenant and person only.
WritesMember(f, p, row) == members' = [members EXCEPT ![f][p] = row]

LEMMA MemberChanged ==
  ASSUME AccessInv, NEW v \in Visit, VisitStep(v), NEW f \in Firm, NEW p \in Person,
         NEW row \in MemberRows, WritesMember(f, p, row),
         row.role = "none" <=> row.row = Nobody, OpenFirm(f)
  PROVE  /\ members' \in [Firm -> [Person -> MemberRows]] /\ MembersOfOpen'
         /\ members'[f][p] = row
         /\ \A g \in Firm, q \in Person : g # f \/ q # p => members'[g][q] = members[g][q]
<1>1. members \in [Firm -> [Person -> MemberRows]]
  BY DEF AccessInv, RowsTyped
<1>2. /\ members' \in [Firm -> [Person -> MemberRows]] /\ members'[f][p] = row
      /\ \A g \in Firm, q \in Person : g # f \/ q # p => members'[g][q] = members[g][q]
  BY <1>1 DEF WritesMember
<1>3. MembersOfOpen'
  <2>. SUFFICES ASSUME NEW g \in Firm, NEW q \in Person
                PROVE  /\ members'[g][q].role = "none" <=> members'[g][q].row = Nobody
                       /\ members'[g][q].role # "none" => OpenFirm(g)'
    BY DEF MembersOfOpen
  <2>1. CASE g = f /\ q = p
    BY <1>2, <2>1, OpenStays
  <2>2. CASE ~(g = f /\ q = p) BY <1>2, <2>2, OpenStays DEF AccessInv, MembersOfOpen
  <2>. QED  BY <2>1, <2>2
<1>. QED  BY <1>2, <1>3

LEMMA AddMemberKeeps ==
  ASSUME AccessInv, NEW v \in Visit, AddMember(v)
  PROVE  AccessInv'
<1>1. visit[v].at = "addMember" /\ visit[v].at \in OfficePlaces
      /\ UNCHANGED <<logins, keys, records, founded, crowded>>
  BY DEF AddMember, OfficePlaces
<1>2. /\ visit[v].does.kind = "invite" /\ Cleared(v) /\ ~ByKey(v)
      /\ visit[v].firm \in Firm /\ OpenFirm(visit[v].firm)
      /\ visit[v].at \notin FounderPlaces \cup {"done", "refused", "begin"}
  BY <1>1, AtOffice DEF KindsAt
<1>3. PICK f \in Firm, p \in Person : f = visit[v].firm /\ p = visit[v].does.person
  BY <1>2, RequestOf DEF WellFormed
<1>. DEFINE row == [role |-> visit[v].does.role, row |-> v]
<1>4. CASE Denied(v) /\ UNCHANGED <<members, held, acts>>
  BY <1>1, <1>2, <1>4, Refused DEF Looks
<1>5. CASE /\ members[f][p].role = "none" /\ members' = [members EXCEPT ![f][p] = row]
           /\ HeldIn(members', keys) /\ Acts(v, f, MANAGE) /\ Ends(v)
  <2>1. row \in MemberRows /\ row.role \in VIEW /\ row.role # "none" /\ row.row # Nobody
    BY <1>2, RequestOf DEF WellFormed, MemberRows, VIEW, WRITE, MANAGE
  <2>. HIDE DEF row
  <2>2. keys \in [Credential -> KeyRows] /\ members \in [Firm -> [Person -> MemberRows]]
    BY DEF AccessInv, RowsTyped
  <2>3. members' \in [Firm -> [Person -> MemberRows]]
    BY <1>5, <2>1, <2>2
  <2>4. /\ held' \in [Visit -> SUBSET BearerRights]
        /\ \A u \in Visit : held[u] \subseteq held'[u]
    BY <1>5, <2>2, <2>3, HeldFacts
  <2>5. /\ VisitStep(v) /\ Fits(v)' /\ visit'[v].user = visit[v].user
        /\ \A g \in Firm, what \in Quotas : ~Filler(v, g, what)'
    BY <1>1, <1>5, <2>4, EndFacts
  <2>6. /\ MembersOfOpen' /\ members'[f][p] = row
        /\ \A g \in Firm, q \in Person : g # f \/ q # p => members'[g][q] = members[g][q]
    <3>1. OpenFirm(f) /\ (row.role = "none" <=> row.row = Nobody)
      BY <1>2, <1>3, <2>1
    <3>2. WritesMember(f, p, row) /\ row \in MemberRows
      BY <1>5, <2>1 DEF WritesMember
    <3>3. /\ members' \in [Firm -> [Person -> MemberRows]] /\ MembersOfOpen'
          /\ members'[f][p] = row
          /\ \A g \in Firm, q \in Person : g # f \/ q # p => members'[g][q] = members[g][q]
      BY <2>5, <3>1, <3>2, MemberChanged
    <3>. QED  BY <3>3
  <2>7. RowsTyped'
    BY <1>1, <2>3 DEF AccessInv, RowsTyped
  <2>8. HoldsNow'
    BY <1>1, <1>2, <1>5, <2>3, <2>5, MembersMoved
  <2>9. ActsPast' BY <1>2, <1>3, <1>5, <2>4, <2>5, ActAdded DEF Cleared, RightsFor, RolesFor
  <2>10. CustomersFinite'
    BY <1>1 DEF AccessInv, CustomersFinite
  <2>11. QuotasHold'
    <3>. SUFFICES ASSUME NEW g \in Firm, NEW what \in Quotas, <<g, what>> \notin crowded'
                  PROVE  QuotaHolds(g, what)'
      BY DEF QuotasHold
    <3>1. CASE g = f /\ what = "staff"
      <4>1. p \notin Staff(g) /\ IsFiniteSet(Staff(g))
        BY <1>5, <3>1, QuotasTyped DEF Staff, AccessInv
      <4>2. Staff(g)' = Staff(g) \cup {p}
        BY <2>1, <2>6, <3>1 DEF Staff
      <4>3. Cardinality(Staff(g)') = Cardinality(Staff(g)) + 1
        BY <4>1, <4>2, FS_AddElement
      <4>4. TotalOf(g, what)' = TotalOf(g, what) + 1
        BY <3>1, <4>3 DEF TotalOf
      <4>5. Filler(v, g, what)
        BY <1>1, <1>2, <1>3, <3>1 DEF Filler, Filling, FillerKind
      <4>6. TotalOf(g, what) \in Nat
        BY QuotasTyped DEF AccessInv
      <4>. QED  BY <1>1, <2>5, <4>4, <4>5, <4>6, QuotaFilled
    <3>2. CASE ~(g = f /\ what = "staff")
      BY <2>6, <3>2, <1>1, <2>5, QuotaUnmoved DEF TotalOf, Staff
    <3>. QED  BY <3>1, <3>2
  <2>. QED  BY <2>5, <2>6, <2>7, <2>8, <2>9, <2>10, <2>11, StepKeepsAccess
<1>. QED  BY <1>3, <1>4, <1>5 DEF AddMember

LEMMA ChangeMemberKeeps ==
  ASSUME AccessInv, NEW v \in Visit, ChangeMember(v)
  PROVE  AccessInv'
<1>1. visit[v].at \in {"promote", "remove"} /\ visit[v].at \in OfficePlaces
      /\ UNCHANGED <<logins, keys, records, founded, crowded>>
  BY DEF ChangeMember, OfficePlaces
<1>2. /\ visit[v].does.kind = visit[v].at /\ Cleared(v) /\ ~ByKey(v)
      /\ visit[v].firm \in Firm /\ OpenFirm(visit[v].firm) /\ visit[v].row # Nobody
      /\ visit[v].at \notin FounderPlaces \cup {"done", "refused", "begin"}
  BY <1>1, AtOffice DEF AccessInv, VisitsFit, Fits, KindsAt
<1>3. PICK f \in Firm, p \in Person : f = visit[v].firm /\ p = visit[v].does.person
  BY <1>1, <1>2, RequestOf DEF WellFormed
<1>4. CASE Denied(v) /\ UNCHANGED <<members, held, acts>>
  BY <1>1, <1>2, <1>4, Refused DEF Looks
<1>. DEFINE row == IF visit[v].at = "remove" THEN NoMember
                   ELSE [members[f][p] EXCEPT !.role = visit[v].does.role]
<1>5. CASE /\ members[f][p].row = visit[v].row /\ members' = [members EXCEPT ![f][p] = row]
           /\ HeldIn(members', keys) /\ Acts(v, f, MANAGE) /\ Ends(v)
  <2>1. keys \in [Credential -> KeyRows] /\ members \in [Firm -> [Person -> MemberRows]]
    BY DEF AccessInv, RowsTyped
  <2>2. members[f][p] \in MemberRows /\ members[f][p].role # "none"
    BY <1>2, <1>5, <2>1 DEF AccessInv, MembersOfOpen
  <2>3. row \in MemberRows /\ (row.role = "none" <=> row.row = Nobody)
    BY <1>2, RequestOf, <1>5, <2>2, <1>1 DEF NoMember, MemberRows, WellFormed, VIEW, WRITE, MANAGE
  <2>. HIDE DEF row
  <2>4. members' \in [Firm -> [Person -> MemberRows]]
    BY <1>5, <2>1, <2>3
  <2>5. /\ held' \in [Visit -> SUBSET BearerRights]
        /\ \A u \in Visit : held[u] \subseteq held'[u]
    BY <1>5, <2>1, <2>4, HeldFacts
  <2>6. /\ VisitStep(v) /\ Fits(v)' /\ visit'[v].user = visit[v].user
        /\ \A g \in Firm, what \in Quotas : ~Filler(v, g, what)'
    BY <1>1, <1>5, <2>5, EndFacts
  <2>7. /\ MembersOfOpen' /\ members'[f][p] = row
        /\ \A g \in Firm, q \in Person : g # f \/ q # p => members'[g][q] = members[g][q]
    <3>1. OpenFirm(f) /\ (row.role = "none" <=> row.row = Nobody)
      BY <1>2, <1>3, <2>3
    <3>2. WritesMember(f, p, row) /\ row \in MemberRows
      BY <1>5, <2>3 DEF WritesMember
    <3>3. /\ members' \in [Firm -> [Person -> MemberRows]] /\ MembersOfOpen'
          /\ members'[f][p] = row
          /\ \A g \in Firm, q \in Person : g # f \/ q # p => members'[g][q] = members[g][q]
      BY <2>6, <3>1, <3>2, MemberChanged
    <3>. QED  BY <3>3
  <2>8. RowsTyped'
    BY <1>1, <2>4 DEF AccessInv, RowsTyped
  <2>9. HoldsNow'
    BY <1>1, <1>2, <1>5, <2>4, <2>6, MembersMoved
  <2>10. ActsPast'
    <3>1. \E right \in MANAGE : <<f, right>> \in held[v]
      BY <1>1, <1>2, <1>3 DEF Cleared, RightsFor, RolesFor
    <3>. QED  BY <1>5, <2>5, <2>6, <3>1, ActAdded
  <2>11. CustomersFinite'
    BY <1>1 DEF AccessInv, CustomersFinite
  <2>12. QuotasHold'
    <3>. SUFFICES ASSUME NEW g \in Firm, NEW what \in Quotas, <<g, what>> \notin crowded'
                  PROVE  QuotaHolds(g, what)'
      BY DEF QuotasHold
    <3>1. CASE what = "staff"
      <4>1. IsFiniteSet(Staff(g)) /\ Staff(g)' \subseteq Staff(g)
        BY <2>2, <2>7, QuotasTyped DEF Staff, AccessInv
      <4>2. /\ Cardinality(Staff(g)') \in Nat
            /\ Cardinality(Staff(g)') <= Cardinality(Staff(g))
        BY <4>1, FS_Subset, FS_CardinalityType
      <4>3. TotalOf(g, what)' \in Nat /\ TotalOf(g, what)' <= TotalOf(g, what)
        BY <3>1, <4>2 DEF TotalOf
      <4>. QED  BY <1>1, <2>6, <4>3, QuotaFilled
    <3>2. CASE what # "staff" BY <1>1, <3>2, <2>6, QuotaUnmoved DEF TotalOf
    <3>. QED  BY <3>1, <3>2
  <2>. QED  BY <2>6, <2>7, <2>8, <2>9, <2>10, <2>11, <2>12, StepKeepsAccess
<1>. QED  BY <1>3, <1>4, <1>5 DEF ChangeMember

\* What a request writes of keys, or that it only writes elsewhere.
LEMMA KeyWriteKeeps ==
  ASSUME AccessInv, NEW v \in Visit, Ends(v), visit[v].at \in OfficePlaces,
         UNCHANGED <<members, logins, records, founded, crowded>>,
         held' \in [Visit -> SUBSET BearerRights], \A u \in Visit : held[u] \subseteq held'[u],
         keys' \in [Credential -> KeyRows],
         \A c \in Credential : c # v => keys'[c].firm = keys[c].firm,
         NEW rights, Acts(v, visit[v].firm, rights), RightsFor(v) \subseteq rights
  PROVE  AccessInv'
BY EndFacts, MembersUnmoved, QuotasUnmoved, AtOffice, ActAdded, StepKeepsAccess DEF AccessInv,
   RowsTyped, Cleared

LEMMA KeysKeep ==
  ASSUME AccessInv, NEW v \in Visit, CreateKey(v) \/ RevokeKey(v)
  PROVE  AccessInv'
<1>1. visit[v].at \in {"makeKey", "revokeKey"} /\ visit[v].at \in OfficePlaces
      /\ UNCHANGED <<members, logins, records, founded, crowded>> /\ Ends(v)
  BY DEF CreateKey, RevokeKey, OfficePlaces
<1>2. /\ visit[v].does.kind \in {"newkey", "revoke"} /\ ~ByKey(v) /\ visit[v].firm \in Firm
      /\ visit[v].at = "makeKey" <=> visit[v].does.kind = "newkey"
  BY <1>1, AtOffice DEF KindsAt
<1>3. RightsFor(v) = MANAGE
  BY <1>2 DEF RightsFor, RolesFor
<1>4. keys \in [Credential -> KeyRows] /\ members \in [Firm -> [Person -> MemberRows]]
  BY DEF AccessInv, RowsTyped
<1>5. CASE CreateKey(v)
  <2>. DEFINE row == [firm |-> visit[v].firm, scopes |-> visit[v].does.scopes, valid |-> TRUE]
  <2>1. keys' = [keys EXCEPT ![v] = row] /\ HeldIn(members, keys')
        /\ Acts(v, visit[v].firm, MANAGE) /\ visit[v].at = "makeKey"
    BY <1>5 DEF CreateKey
  <2>2. row \in KeyRows BY <1>2, <2>1, RequestOf DEF WellFormed, KeyRows
  <2>. HIDE DEF row
  <2>3. /\ keys' \in [Credential -> KeyRows]
        /\ \A c \in Credential : c # v => keys'[c].firm = keys[c].firm
    BY <1>4, <2>1, <2>2
  <2>4. /\ held' \in [Visit -> SUBSET BearerRights]
        /\ \A u \in Visit : held[u] \subseteq held'[u]
    BY <1>4, <2>1, <2>3, HeldFacts
  <2>. QED  BY <1>1, <1>3, <2>1, <2>3, <2>4, KeyWriteKeeps
<1>6. CASE RevokeKey(v)
  <2>1. /\ keys' = [keys EXCEPT ![visit[v].does.of].valid = FALSE] /\ held' = held
        /\ Acts(v, keys[visit[v].does.of].firm, MANAGE) /\ visit[v].at = "revokeKey"
    BY <1>6 DEF RevokeKey
  <2>2. keys[visit[v].does.of].firm = visit[v].firm
    BY <2>1 DEF AccessInv, VisitsFit, Fits
  <2>3. PICK c \in Credential : c = visit[v].does.of
    BY <1>2, <2>1, RequestOf DEF WellFormed
  <2>. DEFINE row == [keys[c] EXCEPT !.valid = FALSE]
  <2>4. keys[c] \in KeyRows
    BY <1>4
  <2>5. row \in KeyRows /\ row.firm = keys[c].firm
    BY <2>4 DEF KeyRows
  <2>6. keys' = [keys EXCEPT ![c] = row]
    BY <2>1, <2>3
  <2>. HIDE DEF row
  <2>7. /\ keys' \in [Credential -> KeyRows]
        /\ \A d \in Credential : d # v => keys'[d].firm = keys[d].firm
    BY <1>4, <2>5, <2>6
  <2>8. Acts(v, visit[v].firm, MANAGE)
    BY <2>1, <2>2
  <2>. QED  BY <1>1, <1>3, <2>1, <2>7, <2>8, HeldUnmoved, KeyWriteKeeps
<1>. QED  BY <1>5, <1>6

LEMMA EditsKeep ==
  ASSUME AccessInv, NEW v \in Visit, EditCustomer(v) \/ CreateSession(v)
  PROVE  AccessInv'
<1>1. visit[v].at \in {"editCustomer", "entitlement"} /\ visit[v].at \in OfficePlaces
      /\ UNCHANGED <<members, logins, keys, records, founded, crowded, held>>
  BY DEF EditCustomer, CreateSession, OfficePlaces, rowVars
<1>2. keys' \in [Credential -> KeyRows] /\ \A c \in Credential : keys'[c].firm = keys[c].firm
  BY <1>1 DEF AccessInv, RowsTyped
<1>3. visit[v].does.kind \in KindsAt(visit[v].at)
      /\ visit[v].at \notin FounderPlaces \cup {"done", "refused"}
  BY <1>1, AtOffice
<1>4. CASE EditCustomer(v)
  <2>1. Ends(v) /\ visit[v].at = "editCustomer" /\ Acts(v, visit[v].does.of, WRITE)
    BY <1>4 DEF EditCustomer
  <2>2. visit[v].does.of = visit[v].firm
    BY <2>1 DEF AccessInv, VisitsFit, Fits
  <2>3. RightsFor(v) = WRITE
    BY <1>1, <1>3, <2>1, AtOffice DEF KindsAt, RightsFor, RolesFor
  <2>4. Acts(v, visit[v].firm, WRITE)
    BY <2>1, <2>2
  <2>. QED  BY <1>1, <1>2, <2>1, <2>3, <2>4, HeldUnmoved, KeyWriteKeeps
<1>5. CASE CreateSession(v) /\ Denied(v) /\ UNCHANGED acts
  BY <1>1, <1>3, <1>5, Refused DEF Looks
<1>6. CASE CreateSession(v) /\ ~(Denied(v) /\ UNCHANGED acts)
  BY <1>6, <1>3, <1>1, <1>2, HeldUnmoved, KeyWriteKeeps DEF CreateSession, KindsAt, RightsFor,
     RolesFor
<1>. QED  BY <1>4, <1>5, <1>6

LEMMA RecordWriteKeeps ==
  ASSUME AccessInv, NEW v \in Visit, Ends(v), visit[v].at \in OfficePlaces,
         UNCHANGED <<members, logins, keys, founded, held, crowded>>,
         NEW f \in Firm, f = visit[v].firm, NEW what \in {"customers", "orders"},
         Filler(v, f, what), NEW row \in [customers : SUBSET Emails, placed : Nat],
         records' = [records EXCEPT ![f] = row], IsFiniteSet(row.customers),
         IF what = "customers"
         THEN /\ row.placed = records[f].placed
              /\ Cardinality(row.customers) = Cardinality(records[f].customers) + 1
         ELSE /\ row.placed = records[f].placed + 1
              /\ row.customers = records[f].customers,
         Acts(v, f, WRITE), RightsFor(v) = WRITE
  PROVE  AccessInv'
<1>1. records \in [Firm -> [customers : SUBSET Emails, placed : Nat]]
  BY DEF AccessInv, RowsTyped
<1>2. /\ records' \in [Firm -> [customers : SUBSET Emails, placed : Nat]] /\ records'[f] = row
      /\ \A g \in Firm : g # f => records'[g] = records[g]
  BY <1>1
<1>3. /\ VisitStep(v) /\ Fits(v)' /\ visit'[v].user = visit[v].user
      /\ \A g \in Firm, w \in Quotas : ~Filler(v, g, w)'
  BY HeldUnmoved, EndFacts
<1>4. RowsTyped'
  BY <1>2 DEF AccessInv, RowsTyped
<1>5. HoldsNow' /\ MembersOfOpen'
  BY <1>3, MembersUnmoved
<1>6. ActsPast' BY AtOffice, <1>3, ActAdded DEF Cleared
<1>7. CustomersFinite'
  BY <1>2 DEF AccessInv, CustomersFinite
<1>8. QuotasHold'
  <2>. SUFFICES ASSUME NEW g \in Firm, NEW w \in Quotas, <<g, w>> \notin crowded'
                PROVE  QuotaHolds(g, w)'
    BY DEF QuotasHold
  <2>1. TotalOf(g, w) \in Nat /\ w \in {"staff", "customers", "orders"}
    BY QuotasTyped DEF AccessInv, Quotas
  <2>2. CASE g = f /\ w = what BY <1>2, <2>2, <1>3, <2>1, QuotaFilled DEF TotalOf
  <2>3. CASE ~(g = f /\ w = what)
    <3>1. TotalOf(g, w)' = TotalOf(g, w) BY <1>2, <2>3, <2>1 DEF TotalOf, Staff
    <3>. QED  BY <1>3, <3>1, QuotaUnmoved
  <2>. QED  BY <2>2, <2>3
<1>. QED  BY <1>3, <1>4, <1>5, <1>6, <1>7, <1>8, StepKeepsAccess

LEMMA RecordsKeep ==
  ASSUME AccessInv, NEW v \in Visit, AddCustomer(v) \/ CreateOrder(v)
  PROVE  AccessInv'
<1>1. visit[v].at \in {"addCustomer", "createOrder"} /\ visit[v].at \in OfficePlaces
      /\ UNCHANGED <<members, logins, keys, founded, held, crowded>>
  BY DEF AddCustomer, CreateOrder, OfficePlaces
<1>2. /\ visit[v].does.kind = (IF visit[v].at = "addCustomer" THEN "customer" ELSE "order")
      /\ visit[v].at \notin FounderPlaces \cup {"done", "refused"}
  BY <1>1, AtOffice DEF KindsAt
<1>3. visit[v].firm \in Firm /\ RightsFor(v) = WRITE
  BY <1>1, <1>2, AtOffice DEF RightsFor, RolesFor
<1>4. PICK f \in Firm : f = visit[v].firm
  BY <1>3
<1>5. records[f] \in [customers : SUBSET Emails, placed : Nat]
      /\ records \in [Firm -> [customers : SUBSET Emails, placed : Nat]]
      /\ IsFiniteSet(records[f].customers)
  BY DEF AccessInv, RowsTyped, CustomersFinite
<1>6. CASE AddCustomer(v) /\ Denied(v) /\ UNCHANGED <<records, acts>>
  BY <1>1, <1>2, <1>6, Refused DEF Looks
<1>7. CASE AddCustomer(v) /\ ~(Denied(v) /\ UNCHANGED <<records, acts>>)
  <2>. DEFINE email == visit[v].does.email
              row == [records[f] EXCEPT !.customers = @ \cup {email}]
              what == "customers"
  <2>1. /\ email \notin records[f].customers /\ records' = [records EXCEPT ![f] = row]
        /\ Acts(v, f, WRITE) /\ Ends(v) /\ visit[v].at = "addCustomer"
    BY <1>4, <1>7 DEF AddCustomer
  <2>2. email \in Emails BY <1>2, <2>1, RequestOf DEF VisitRows, Emails
  <2>. HIDE DEF email
  <2>3. /\ row \in [customers : SUBSET Emails, placed : Nat]
        /\ row.customers = records[f].customers \cup {email}
        /\ row.placed = records[f].placed
    BY <1>5, <2>2
  <2>. HIDE DEF row
  <2>4. /\ IsFiniteSet(row.customers)
        /\ Cardinality(row.customers) = Cardinality(records[f].customers) + 1
    BY <1>5, <2>1, <2>3, FS_AddElement
  <2>5. Filler(v, f, what) /\ what \in {"customers", "orders"} /\ what = "customers"
    BY <1>2, <1>4, <2>1 DEF Filler, Filling, FillerKind
  <2>. HIDE DEF what
  <2>. QED  BY <1>1, <1>3, <1>4, <2>1, <2>3, <2>4, <2>5, RecordWriteKeeps
<1>8. CASE CreateOrder(v)
  <2>. DEFINE row == [records[f] EXCEPT !.placed = @ + 1]
              what == "orders"
  <2>1. /\ records' = [records EXCEPT ![f] = row]
        /\ Acts(v, f, WRITE) /\ Ends(v) /\ visit[v].at = "createOrder"
    BY <1>4, <1>8 DEF CreateOrder
  <2>2. /\ row \in [customers : SUBSET Emails, placed : Nat]
        /\ row.customers = records[f].customers /\ row.placed = records[f].placed + 1
    BY <1>5
  <2>. HIDE DEF row
  <2>3. IsFiniteSet(row.customers)
    BY <1>5, <2>2
  <2>4. Filler(v, f, what) /\ what \in {"customers", "orders"} /\ what # "customers"
    BY <1>2, <1>4, <2>1 DEF Filler, Filling, FillerKind
  <2>. HIDE DEF what
  <2>. QED  BY <1>1, <1>3, <1>4, <2>1, <2>2, <2>3, <2>4, RecordWriteKeeps
<1>. QED  BY <1>6, <1>7, <1>8

LEMMA AccessInitInv == AccessInit => AccessInv
<1>. SUFFICES ASSUME AccessInit PROVE AccessInv
  OBVIOUS
<1>1. PICK plan \in AccessPlans : AccessInitOf(plan)
  BY DEF AccessInit
<1>2. /\ members = plan.members /\ logins = plan.logins /\ keys = plan.keys
      /\ records = plan.records /\ founded = plan.founded /\ acts = {} /\ crowded = {}
      /\ held = [v \in Visit |-> {}]
      /\ visit = [v \in Visit |-> [does |-> plan.does[v], limit |-> plan.limit, at |-> "begin",
                                   user |-> Nobody, firm |-> Nobody, row |-> Nobody]]
  BY <1>1 DEF AccessInitOf
<1>3. WellBegun(plan)
  BY AccessAssumption
<1>4. RowsTyped
  BY <1>2, <1>3 DEF WellBegun, RowsTyped
<1>5. \A v \in Visit : /\ visit[v].at = "begin" /\ visit[v].user = Nobody
                       /\ visit[v].limit = plan.limit /\ visit[v].does \in Requests
  BY <1>2 DEF Requests
<1>6. VisitsTyped
  <2>1. "begin" \in AccessPlaces
    BY DEF AccessPlaces
  <2>2. plan.limit \in [Firm -> LimitRows]
    BY <1>3 DEF WellBegun
  <2>3. visit \in [Visit -> VisitRows]
    <3>. SUFFICES ASSUME NEW v \in Visit
                  PROVE  [does |-> plan.does[v], limit |-> plan.limit, at |-> "begin",
                          user |-> Nobody, firm |-> Nobody, row |-> Nobody] \in VisitRows
      BY <1>2
    <3>1. plan.does[v] \in Requests
      BY DEF Requests
    <3>. QED  BY <2>1, <2>2, <3>1 DEF VisitRows
  <2>4. held \in [Visit -> SUBSET BearerRights]
    BY <1>2
  <2>. QED  BY <1>5, <2>3, <2>4 DEF VisitsTyped
<1>7. VisitsFit
  BY <1>5 DEF VisitsFit, Fits, OfficePlaces, FounderPlaces
<1>8. HoldsNow /\ ActsPast
  BY <1>2, <1>5 DEF HoldsNow, ActsPast
<1>9. \A f \in Firm : \A v \in Visit : founded[f].by # v
  BY <1>2, <1>3 DEF WellBegun
<1>10. FoundersKnown
  BY <1>9 DEF FoundersKnown
<1>11. MembersOfOpen
  <2>. SUFFICES ASSUME NEW f \in Firm, NEW p \in Person
                PROVE  /\ members[f][p].role = "none" <=> members[f][p].row = Nobody
                       /\ members[f][p].role # "none" => OpenFirm(f)
    BY DEF MembersOfOpen
  <2>. DEFINE staff == {q \in Person : plan.members[f][q].role # "none"}
  <2>1. p \in staff <=> plan.members[f][p].row # Nobody
    BY <1>3 DEF WellBegun
  <2>2. staff # {} => plan.founded[f].by # Nobody
    BY <1>3 DEF WellBegun
  <2>3. p \in staff <=> members[f][p].role # "none"
    BY <1>2
  <2>4. p \in staff => founded[f].by # Nobody
    BY <1>2, <2>2
  <2>. QED  BY <1>2, <1>9, <2>1, <2>3, <2>4 DEF OpenFirm
<1>12. KeysApart
  BY <1>2, <1>3 DEF WellBegun, KeysApart
<1>13. CustomersFinite
  BY <1>2, <1>3 DEF WellBegun, CustomersFinite
<1>14. QuotasHold
  <2>. SUFFICES ASSUME NEW f \in Firm, NEW what \in Quotas PROVE QuotaHolds(f, what)
    BY DEF QuotasHold
  <2>1. \A v \in Visit : ~Filler(v, f, what)
    BY <1>5 DEF Filler, Filling
  <2>2. TotalOf(f, what) <= plan.limit[f][what]
    BY <1>2, <1>3 DEF Staff, WellBegun, TotalOf, Quotas
  <2>. QED  BY <1>5, <2>1, <2>2 DEF QuotaHolds
<1>. QED  BY <1>4, <1>6, <1>7, <1>8, <1>10, <1>11, <1>12, <1>13, <1>14 DEF AccessInv

LEMMA AccessStepInv == AccessInv /\ [AccessNext]_accessVars => AccessInv'
<1>. SUFFICES ASSUME AccessInv, [AccessNext]_accessVars PROVE AccessInv'
  OBVIOUS
<1>1. CASE UNCHANGED accessVars
  <2>1. RowsTyped' /\ VisitsTyped' /\ CustomersFinite'
    BY <1>1 DEF accessVars, AccessInv, RowsTyped, VisitsTyped, CustomersFinite
  <2>2. \A f \in Firm : OpenFirm(f)' <=> OpenFirm(f)
    BY <1>1 DEF accessVars, OpenFirm
  <2>3. VisitsFit'
    <3>. SUFFICES ASSUME NEW v \in Visit PROVE Fits(v)'
      BY DEF VisitsFit
    <3>1. Fits(v)
      BY DEF AccessInv, VisitsFit
    <3>2. Cleared(v)' <=> Cleared(v)
      BY <1>1 DEF accessVars, Cleared, ByKey, RightsFor, RolesFor, OpenFirm
    <3>. QED  BY <1>1, <3>1, <3>2 DEF accessVars, Fits, ByKey
  <2>4. HoldsNow' /\ FoundersKnown' /\ KeysApart' /\ ActsPast'
    BY <1>1 DEF accessVars, AccessInv, HoldsNow, FoundersKnown, KeysApart, ActsPast
  <2>5. MembersOfOpen'
    BY <1>1, <2>2 DEF accessVars, AccessInv, MembersOfOpen
  <2>6. QuotasHold'
    <3>1. \A f \in Firm, what \in Quotas : TotalOf(f, what)' = TotalOf(f, what)
      BY <1>1 DEF accessVars, TotalOf, Staff
    <3>2. \A v \in Visit, f \in Firm, what \in Quotas : Filler(v, f, what)' <=> Filler(v, f, what)
      BY <1>1 DEF accessVars, Filler
    <3>3. \A f \in Firm, what \in Quotas : QuotaHolds(f, what) => QuotaHolds(f, what)'
      BY <1>1, <3>1, <3>2 DEF accessVars, QuotaHolds
    <3>. QED  BY <1>1, <3>3 DEF accessVars, AccessInv, QuotasHold
  <2>. QED  BY <2>1, <2>3, <2>4, <2>5, <2>6 DEF AccessInv
<1>2. ASSUME NEW v \in Visit, AccessSteps(v) PROVE AccessInv'
  <2>1. CASE RequireUser(v) \/ ReadSession(v) \/ ReadMembership(v) \/ VerifyKey(v)
    BY <2>1, RequireUserKeeps, ReadSessionKeeps, ReadMembershipKeeps, VerifyKeyKeeps
  <2>2. CASE AssertCanAddStaff(v)
    <3>. DEFINE what == "staff"
    <3>1. /\ what \in Quotas /\ Counts(v, what)
          /\ visit[v].at = CASE what = "staff" -> "countStaff"
                             [] what = "customers" -> "countCustomers" [] OTHER -> "countOrders"
      BY <2>2 DEF AssertCanAddStaff, Quotas
    <3>. HIDE DEF what
    <3>. QED  BY <3>1, CountsKeep
  <2>3. CASE AssertCanAddCustomer(v)
    <3>. DEFINE what == "customers"
    <3>1. /\ what \in Quotas /\ Counts(v, what)
          /\ visit[v].at = CASE what = "staff" -> "countStaff"
                             [] what = "customers" -> "countCustomers" [] OTHER -> "countOrders"
      BY <2>3 DEF AssertCanAddCustomer, Quotas
    <3>. HIDE DEF what
    <3>. QED  BY <3>1, CountsKeep
  <2>4. CASE AssertCanCreateOrder(v)
    <3>. DEFINE what == "orders"
    <3>1. /\ what \in Quotas /\ Counts(v, what)
          /\ visit[v].at = CASE what = "staff" -> "countStaff"
                             [] what = "customers" -> "countCustomers" [] OTHER -> "countOrders"
      BY <2>4 DEF AssertCanCreateOrder, Quotas
    <3>. HIDE DEF what
    <3>. QED  BY <3>1, CountsKeep
  <2>5. CASE FindAccount(v) \/ FindKey(v) \/ FindEmail(v) \/ FindCustomer(v) \/ FindMember(v)
    BY <2>5, FindsKeep, FindMemberKeeps
  <2>6. CASE AddMember(v) \/ ChangeMember(v) \/ CreateKey(v) \/ RevokeKey(v)
    BY <2>6, AddMemberKeeps, ChangeMemberKeeps, KeysKeep
  <2>7. CASE AddCustomer(v) \/ CreateOrder(v) \/ EditCustomer(v) \/ CreateSession(v)
    BY <2>7, RecordsKeep, EditsKeep
  <2>. QED  BY <1>2, <2>1, <2>2, <2>3, <2>4, <2>5, <2>6, <2>7 DEF AccessSteps
<1>3. ASSUME NEW v \in Visit, AccountSteps(v) PROVE AccessInv'
  BY CreateTenantKeeps, AddOwnerKeeps, FurnishKeeps, SignInKeeps, <1>3, AccountWalks DEF
     AccountSteps
<1>. QED  BY <1>1, <1>2, <1>3 DEF AccessNext

LEMMA AccessInvSays == AccessInv => WritesAreAllowed
<1>. SUFFICES ASSUME AccessInv PROVE WritesAreAllowed
  OBVIOUS
<1>1. ActedWithRight
  BY DEF AccessInv, ActsPast, ActedWithRight
<1>2. ASSUME NEW v \in Visit, NEW f \in Firm, NEW what \in {"staff", "customers", "orders"},
             <<f, what>> \notin crowded
      PROVE  TotalOf(f, what) <= visit[v].limit[f][what]
  BY <1>2 DEF AccessInv, QuotasHold, QuotaHolds, Quotas
<1>3. ASSUME NEW v \in Visit, visit[v].does.kind = "signup", visit[v].at = "done"
      PROVE  founded[visit[v].does.of]
               = [by |-> v, has |-> {"subscription", "balance"}, live |-> TRUE]
  BY <1>3 DEF FurnishedAt, AccessInv, VisitsFit, Fits
<1>. QED  BY <1>1, <1>2, <1>3 DEF WritesAreAllowed, QuotaHeldAlone

\* For any people, tenants, requests and rows to begin with: whatever a request writes for a
\* tenant, its bearer had a right to since it began; a quota that no two requests were
\* filling at once is not exceeded; and a sign-up that ends is the one founder of a tenant
\* that has all of its rows (tenant/context.ts:74-107, entitlements.ts:84-133).
THEOREM WritesStayAllowed == AccessSpec => []WritesAreAllowed
<1>1. AccessSpec => []AccessInv
  BY AccessInitInv, AccessStepInv, PTL DEF AccessSpec
<1>. QED  BY <1>1, AccessInvSays, PTL
===============================================================================
