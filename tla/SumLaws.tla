--------------------------------- MODULE SumLaws ---------------------------------
(***************************************************************************)
(* What SumFunctionOnSet computes, for every finite set: the laws by which *)
(* the proofs about balances and reservations add and remove an amount.    *)
(* Each law is proved by its least counterexample.                         *)
(***************************************************************************)
EXTENDS Integers, FiniteSets, Functions, FiniteSetTheorems, WellFoundedInduction, TLAPS

LEMMA LeastNumber ==
  ASSUME NEW T, T \subseteq Nat, T # {}
  PROVE  \E n \in T : \A m \in T : n <= m
<1>. DEFINE R == {ss \in Nat \X Nat : ss[1] < ss[2]}
<1>1. IsWellFoundedOn(R, Nat)
  BY NatLessThanWellFounded DEF OpToRel
<1>2. PICK n \in T : \A m \in T : ~(<<m, n>> \in R)
  <2>. HIDE DEF R
  <2>. QED  BY <1>1, WFMin
<1>3. ASSUME NEW m \in T PROVE n <= m
  <2>1. m \in Nat /\ n \in Nat
    OBVIOUS
  <2>2. <<m, n>> \in Nat \X Nat
    BY <2>1
  <2>3. ~(m < n)
    BY <1>2, <2>2
  <2>. QED  BY <2>1, <2>3
<1>. QED  BY <1>3

\* Of the subsets of a finite set that are in W, one of the smallest.
LEMMA SmallestSubset ==
  ASSUME NEW S, IsFiniteSet(S), NEW W, W \subseteq SUBSET S, W # {}
  PROVE  \E s \in W : /\ IsFiniteSet(s)
                      /\ \A x \in s : s \ {x} \notin W
                      /\ \A t \in SUBSET s : t # s => t \notin W
<1>. DEFINE T == {Cardinality(s) : s \in W}
<1>1. \A s \in W : IsFiniteSet(s) /\ Cardinality(s) \in Nat
  BY FS_Subset, FS_CardinalityType
<1>2. T \subseteq Nat /\ T # {}
  BY <1>1
<1>3. PICK n \in T : \A m \in T : n <= m
  <2>. HIDE DEF T
  <2>. QED  BY <1>2, LeastNumber
<1>4. PICK s \in W : Cardinality(s) = n
  OBVIOUS
<1>5. ASSUME NEW t \in SUBSET s, t # s PROVE t \notin W
  <2>1. IsFiniteSet(t) /\ Cardinality(t) \in Nat /\ Cardinality(s) \in Nat
    BY <1>1, <1>5, FS_Subset, FS_CardinalityType
  <2>2. Cardinality(t) <= Cardinality(s) /\ Cardinality(t) # Cardinality(s)
    BY <1>1, <1>5, FS_Subset
  <2>3. SUFFICES ASSUME t \in W PROVE FALSE
    OBVIOUS
  <2>4. n <= Cardinality(t)
    BY <1>3, <2>3
  <2>. QED  BY <1>4, <2>1, <2>2, <2>4
<1>6. \A x \in s : s \ {x} \in SUBSET s /\ s \ {x} # s
  OBVIOUS
<1>. QED  BY <1>1, <1>5, <1>6

-----------------------------------------------------------------------------
(* The fold behind the sum: what it is for a set, it is for a larger one.  *)

Some(s) == CHOOSE x \in s : TRUE
IsSum(f, T, g) ==
  g = [s \in SUBSET T |-> IF s = {} THEN 0 ELSE f[Some(s)] + g[s \ {Some(s)}]]
SumIn(f, T) == CHOOSE g : IsSum(f, T, g)

LEMMA SumIs ==
  ASSUME NEW f, NEW S
  PROVE  SumFunctionOnSet(f, S) = SumIn(f, S)[S]
BY DEF SumFunctionOnSet, FoldFunctionOnSet, MapThenFoldSet, IsSum, Some, SumIn

LEMMA SomeIsIn ==
  ASSUME NEW s, s # {}
  PROVE  Some(s) \in s
BY DEF Some

LEMMA SumsAgree ==
  ASSUME NEW f, NEW T, NEW U, IsFiniteSet(T), NEW g, NEW h, IsSum(f, T, g), IsSum(f, U, h)
  PROVE  \A s \in SUBSET (T \cap U) : g[s] = h[s]
<1>. DEFINE W == {s \in SUBSET (T \cap U) : g[s] # h[s]}
<1>1. SUFFICES ASSUME W # {} PROVE FALSE
  OBVIOUS
<1>2. W \subseteq SUBSET T
  OBVIOUS
<1>3. PICK s \in W : \A x \in s : s \ {x} \notin W
  <2>. HIDE DEF W
  <2>. QED  BY <1>1, <1>2, SmallestSubset
<1>4. s # {}
  <2>1. \A u : u = {} /\ u \in SUBSET (T \cap U) => g[u] = 0 /\ h[u] = 0
    BY DEF IsSum
  <2>. QED  BY <2>1
<1>5. g[s \ {Some(s)}] = h[s \ {Some(s)}]
  BY <1>3, <1>4, SomeIsIn
<1>6. g[s] = f[Some(s)] + g[s \ {Some(s)}] /\ h[s] = f[Some(s)] + h[s \ {Some(s)}]
  BY <1>4 DEF IsSum
<1>. QED  BY <1>5, <1>6

LEMMA SumExists ==
  ASSUME NEW f, NEW T, IsFiniteSet(T)
  PROVE  IsSum(f, T, SumIn(f, T))
<1>. DEFINE W == {s \in SUBSET T : ~IsSum(f, s, SumIn(f, s))}
<1>1. SUFFICES ASSUME W # {} PROVE FALSE
  OBVIOUS
<1>2. PICK s \in W : IsFiniteSet(s) /\ \A t \in SUBSET s : t # s => t \notin W
  <2>1. W \subseteq SUBSET T
    OBVIOUS
  <2>. HIDE DEF W
  <2>. QED  BY <1>1, <2>1, SmallestSubset
<1>3. \A t \in SUBSET s : t # s => IsSum(f, t, SumIn(f, t)) /\ IsFiniteSet(t)
  BY <1>2, FS_Subset
<1>. DEFINE V(t) == SumIn(f, t)[t]
            G == [u \in SUBSET s |-> IF u = {} THEN 0 ELSE f[Some(u)] + V(u \ {Some(u)})]
<1>4. ASSUME NEW t \in SUBSET s, t # s
      PROVE  V(t) = IF t = {} THEN 0 ELSE f[Some(t)] + V(t \ {Some(t)})
  <2>1. CASE t = {}
    BY <1>3, <1>4, <2>1 DEF IsSum
  <2>2. CASE t # {}
    <3>. DEFINE u == t \ {Some(t)}
    <3>1. u \in SUBSET t /\ u \in SUBSET s /\ u # s /\ Some(t) \in t
      BY <1>4, <2>2, SomeIsIn
    <3>2. V(t) = f[Some(t)] + SumIn(f, t)[u]
      BY <1>3, <1>4, <2>2 DEF IsSum
    <3>3. SumIn(f, t)[u] = SumIn(f, u)[u]
      <4>1. u \in SUBSET (t \cap u)
        BY <3>1
      <4>2. IsSum(f, t, SumIn(f, t)) /\ IsSum(f, u, SumIn(f, u)) /\ IsFiniteSet(t)
        BY <1>3, <1>4, <3>1
      <4>. HIDE DEF u
      <4>. QED  BY <4>1, <4>2, SumsAgree
    <3>. QED  BY <2>2, <3>2, <3>3
  <2>. QED  BY <2>1, <2>2
<1>5. IsSum(f, s, G)
  <2>1. ASSUME NEW u \in SUBSET s, u # {}
        PROVE  G[u] = f[Some(u)] + G[u \ {Some(u)}]
    <3>. DEFINE t == u \ {Some(u)}
    <3>1. t \in SUBSET s /\ t # s
      BY <2>1, SomeIsIn
    <3>2. G[t] = V(t)
      <4>1. G[t] = IF t = {} THEN 0 ELSE f[Some(t)] + V(t \ {Some(t)})
        BY <3>1
      <4>2. V(t) = IF t = {} THEN 0 ELSE f[Some(t)] + V(t \ {Some(t)})
        <5>. HIDE DEF t, V
        <5>. QED  BY <1>4, <3>1
      <4>. QED  BY <4>1, <4>2
    <3>. QED  BY <2>1, <3>2
  <2>2. \A u \in SUBSET s : u = {} => G[u] = 0
    OBVIOUS
  <2>3. DOMAIN G = SUBSET s /\ G = [u \in SUBSET s |-> G[u]]
    OBVIOUS
  <2>. HIDE DEF G
  <2>. QED  BY <2>1, <2>2, <2>3 DEF IsSum
<1>6. IsSum(f, s, SumIn(f, s))
  <2>. HIDE DEF G
  <2>. QED  BY <1>5 DEF SumIn
<1>. QED  BY <1>2, <1>6

-----------------------------------------------------------------------------
(* The laws.                                                               *)

LEMMA SumOfNothing ==
  ASSUME NEW f
  PROVE  SumFunctionOnSet(f, {}) = 0
<1>1. IsSum(f, {}, SumIn(f, {}))
  BY SumExists, FS_EmptySet
<1>2. SumIn(f, {})[{}] = 0
  BY <1>1 DEF IsSum
<1>. QED  BY <1>2, SumIs

LEMMA SumUnfolds ==
  ASSUME NEW f, NEW S, IsFiniteSet(S), S # {}
  PROVE  /\ Some(S) \in S
         /\ SumFunctionOnSet(f, S) = f[Some(S)] + SumFunctionOnSet(f, S \ {Some(S)})
<1>. DEFINE u == S \ {Some(S)}
<1>1. Some(S) \in S /\ IsFiniteSet(u) /\ u \in SUBSET S /\ u \in SUBSET (S \cap u)
  BY SomeIsIn, FS_Subset
<1>2. IsSum(f, S, SumIn(f, S)) /\ IsSum(f, u, SumIn(f, u))
  BY <1>1, SumExists
<1>3. SumIn(f, S)[S] = f[Some(S)] + SumIn(f, S)[u]
  BY <1>2 DEF IsSum
<1>4. SumIn(f, S)[u] = SumIn(f, u)[u]
  <2>. HIDE DEF u
  <2>. QED  BY <1>1, <1>2, SumsAgree
<1>. QED  BY <1>1, <1>3, <1>4, SumIs

LEMMA SumIsInt ==
  ASSUME NEW f, NEW S, IsFiniteSet(S), \A x \in S : f[x] \in Int
  PROVE  SumFunctionOnSet(f, S) \in Int
<1>. DEFINE W == {s \in SUBSET S : SumFunctionOnSet(f, s) \notin Int}
<1>1. SUFFICES ASSUME W # {} PROVE FALSE
  OBVIOUS
<1>2. PICK s \in W : IsFiniteSet(s) /\ \A x \in s : s \ {x} \notin W
  <2>1. W \subseteq SUBSET S
    OBVIOUS
  <2>. HIDE DEF W
  <2>. QED  BY <1>1, <2>1, SmallestSubset
<1>3. s # {}
  BY SumOfNothing
<1>4. /\ Some(s) \in s
      /\ SumFunctionOnSet(f, s) = f[Some(s)] + SumFunctionOnSet(f, s \ {Some(s)})
  BY <1>2, <1>3, SumUnfolds
<1>5. SumFunctionOnSet(f, s \ {Some(s)}) \in Int /\ f[Some(s)] \in Int
  BY <1>2, <1>4
<1>6. SumFunctionOnSet(f, s) \in Int
  BY <1>4, <1>5
<1>. QED  BY <1>6

LEMMA SumIsNat ==
  ASSUME NEW f, NEW S, IsFiniteSet(S), \A x \in S : f[x] \in Nat
  PROVE  SumFunctionOnSet(f, S) \in Nat
<1>. DEFINE W == {s \in SUBSET S : SumFunctionOnSet(f, s) \notin Nat}
<1>1. SUFFICES ASSUME W # {} PROVE FALSE
  OBVIOUS
<1>2. PICK s \in W : IsFiniteSet(s) /\ \A x \in s : s \ {x} \notin W
  <2>1. W \subseteq SUBSET S
    OBVIOUS
  <2>. HIDE DEF W
  <2>. QED  BY <1>1, <2>1, SmallestSubset
<1>3. s # {}
  BY SumOfNothing
<1>4. /\ Some(s) \in s
      /\ SumFunctionOnSet(f, s) = f[Some(s)] + SumFunctionOnSet(f, s \ {Some(s)})
  BY <1>2, <1>3, SumUnfolds
<1>5. SumFunctionOnSet(f, s \ {Some(s)}) \in Nat /\ f[Some(s)] \in Nat
  BY <1>2, <1>4
<1>6. SumFunctionOnSet(f, s) \in Nat
  BY <1>4, <1>5
<1>. QED  BY <1>6

\* Any element may be taken out first.
LEMMA SumRemoves ==
  ASSUME NEW f, NEW S, IsFiniteSet(S), \A x \in S : f[x] \in Int, NEW y \in S
  PROVE  SumFunctionOnSet(f, S) = f[y] + SumFunctionOnSet(f, S \ {y})
<1>. DEFINE W == {s \in SUBSET S :
                    \E z \in s : SumFunctionOnSet(f, s) # f[z] + SumFunctionOnSet(f, s \ {z})}
<1>1. SUFFICES ASSUME W # {} PROVE FALSE
  OBVIOUS
<1>2. PICK s \in W : IsFiniteSet(s) /\ \A x \in s : s \ {x} \notin W
  <2>1. W \subseteq SUBSET S
    OBVIOUS
  <2>. HIDE DEF W
  <2>. QED  BY <1>1, <2>1, SmallestSubset
<1>3. PICK z \in s : SumFunctionOnSet(f, s) # f[z] + SumFunctionOnSet(f, s \ {z})
  OBVIOUS
<1>. DEFINE c == Some(s)
<1>4. c \in s /\ SumFunctionOnSet(f, s) = f[c] + SumFunctionOnSet(f, s \ {c})
  BY <1>2, SumUnfolds
<1>5. c # z
  BY <1>3, <1>4
<1>. HIDE DEF c
<1>6. /\ SumFunctionOnSet(f, s \ {c}) = f[z] + SumFunctionOnSet(f, (s \ {c}) \ {z})
      /\ SumFunctionOnSet(f, s \ {z}) = f[c] + SumFunctionOnSet(f, (s \ {z}) \ {c})
  <2>1. s \ {c} \notin W /\ s \ {z} \notin W /\ s \ {c} \in SUBSET S /\ s \ {z} \in SUBSET S
    BY <1>2, <1>4
  <2>2. z \in s \ {c} /\ c \in s \ {z}
    BY <1>4, <1>5
  <2>3. \A t \in SUBSET S : t \notin W =>
          \A x \in t : SumFunctionOnSet(f, t) = f[x] + SumFunctionOnSet(f, t \ {x})
    OBVIOUS
  <2>4. \A x \in s \ {c} : SumFunctionOnSet(f, s \ {c}) = f[x] + SumFunctionOnSet(f, (s \ {c}) \ {x})
    <3>. HIDE DEF W
    <3>. QED  BY <2>1, <2>3
  <2>5. \A x \in s \ {z} : SumFunctionOnSet(f, s \ {z}) = f[x] + SumFunctionOnSet(f, (s \ {z}) \ {x})
    <3>. HIDE DEF W
    <3>. QED  BY <2>1, <2>3
  <2>. QED  BY <2>2, <2>4, <2>5
<1>7. (s \ {c}) \ {z} = (s \ {z}) \ {c}
  OBVIOUS
<1>8. /\ f[c] \in Int /\ f[z] \in Int
      /\ SumFunctionOnSet(f, (s \ {c}) \ {z}) \in Int
  <2>. DEFINE r == (s \ {c}) \ {z}
  <2>1. c \in S /\ z \in S /\ r \in SUBSET S
    BY <1>2, <1>4
  <2>2. IsFiniteSet(r) /\ f[c] \in Int /\ f[z] \in Int /\ \A x \in r : f[x] \in Int
    BY <2>1, FS_Subset
  <2>3. SumFunctionOnSet(f, r) \in Int
    <3>. HIDE DEF r
    <3>. QED  BY <2>2, SumIsInt
  <2>. QED  BY <2>2, <2>3
<1>. DEFINE q == SumFunctionOnSet(f, (s \ {c}) \ {z})
<1>9. q \in Int /\ q = SumFunctionOnSet(f, (s \ {z}) \ {c})
  BY <1>7, <1>8
<1>10. SumFunctionOnSet(f, s) = f[c] + (f[z] + q)
  BY <1>4, <1>6
<1>11. f[z] + SumFunctionOnSet(f, s \ {z}) = f[z] + (f[c] + q)
  BY <1>6, <1>9
<1>12. \A n, m, k \in Int : n + (m + k) = m + (n + k)
  OBVIOUS
<1>13. f[c] + (f[z] + q) = f[z] + (f[c] + q)
  <2>. HIDE DEF q
  <2>. QED  BY <1>8, <1>9, <1>12
<1>. QED  BY <1>3, <1>10, <1>11, <1>13

LEMMA SumAdds ==
  ASSUME NEW f, NEW S, IsFiniteSet(S), NEW y, y \notin S, \A x \in S \cup {y} : f[x] \in Int
  PROVE  SumFunctionOnSet(f, S \cup {y}) = SumFunctionOnSet(f, S) + f[y]
<1>1. IsFiniteSet(S \cup {y}) /\ y \in S \cup {y} /\ (S \cup {y}) \ {y} = S
  BY FS_AddElement
<1>2. SumFunctionOnSet(f, S \cup {y}) = f[y] + SumFunctionOnSet(f, (S \cup {y}) \ {y})
  BY <1>1, SumRemoves
<1>3. SumFunctionOnSet(f, S \cup {y}) = f[y] + SumFunctionOnSet(f, S)
  BY <1>1, <1>2
<1>4. SumFunctionOnSet(f, S) \in Int /\ f[y] \in Int
  BY SumIsInt
<1>5. \A n, k \in Int : n + k = k + n
  OBVIOUS
<1>. QED  BY <1>3, <1>4, <1>5

\* Only the values on the set count.
LEMMA SumOfSame ==
  ASSUME NEW f, NEW g, NEW S, IsFiniteSet(S), \A x \in S : f[x] = g[x]
  PROVE  SumFunctionOnSet(f, S) = SumFunctionOnSet(g, S)
<1>. DEFINE W == {s \in SUBSET S : SumFunctionOnSet(f, s) # SumFunctionOnSet(g, s)}
<1>1. SUFFICES ASSUME W # {} PROVE FALSE
  OBVIOUS
<1>2. PICK s \in W : IsFiniteSet(s) /\ \A x \in s : s \ {x} \notin W
  <2>1. W \subseteq SUBSET S
    OBVIOUS
  <2>. HIDE DEF W
  <2>. QED  BY <1>1, <2>1, SmallestSubset
<1>3. s # {}
  <2>1. \A u : u = {} => SumFunctionOnSet(f, u) = 0 /\ SumFunctionOnSet(g, u) = 0
    BY SumOfNothing
  <2>. QED  BY <2>1
<1>4. /\ Some(s) \in s
      /\ SumFunctionOnSet(f, s) = f[Some(s)] + SumFunctionOnSet(f, s \ {Some(s)})
      /\ SumFunctionOnSet(g, s) = g[Some(s)] + SumFunctionOnSet(g, s \ {Some(s)})
  BY <1>2, <1>3, SumUnfolds
<1>5. SumFunctionOnSet(f, s \ {Some(s)}) = SumFunctionOnSet(g, s \ {Some(s)})
  BY <1>2, <1>4
<1>6. f[Some(s)] = g[Some(s)]
  BY <1>4
<1>. QED  BY <1>4, <1>5, <1>6
==========================================================================
