--------------------------- MODULE FindingsProofs ---------------------------
(***************************************************************************)
(* What is proved of the findings of an analysis, for any packets, DNS log *)
(* and clues, any limits of the detectors and any bounds: flows, uploads,  *)
(* odd ports and the window are those of the wire, each DNS verdict has    *)
(* its ground, and verdicts and severity follow the evidence.  Then of the *)
(* enrichment of an analysis and of the report a language model writes of  *)
(* it, for any workers, addresses, providers, replies and prompts.         *)
(***************************************************************************)
EXTENDS Findings, Narrative, FiniteSetTheorems, SequenceTheorems, WellFoundedInduction, TLAPS

-----------------------------------------------------------------------------
(* Least numbers, finite sums and induction over a finite set.             *)

LEMMA LeastNumber ==
  ASSUME NEW T, T \subseteq Nat, T # {}
  PROVE  \E x \in T : \A y \in T : x <= y
<1>1. PICK x \in T : \A y \in T : ~(<<y, x>> \in OpToRel(<, Nat))
  BY NatLessThanWellFounded, WFMin, Zenon
<1>2. \A y \in T : ~(y < x)
  BY <1>1 DEF OpToRel
<1> QED BY <1>2

(* A sum over the subsets of a set, one element at a time.                 *)
AnyOf(s) == CHOOSE x \in s : TRUE

AddsUp(f, S, g) ==
  g = [s \in SUBSET S |-> IF s = {} THEN 0 ELSE f[AnyOf(s)] + g[s \ {AnyOf(s)}]]

SumOf(f, S) == SumFunctionOnSet(f, S)

(* SumFunctionOnSet() is the value of a recursive function on the whole    *)
(* set.                                                                    *)
LEMMA SumUnfolded ==
  ASSUME NEW f, NEW S
  PROVE  SumOf(f, S) = (CHOOSE g : AddsUp(f, S, g))[S]
BY DEF SumOf, SumFunctionOnSet, FoldFunctionOnSet, MapThenFoldSet, AnyOf, AddsUp

(* A subset less one element is a smaller subset.                          *)
LEMMA SmallerSubset ==
  ASSUME NEW S, IsFiniteSet(S), NEW s \in SUBSET S, NEW x \in s
  PROVE  /\ IsFiniteSet(s) /\ Cardinality(s) \in Nat \ {0}
         /\ s \ {x} \in SUBSET S /\ Cardinality(s \ {x}) = Cardinality(s) - 1
<1>1. IsFiniteSet(s) /\ Cardinality(s) \in Nat
  BY FS_Subset, FS_CardinalityType
<1>2. Cardinality(s \ {x}) = Cardinality(s) - 1 /\ IsFiniteSet(s \ {x})
  BY <1>1, FS_RemoveElement
<1>3. Cardinality(s \ {x}) \in Nat
  BY <1>2, FS_CardinalityType
<1> QED BY <1>1, <1>2, <1>3

(* The element taken next is one of the set.                               *)
LEMMA AnyOfMember == \A s : s # {} => AnyOf(s) \in s
BY DEF AnyOf

(* Such a function exists: by induction on the size of the subsets.        *)
SmallSubsets(S, n) == {s \in SUBSET S : Cardinality(s) <= n}

AddsUpTo(f, S, n, g) ==
  g = [s \in SmallSubsets(S, n) |-> IF s = {} THEN 0 ELSE f[AnyOf(s)] + g[s \ {AnyOf(s)}]]

(* A sum for subsets up to a size gives one for those one larger.          *)
LEMMA SumGrows ==
  ASSUME NEW S, IsFiniteSet(S), NEW f, NEW n \in Nat, NEW g, AddsUpTo(f, S, n, g)
  PROVE  \E h : AddsUpTo(f, S, n + 1, h)
<1> DEFINE h == [s \in SmallSubsets(S, n + 1) |-> IF s = {} THEN 0 ELSE f[AnyOf(s)] + g[s \ {AnyOf(s)}]]
<1>1. \A s \in SUBSET S : Cardinality(s) \in Nat
  BY FS_Subset, FS_CardinalityType
<1>2. SmallSubsets(S, n) \subseteq SmallSubsets(S, n + 1)
  BY <1>1 DEF SmallSubsets
<1>3. \A s \in SmallSubsets(S, n) : g[s] = IF s = {} THEN 0 ELSE f[AnyOf(s)] + g[s \ {AnyOf(s)}]
  BY DEF AddsUpTo
<1>4. \A s \in SmallSubsets(S, n) : h[s] = g[s]
  BY <1>2, <1>3
<1>5. \A s \in SmallSubsets(S, n + 1) : s # {} => s \ {AnyOf(s)} \in SmallSubsets(S, n)
  BY <1>1, SmallerSubset, AnyOfMember DEF SmallSubsets
<1>6. \A s \in SmallSubsets(S, n + 1) : h[s] = IF s = {} THEN 0 ELSE f[AnyOf(s)] + h[s \ {AnyOf(s)}]
  BY <1>4, <1>5
<1>7. h = [s \in SmallSubsets(S, n + 1) |-> h[s]]
  OBVIOUS
<1> HIDE DEF h
<1>8. AddsUpTo(f, S, n + 1, h)
  BY <1>6, <1>7 DEF AddsUpTo
<1> QED BY <1>8

(* So there is a sum for all subsets.                                      *)
LEMMA SumExists ==
  ASSUME NEW S, IsFiniteSet(S), NEW f
  PROVE  \E g : AddsUp(f, S, g)
<1> DEFINE Bad == {n \in Nat : ~ \E g : AddsUpTo(f, S, n, g)}
<1>1. \A s \in SUBSET S : Cardinality(s) \in Nat /\ (Cardinality(s) = 0 <=> s = {}) /\ Cardinality(s) <= Cardinality(S)
  BY FS_Subset, FS_CardinalityType, FS_EmptySet
<1>2. \E g : AddsUpTo(f, S, 0, g)
  <2>1. \A s \in SmallSubsets(S, 0) : s = {}
    BY <1>1 DEF SmallSubsets
  <2>2. AddsUpTo(f, S, 0, [s \in SmallSubsets(S, 0) |-> 0])
    BY <2>1 DEF AddsUpTo
  <2> QED BY <2>2
<1>3. Bad = {}
  <2> SUFFICES ASSUME Bad # {}  PROVE FALSE
    OBVIOUS
  <2>1. Bad \subseteq Nat
    OBVIOUS
  <2>2. PICK n \in Bad : \A m \in Bad : n <= m
    BY <2>1, LeastNumber
  <2>3. n \in Nat /\ n # 0
    BY <1>2
  <2>4. n - 1 \in Nat /\ ~(n - 1 \in Bad)
    <3> HIDE DEF Bad
    <3> QED BY <2>2, <2>3
  <2>5. PICK g : AddsUpTo(f, S, n - 1, g)
    BY <2>4
  <2>6. \E h : AddsUpTo(f, S, (n - 1) + 1, h)
    BY <2>4, <2>5, SumGrows
  <2>7. (n - 1) + 1 = n
    BY <2>3
  <2>8. \E h : AddsUpTo(f, S, n, h)
    BY <2>6, <2>7
  <2> QED BY <2>8
<1>4. Cardinality(S) \in Nat
  BY FS_CardinalityType
<1>5. SmallSubsets(S, Cardinality(S)) = SUBSET S
  BY <1>1 DEF SmallSubsets
<1>6. PICK g : AddsUpTo(f, S, Cardinality(S), g)
  BY <1>3, <1>4
<1>7. AddsUp(f, S, g)
  BY <1>5, <1>6 DEF AddsUp, AddsUpTo
<1> QED BY <1>7

(* The function chosen.                                                    *)
Partial(f, S) == CHOOSE g : AddsUp(f, S, g)

(* The chosen function adds up as it is asked to.                          *)
LEMMA PartialSums ==
  ASSUME NEW S, IsFiniteSet(S), NEW f
  PROVE  /\ SumOf(f, S) = Partial(f, S)[S]
         /\ Partial(f, S)[{}] = 0
         /\ \A s \in SUBSET S : s # {} => Partial(f, S)[s] = f[AnyOf(s)] + Partial(f, S)[s \ {AnyOf(s)}]
<1>1. AddsUp(f, S, Partial(f, S))
  BY SumExists DEF Partial
<1>2. SumOf(f, S) = Partial(f, S)[S]
  BY SumUnfolded DEF Partial
<1>3. \A s \in SUBSET S : Partial(f, S)[s] = IF s = {} THEN 0 ELSE f[AnyOf(s)] + Partial(f, S)[s \ {AnyOf(s)}]
  BY <1>1 DEF AddsUp
<1> QED BY <1>2, <1>3

(* It is a sum, whichever element comes first, and whatever set it is      *)
(* taken within.                                                           *)
LEMMA PartialType ==
  ASSUME NEW S, IsFiniteSet(S), NEW f, \A x \in S : f[x] \in Int
  PROVE  \A s \in SUBSET S : Partial(f, S)[s] \in Int
<1> DEFINE Bad == {n \in Nat : \E s \in SUBSET S : Cardinality(s) = n /\ ~(Partial(f, S)[s] \in Int)}
<1> SUFFICES ASSUME NEW b \in SUBSET S, ~(Partial(f, S)[b] \in Int)  PROVE FALSE
  OBVIOUS
<1>1. Cardinality(b) \in Nat
  BY FS_Subset, FS_CardinalityType
<1>2. Bad \subseteq Nat /\ Bad # {}
  BY <1>1
<1>3. PICK n \in Bad : \A m \in Bad : n <= m
  BY <1>2, LeastNumber
<1>4. PICK s \in SUBSET S : Cardinality(s) = n /\ ~(Partial(f, S)[s] \in Int)
  OBVIOUS
<1>5. s # {}
  <2>1. Partial(f, S)[{}] = 0
    BY PartialSums
  <2> QED BY <1>4, <2>1
<1> DEFINE x == AnyOf(s)
<1>6. x \in s /\ f[x] \in Int
  BY <1>5, AnyOfMember
<1>7. s \ {x} \in SUBSET S /\ Cardinality(s \ {x}) = n - 1 /\ n \in Nat \ {0}
  BY <1>4, <1>6, SmallerSubset
<1>8. Partial(f, S)[s] = f[x] + Partial(f, S)[s \ {x}]
  BY <1>5, PartialSums
<1>9. ~(Partial(f, S)[s \ {x}] \in Int)
  BY <1>4, <1>6, <1>8
<1>10. n - 1 \in Bad
  BY <1>7, <1>9
<1> HIDE DEF Bad
<1> QED BY <1>3, <1>7, <1>10

(* Any element may be added first.                                         *)
LEMMA PartialAny ==
  ASSUME NEW S, IsFiniteSet(S), NEW f, \A x \in S : f[x] \in Int
  PROVE  \A s \in SUBSET S : \A x \in s : Partial(f, S)[s] = f[x] + Partial(f, S)[s \ {x}]
<1> DEFINE P   == Partial(f, S)
           Bad == {n \in Nat : \E s \in SUBSET S : Cardinality(s) = n /\ \E x \in s : P[s] # f[x] + P[s \ {x}]}
<1> SUFFICES ASSUME NEW b \in SUBSET S, \E x \in b : P[b] # f[x] + P[b \ {x}]  PROVE FALSE
  OBVIOUS
<1>1. Cardinality(b) \in Nat
  BY FS_Subset, FS_CardinalityType
<1>2. Bad \subseteq Nat /\ Bad # {}
  BY <1>1
<1>3. PICK n \in Bad : \A m \in Bad : n <= m
  BY <1>2, LeastNumber
<1>4. PICK s \in SUBSET S : Cardinality(s) = n /\ \E x \in s : P[s] # f[x] + P[s \ {x}]
  OBVIOUS
<1>5. PICK x \in s : P[s] # f[x] + P[s \ {x}]
  BY <1>4
<1>a. \A t \in SUBSET S : t # {} => P[t] = f[AnyOf(t)] + P[t \ {AnyOf(t)}]
  BY PartialSums
<1>b. \A t \in SUBSET S : P[t] \in Int
  BY PartialType
<1>c. \A t \in SUBSET S : \A y : Cardinality(t) = n - 1 /\ n \in Nat \ {0} /\ y \in t => P[t] = f[y] + P[t \ {y}]
  <2> SUFFICES ASSUME NEW t \in SUBSET S, NEW y \in t, n \in Nat \ {0}, Cardinality(t) = n - 1,
                      P[t] # f[y] + P[t \ {y}]
               PROVE  FALSE
    OBVIOUS
  <2>1. t \in SUBSET S /\ Cardinality(t) = n - 1 /\ n - 1 \in Nat /\ y \in t /\ P[t] # f[y] + P[t \ {y}]
    OBVIOUS
  <2>2. n - 1 \in Bad
    <3> HIDE DEF P
    <3> QED BY <2>1
  <2>3. ~(n <= n - 1)
    OBVIOUS
  <2> HIDE DEF Bad
  <2> QED BY <1>3, <2>2, <2>3
<1> DEFINE c == AnyOf(s)
           u == s \ {c}
           v == s \ {x}
<1>6. c \in s /\ c # x
  BY <1>5, <1>a, AnyOfMember
<1>7. n \in Nat \ {0} /\ u \in SUBSET S /\ Cardinality(u) = n - 1 /\ v \in SUBSET S /\ Cardinality(v) = n - 1
  BY <1>4, <1>6, SmallerSubset
<1>8. P[s] = f[c] + P[u]
  BY <1>a
<1> HIDE DEF Bad, P
<1>9. P[u] = f[x] + P[u \ {x}]
  BY <1>6, <1>7, <1>c
<1>10. P[v] = f[c] + P[v \ {c}]
  BY <1>6, <1>7, <1>c
<1>11. v \ {c} = u \ {x} /\ u \ {x} \in SUBSET S
  OBVIOUS
<1>12. f[c] \in Int /\ f[x] \in Int /\ P[u \ {x}] \in Int
  BY <1>6, <1>11, <1>b
<1>13. P[s] # f[x] + P[v]
  BY <1>5
<1>14. P[v] = f[c] + P[u \ {x}]
  BY <1>10, <1>11
<1> HIDE DEF u, v, c
<1> QED BY <1>8, <1>9, <1>12, <1>13, <1>14

(* A sum depends on the elements summed only, not on the set around them.  *)
LEMMA PartialWithin ==
  ASSUME NEW S, IsFiniteSet(S), NEW f, NEW g, NEW T \in SUBSET S,
         \A x \in S : f[x] \in Int, \A x \in T : g[x] = f[x]
  PROVE  \A s \in SUBSET T : Partial(g, T)[s] = Partial(f, S)[s]
<1> DEFINE P   == Partial(f, S)
           Q   == Partial(g, T)
           Bad == {n \in Nat : \E s \in SUBSET T : Cardinality(s) = n /\ Q[s] # P[s]}
<1> SUFFICES ASSUME NEW b \in SUBSET T, Q[b] # P[b]  PROVE FALSE
  OBVIOUS
<1>0. IsFiniteSet(T)
  BY FS_Subset
<1>1. Cardinality(b) \in Nat
  BY <1>0, FS_Subset, FS_CardinalityType
<1>2. Bad \subseteq Nat /\ Bad # {}
  BY <1>1
<1>3. PICK n \in Bad : \A m \in Bad : n <= m
  BY <1>2, LeastNumber
<1>4. PICK s \in SUBSET T : Cardinality(s) = n /\ Q[s] # P[s]
  OBVIOUS
<1>5. P[{}] = 0 /\ \A t \in SUBSET S : t # {} => P[t] = f[AnyOf(t)] + P[t \ {AnyOf(t)}]
  BY PartialSums
<1>6. Q[{}] = 0 /\ \A t \in SUBSET T : t # {} => Q[t] = g[AnyOf(t)] + Q[t \ {AnyOf(t)}]
  BY <1>0, PartialSums
<1>7. s # {}
  BY <1>4, <1>5, <1>6
<1> DEFINE x == AnyOf(s)
<1>8. x \in s /\ g[x] = f[x]
  BY <1>7, AnyOfMember
<1>9. s \ {x} \in SUBSET T /\ Cardinality(s \ {x}) = n - 1 /\ n \in Nat \ {0}
  BY <1>0, <1>4, <1>8, SmallerSubset
<1>10. Q[s \ {x}] = P[s \ {x}]
  <2>1. n - 1 \in Nat /\ ~(n <= n - 1)
    BY <1>9
  <2>2. ~(n - 1 \in Bad)
    <3> HIDE DEF Bad
    <3> QED BY <1>3, <2>1
  <2> QED BY <1>9, <2>1, <2>2
<1>11. P[s] = f[x] + P[s \ {x}] /\ Q[s] = g[x] + Q[s \ {x}]
  BY <1>5, <1>6, <1>7
<1> QED BY <1>4, <1>8, <1>10, <1>11

-----------------------------------------------------------------------------
(* Whole sums.                                                             *)
LEMMA SumType ==
  ASSUME NEW S, IsFiniteSet(S), NEW f, \A x \in S : f[x] \in Int
  PROVE  SumOf(f, S) \in Int
BY PartialSums, PartialType

(* The sum over no elements is zero.                                       *)
LEMMA SumEmpty == \A f : SumOf(f, {}) = 0
BY FS_EmptySet, PartialSums

(* Functions that agree on a set have one sum over it.                     *)
LEMMA SumEqual ==
  ASSUME NEW S, IsFiniteSet(S), NEW f, NEW g, \A x \in S : f[x] \in Int, \A x \in S : g[x] = f[x]
  PROVE  SumOf(g, S) = SumOf(f, S)
<1>1. Partial(g, S)[S] = Partial(f, S)[S]
  BY PartialWithin
<1> QED BY <1>1, PartialSums

(* A sum is one of its terms and the sum of the rest.                      *)
LEMMA SumSplit ==
  ASSUME NEW S, IsFiniteSet(S), NEW f, \A y \in S : f[y] \in Int, NEW x \in S
  PROVE  SumOf(f, S) = f[x] + SumOf(f, S \ {x}) /\ SumOf(f, S \ {x}) \in Int
<1>1. IsFiniteSet(S \ {x}) /\ S \ {x} \in SUBSET S
  BY FS_Subset
<1>2. SumOf(f, S) = Partial(f, S)[S] /\ SumOf(f, S \ {x}) = Partial(f, S \ {x})[S \ {x}]
  BY <1>1, PartialSums
<1>3. Partial(f, S)[S] = f[x] + Partial(f, S)[S \ {x}]
  BY PartialAny
<1>4. Partial(f, S \ {x})[S \ {x}] = Partial(f, S)[S \ {x}]
  BY <1>1, PartialWithin
<1>5. SumOf(f, S \ {x}) \in Int
  BY <1>1, SumType
<1> QED BY <1>2, <1>3, <1>4, <1>5

(* Induction over a finite set: what holds of {} and is kept by adding an  *)
(* element holds of the whole.                                             *)
LEMMA SetInduction ==
  ASSUME NEW S, IsFiniteSet(S), NEW P, P \subseteq SUBSET S, {} \in P,
         \A s \in P : \A x \in S \ s : s \cup {x} \in P
  PROVE  S \in P
<1> DEFINE Sizes == {n \in Nat : \E s \in P : Cardinality(S \ s) = n}
<1>1. \A s \in P : IsFiniteSet(S \ s) /\ Cardinality(S \ s) \in Nat
  BY FS_Subset, FS_CardinalityType
<1>2. Sizes \subseteq Nat /\ Sizes # {}
  BY <1>1
<1>3. PICK n \in Sizes : \A m \in Sizes : n <= m
  BY <1>2, LeastNumber
<1>4. PICK s \in P : Cardinality(S \ s) = n
  OBVIOUS
<1>5. s = S
  <2> SUFFICES ASSUME NEW x \in S \ s  PROVE FALSE
    OBVIOUS
  <2>1. s \cup {x} \in P /\ S \ (s \cup {x}) = (S \ s) \ {x}
    OBVIOUS
  <2>2. Cardinality((S \ s) \ {x}) = n - 1
    BY <1>1, <1>4, FS_RemoveElement
  <2>3. Cardinality(S \ (s \cup {x})) = n - 1 /\ n - 1 \in Nat
    BY <1>1, <2>1, <2>2
  <2>4. n - 1 \in Sizes
    BY <2>1, <2>3
  <2>5. ~(n <= n - 1)
    BY <1>2
  <2> HIDE DEF Sizes
  <2> QED BY <1>3, <2>4, <2>5
<1> QED BY <1>5

(* An element added to a set adds its term.                                *)
LEMMA SumInsert ==
  ASSUME NEW S, IsFiniteSet(S), NEW f, \A y \in S : f[y] \in Int, NEW s \in SUBSET S, NEW x \in S \ s
  PROVE  SumOf(f, s \cup {x}) = f[x] + SumOf(f, s) /\ SumOf(f, s) \in Int
<1>1. IsFiniteSet(s \cup {x}) /\ (s \cup {x}) \ {x} = s
  BY FS_Subset
<1> QED BY <1>1, SumSplit

(* The sum of sums, term by term.                                          *)
LEMMA SumAdds ==
  ASSUME NEW S, IsFiniteSet(S), NEW f, NEW g, NEW h,
         \A x \in S : f[x] \in Int /\ g[x] \in Int /\ h[x] = f[x] + g[x]
  PROVE  SumOf(h, S) = SumOf(f, S) + SumOf(g, S)
<1> DEFINE P == {s \in SUBSET S : SumOf(h, s) = SumOf(f, s) + SumOf(g, s)}
<1>1. {} \in P
  BY SumEmpty
<1>2. ASSUME NEW s \in P, NEW x \in S \ s  PROVE s \cup {x} \in P
  <2>1. /\ SumOf(f, s \cup {x}) = f[x] + SumOf(f, s) /\ SumOf(f, s) \in Int
        /\ SumOf(g, s \cup {x}) = g[x] + SumOf(g, s) /\ SumOf(g, s) \in Int
        /\ SumOf(h, s \cup {x}) = h[x] + SumOf(h, s)
    BY SumInsert
  <2> QED BY <2>1
<1>3. P \subseteq SUBSET S
  OBVIOUS
<1>4. S \in P
  <2> HIDE DEF P
  <2> QED BY <1>1, <1>2, <1>3, SetInduction
<1> QED BY <1>4

(* Zeros add up to zero.                                                   *)
LEMMA SumZero ==
  ASSUME NEW S, IsFiniteSet(S), NEW f, \A x \in S : f[x] = 0
  PROVE  SumOf(f, S) = 0
<1> DEFINE P == {s \in SUBSET S : SumOf(f, s) = 0}
<1>1. {} \in P
  BY SumEmpty
<1>2. ASSUME NEW s \in P, NEW x \in S \ s  PROVE s \cup {x} \in P
  <2>1. SumOf(f, s \cup {x}) = f[x] + SumOf(f, s)
    BY SumInsert
  <2> QED BY <2>1
<1>3. P \subseteq SUBSET S
  OBVIOUS
<1>4. S \in P
  <2> HIDE DEF P
  <2> QED BY <1>1, <1>2, <1>3, SetInduction
<1> QED BY <1>4

(* Larger terms add up to more.                                            *)
LEMMA SumMonotone ==
  ASSUME NEW S, IsFiniteSet(S), NEW f, NEW g,
         \A x \in S : f[x] \in Int /\ g[x] \in Int /\ f[x] <= g[x]
  PROVE  SumOf(f, S) <= SumOf(g, S)
<1> DEFINE P == {s \in SUBSET S : SumOf(f, s) <= SumOf(g, s)}
<1>1. {} \in P
  BY SumEmpty
<1>2. ASSUME NEW s \in P, NEW x \in S \ s  PROVE s \cup {x} \in P
  <2>1. /\ SumOf(f, s \cup {x}) = f[x] + SumOf(f, s) /\ SumOf(f, s) \in Int
        /\ SumOf(g, s \cup {x}) = g[x] + SumOf(g, s) /\ SumOf(g, s) \in Int
    BY SumInsert
  <2> QED BY <2>1
<1>3. P \subseteq SUBSET S
  OBVIOUS
<1>4. S \in P
  <2> HIDE DEF P
  <2> QED BY <1>1, <1>2, <1>3, SetInduction
<1> QED BY <1>4

(* What adds nothing may be left out.                                      *)
LEMMA SumOnSubset ==
  ASSUME NEW S, IsFiniteSet(S), NEW T \in SUBSET S, NEW f, \A x \in S : f[x] \in Int,
         \A x \in S \ T : f[x] = 0
  PROVE  SumOf(f, S) = SumOf(f, T)
<1> DEFINE P == {s \in SUBSET S : SumOf(f, s) = SumOf(f, s \cap T)}
<1>1. {} \in P
  <2>1. {} \cap T = {}
    OBVIOUS
  <2> QED BY <2>1
<1>2. ASSUME NEW s \in P, NEW x \in S \ s  PROVE s \cup {x} \in P
  <2>1. SumOf(f, s \cup {x}) = f[x] + SumOf(f, s) /\ SumOf(f, s) \in Int
    BY SumInsert
  <2>2. CASE x \in T
    <3>1. (s \cup {x}) \cap T = (s \cap T) \cup {x} /\ x \in S \ (s \cap T) /\ s \cap T \in SUBSET S
      BY <2>2
    <3>2. SumOf(f, (s \cap T) \cup {x}) = f[x] + SumOf(f, s \cap T)
      BY <3>1, SumInsert
    <3> QED BY <2>1, <3>1, <3>2
  <2>3. CASE x \notin T
    <3>1. (s \cup {x}) \cap T = s \cap T
      BY <2>3
    <3>2. f[x] = 0 /\ SumOf(f, s) = SumOf(f, s \cap T)
      BY <2>3
    <3>3. SumOf(f, s \cup {x}) = SumOf(f, s)
      BY <2>1, <3>2
    <3>4. s \cup {x} \in SUBSET S
      OBVIOUS
    <3> QED BY <3>1, <3>2, <3>3, <3>4
  <2> QED BY <2>2, <2>3
<1>3. P \subseteq SUBSET S /\ S \cap T = T
  OBVIOUS
<1>4. S \in P
  <2> HIDE DEF P
  <2> QED BY <1>1, <1>2, <1>3, SetInduction
<1> QED BY <1>3, <1>4

(* Natural numbers add up to one.                                          *)
LEMMA SumNat ==
  ASSUME NEW S, IsFiniteSet(S), NEW f, \A x \in S : f[x] \in Nat
  PROVE  SumOf(f, S) \in Nat
<1> DEFINE zero == [x \in S |-> 0]
<1>1. SumOf(zero, S) = 0
  BY SumZero
<1>2. SumOf(zero, S) <= SumOf(f, S)
  BY SumMonotone
<1>3. SumOf(f, S) \in Int
  BY SumType
<1> QED BY <1>1, <1>2, <1>3

(* SumFunction() of the community modules.                                 *)
LEMMA SumOfFunction == \A f : SumFunction(f) = SumOf(f, DOMAIN f)
BY DEF SumFunction, SumOf, SumFunctionOnSet, FoldFunction, FoldFunctionOnSet


(* Min of the community modules is the least of a set.                     *)
LEMMA MinIsLeast ==
  ASSUME NEW S, S \subseteq Nat, S # {}
  PROVE  Min(S) \in S /\ \A y \in S : Min(S) <= y
<1>1. \E x \in S : \A y \in S : x <= y
  BY LeastNumber
<1> QED BY <1>1 DEF Min

-----------------------------------------------------------------------------
(* The flow table.                                                         *)

LEMMA SumChanged ==
  ASSUME NEW S, IsFiniteSet(S), NEW f, NEW g, NEW j \in S, NEW d \in Int, \A x \in S : f[x] \in Int,
         g[j] = f[j] + d, \A x \in S \ {j} : g[x] = f[x]
  PROVE  SumOf(g, S) = SumOf(f, S) + d
<1>1. \A x \in S : g[x] \in Int
  OBVIOUS
<1>2. SumOf(f, S) = f[j] + SumOf(f, S \ {j}) /\ SumOf(f, S \ {j}) \in Int
  BY SumSplit
<1>3. SumOf(g, S) = g[j] + SumOf(g, S \ {j})
  BY <1>1, SumSplit
<1>4. IsFiniteSet(S \ {j}) /\ S \ {j} \subseteq S
  BY FS_Subset
<1>5. SumOf(g, S \ {j}) = SumOf(f, S \ {j})
  BY <1>4, SumEqual
<1> QED BY <1>2, <1>3, <1>5

(* A function extended by one element: its sum grows by that term.         *)
LEMMA SumExtended ==
  ASSUME NEW S, IsFiniteSet(S), NEW x, x \notin S, NEW f, NEW g, \A y \in S : f[y] \in Int, g[x] \in Int,
         \A y \in S : g[y] = f[y]
  PROVE  SumOf(g, S \cup {x}) = SumOf(f, S) + g[x]
<1>1. IsFiniteSet(S \cup {x}) /\ (S \cup {x}) \ {x} = S
  BY FS_AddElement
<1>2. \A y \in S \cup {x} : g[y] \in Int
  OBVIOUS
<1>3. SumOf(g, S \cup {x}) = g[x] + SumOf(g, S)
  BY <1>1, <1>2, SumSplit
<1>4. SumOf(g, S) = SumOf(f, S) /\ SumOf(f, S) \in Int
  BY SumEqual, SumType
<1> QED BY <1>3, <1>4

(* Products rise with a factor.                                            *)
LEMMA TimesMonotone == \A a, b, c \in Nat : a <= b => a * c <= b * c /\ a * c \in Nat /\ b * c \in Nat
<1> SUFFICES ASSUME NEW a \in Nat, NEW b \in Nat, NEW c \in Nat, a <= b
             PROVE  a * c <= b * c /\ a * c \in Nat /\ b * c \in Nat
  OBVIOUS
<1>1. PICK d \in Nat : b = a + d
  <2>1. b - a \in Nat /\ b = a + (b - a)
    OBVIOUS
  <2> QED BY <2>1
<1>2. b * c = a * c + d * c /\ d * c \in Nat /\ a * c \in Nat
  BY <1>1
<1> QED BY <1>2

(* A train of packets added to a flow.                                     *)
LEMMA TrainType ==
  ASSUME NEW t \in Trains
  PROVE  /\ t.n \in Nat \ {0} /\ t.len \in Nat /\ t.ts \in Nat /\ t.gap \in Nat /\ t.sport \in Nat /\ t.dport \in Nat
         /\ t.n * t.len \in Nat /\ EndOf(t) \in Nat /\ t.ts <= EndOf(t)
<1>1. t.n \in Nat \ {0} /\ t.len \in Nat /\ t.ts \in Nat /\ t.gap \in Nat /\ t.sport \in Nat /\ t.dport \in Nat
  BY FlowAssumption
<1>2. t.n - 1 \in Nat
  BY <1>1
<1>3. t.n * t.len \in Nat /\ (t.n - 1) * t.gap \in Nat
  BY <1>1, <1>2, TimesMonotone
<1> QED BY <1>1, <1>3 DEF EndOf

(* A train adds to the totals of its flow and leaves its key alone.        *)
LEMMA AddedFields ==
  ASSUME NEW f \in FlowRecord, NEW t \in Trains
  PROVE  /\ Added(f, t) \in FlowRecord /\ Key(Added(f, t)) = Key(f)
         /\ Added(f, t).src = f.src /\ Added(f, t).dst = f.dst /\ Added(f, t).dport = f.dport /\ Added(f, t).sport = f.sport
         /\ Added(f, t).count = f.count + t.n /\ Added(f, t).bytes = f.bytes + t.n * t.len
         /\ Added(f, t).first = f.first /\ Added(f, t).last = EndOf(t)
         /\ Added(f, t).samples > 0
         /\ f.sampled <= f.bytes => Added(f, t).sampled <= Added(f, t).bytes
<1> DEFINE kept == Smaller(t.n, MAX_FLOW_SAMPLES - f.samples)
           e    == EndOf(t)
           more == t.n * t.len
           some == kept * t.len
<1>1. /\ f.src \in {u.src : u \in Trains} /\ f.dst \in {u.dst : u \in Trains} /\ f.sport \in Nat /\ f.dport \in Nat
      /\ f.proto \in {u.proto : u \in Trains} /\ f.count \in Nat /\ f.bytes \in Nat /\ f.samples \in 0..MAX_FLOW_SAMPLES
      /\ f.sampled \in Nat /\ f.first \in Nat /\ f.last \in Nat
  BY DEF FlowRecord
<1>2. MAX_FLOW_SAMPLES \in Nat \ {0} /\ t.n \in Nat \ {0} /\ t.len \in Nat /\ e \in Nat /\ more \in Nat
  BY FlowAssumption, TrainType
<1>3. /\ kept \in Nat /\ kept <= t.n /\ f.samples + kept \in 0..MAX_FLOW_SAMPLES
      /\ f.samples + kept > 0
  BY <1>1, <1>2 DEF Smaller
<1>4. some \in Nat /\ some <= more
  BY <1>2, <1>3, TimesMonotone
<1>5. Added(f, t) = [f EXCEPT !.count = @ + t.n, !.bytes = @ + more, !.last = e, !.samples = @ + kept, !.sampled = @ + some]
  BY DEF Added
<1> HIDE DEF kept, e, more, some
<1>6. DOMAIN f = {"src", "dst", "sport", "dport", "proto", "count", "bytes", "samples", "sampled", "first", "last"}
  BY DEF FlowRecord
<1> DEFINE g == Added(f, t)
<1>7. /\ g.count = f.count + t.n /\ g.bytes = f.bytes + more /\ g.last = e
      /\ g.samples = f.samples + kept /\ g.sampled = f.sampled + some
      /\ g.src = f.src /\ g.dst = f.dst /\ g.sport = f.sport /\ g.dport = f.dport /\ g.proto = f.proto /\ g.first = f.first
  BY <1>5, <1>6
<1>8. g = [src |-> f.src, dst |-> f.dst, sport |-> f.sport, dport |-> f.dport, proto |-> f.proto,
           count |-> f.count + t.n, bytes |-> f.bytes + more, samples |-> f.samples + kept, sampled |-> f.sampled + some,
           first |-> f.first, last |-> e]
  <2>1. f = [src |-> f.src, dst |-> f.dst, sport |-> f.sport, dport |-> f.dport, proto |-> f.proto,
             count |-> f.count, bytes |-> f.bytes, samples |-> f.samples, sampled |-> f.sampled,
             first |-> f.first, last |-> f.last]
    BY DEF FlowRecord
  <2> QED BY <1>5, <2>1
<1>9. f.count + t.n \in Nat /\ f.bytes + more \in Nat /\ f.sampled + some \in Nat
  BY <1>1, <1>2, <1>4
<1>10. g \in FlowRecord
  BY <1>1, <1>2, <1>3, <1>8, <1>9 DEF FlowRecord
<1>11. Key(g) = Key(f)
  BY <1>7 DEF Key
<1>12. g.samples > 0 /\ (f.sampled <= f.bytes => g.sampled <= g.bytes)
  BY <1>1, <1>2, <1>3, <1>4, <1>7
<1> QED BY <1>7, <1>10, <1>11, <1>12 DEF e, more

(* A new flow has the key of its train and totals of zero.                 *)
LEMMA NewFields ==
  ASSUME NEW t \in Trains
  PROVE  /\ NewFlow(t) \in FlowRecord /\ Key(NewFlow(t)) = Key(t)
         /\ NewFlow(t).count = 0 /\ NewFlow(t).bytes = 0 /\ NewFlow(t).sampled = 0 /\ NewFlow(t).first = t.ts
<1>1. t.ts \in Nat /\ t.sport \in Nat /\ t.dport \in Nat /\ 0 \in 0..MAX_FLOW_SAMPLES
  BY TrainType, FlowAssumption
<1>2. NewFlow(t) \in FlowRecord
  BY <1>1 DEF NewFlow, FlowRecord
<1> QED BY <1>2 DEF NewFlow, Key

(* Trains of a flow, and the flows of some conversations.                  *)
Keys    == {Key(t) : t \in Trains}
On(K)   == {k \in Addressed : Key(wire[k]) \in K}
Held(K) == {i \in DOMAIN flows : Key(flows[i]) \in K}
Trained(i) == {k \in Addressed : Key(wire[k]) = Key(flows[i])}

(* What is known of the flow table: one flow for each conversation, in the *)
(* order in which they began, with its first and its last moment, and      *)
(* totals that agree with the wire for any set of conversations.           *)
OneEach     == \A i, j \in DOMAIN flows : Key(flows[i]) = Key(flows[j]) => i = j
AllHeld     == \A k \in Addressed : \E i \in DOMAIN flows : Key(flows[i]) = Key(wire[k])
SampledLess == \A i \in DOMAIN flows : flows[i].samples > 0 /\ flows[i].sampled <= flows[i].bytes
Begun       == \A i \in DOMAIN flows : \E k \in Trained(i) : flows[i].first = wire[k].ts /\ \A m \in Trained(i) : k <= m
Ended       == \A i \in DOMAIN flows : \E k \in Trained(i) : flows[i].last = EndOf(wire[k]) /\ \A m \in Trained(i) : m <= k
InOrder     == \A i, j \in DOMAIN flows : i < j => \A k \in Trained(j) : \E m \in Trained(i) : m < k
Balanced    == \A K \in SUBSET Keys :
                 /\ SumFunction([i \in Held(K) |-> flows[i].count]) = Packets(On(K))
                 /\ SumFunction([i \in Held(K) |-> flows[i].bytes]) = Bytes(On(K))

FlowInv == FlowTypeOK /\ OneEach /\ AllHeld /\ SampledLess /\ Begun /\ Ended /\ InOrder /\ Balanced

(* The empty table is the one of the empty wire.                           *)
LEMMA FlowStart == FlowInit => FlowInv
<1> SUFFICES ASSUME FlowInit PROVE FlowInv
  OBVIOUS
<1>1. wire = <<>> /\ flows = <<>>
  BY DEF FlowInit
<1>2. DOMAIN flows = {} /\ Addressed = {} /\ wire \in Seq(Trains) /\ flows \in Seq(FlowRecord) /\ Len(wire) = 0
  BY <1>1 DEF Addressed
<1>3. FlowTypeOK
  BY <1>2, FlowAssumption DEF FlowTypeOK
<1>4. OneEach /\ AllHeld /\ SampledLess /\ Begun /\ Ended /\ InOrder
  BY <1>2 DEF OneEach, AllHeld, SampledLess, Begun, Ended, InOrder
<1>5. ASSUME NEW K
      PROVE  /\ SumFunction([i \in Held(K) |-> flows[i].count]) = Packets(On(K))
             /\ SumFunction([i \in Held(K) |-> flows[i].bytes]) = Bytes(On(K))
  <2>1. Held(K) = {} /\ On(K) = {}
    BY <1>2 DEF Held, On
  <2>2. \A f : DOMAIN f = {} => SumFunction(f) = 0
    BY SumOfFunction, SumEmpty
  <2> QED BY <2>1, <2>2 DEF Packets, Bytes
<1> QED BY <1>3, <1>4, <1>5 DEF FlowInv, Balanced

(* The wire after a train.                                                 *)
LEMMA WireGrows ==
  ASSUME FlowTypeOK, NEW t \in Trains, wire' = Append(wire, t)
  PROVE  /\ Len(wire) \in Nat /\ DOMAIN wire = 1..Len(wire) /\ Len(wire)' = Len(wire) + 1
         /\ wire' \in Seq(Trains)
         /\ DOMAIN wire' = 1..(Len(wire) + 1) /\ wire'[Len(wire) + 1] = t
         /\ \A k \in DOMAIN wire : wire'[k] = wire[k] /\ wire[k] \in Trains /\ k < Len(wire) + 1
         /\ Addressed \subseteq DOMAIN wire
         /\ IsFiniteSet(Addressed)
         /\ Addressed' = IF HasAddresses(t) THEN Addressed \cup {Len(wire) + 1} ELSE Addressed
<1>1. wire \in Seq(Trains)
  BY DEF FlowTypeOK
<1>2. Len(wire) \in Nat /\ DOMAIN wire = 1..Len(wire) /\ \A k \in 1..Len(wire) : wire[k] \in Trains
  BY <1>1
<1>3. /\ wire' \in Seq(Trains) /\ Len(wire') = Len(wire) + 1 /\ wire'[Len(wire) + 1] = t
      /\ \A k \in 1..Len(wire) : wire'[k] = wire[k]
  BY <1>1
<1>4. DOMAIN wire' = 1..(Len(wire) + 1)
  BY <1>3
<1>5. Addressed \subseteq DOMAIN wire /\ IsFiniteSet(1..Len(wire))
  BY <1>2, FS_Interval DEF Addressed
<1>6. IsFiniteSet(Addressed)
  BY <1>2, <1>5, FS_Subset
<1>7. Addressed' = {k \in 1..(Len(wire) + 1) : HasAddresses(wire'[k])}
  BY <1>4 DEF Addressed, HasAddresses
<1>8. 1..(Len(wire) + 1) = 1..Len(wire) \cup {Len(wire) + 1}
  BY <1>2
<1>9. Addressed = {k \in 1..Len(wire) : HasAddresses(wire[k])}
  BY <1>2 DEF Addressed
<1>10. Addressed' = IF HasAddresses(t) THEN Addressed \cup {Len(wire) + 1} ELSE Addressed
  BY <1>3, <1>7, <1>8, <1>9 DEF HasAddresses
<1> QED BY <1>1, <1>2, <1>3, <1>4, <1>5, <1>6, <1>10

(* The totals of the wire after a train.                                   *)
LEMMA WireTotals ==
  ASSUME FlowTypeOK, NEW t \in Trains, wire' = Append(wire, t), HasAddresses(t), NEW K
  PROVE  /\ On(K)' = IF Key(t) \in K THEN On(K) \cup {Len(wire) + 1} ELSE On(K)
         /\ Packets(On(K))' = IF Key(t) \in K THEN Packets(On(K)) + t.n ELSE Packets(On(K))
         /\ Bytes(On(K))' = IF Key(t) \in K THEN Bytes(On(K)) + t.n * t.len ELSE Bytes(On(K))
         /\ Packets(On(K)) \in Int /\ Bytes(On(K)) \in Int
<1> DEFINE n == Len(wire)
           A == On(K)
           B == On(K)'
<1>1. /\ n \in Nat /\ wire'[n + 1] = t /\ \A k \in Addressed : wire'[k] = wire[k] /\ wire[k] \in Trains /\ k # n + 1
      /\ IsFiniteSet(Addressed) /\ Addressed' = Addressed \cup {n + 1}
  BY WireGrows
<1>2. B = {k \in Addressed' : Key(wire'[k]) \in K}
  BY DEF On, Key
<1>3. Key(wire'[n + 1]) = Key(t) /\ \A k \in Addressed : Key(wire'[k]) = Key(wire[k])
  BY <1>1 DEF Key
<1>4. B = IF Key(t) \in K THEN A \cup {n + 1} ELSE A
  BY <1>1, <1>2, <1>3 DEF On
<1>5. A \subseteq Addressed /\ IsFiniteSet(A) /\ n + 1 \notin A
  BY <1>1, FS_Subset DEF On
<1> DEFINE p == [k \in A |-> wire[k].n]
           q == [k \in B |-> wire'[k].n]
           v == [k \in A |-> wire[k].n * wire[k].len]
           w == [k \in B |-> wire'[k].n * wire'[k].len]
<1>6. Packets(On(K)) = SumOf(p, A) /\ Packets(On(K))' = SumOf(q, B) /\ Bytes(On(K)) = SumOf(v, A) /\ Bytes(On(K))' = SumOf(w, B)
  BY SumOfFunction DEF Packets, Bytes
<1>7. \A k \in A : p[k] \in Int /\ v[k] \in Int
  BY <1>1, <1>5, TrainType
<1>8. A \subseteq B /\ \A k \in A : q[k] = p[k] /\ w[k] = v[k]
  BY <1>1, <1>4, <1>5
<1>9. n + 1 \in B => q[n + 1] = t.n /\ w[n + 1] = t.n * t.len /\ t.n \in Int /\ t.n * t.len \in Int
  BY <1>1, TrainType
<1> HIDE DEF p, q, v, w, A, B
<1>10. SumOf(p, A) \in Int /\ SumOf(v, A) \in Int
  BY <1>5, <1>7, SumType
<1>11. CASE Key(t) \in K
  <2>1. B = A \cup {n + 1}
    BY <1>4, <1>11
  <2>a. q[n + 1] \in Int /\ w[n + 1] \in Int
    BY <1>9, <2>1
  <2>2. SumOf(q, A \cup {n + 1}) = SumOf(p, A) + q[n + 1]
    <3> HIDE DEF n
    <3> QED BY <1>5, <1>7, <1>8, <2>a, SumExtended
  <2>3. SumOf(w, A \cup {n + 1}) = SumOf(v, A) + w[n + 1]
    <3> HIDE DEF n
    <3> QED BY <1>5, <1>7, <1>8, <2>a, SumExtended
  <2> QED BY <1>6, <1>9, <1>10, <1>11, <2>1, <2>2, <2>3 DEF A, B
<1>12. CASE Key(t) \notin K
  <2>1. B = A
    BY <1>4, <1>12
  <2>2. SumOf(q, A) = SumOf(p, A) /\ SumOf(w, A) = SumOf(v, A)
    BY <1>5, <1>7, <1>8, SumEqual
  <2> QED BY <1>6, <1>10, <1>12, <2>1, <2>2 DEF A, B
<1> QED BY <1>11, <1>12

(* The table after a train with addresses: the flow at place j took it.    *)
Took(t, j) ==
  /\ flows' \in Seq(FlowRecord)
  /\ DOMAIN flows' = DOMAIN flows \cup {j}
  /\ \A i \in DOMAIN flows \ {j} : flows'[i] = flows[i]
  /\ Key(flows'[j]) = Key(t) /\ flows'[j].last = EndOf(t) /\ flows'[j].samples > 0
  /\ j \in DOMAIN flows =>
       /\ Key(flows[j]) = Key(t) /\ flows'[j].first = flows[j].first
       /\ flows'[j].count = flows[j].count + t.n /\ flows'[j].bytes = flows[j].bytes + t.n * t.len
       /\ flows[j].sampled <= flows[j].bytes => flows'[j].sampled <= flows'[j].bytes
  /\ j \notin DOMAIN flows =>
       /\ j = Len(flows) + 1 /\ \A i \in DOMAIN flows : Key(flows[i]) # Key(t)
       /\ flows'[j].first = t.ts /\ flows'[j].count = t.n /\ flows'[j].bytes = t.n * t.len
       /\ flows'[j].sampled <= flows'[j].bytes

(* A train with addresses goes to exactly one flow, which may be new.      *)
LEMMA TakesTrain ==
  ASSUME FlowTypeOK, OneEach, NEW t \in Trains, ReadTrain(t), HasAddresses(t)
  PROVE  \E j \in Nat : Took(t, j)
<1> DEFINE n == Len(flows)
<1>1. flows \in Seq(FlowRecord) /\ n \in Nat /\ DOMAIN flows = 1..n /\ \A i \in 1..n : flows[i] \in FlowRecord
  BY DEF FlowTypeOK
<1>2. CASE Index(t) = {}
  <2> DEFINE g == Added(NewFlow(t), t)
  <2>1. flows' = Append(flows, g)
    BY <1>2 DEF ReadTrain
  <2>2. NewFlow(t) \in FlowRecord /\ Key(NewFlow(t)) = Key(t) /\ NewFlow(t).count = 0 /\ NewFlow(t).bytes = 0
        /\ NewFlow(t).sampled = 0 /\ NewFlow(t).first = t.ts
    BY NewFields
  <2>3. /\ g \in FlowRecord /\ Key(g) = Key(t) /\ g.count = 0 + t.n /\ g.bytes = 0 + t.n * t.len
        /\ g.first = t.ts /\ g.last = EndOf(t) /\ g.samples > 0 /\ g.sampled <= g.bytes
    BY <2>2, AddedFields
  <2>4. t.n \in Nat /\ t.n * t.len \in Nat
    BY TrainType
  <2>5. \A i \in DOMAIN flows : Key(flows[i]) # Key(t)
    BY <1>2 DEF Index
  <2> HIDE DEF g
  <2>6. /\ flows' \in Seq(FlowRecord) /\ DOMAIN flows' = 1..n \cup {n + 1} /\ flows'[n + 1] = g
        /\ \A i \in 1..n : flows'[i] = flows[i]
    <3>1. flows' \in Seq(FlowRecord) /\ Len(flows') = n + 1 /\ flows'[n + 1] = g /\ \A i \in 1..n : flows'[i] = flows[i]
      BY <1>1, <2>1, <2>3
    <3>2. DOMAIN flows' = 1..(n + 1)
      BY <3>1
    <3> QED BY <1>1, <3>1, <3>2
  <2>7. n + 1 \notin DOMAIN flows /\ n + 1 \in Nat
    BY <1>1
  <2> QED BY <1>1, <2>3, <2>4, <2>5, <2>6, <2>7 DEF Took
<1>3. CASE Index(t) # {}
  <2>1. PICK j \in DOMAIN flows : Key(flows[j]) = Key(t)
    BY <1>3 DEF Index
  <2>2. Index(t) = {j}
    BY <2>1 DEF Index, OneEach
  <2> DEFINE g == Added(flows[j], t)
  <2>3. flows' = [i \in 1..n |-> IF i = j THEN g ELSE flows[i]]
    BY <1>1, <1>3, <2>2 DEF ReadTrain
  <2>4. /\ g \in FlowRecord /\ Key(g) = Key(t) /\ g.count = flows[j].count + t.n /\ g.bytes = flows[j].bytes + t.n * t.len
        /\ g.first = flows[j].first /\ g.last = EndOf(t) /\ g.samples > 0
        /\ flows[j].sampled <= flows[j].bytes => g.sampled <= g.bytes
    BY <1>1, <2>1, AddedFields
  <2> HIDE DEF g
  <2>5. flows' \in Seq(FlowRecord) /\ DOMAIN flows' = 1..n /\ flows'[j] = g /\ \A i \in 1..n \ {j} : flows'[i] = flows[i]
    <3>1. \A i \in 1..n : (IF i = j THEN g ELSE flows[i]) \in FlowRecord
      BY <1>1, <2>4
    <3> QED BY <1>1, <2>1, <2>3, <3>1
  <2>6. j \in Nat
    BY <1>1, <2>1
  <2> QED BY <1>1, <2>1, <2>4, <2>5, <2>6 DEF Took
<1> QED BY <1>2, <1>3

(* The totals of the table then.                                           *)
LEMMA TableTotals ==
  ASSUME FlowTypeOK, NEW t \in Trains, NEW j \in Nat, Took(t, j), NEW K
  PROVE  LET counts == SumFunction([i \in Held(K) |-> flows[i].count])
             bytes  == SumFunction([i \in Held(K) |-> flows[i].bytes])
         IN  /\ SumFunction([i \in Held(K) |-> flows[i].count])' = IF Key(t) \in K THEN counts + t.n ELSE counts
             /\ SumFunction([i \in Held(K) |-> flows[i].bytes])' = IF Key(t) \in K THEN bytes + t.n * t.len ELSE bytes
<1> DEFINE A == Held(K)
           B == Held(K)'
           p == [i \in A |-> flows[i].count]
           q == [i \in B |-> flows'[i].count]
           v == [i \in A |-> flows[i].bytes]
           w == [i \in B |-> flows'[i].bytes]
<1>1. DOMAIN flows = 1..Len(flows) /\ Len(flows) \in Nat /\ \A i \in DOMAIN flows : flows[i] \in FlowRecord
  BY DEF FlowTypeOK
<1>2. \A i \in DOMAIN flows : flows[i].count \in Int /\ flows[i].bytes \in Int
  BY <1>1 DEF FlowRecord
<1>3. A \subseteq DOMAIN flows /\ IsFiniteSet(A)
  <2>1. A \subseteq 1..Len(flows) /\ IsFiniteSet(1..Len(flows))
    BY <1>1, FS_Interval DEF Held
  <2> QED BY <1>1, <2>1, FS_Subset
<1>4. B = {i \in DOMAIN flows' : Key(flows'[i]) \in K}
  BY DEF Held, Key
<1>5. t.n \in Int /\ t.n * t.len \in Int
  BY TrainType
<1>6. \A i \in DOMAIN flows : Key(flows'[i]) = Key(flows[i])
  BY DEF Took
<1>7. Key(t) \in K => B = A \cup {j} /\ (j \in A <=> j \in DOMAIN flows)
  BY <1>4, <1>6 DEF Held, Took
<1>8. Key(t) \notin K => B = A /\ j \notin A
  BY <1>4, <1>6 DEF Held, Took
<1>9. \A i \in A \ {j} : i \in B /\ q[i] = p[i] /\ w[i] = v[i]
  BY <1>3, <1>7, <1>8 DEF Took
<1>10. \A i \in A : p[i] \in Int /\ v[i] \in Int
  BY <1>2, <1>3
<1>11. j \in A => j \in B /\ q[j] = p[j] + t.n /\ w[j] = v[j] + t.n * t.len
  BY <1>3, <1>7, <1>8 DEF Took
<1>12. j \in B /\ j \notin A => q[j] = t.n /\ w[j] = t.n * t.len
  BY <1>7, <1>8 DEF Took
<1>13. SumFunction(p) = SumOf(p, A) /\ SumFunction(q) = SumOf(q, B) /\ SumFunction(v) = SumOf(v, A) /\ SumFunction(w) = SumOf(w, B)
  BY SumOfFunction
<1> HIDE DEF p, q, v, w, A, B
<1>14. SumOf(p, A) \in Int /\ SumOf(v, A) \in Int
  BY <1>3, <1>10, SumType
<1>15. SumOf(q, B) = IF Key(t) \in K THEN SumOf(p, A) + t.n ELSE SumOf(p, A)
  <2>1. CASE Key(t) \notin K
    <3>1. SumOf(q, A) = SumOf(p, A)
      BY <1>3, <1>8, <1>9, <1>10, <2>1, SumEqual
    <3> QED BY <1>8, <2>1, <3>1
  <2>2. CASE Key(t) \in K /\ j \in A
    <3>1. SumOf(q, A) = SumOf(p, A) + t.n
      BY <1>3, <1>5, <1>9, <1>10, <1>11, <2>2, SumChanged
    <3> QED BY <1>7, <2>2, <3>1
  <2>3. CASE Key(t) \in K /\ j \notin A
    <3>1. q[j] = t.n
      BY <1>7, <1>12, <2>3
    <3>2. q[j] \in Int /\ \A i \in A : q[i] = p[i]
      BY <1>5, <1>9, <2>3, <3>1
    <3>3. SumOf(q, A \cup {j}) = SumOf(p, A) + q[j]
      BY <1>3, <1>10, <2>3, <3>2, SumExtended
    <3> QED BY <1>7, <2>3, <3>1, <3>3
  <2> QED BY <2>1, <2>2, <2>3
<1>16. SumOf(w, B) = IF Key(t) \in K THEN SumOf(v, A) + t.n * t.len ELSE SumOf(v, A)
  <2>1. CASE Key(t) \notin K
    <3>1. SumOf(w, A) = SumOf(v, A)
      BY <1>3, <1>8, <1>9, <1>10, <2>1, SumEqual
    <3> QED BY <1>8, <2>1, <3>1
  <2>2. CASE Key(t) \in K /\ j \in A
    <3>1. SumOf(w, A) = SumOf(v, A) + t.n * t.len
      BY <1>3, <1>5, <1>9, <1>10, <1>11, <2>2, SumChanged
    <3> QED BY <1>7, <2>2, <3>1
  <2>3. CASE Key(t) \in K /\ j \notin A
    <3>1. w[j] = t.n * t.len
      BY <1>7, <1>12, <2>3
    <3>2. w[j] \in Int /\ \A i \in A : w[i] = v[i]
      BY <1>5, <1>9, <2>3, <3>1
    <3>3. SumOf(w, A \cup {j}) = SumOf(v, A) + w[j]
      BY <1>3, <1>10, <2>3, <3>2, SumExtended
    <3> QED BY <1>7, <2>3, <3>1, <3>3
  <2> QED BY <2>1, <2>2, <2>3
<1> QED BY <1>13, <1>15, <1>16 DEF p, q, v, w, A, B

(* The trains of each flow then.                                           *)
LEMMA TrainedThen ==
  ASSUME FlowInv, NEW t \in Trains, wire' = Append(wire, t), HasAddresses(t), NEW j \in Nat, Took(t, j)
  PROVE  /\ OneEach' /\ AllHeld'
         /\ Trained(j)' = (IF j \in DOMAIN flows THEN Trained(j) ELSE {}) \cup {Len(wire) + 1}
         /\ \A i \in DOMAIN flows \ {j} : Trained(i)' = Trained(i)
<1> DEFINE n == Len(wire) + 1
<1>1. /\ n \in Nat /\ wire'[n] = t /\ Addressed' = Addressed \cup {n}
      /\ \A k \in Addressed : wire'[k] = wire[k] /\ k # n
  BY WireGrows DEF FlowInv
<1>2. Key(wire'[n]) = Key(t) /\ \A k \in Addressed : Key(wire'[k]) = Key(wire[k])
  BY <1>1 DEF Key
<1>3. \A i \in DOMAIN flows \ {j} : Key(flows'[i]) = Key(flows[i]) /\ Key(flows[i]) # Key(t)
  BY DEF Took, FlowInv, OneEach
<1>4. \A i \in DOMAIN flows' : i = j \/ i \in DOMAIN flows \ {j}
  BY DEF Took
<1>5. Key(flows'[j]) = Key(t) /\ j \in DOMAIN flows' /\ DOMAIN flows \subseteq DOMAIN flows'
  BY DEF Took
<1>6. OneEach'
  <2> SUFFICES ASSUME NEW i \in DOMAIN flows', NEW l \in DOMAIN flows', Key(flows'[i]) = Key(flows'[l])  PROVE i = l
    BY DEF OneEach, Key
  <2> QED BY <1>3, <1>4, <1>5 DEF FlowInv, OneEach
<1>7. AllHeld'
  <2> SUFFICES ASSUME NEW k \in Addressed'  PROVE \E i \in DOMAIN flows' : Key(flows'[i]) = Key(wire'[k])
    BY DEF AllHeld, Key
  <2>1. CASE k = n
    BY <1>2, <1>5, <2>1
  <2>2. CASE k \in Addressed
    <3>1. PICK i \in DOMAIN flows : Key(flows[i]) = Key(wire[k])
      BY <2>2 DEF FlowInv, AllHeld
    <3>2. Key(flows'[i]) = Key(flows[i])
      BY <1>3, <1>5 DEF Took
    <3> QED BY <1>2, <1>5, <2>2, <3>1, <3>2
  <2> QED BY <1>1, <2>1, <2>2
<1>8. \A i : Trained(i)' = {k \in Addressed' : Key(wire'[k]) = Key(flows'[i])}
  BY DEF Trained, Key
<1>9. \A i \in DOMAIN flows \ {j} : Trained(i)' = Trained(i)
  <2> SUFFICES ASSUME NEW i \in DOMAIN flows \ {j}  PROVE Trained(i)' = Trained(i)
    OBVIOUS
  <2>1. Key(flows'[i]) = Key(flows[i]) /\ Key(flows[i]) # Key(t)
    BY <1>3
  <2>2. \A k \in Addressed' : Key(wire'[k]) = Key(flows'[i]) <=> k \in Addressed /\ Key(wire[k]) = Key(flows[i])
    BY <1>1, <1>2, <2>1
  <2>3. Addressed \subseteq Addressed'
    BY <1>1
  <2> HIDE DEF n
  <2> QED BY <1>8, <2>2, <2>3 DEF Trained
<1>10. CASE j \in DOMAIN flows
  <2>1. Key(flows[j]) = Key(t)
    BY <1>10 DEF Took
  <2>2. Trained(j)' = Trained(j) \cup {n}
    BY <1>1, <1>2, <1>5, <1>8, <2>1 DEF Trained
  <2> QED BY <1>6, <1>7, <1>9, <1>10, <2>2
<1>11. CASE j \notin DOMAIN flows
  <2>1. \A k \in Addressed : Key(wire[k]) # Key(t)
    BY <1>11 DEF Took, FlowInv, AllHeld
  <2>2. Trained(j)' = {n}
    BY <1>1, <1>2, <1>5, <1>8, <2>1
  <2> QED BY <1>6, <1>7, <1>9, <1>11, <2>2
<1> QED BY <1>10, <1>11

(* Such a train keeps the invariant of the table.                          *)
LEMMA FlowTakes ==
  ASSUME FlowInv, NEW t \in Trains, ReadTrain(t), HasAddresses(t)
  PROVE  FlowInv'
<1> DEFINE n == Len(wire) + 1
<1>1. wire' = Append(wire, t) /\ Len(wire) < MaxTrains
  BY DEF ReadTrain
<1>2. PICK j \in Nat : Took(t, j)
  BY TakesTrain DEF FlowInv
<1>3. /\ n \in Nat /\ wire'[n] = t /\ n \in Addressed'
      /\ Len(wire') = n /\ MaxTrains \in Nat /\ wire' \in Seq(Trains)
      /\ \A k \in Addressed : wire'[k] = wire[k] /\ k < n /\ k \in Nat /\ wire[k] \in Trains
  BY <1>1, WireGrows, FlowAssumption DEF FlowInv, FlowTypeOK
<1>4. FlowTypeOK'
  <2>1. Len(wire') <= MaxTrains
    BY <1>1, <1>3
  <2> QED BY <1>2, <1>3, <2>1 DEF FlowTypeOK, Took
<1>5. /\ OneEach' /\ AllHeld'
      /\ Trained(j)' = (IF j \in DOMAIN flows THEN Trained(j) ELSE {}) \cup {n}
      /\ \A i \in DOMAIN flows \ {j} : Trained(i)' = Trained(i)
  BY <1>1, <1>2, TrainedThen
<1>6. \A i \in DOMAIN flows' : i = j \/ (i \in DOMAIN flows /\ i # j /\ flows'[i] = flows[i])
  BY <1>2 DEF Took
<1>7. SampledLess'
  BY <1>2, <1>6 DEF SampledLess, FlowInv, Took
<1>a. \A i \in DOMAIN flows : Trained(i) \subseteq Addressed
  BY DEF Trained
<1>8. Begun'
  <2> SUFFICES ASSUME NEW i \in DOMAIN flows'
               PROVE  \E k \in Trained(i)' : flows'[i].first = wire'[k].ts /\ \A m \in Trained(i)' : k <= m
    BY DEF Begun
  <2>1. CASE i \in DOMAIN flows
    <3>1. PICK k \in Trained(i) : flows[i].first = wire[k].ts /\ \A m \in Trained(i) : k <= m
      BY <2>1 DEF FlowInv, Begun
    <3>2. flows'[i].first = flows[i].first /\ k \in Trained(i)' /\ wire'[k] = wire[k]
      BY <1>2, <1>3, <1>5, <1>6, <1>a, <2>1, <3>1 DEF Took
    <3>3. \A m \in Trained(i)' : m \in Trained(i) \/ m = n
      BY <1>5, <1>6, <2>1
    <3> QED BY <1>3, <1>a, <2>1, <3>1, <3>2, <3>3
  <2>2. CASE i \notin DOMAIN flows
    <3>1. i = j /\ Trained(i)' = {n} /\ flows'[i].first = t.ts
      BY <1>2, <1>5, <1>6, <2>2 DEF Took
    <3> QED BY <1>3, <3>1
  <2> QED BY <2>1, <2>2
<1>9. Ended'
  <2> SUFFICES ASSUME NEW i \in DOMAIN flows'
               PROVE  \E k \in Trained(i)' : flows'[i].last = EndOf(wire'[k]) /\ \A m \in Trained(i)' : m <= k
    BY DEF Ended, EndOf
  <2>1. CASE i = j
    <3>1. n \in Trained(i)' /\ flows'[i].last = EndOf(wire'[n])
      BY <1>2, <1>3, <1>5, <2>1 DEF Took
    <3>2. \A m \in Trained(i)' : m = n \/ (m \in Trained(j) /\ j \in DOMAIN flows)
      BY <1>5, <2>1
    <3>3. \A m \in Trained(i)' : m <= n
      BY <1>3, <1>a, <3>2
    <3> QED BY <3>1, <3>3
  <2>2. CASE i # j
    <3>1. i \in DOMAIN flows /\ flows'[i] = flows[i] /\ Trained(i)' = Trained(i)
      BY <1>5, <1>6, <2>2
    <3>2. PICK k \in Trained(i) : flows[i].last = EndOf(wire[k]) /\ \A m \in Trained(i) : m <= k
      BY <3>1 DEF FlowInv, Ended
    <3>3. wire'[k] = wire[k]
      BY <1>3, <1>a, <3>1, <3>2
    <3> QED BY <3>1, <3>2, <3>3
  <2> QED BY <2>1, <2>2
<1>10. InOrder'
  <2> SUFFICES ASSUME NEW i \in DOMAIN flows', NEW l \in DOMAIN flows', i < l, NEW k \in Trained(l)'
               PROVE  \E m \in Trained(i)' : m < k
    BY DEF InOrder
  <2>0. DOMAIN flows = 1..Len(flows) /\ Len(flows) \in Nat
    BY DEF FlowInv, FlowTypeOK
  <2>1. i \in DOMAIN flows
    BY <1>2, <1>6, <2>0 DEF Took
  <2>2. \A m \in Trained(i) : m \in Trained(i)'
    BY <1>5, <2>1
  <2>3. CASE k = n
    <3>1. PICK m \in Trained(i) : TRUE
      BY <2>1 DEF FlowInv, Begun
    <3> QED BY <1>3, <1>a, <2>1, <2>2, <2>3, <3>1
  <2>4. CASE k # n
    <3>1. l \in DOMAIN flows /\ k \in Trained(l)
      BY <1>5, <1>6, <2>4
    <3> QED BY <2>1, <2>2, <3>1 DEF FlowInv, InOrder
  <2> QED BY <2>3, <2>4
<1>11. Balanced'
  <2> SUFFICES ASSUME NEW K \in SUBSET Keys
               PROVE  /\ SumFunction([i \in Held(K) |-> flows[i].count])' = Packets(On(K))'
                      /\ SumFunction([i \in Held(K) |-> flows[i].bytes])' = Bytes(On(K))'
    BY DEF Balanced, Keys, Key
  <2>1. /\ SumFunction([i \in Held(K) |-> flows[i].count]) = Packets(On(K))
        /\ SumFunction([i \in Held(K) |-> flows[i].bytes]) = Bytes(On(K))
    BY DEF FlowInv, Balanced
  <2>2. FlowTypeOK
    BY DEF FlowInv
  <2>3. /\ Packets(On(K))' = IF Key(t) \in K THEN Packets(On(K)) + t.n ELSE Packets(On(K))
        /\ Bytes(On(K))' = IF Key(t) \in K THEN Bytes(On(K)) + t.n * t.len ELSE Bytes(On(K))
    BY <1>1, <2>2, WireTotals
  <2> QED BY <1>2, <2>1, <2>2, <2>3, TableTotals
<1> QED BY <1>4, <1>5, <1>7, <1>8, <1>9, <1>10, <1>11 DEF FlowInv

(* A line without addresses keeps it too: no total counts it.              *)
LEMMA FlowPasses ==
  ASSUME FlowInv, NEW t \in Trains, ReadTrain(t), ~HasAddresses(t)
  PROVE  FlowInv'
<1>1. wire' = Append(wire, t) /\ Len(wire) < MaxTrains /\ flows' = flows
  BY DEF ReadTrain
<1>2. /\ Len(wire') = Len(wire) + 1 /\ Len(wire) \in Nat /\ MaxTrains \in Nat /\ wire' \in Seq(Trains)
      /\ Addressed' = Addressed /\ \A k \in Addressed : wire'[k] = wire[k]
  BY <1>1, WireGrows, FlowAssumption DEF FlowInv, FlowTypeOK
<1>3. FlowTypeOK'
  BY <1>1, <1>2 DEF FlowInv, FlowTypeOK
<1>4. \A i : Trained(i)' = Trained(i)
  BY <1>1, <1>2 DEF Trained, Key
<1>5. \A i : \A k \in Trained(i) : wire'[k] = wire[k]
  BY <1>2 DEF Trained
<1>a. \A k \in Addressed : Key(wire'[k]) = Key(wire[k])
  BY <1>2 DEF Key
<1>b. AllHeld'
  <2> SUFFICES ASSUME NEW k \in Addressed'  PROVE \E i \in DOMAIN flows' : Key(flows'[i]) = Key(wire'[k])
    BY DEF AllHeld, Key
  <2>1. PICK i \in DOMAIN flows : Key(flows[i]) = Key(wire[k])
    BY <1>2 DEF FlowInv, AllHeld
  <2> QED BY <1>1, <1>2, <1>a, <2>1
<1>c. InOrder'
  BY <1>1, <1>4 DEF FlowInv, InOrder
<1>6. OneEach' /\ AllHeld' /\ SampledLess' /\ InOrder'
  BY <1>1, <1>b, <1>c DEF FlowInv, OneEach, SampledLess, Key
<1>7. Begun' /\ Ended'
  BY <1>1, <1>4, <1>5 DEF FlowInv, Begun, Ended, EndOf
<1>8. ASSUME NEW K \in SUBSET Keys
      PROVE  /\ SumFunction([i \in Held(K) |-> flows[i].count])' = Packets(On(K))'
             /\ SumFunction([i \in Held(K) |-> flows[i].bytes])' = Bytes(On(K))'
  <2>1. Held(K)' = Held(K) /\ On(K)' = On(K) /\ \A k \in On(K) : wire'[k] = wire[k]
    BY <1>1, <1>2 DEF Held, On, Key
  <2>2. [k \in On(K)' |-> wire'[k].n] = [k \in On(K) |-> wire[k].n]
    BY <2>1
  <2>3. [k \in On(K)' |-> wire'[k].n * wire'[k].len] = [k \in On(K) |-> wire[k].n * wire[k].len]
    BY <2>1
  <2>4. Packets(On(K))' = Packets(On(K)) /\ Bytes(On(K))' = Bytes(On(K))
    BY <2>2, <2>3 DEF Packets, Bytes
  <2> QED BY <1>1, <2>1, <2>4 DEF FlowInv, Balanced
<1>9. Keys' = Keys
  BY DEF Keys, Key
<1> QED BY <1>3, <1>6, <1>7, <1>8, <1>9 DEF FlowInv, Balanced

(* The invariant speaks of the table and the wire only.                    *)
LEMMA FlowStays == FlowInv /\ UNCHANGED flowVars => FlowInv'
<1> SUFFICES ASSUME FlowInv, UNCHANGED flowVars  PROVE FlowInv'
  OBVIOUS
<1>1. wire' = wire /\ flows' = flows
  BY DEF flowVars
<1>2. Addressed' = Addressed /\ (\A i : Trained(i)' = Trained(i))
  BY <1>1 DEF Addressed, Trained, Key, HasAddresses
<1>3. FlowTypeOK' /\ OneEach' /\ AllHeld' /\ SampledLess' /\ Begun' /\ Ended' /\ InOrder'
  BY <1>1, <1>2 DEF FlowInv, FlowTypeOK, OneEach, AllHeld, SampledLess, Begun, Ended, InOrder, Key, EndOf
<1>4. \A K : Held(K)' = Held(K) /\ On(K)' = On(K)
  BY <1>1, <1>2 DEF Held, On, Key
<1>5. Balanced'
  BY <1>1, <1>4 DEF FlowInv, Balanced, Packets, Bytes, Keys, Key
<1> QED BY <1>3, <1>5 DEF FlowInv

(* Every step of the parser keeps the invariant of the table.              *)
LEMMA FlowKeeps == FlowInv /\ FlowNext => FlowInv'
BY FlowTakes, FlowPasses DEF FlowNext

-----------------------------------------------------------------------------
(* What is concluded from the flows.                                       *)

LEMMA FlowTypes ==
  ASSUME FlowInv
  PROVE  /\ DOMAIN flows = 1..Len(flows) /\ Len(flows) \in Nat /\ IsFiniteSet(DOMAIN flows)
         /\ \A i \in DOMAIN flows : flows[i] \in FlowRecord /\ Key(flows[i]) \in Keys /\ i \in Nat
         /\ IsFiniteSet(Addressed) /\ \A k \in Addressed : wire[k] \in Trains /\ Key(wire[k]) \in Keys /\ k \in Nat
<1>1. DOMAIN flows = 1..Len(flows) /\ Len(flows) \in Nat /\ \A i \in DOMAIN flows : flows[i] \in FlowRecord
  BY DEF FlowInv, FlowTypeOK
<1>2. wire \in Seq(Trains)
  BY DEF FlowInv, FlowTypeOK
<1>3. Len(wire) \in Nat /\ Addressed \subseteq 1..Len(wire) /\ \A k \in 1..Len(wire) : wire[k] \in Trains
  BY <1>2 DEF Addressed
<1>4. IsFiniteSet(1..Len(wire)) /\ IsFiniteSet(1..Len(flows))
  BY <1>1, <1>3, FS_Interval
<1>5. IsFiniteSet(Addressed)
  BY <1>3, <1>4, FS_Subset
<1>6. \A k \in Addressed : wire[k] \in Trains /\ Key(wire[k]) \in Keys /\ k \in Nat
  BY <1>3 DEF Keys
<1>7. \A i \in DOMAIN flows : Key(flows[i]) \in Keys
  BY <1>6 DEF FlowInv, Begun, Trained
<1> QED BY <1>1, <1>4, <1>5, <1>6, <1>7

(* The totals of a flow are natural numbers.                               *)
LEMMA CountsAre ==
  ASSUME FlowInv, NEW i \in DOMAIN flows
  PROVE  flows[i].count \in Nat /\ flows[i].bytes \in Nat
BY FlowTypes DEF FlowRecord

(* The invariant gives the totals: one flow for each conversation, with    *)
(* the packets and bytes of the wire.                                      *)
LEMMA FlowTotals == FlowInv => FlowTotalsExact
<1> SUFFICES ASSUME FlowInv  PROVE FlowTotalsExact
  OBVIOUS
<1>1. {Key(flows[i]) : i \in DOMAIN flows} = {Key(wire[k]) : k \in Addressed}
  <2>1. \A k \in Addressed : Key(wire[k]) \in {Key(flows[i]) : i \in DOMAIN flows}
    BY DEF FlowInv, AllHeld
  <2>2. \A i \in DOMAIN flows : Key(flows[i]) \in {Key(wire[k]) : k \in Addressed}
    BY DEF FlowInv, Begun, Trained
  <2> QED BY <2>1, <2>2
<1>2. ASSUME NEW i \in DOMAIN flows
      PROVE  LET own == {k \in Addressed : Key(wire[k]) = Key(flows[i])}
             IN  flows[i].count = Packets(own) /\ flows[i].bytes = Bytes(own)
  <2> DEFINE K == {Key(flows[i])}
  <2>1. On(K) = {k \in Addressed : Key(wire[k]) = Key(flows[i])}
    BY DEF On
  <2>2. Held(K) = {i}
    BY DEF Held, FlowInv, OneEach
  <2>3. K \in SUBSET Keys
    BY FlowTypes
  <2>4. /\ SumFunction([x \in {i} |-> flows[x].count]) = Packets(On(K))
        /\ SumFunction([x \in {i} |-> flows[x].bytes]) = Bytes(On(K))
    BY <2>2, <2>3 DEF FlowInv, Balanced
  <2>5. \A f : DOMAIN f = {i} /\ f[i] \in Int => SumFunction(f) = f[i]
    <3> SUFFICES ASSUME NEW f, DOMAIN f = {i}, f[i] \in Int  PROVE SumFunction(f) = f[i]
      OBVIOUS
    <3>1. SumFunction(f) = SumOf(f, {i}) /\ IsFiniteSet({i}) /\ {i} \ {i} = {}
      BY SumOfFunction, FS_Singleton
    <3>2. SumOf(f, {i}) = f[i] + SumOf(f, {i} \ {i})
      BY <3>1, SumSplit
    <3>3. SumOf(f, {i} \ {i}) = 0
      BY <3>1, SumEmpty
    <3> QED BY <3>1, <3>2, <3>3
  <2>6. flows[i].count \in Int /\ flows[i].bytes \in Int
    BY CountsAre
  <2>7. SumFunction([x \in {i} |-> flows[x].count]) = flows[i].count
    BY <2>5, <2>6
  <2>8. SumFunction([x \in {i} |-> flows[x].bytes]) = flows[i].bytes
    BY <2>5, <2>6
  <2> QED BY <2>1, <2>4, <2>7, <2>8
<1>3. Parsed(flows) = Packets(Addressed)
  <2>1. Held(Keys) = DOMAIN flows /\ On(Keys) = Addressed
    BY FlowTypes DEF Held, On
  <2>2. SumFunction([i \in Held(Keys) |-> flows[i].count]) = Packets(On(Keys))
    BY DEF FlowInv, Balanced
  <2> QED BY <2>1, <2>2 DEF Parsed
<1>4. OneEach
  BY DEF FlowInv
<1> QED BY <1>1, <1>2, <1>3, <1>4 DEF FlowTotalsExact, OneEach

(* The volume of a flow is its bytes: packets are never empty, so neither  *)
(* the samples nor the guess of 800 bytes is used.                         *)
LEMMA VolumeIs ==
  ASSUME FlowInv, NEW i \in DOMAIN flows
  PROVE  Volume(flows[i]) = flows[i].bytes
<1>1. flows[i].bytes \in Nat /\ flows[i].sampled \in Nat /\ flows[i].samples > 0 /\ flows[i].sampled <= flows[i].bytes
  BY FlowTypes DEF FlowRecord, FlowInv, SampledLess
<1> QED BY <1>1 DEF Volume

(* What detect_flow_asymmetry() adds up from one host to another is what   *)
(* the wire carried.                                                       *)
LEMMA OutBytesSent ==
  ASSUME FlowInv, NEW a, NEW b
  PROVE  OutBytes(flows, a, b) = Sent(a, b) /\ Sent(a, b) \in Nat
<1> DEFINE K == {q \in Keys : q[1] = a /\ q[2] = b}
<1>1. \A x : Key(x)[1] = x.src /\ Key(x)[2] = x.dst
  BY DEF Key
<1>2. Held(K) = FromTo(flows, a, b)
  BY <1>1, FlowTypes DEF Held, FromTo
<1>3. On(K) = {k \in Addressed : wire[k].src = a /\ wire[k].dst = b}
  BY <1>1, FlowTypes DEF On
<1>4. SumFunction([i \in Held(K) |-> flows[i].bytes]) = Bytes(On(K))
  BY DEF FlowInv, Balanced
<1>5. [i \in FromTo(flows, a, b) |-> Volume(flows[i])] = [i \in Held(K) |-> flows[i].bytes]
  BY <1>2, VolumeIs DEF FromTo
<1>6. OutBytes(flows, a, b) = Sent(a, b)
  BY <1>3, <1>4, <1>5 DEF OutBytes, Sent
<1>7. Held(K) \subseteq DOMAIN flows /\ IsFiniteSet(Held(K))
  BY FlowTypes, FS_Subset DEF Held
<1> DEFINE f == [i \in Held(K) |-> flows[i].bytes]
<1>8. \A i \in Held(K) : f[i] \in Nat
  BY <1>7, CountsAre
<1>9. SumFunction(f) = SumOf(f, Held(K))
  BY SumOfFunction
<1>10. SumOf(f, Held(K)) \in Nat
  <2> HIDE DEF f, K
  <2> QED BY <1>7, <1>8, SumNat
<1> QED BY <1>4, <1>6, <1>3, <1>9, <1>10 DEF Sent

(* A pair is examined in the direction in which its first packet went.     *)
Spoke(p) == \E k \in Addressed : /\ <<wire[k].src, wire[k].dst>> = p
                                 /\ \A m \in Addressed : m < k => {wire[m].src, wire[m].dst} # {p[1], p[2]}

(* Flows of one key have the same ends.                                    *)
LEMMA KeyEnds == ASSUME NEW x, NEW y, Key(x) = Key(y) PROVE x.src = y.src /\ x.dst = y.dst /\ x.sport = y.sport /\ x.dport = y.dport
BY DEF Key

(* The direction examined is that of the first packet of two hosts, as the *)
(* flows stand in the order in which they began.                           *)
LEMMA CheckedSpoke ==
  ASSUME FlowInv, NEW p
  PROVE  p \in Checked(flows) <=> Spoke(p)
<1> DEFINE Same(x, y) == {x.src, x.dst} = {y.src, y.dst}
<1>1. ASSUME Spoke(p)  PROVE p \in Checked(flows)
  <2>1. PICK k \in Addressed : /\ <<wire[k].src, wire[k].dst>> = p
                               /\ \A m \in Addressed : m < k => {wire[m].src, wire[m].dst} # {p[1], p[2]}
    BY <1>1 DEF Spoke
  <2>2. PICK i \in DOMAIN flows : Key(flows[i]) = Key(wire[k])
    BY DEF FlowInv, AllHeld
  <2>3. flows[i].src = wire[k].src /\ flows[i].dst = wire[k].dst /\ p[1] = wire[k].src /\ p[2] = wire[k].dst
    BY <2>1, <2>2, KeyEnds
  <2>4. ASSUME NEW j \in 1..(i - 1), {flows[j].src, flows[j].dst} = {flows[i].src, flows[i].dst}  PROVE FALSE
    <3>1. j \in DOMAIN flows /\ j < i
      BY FlowTypes
    <3>2. k \in Trained(i)
      BY <2>2 DEF Trained
    <3>3. PICK m \in Trained(j) : m < k
      BY <3>1, <3>2 DEF FlowInv, InOrder
    <3>4. m \in Addressed /\ wire[m].src = flows[j].src /\ wire[m].dst = flows[j].dst
      BY KeyEnds DEF Trained
    <3> QED BY <2>1, <2>3, <2>4, <3>3, <3>4
  <2>5. <<flows[i].src, flows[i].dst>> = p
    BY <2>1, <2>3
  <2> QED BY <2>4, <2>5 DEF Checked
<1>2. ASSUME p \in Checked(flows)  PROVE Spoke(p)
  <2>1. PICK i \in DOMAIN flows : /\ <<flows[i].src, flows[i].dst>> = p
                                  /\ \A j \in 1..(i - 1) : {flows[j].src, flows[j].dst} # {flows[i].src, flows[i].dst}
    BY <1>2 DEF Checked
  <2>2. p[1] = flows[i].src /\ p[2] = flows[i].dst
    BY <2>1
  <2>3. PICK k \in Trained(i) : \A m \in Trained(i) : k <= m
    BY DEF FlowInv, Begun
  <2>4. k \in Addressed /\ wire[k].src = flows[i].src /\ wire[k].dst = flows[i].dst
    BY KeyEnds DEF Trained
  <2>5. ASSUME NEW m \in Addressed, m < k, {wire[m].src, wire[m].dst} = {p[1], p[2]}  PROVE FALSE
    <3>1. PICK j \in DOMAIN flows : Key(flows[j]) = Key(wire[m])
      BY DEF FlowInv, AllHeld
    <3>2. m \in Trained(j) /\ flows[j].src = wire[m].src /\ flows[j].dst = wire[m].dst
      BY <3>1, KeyEnds DEF Trained
    <3>3. j \notin 1..(i - 1)
      BY <2>1, <2>2, <2>5, <3>2
    <3>4. j # i
      <4> SUFFICES ASSUME j = i  PROVE FALSE
        OBVIOUS
      <4>1. k <= m /\ k \in Nat /\ m \in Nat
        BY <2>3, <2>4, <3>2, FlowTypes
      <4> QED BY <2>5, <4>1
    <3>5. i < j
      BY <3>3, <3>4, FlowTypes
    <3>6. PICK l \in Trained(i) : l < m
      BY <3>2, <3>5 DEF FlowInv, InOrder
    <3>7. k <= l /\ k \in Nat /\ l \in Nat /\ m \in Nat
      BY <2>3, <2>4, FlowTypes DEF Trained
    <3> QED BY <2>5, <3>6, <3>7
  <2>6. <<wire[k].src, wire[k].dst>> = p
    BY <2>1, <2>4
  <2> QED BY <2>4, <2>5, <2>6 DEF Spoke
<1> QED BY <1>1, <1>2

(* A ratio scores from five to one on.                                     *)
LEMMA ScoreIs ==
  ASSUME NEW out \in Nat, NEW in \in Nat
  PROVE  RatioScore(out, in) > 0 <=> out >= 5 * Larger(in, 1)
<1>1. Larger(in, 1) \in Nat \ {0}
  BY DEF Larger
<1> QED BY <1>1 DEF RatioScore

(* Uploads are reported exactly for what the wire carried.                 *)
LEMMA UploadsAre == FlowInv => UploadsExact
<1> SUFFICES ASSUME FlowInv  PROVE UploadsExact
  OBVIOUS
<1> DEFINE Sure(p) == Sent(p[1], p[2]) >= ASYMMETRY_MIN_BYTES /\ Sent(p[1], p[2]) >= 5 * Larger(Sent(p[2], p[1]), 1)
<1>1. ASSUME NEW p
      PROVE  /\ Asymmetry(flows, p).src = p[1] /\ Asymmetry(flows, p).dst = p[2]
             /\ Asymmetry(flows, p).score > 0 <=> Sure(p)
  <2> DEFINE out == Sent(p[1], p[2])
             in  == Sent(p[2], p[1])
  <2>1. out \in Nat /\ in \in Nat /\ OutBytes(flows, p[1], p[2]) = out /\ OutBytes(flows, p[2], p[1]) = in
    BY OutBytesSent
  <2>2. Asymmetry(flows, p) = [src |-> p[1], dst |-> p[2],
                               score |-> IF out >= ASYMMETRY_MIN_BYTES /\ RatioScore(out, in) > 0
                                         THEN RatioScore(out, in) + VolumeScore(out) ELSE 0]
    BY <2>1 DEF Asymmetry
  <2> HIDE DEF out, in
  <2>3. RatioScore(out, in) > 0 <=> out >= 5 * Larger(in, 1)
    BY <2>1, ScoreIs
  <2>4. RatioScore(out, in) \in Nat /\ VolumeScore(out) \in Nat
    BY SMT DEF RatioScore, VolumeScore
  <2>5. Asymmetry(flows, p).score > 0 <=> out >= ASYMMETRY_MIN_BYTES /\ out >= 5 * Larger(in, 1)
    BY <2>2, <2>3, <2>4
  <2>6. Asymmetry(flows, p).src = p[1] /\ Asymmetry(flows, p).dst = p[2]
    BY <2>2
  <2> QED BY <2>5, <2>6 DEF out, in
<1>2. \A p : p \in Checked(flows) <=> Spoke(p)
  BY CheckedSpoke
<1>3. \A p : Spoke(p) => p = <<p[1], p[2]>> /\ p \in {<<wire[k].src, wire[k].dst>> : k \in Addressed}
  BY DEF Spoke
<1> DEFINE L == {<<r.src, r.dst>> : r \in Uploads(flows)}
           R == {p \in {<<wire[k].src, wire[k].dst>> : k \in Addressed} : Spoke(p) /\ Sure(p)}
<1>4. Uploads(flows) = {Asymmetry(flows, p) : p \in {q \in Checked(flows) : Asymmetry(flows, q).score > 0}}
  BY DEF Uploads
<1> HIDE DEF Sure
<1>5. ASSUME NEW x \in L  PROVE x \in R
  <2>1. PICK r \in Uploads(flows) : x = <<r.src, r.dst>>
    OBVIOUS
  <2>2. PICK p \in Checked(flows) : Asymmetry(flows, p).score > 0 /\ r = Asymmetry(flows, p)
    BY <1>4
  <2>3. Spoke(p) /\ Sure(p) /\ x = <<p[1], p[2]>>
    BY <1>1, <1>2, <2>1, <2>2
  <2> QED BY <1>3, <2>3
<1>6. ASSUME NEW x \in R  PROVE x \in L
  <2>1. x \in Checked(flows) /\ Asymmetry(flows, x).score > 0
    BY <1>1, <1>2
  <2>2. Asymmetry(flows, x) \in Uploads(flows)
    BY <1>4, <2>1
  <2>3. <<Asymmetry(flows, x).src, Asymmetry(flows, x).dst>> = x
    BY <1>1, <1>3
  <2> QED BY <2>2, <2>3
<1>7. L = R
  BY <1>5, <1>6
<1> QED BY <1>7 DEF UploadsExact, Spoke, Sure

(* A busy flow between high ports is reported unless an earlier flow that  *)
(* is not busy used up its key.                                            *)
LEMMA BusyAreReported == FlowInv => BusyFlowsReported
<1> SUFFICES ASSUME FlowInv, NEW i \in DOMAIN flows, Busy(flows[i])
             PROVE  \/ PortKey(flows[i]) \in {r.key : r \in PortReports(flows)}
                    \/ \E j \in 1..(i - 1) : PortKey(flows[j]) = PortKey(flows[i]) /\ ~Busy(flows[j])
  BY DEF BusyFlowsReported
<1> DEFINE T == {j \in DOMAIN flows : PortKey(flows[j]) = PortKey(flows[i])}
<1>1. T \subseteq Nat /\ i \in T
  BY FlowTypes
<1>2. PICK j \in T : \A m \in T : j <= m
  BY <1>1, LeastNumber
<1>3. j \in DOMAIN flows /\ PortKey(flows[j]) = PortKey(flows[i]) /\ j <= i /\ j \in Nat /\ i \in Nat
  BY <1>1, <1>2
<1>4. flows[i].dport \in Nat /\ flows[i].dport # 0 /\ flows[j].dport = flows[i].dport
  BY <1>3, FlowTypes DEF Busy, PortKey, FlowRecord
<1>5. \A m \in 1..(j - 1) : PortKey(flows[m]) # PortKey(flows[j])
  <2> SUFFICES ASSUME NEW m \in 1..(j - 1), PortKey(flows[m]) = PortKey(flows[j])  PROVE FALSE
    OBVIOUS
  <2>1. m \in DOMAIN flows /\ m < j
    BY <1>3, FlowTypes
  <2>2. m \in T /\ m \in Nat
    BY <1>3, <2>1
  <2> QED BY <1>2, <1>3, <2>1, <2>2
<1>6. j \in FirstOfKey(flows)
  BY <1>3, <1>4, <1>5 DEF FirstOfKey
<1>7. CASE PortScore(flows[j]) > 0
  <2>1. [at |-> j, key |-> PortKey(flows[j]), score |-> PortScore(flows[j])] \in PortReports(flows)
    BY <1>6, <1>7 DEF PortReports
  <2> QED BY <1>3, <2>1
<1>8. CASE ~(PortScore(flows[j]) > 0)
  <2>1. ~Busy(flows[j])
    BY <1>8 DEF Busy, PortScore
  <2>2. j # i
    BY <2>1
  <2>3. j \in 1..(i - 1)
    BY <1>3, <2>2, FlowTypes
  <2> QED BY <1>3, <2>1, <2>3
<1> QED BY <1>7, <1>8

(* The values a function takes on a finite set.                            *)
LEMMA ImageFinite ==
  ASSUME NEW S, IsFiniteSet(S), NEW f, NEW T, T = {f[x] : x \in S}
  PROVE  /\ IsFiniteSet(T) /\ Cardinality(T) <= Cardinality(S)
         /\ (\A x, y \in S : f[x] = f[y] => x = y) => Cardinality(T) = Cardinality(S)
<1> DEFINE g == [x \in S |-> f[x]]
<1>1. g \in [S -> T] /\ \A y \in T : \E x \in S : g[x] = y
  OBVIOUS
<1>2. g \in Surjection(S, T)
  BY <1>1 DEF Surjection
<1>3. (\A x, y \in S : f[x] = f[y] => x = y) => g \in Injection(S, T)
  BY <1>1 DEF Injection, IsInjective
<1> HIDE DEF g
<1> QED BY <1>2, <1>3, FS_Surjection

(* A finite set of integers has a greatest one.                            *)
LEMMA GreatestExists ==
  ASSUME NEW S, IsFiniteSet(S), S \subseteq Int, S # {}
  PROVE  \E x \in S : \A y \in S : y <= x
<1> DEFINE P == {s \in SUBSET S : s = {} \/ \E x \in s : \A y \in s : y <= x}
<1>1. P \subseteq SUBSET S /\ {} \in P
  OBVIOUS
<1>2. ASSUME NEW s \in P, NEW z \in S \ s  PROVE s \cup {z} \in P
  <2>1. CASE s = {}
    <3>1. z <= z
      OBVIOUS
    <3> QED BY <2>1, <3>1
  <2>2. CASE s # {}
    <3>1. PICK x \in s : \A y \in s : y <= x
      BY <2>2
    <3>2. x \in Int /\ z \in Int /\ s \subseteq Int
      OBVIOUS
    <3>3. CASE z <= x
      BY <3>1, <3>3
    <3>4. CASE x <= z
      <4>1. \A y \in s \cup {z} : y <= z
        BY <3>1, <3>2, <3>4
      <4> QED BY <4>1
    <3> QED BY <3>2, <3>3, <3>4
  <2> QED BY <2>1, <2>2
<1>3. S \in P
  <2> HIDE DEF P
  <2> QED BY <1>1, <1>2, SetInduction
<1> QED BY <1>3

(* Max of the community modules is the greatest of a finite set.           *)
LEMMA MaxIsGreatest ==
  ASSUME NEW S, IsFiniteSet(S), S \subseteq Int, S # {}
  PROVE  Max(S) \in S /\ \A y \in S : y <= Max(S)
<1>1. \E x \in S : \A y \in S : x >= y
  BY GreatestExists
<1> QED BY <1>1 DEF Max

(* The window lies within that of the packets, and is that window if they  *)
(* were captured in order.                                                 *)
LEMMA WindowIs == FlowInv => WindowHonest
<1> SUFFICES ASSUME FlowInv, Addressed # {}  PROVE WindowHonest
  BY DEF WindowHonest
<1> DEFINE starts  == {wire[k].ts : k \in Addressed}
           ends    == {EndOf(wire[k]) : k \in Addressed}
           firsts  == {flows[i].first : i \in DOMAIN flows}
           lasts   == {flows[i].last : i \in DOMAIN flows}
           ordered == \A k, m \in Addressed : k < m => EndOf(wire[k]) <= wire[m].ts
<1>0. \A k \in Addressed : wire[k] \in Trains /\ k \in Nat
  BY FlowTypes
<1>1. \A k \in Addressed : wire[k].ts \in Nat /\ EndOf(wire[k]) \in Nat /\ wire[k].ts <= EndOf(wire[k])
  BY <1>0, TrainType
<1>2. starts \subseteq Nat /\ starts # {} /\ ends \subseteq Nat /\ ends # {}
  BY <1>1
<1>3. IsFiniteSet(Addressed) /\ IsFiniteSet(DOMAIN flows)
  BY FlowTypes
<1>4. IsFiniteSet(ends) /\ IsFiniteSet(lasts)
  <2> DEFINE e == [k \in Addressed |-> EndOf(wire[k])]
             l == [i \in DOMAIN flows |-> flows[i].last]
  <2>1. ends = {e[k] : k \in Addressed}
    OBVIOUS
  <2>2. lasts = {l[i] : i \in DOMAIN flows}
    OBVIOUS
  <2> HIDE DEF ends, lasts, e, l
  <2> QED BY <1>3, <2>1, <2>2, ImageFinite
<1>5. firsts \subseteq starts
  BY DEF FlowInv, Begun, Trained
<1>6. lasts \subseteq ends
  BY DEF FlowInv, Ended, Trained
<1>7. DOMAIN flows # {}
  BY DEF FlowInv, AllHeld
<1>8. firsts # {} /\ lasts # {} /\ firsts \subseteq Nat /\ lasts \subseteq Nat /\ flows # <<>>
  <2>1. flows # <<>>
    BY <1>7
  <2> QED BY <1>2, <1>5, <1>6, <1>7, <2>1
<1>9. Window(flows) = [first |-> Min(firsts), last |-> Max(lasts)]
  BY <1>8 DEF Window
<1>10. Nat \subseteq Int
  OBVIOUS
<1> HIDE DEF starts, ends, firsts, lasts
<1>11. Min(starts) \in starts /\ (\A x \in starts : Min(starts) <= x) /\ Min(firsts) \in firsts /\ \A x \in firsts : Min(firsts) <= x
  BY <1>2, <1>8, MinIsLeast
<1>12. Max(ends) \in ends /\ (\A x \in ends : x <= Max(ends)) /\ Max(lasts) \in lasts /\ \A x \in lasts : x <= Max(lasts)
  BY <1>2, <1>4, <1>8, <1>10, MaxIsGreatest
<1>13. Min(starts) <= Min(firsts) /\ Max(lasts) <= Max(ends) /\ {Min(starts), Min(firsts), Max(lasts), Max(ends)} \subseteq Nat
  BY <1>2, <1>5, <1>6, <1>8, <1>11, <1>12
<1>14. ASSUME ordered  PROVE Min(firsts) <= Min(starts) /\ Max(ends) <= Max(lasts)
  <2>1. Addressed \subseteq Nat /\ Addressed \subseteq Int
    BY <1>0
  <2>2. PICK f \in Addressed : \A k \in Addressed : f <= k
    BY <2>1, LeastNumber
  <2>3. PICK l \in Addressed : \A k \in Addressed : k <= l
    BY <1>3, <2>1, GreatestExists
  <2>4. PICK i \in DOMAIN flows : Key(flows[i]) = Key(wire[f])
    BY DEF FlowInv, AllHeld
  <2>5. PICK j \in DOMAIN flows : Key(flows[j]) = Key(wire[l])
    BY DEF FlowInv, AllHeld
  <2>6. flows[i].first = wire[f].ts
    <3>1. PICK k \in Trained(i) : flows[i].first = wire[k].ts /\ \A m \in Trained(i) : k <= m
      BY DEF FlowInv, Begun
    <3>2. f \in Trained(i) /\ k \in Addressed
      BY <2>4 DEF Trained
    <3>3. k = f
      BY <1>0, <2>2, <3>1, <3>2
    <3> QED BY <3>1, <3>3
  <2>7. flows[j].last = EndOf(wire[l])
    <3>1. PICK k \in Trained(j) : flows[j].last = EndOf(wire[k]) /\ \A m \in Trained(j) : m <= k
      BY DEF FlowInv, Ended
    <3>2. l \in Trained(j) /\ k \in Addressed
      BY <2>5 DEF Trained
    <3>3. k = l
      BY <1>0, <2>3, <3>1, <3>2
    <3> QED BY <3>1, <3>3
  <2>8. \A k \in Addressed : wire[f].ts <= wire[k].ts
    <3> SUFFICES ASSUME NEW k \in Addressed, k # f  PROVE wire[f].ts <= wire[k].ts
      BY <1>1
    <3>1. f < k
      BY <1>0, <2>2
    <3>2. EndOf(wire[f]) <= wire[k].ts
      BY <1>14, <3>1
    <3> QED BY <1>1, <3>2
  <2>9. \A k \in Addressed : EndOf(wire[k]) <= EndOf(wire[l])
    <3> SUFFICES ASSUME NEW k \in Addressed, k # l  PROVE EndOf(wire[k]) <= EndOf(wire[l])
      BY <1>1
    <3>1. k < l
      BY <1>0, <2>3
    <3>2. EndOf(wire[k]) <= wire[l].ts
      BY <1>14, <3>1
    <3> QED BY <1>1, <3>2
  <2>10. wire[f].ts \in firsts /\ EndOf(wire[l]) \in lasts
    BY <2>6, <2>7 DEF firsts, lasts
  <2>11. wire[f].ts <= Min(starts) /\ Max(ends) <= EndOf(wire[l])
    BY <1>11, <1>12, <2>8, <2>9 DEF starts, ends
  <2>12. wire[f].ts \in Nat /\ EndOf(wire[l]) \in Nat
    BY <1>1
  <2> QED BY <1>11, <1>12, <1>13, <2>10, <2>11, <2>12
<1>15. Window(flows).first = Min(firsts) /\ Window(flows).last = Max(lasts)
  BY <1>9
<1>16. /\ Window(flows).first >= Min(starts) /\ Window(flows).last <= Max(ends)
       /\ ordered => Window(flows).first = Min(starts) /\ Window(flows).last = Max(ends)
  <2> HIDE DEF ordered
  <2> QED BY <1>13, <1>14, <1>15
<1> QED BY <1>16 DEF WindowHonest, starts, ends

(* Of a finite set of numbers, the first M.                                *)
Lower(s, i) == {j \in s : j < i}
Lead(s, M)  == {i \in s : Cardinality(Lower(s, i)) < M}

Tops(s, x)  == \A y \in s : y <= x

(* A number above the others changes nothing of which of them lead.        *)
LEMMA LeadSame ==
  ASSUME NEW s, s \subseteq Nat, NEW x \in s, Tops(s, x), NEW M
  PROVE  \A i \in s \ {x} : i \in Lead(s, M) <=> i \in Lead(s \ {x}, M)
<1> SUFFICES ASSUME NEW i \in s \ {x}  PROVE Lower(s, i) = Lower(s \ {x}, i)
  BY DEF Lead
<1>1. ~(x < i)
  BY DEF Tops
<1> QED BY <1>1 DEF Lower

(* It leads itself if the others leave room.                               *)
LEMMA LeadLast ==
  ASSUME NEW s, s \subseteq Nat, NEW x \in s, Tops(s, x), NEW M
  PROVE  x \in Lead(s, M) <=> Cardinality(s \ {x}) < M
<1>1. \A y \in s : y < x <=> y # x
  BY DEF Tops
<1>2. Lower(s, x) = s \ {x}
  BY <1>1 DEF Lower
<1> QED BY <1>2 DEF Lead

(* As many lead as there are, or as there is room for.                     *)
LEMMA LeadCount ==
  ASSUME NEW S, IsFiniteSet(S), S \subseteq Nat, NEW M \in Nat
  PROVE  Cardinality(Lead(S, M)) = Smaller(Cardinality(S), M)
<1> DEFINE Bad == {n \in Nat : \E s \in SUBSET S : Cardinality(s) = n /\ Cardinality(Lead(s, M)) # Smaller(Cardinality(s), M)}
<1> SUFFICES ASSUME Cardinality(Lead(S, M)) # Smaller(Cardinality(S), M)  PROVE FALSE
  OBVIOUS
<1>1. Cardinality(S) \in Nat
  BY FS_CardinalityType
<1>2. Bad \subseteq Nat /\ Bad # {}
  BY <1>1
<1>3. PICK n \in Bad : \A m \in Bad : n <= m
  BY <1>2, LeastNumber
<1>4. PICK s \in SUBSET S : Cardinality(s) = n /\ Cardinality(Lead(s, M)) # Smaller(Cardinality(s), M)
  OBVIOUS
<1> HIDE DEF Bad
<1>a. IsFiniteSet(s)
  BY FS_Subset
<1>5. IsFiniteSet(s) /\ s \subseteq Nat /\ s \subseteq Int
  BY <1>a
<1>6. s # {}
  <2> SUFFICES ASSUME s = {}  PROVE FALSE
    OBVIOUS
  <2>1. Lead(s, M) = {}
    BY DEF Lead
  <2> QED BY <1>4, <2>1, FS_EmptySet DEF Smaller
<1>7. PICK x \in s : \A y \in s : y <= x
  BY <1>5, <1>6, GreatestExists
<1> DEFINE u == s \ {x}
<1>8. u \in SUBSET S /\ Cardinality(u) = n - 1 /\ n \in Nat \ {0} /\ IsFiniteSet(u)
  <2>1. Cardinality(s) \in Nat \ {0} /\ u \in SUBSET S /\ Cardinality(u) = Cardinality(s) - 1
    BY SmallerSubset
  <2> QED BY <1>4, <2>1, FS_Subset
<1>9. Cardinality(Lead(u, M)) = Smaller(n - 1, M)
  <2>1. n - 1 \in Nat /\ ~(n <= n - 1)
    BY <1>8
  <2>2. n - 1 \notin Bad
    BY <1>3, <2>1
  <2> QED BY <1>8, <2>1, <2>2 DEF Bad
<1>10. Tops(s, x)
  BY <1>7 DEF Tops
<1>11. Lead(u, M) \subseteq u /\ x \notin u /\ Lead(s, M) \subseteq s
  BY DEF Lead
<1>12. IsFiniteSet(Lead(u, M))
  BY <1>8, <1>11, FS_Subset
<1>a1. \A i \in u : i \in Lead(s, M) <=> i \in Lead(u, M)
  BY <1>5, <1>10, LeadSame
<1>a2. x \in Lead(s, M) <=> Cardinality(u) < M
  BY <1>5, <1>10, LeadLast
<1>a3. \A i \in s : i = x \/ i \in u
  OBVIOUS
<1> HIDE DEF u
<1>13. CASE n - 1 < M
  <2>1. x \in Lead(s, M)
    BY <1>8, <1>13, <1>a2
  <2>2. Lead(s, M) = Lead(u, M) \cup {x} /\ x \notin Lead(u, M)
    BY <1>11, <1>a1, <1>a3, <2>1
  <2>3. Cardinality(Lead(s, M)) = Cardinality(Lead(u, M)) + 1
    BY <1>12, <2>2, FS_AddElement
  <2> QED BY <1>4, <1>8, <1>9, <1>13, <2>3 DEF Smaller
<1>14. CASE ~(n - 1 < M)
  <2>1. x \notin Lead(s, M)
    BY <1>8, <1>14, <1>a2
  <2>2. Lead(s, M) = Lead(u, M)
    BY <1>11, <1>a1, <1>a3, <2>1
  <2> QED BY <1>4, <1>8, <1>9, <1>14, <2>2 DEF Smaller
<1> QED BY <1>13, <1>14

(* Reports of C2 ports stand before all others, by the place of their flow. *)
Report(i) == [at |-> i, key |-> PortKey(flows[i]), score |-> PortScore(flows[i])]
C2Firsts  == {i \in FirstOfKey(flows) : flows[i].dport \in C2_COMMON_PORTS}

(* 70 is the best score of a port, and that of C2 ports only.              *)
LEMMA C2Score ==
  ASSUME NEW i
  PROVE  /\ PortScore(flows[i]) \in Nat /\ PortScore(flows[i]) <= 70
         /\ PortScore(flows[i]) = 70 <=> flows[i].dport \in C2_COMMON_PORTS
BY SMT DEF PortScore

(* Before the report of a C2 port stand those of C2 ports of earlier flows *)
(* and no others.                                                          *)
LEMMA C2Ahead ==
  ASSUME FlowInv, NEW i \in C2Firsts
  PROVE  /\ Report(i) \in PortReports(flows) /\ Report(i).score = 70 /\ Report(i).at = i
         /\ Cardinality(Ahead(PortReports(flows), Report(i))) = Cardinality(Lower(C2Firsts, i))
<1>1. i \in FirstOfKey(flows) /\ PortScore(flows[i]) = 70
  BY C2Score DEF C2Firsts
<1>2. PortReports(flows) = {Report(k) : k \in {m \in FirstOfKey(flows) : PortScore(flows[m]) > 0}}
  BY DEF PortReports, Report
<1>3. Report(i) \in PortReports(flows) /\ Report(i).score = 70 /\ Report(i).at = i
  BY <1>1, <1>2 DEF Report
<1>4. \A k : Report(k).at = k /\ Report(k).score = PortScore(flows[k])
  BY DEF Report
<1>5. Ahead(PortReports(flows), Report(i)) = {Report(k) : k \in Lower(C2Firsts, i)}
  <2>1. ASSUME NEW q \in Ahead(PortReports(flows), Report(i))  PROVE q \in {Report(k) : k \in Lower(C2Firsts, i)}
    <3>1. q \in PortReports(flows) /\ (q.score > 70 \/ (q.score = 70 /\ q.at < i))
      BY <1>3 DEF Ahead
    <3>2. PICK k \in FirstOfKey(flows) : q = Report(k)
      BY <1>2, <3>1
    <3>3. PortScore(flows[k]) = 70 /\ k < i
      BY <1>4, <3>1, <3>2, C2Score
    <3>4. k \in Lower(C2Firsts, i)
      BY <3>2, <3>3, C2Score DEF Lower, C2Firsts
    <3> QED BY <3>2, <3>4
  <2>2. ASSUME NEW k \in Lower(C2Firsts, i)  PROVE Report(k) \in Ahead(PortReports(flows), Report(i))
    <3>1. k \in FirstOfKey(flows) /\ PortScore(flows[k]) = 70 /\ k < i
      BY C2Score DEF Lower, C2Firsts
    <3>2. Report(k) \in PortReports(flows)
      BY <1>2, <3>1
    <3> QED BY <1>3, <1>4, <3>1, <3>2 DEF Ahead
  <2> QED BY <2>1, <2>2
<1>6. Lower(C2Firsts, i) \subseteq DOMAIN flows
  BY DEF Lower, C2Firsts, FirstOfKey
<1>7. IsFiniteSet(Lower(C2Firsts, i))
  BY <1>6, FlowTypes, FS_Subset
<1> DEFINE f == [k \in Lower(C2Firsts, i) |-> Report(k)]
           T == Ahead(PortReports(flows), Report(i))
<1>8. T = {f[k] : k \in Lower(C2Firsts, i)}
  BY <1>5
<1>9. \A k, m \in Lower(C2Firsts, i) : f[k] = f[m] => k = m
  BY <1>4
<1>10. Cardinality(T) = Cardinality(Lower(C2Firsts, i))
  <2> HIDE DEF f, T
  <2> QED BY <1>7, <1>8, <1>9, ImageFinite
<1> QED BY <1>3, <1>10

(* Each C2 key has a first flow.                                           *)
LEMMA C2KeysFirst ==
  ASSUME FlowInv
  PROVE  {PortKey(flows[i]) : i \in {k \in DOMAIN flows : flows[k].dport \in C2_COMMON_PORTS}} = {PortKey(flows[i]) : i \in C2Firsts}
<1>1. ASSUME NEW i \in DOMAIN flows, flows[i].dport \in C2_COMMON_PORTS
      PROVE  \E j \in C2Firsts : PortKey(flows[j]) = PortKey(flows[i])
  <2> DEFINE T == {j \in DOMAIN flows : PortKey(flows[j]) = PortKey(flows[i])}
  <2>1. T \subseteq Nat /\ i \in T
    BY FlowTypes
  <2>2. PICK j \in T : \A m \in T : j <= m
    BY <2>1, LeastNumber
  <2>3. j \in DOMAIN flows /\ PortKey(flows[j]) = PortKey(flows[i]) /\ j \in Nat
    BY <2>1, <2>2
  <2>4. flows[j].dport = flows[i].dport /\ flows[j].dport # 0
    BY <1>1, <2>3, FlowAssumption DEF PortKey
  <2>5. \A m \in 1..(j - 1) : PortKey(flows[m]) # PortKey(flows[j])
    <3> SUFFICES ASSUME NEW m \in 1..(j - 1), PortKey(flows[m]) = PortKey(flows[j])  PROVE FALSE
      OBVIOUS
    <3>1. m \in DOMAIN flows /\ m < j
      BY <2>3, FlowTypes
    <3>2. m \in T /\ m \in Nat
      BY <2>3, <3>1
    <3> QED BY <2>2, <2>3, <3>1, <3>2
  <2>6. j \in FirstOfKey(flows)
    BY <2>3, <2>4, <2>5 DEF FirstOfKey
  <2> QED BY <1>1, <2>3, <2>4, <2>6 DEF C2Firsts
<1>2. C2Firsts \subseteq {k \in DOMAIN flows : flows[k].dport \in C2_COMMON_PORTS}
  BY DEF C2Firsts, FirstOfKey
<1> QED BY <1>1, <1>2

(* It has one only.                                                        *)
LEMMA FirstsDiffer ==
  ASSUME FlowInv, NEW i \in C2Firsts, NEW j \in C2Firsts, PortKey(flows[i]) = PortKey(flows[j])
  PROVE  i = j
<1>1. i \in Nat \ {0} /\ j \in Nat \ {0}
  BY FlowTypes DEF C2Firsts, FirstOfKey
<1>2. ~(i < j) /\ ~(j < i)
  BY <1>1 DEF C2Firsts, FirstOfKey
<1> QED BY <1>1, <1>2

(* So the list starts with the C2 ports, as many as it has room for.       *)
LEMMA C2AreListed == FlowInv => C2PortsListed
<1> SUFFICES ASSUME FlowInv  PROVE C2PortsListed
  OBVIOUS
<1> DEFINE M  == MaxPortReports
           F  == C2Firsts
           L  == Lead(F, M)
           C2 == {PortKey(flows[i]) : i \in {k \in DOMAIN flows : flows[k].dport \in C2_COMMON_PORTS}}
           T  == {r.key : r \in {q \in PortAnomalies(flows) : q.score = 70}}
           f  == [i \in F |-> PortKey(flows[i])]
<1>1. F \subseteq DOMAIN flows /\ F \subseteq Nat /\ M \in Nat
  BY FlowTypes, FlowAssumption DEF C2Firsts, FirstOfKey
<1>2. IsFiniteSet(F)
  BY <1>1, FlowTypes, FS_Subset
<1>3. L \subseteq F /\ IsFiniteSet(L)
  BY <1>2, FS_Subset DEF Lead
<1>4. \A i, j \in F : f[i] = f[j] => i = j
  BY FirstsDiffer
<1>5. C2 = {f[i] : i \in F}
  BY C2KeysFirst
<1>6. T = {f[i] : i \in L}
  <2>1. ASSUME NEW i \in L  PROVE f[i] \in T
    <3>1. i \in F /\ Cardinality(Lower(F, i)) < M
      BY DEF Lead
    <3>2. Report(i) \in PortAnomalies(flows) /\ Report(i).score = 70
      BY <3>1, C2Ahead DEF PortAnomalies
    <3>3. Report(i).key = f[i]
      BY <3>1 DEF Report
    <3> QED BY <3>2, <3>3
  <2>2. ASSUME NEW r \in PortAnomalies(flows), r.score = 70  PROVE \E i \in L : r.key = f[i]
    <3>1. r \in PortReports(flows) /\ Cardinality(Ahead(PortReports(flows), r)) < M
      BY DEF PortAnomalies
    <3>2. PICK i \in FirstOfKey(flows) : r = Report(i)
      BY <3>1 DEF PortReports, Report
    <3>3. i \in F
      BY <2>2, <3>2, C2Score DEF C2Firsts, Report
    <3>4. Cardinality(Lower(F, i)) < M
      BY <3>1, <3>2, <3>3, C2Ahead
    <3>5. r.key = f[i]
      BY <3>2, <3>3 DEF Report
    <3> QED BY <3>3, <3>4, <3>5 DEF Lead
  <2> HIDE DEF f, L
  <2> QED BY <2>1, <2>2
<1> HIDE DEF f, T, C2, L, F
<1>7. Cardinality(C2) = Cardinality(F)
  BY <1>2, <1>4, <1>5, ImageFinite
<1>8. Cardinality(T) = Cardinality(L)
  BY <1>3, <1>4, <1>6, ImageFinite
<1>9. Cardinality(L) = Smaller(Cardinality(F), M)
  BY <1>1, <1>2, LeadCount DEF L
<1> QED BY <1>7, <1>8, <1>9 DEF C2PortsListed, T, C2

(* All that is said of flows follows from the invariant of the table.      *)
LEMMA FlowsAreExact == FlowInv => FlowsExact
BY FlowTotals, UploadsAre, C2AreListed, BusyAreReported, WindowIs DEF FlowsExact

-----------------------------------------------------------------------------
(* The DNS log.                                                            *)

DnsTypeOK == log \in Seq(Batches) /\ Len(log) <= MaxBatches

(* The log is a sequence of batches within its bound.                      *)
LEMMA DnsKeeps ==
  /\ DnsInit => DnsTypeOK
  /\ DnsTypeOK /\ DnsNext => DnsTypeOK'
<1>1. DnsInit => DnsTypeOK
  BY DnsAssumption DEF DnsInit, DnsTypeOK
<1>2. ASSUME DnsTypeOK, NEW b \in Batches, ReadBatch(b)  PROVE DnsTypeOK'
  <2>1. log' = Append(log, b) /\ Len(log) < MaxBatches /\ MaxBatches \in Nat /\ log \in Seq(Batches)
    BY <1>2, DnsAssumption DEF ReadBatch, DnsTypeOK
  <2>2. log' \in Seq(Batches) /\ Len(log') = Len(log) + 1 /\ Len(log) \in Nat
    BY <2>1
  <2> QED BY <2>1, <2>2 DEF DnsTypeOK
<1> QED BY <1>1, <1>2 DEF DnsNext

(* The fields of a batch of the log.                                       *)
LEMMA LogTypes ==
  ASSUME DnsTypeOK
  PROVE  /\ IsFiniteSet(DOMAIN log) /\ DOMAIN log \subseteq Nat
         /\ \A k \in DOMAIN log :
              /\ log[k] \in Batches /\ log[k].n \in Nat \ {0} /\ log[k].nx \in BOOLEAN
              /\ log[k].name \in Seq(DOMAIN Traits) /\ log[k].ips \in Seq(Range(log[k].ips))
              /\ log[k].ts \in Nat /\ log[k].gap \in Nat /\ log[k].ttl \in Nat
<1>1. Len(log) \in Nat /\ DOMAIN log = 1..Len(log) /\ \A k \in 1..Len(log) : log[k] \in Batches
  BY DEF DnsTypeOK
<1>2. IsFiniteSet(1..Len(log))
  BY <1>1, FS_Interval
<1>3. \A b \in Batches : /\ b.n \in Nat \ {0} /\ b.nx \in BOOLEAN /\ b.name \in Seq(DOMAIN Traits)
                         /\ b.ips \in Seq(Range(b.ips)) /\ b.ts \in Nat /\ b.gap \in Nat /\ b.ttl \in Nat
  BY DnsAssumption
<1> QED BY <1>1, <1>2, <1>3

(* A name scores 105 at most, so three tenths of that confirm nothing.     *)
LEMMA DgaBound == \A name : DgaSum(DgaParts(name)) \in 0..105
BY SMT DEF DgaSum, DgaParts

(* A whitelisted name confirms nothing.                                    *)
LEMMA SparesWhitelist == WhitelistSpares
<1> SUFFICES ASSUME NEW k \in DOMAIN log, IsWhitelisted(log[k].name)  PROVE ~Dga(log[k].name).confirmed
  BY DEF WhitelistSpares
<1>1. DgaSum(DgaParts(log[k].name)) \in 0..105
  BY DgaBound
<1>2. ~(3 * DgaSum(DgaParts(log[k].name)) >= 500)
  BY <1>1
<1> QED BY <1>2 DEF Dga

-----------------------------------------------------------------------------
(* Failing queries.                                                        *)

LEMMA SumUnion ==
  ASSUME NEW S, IsFiniteSet(S), NEW f, \A x \in S : f[x] \in Int, NEW A \in SUBSET S, NEW B \in SUBSET S, A \cap B = {}
  PROVE  SumOf(f, A \cup B) = SumOf(f, A) + SumOf(f, B)
<1> DEFINE P == {b \in SUBSET B : SumOf(f, A \cup b) = SumOf(f, A) + SumOf(f, b)}
<1>0. IsFiniteSet(A) /\ IsFiniteSet(B)
  BY FS_Subset
<1>1. {} \in P
  <2>1. A \cup {} = A /\ SumOf(f, A) \in Int
    BY <1>0, SumType
  <2> QED BY <2>1, SumEmpty
<1>2. ASSUME NEW b \in P, NEW x \in B \ b  PROVE b \cup {x} \in P
  <2>1. b \in SUBSET S /\ x \in S \ b /\ A \cup b \in SUBSET S /\ x \in S \ (A \cup b)
    OBVIOUS
  <2>2. SumOf(f, b \cup {x}) = f[x] + SumOf(f, b) /\ SumOf(f, b) \in Int
    BY <2>1, SumInsert
  <2>3. SumOf(f, (A \cup b) \cup {x}) = f[x] + SumOf(f, A \cup b) /\ SumOf(f, A \cup b) \in Int
    <3> DEFINE u == A \cup b
    <3>1. u \in SUBSET S /\ x \in S \ u
      BY <2>1
    <3> HIDE DEF u, P
    <3>2. SumOf(f, u \cup {x}) = f[x] + SumOf(f, u) /\ SumOf(f, u) \in Int
      BY <3>1, SumInsert
    <3> QED BY <3>2 DEF u
  <2>4. (A \cup b) \cup {x} = A \cup (b \cup {x}) /\ f[x] \in Int /\ SumOf(f, A) \in Int
    BY <1>0, <2>1, SumType
  <2>5. SumOf(f, A \cup b) = SumOf(f, A) + SumOf(f, b) /\ b \cup {x} \in SUBSET B
    OBVIOUS
  <2>6. SumOf(f, A \cup (b \cup {x})) = SumOf(f, A) + SumOf(f, b \cup {x})
    <3>1. SumOf(f, A \cup (b \cup {x})) = f[x] + SumOf(f, A \cup b)
      BY <2>3, <2>4
    <3> HIDE DEF P
    <3> QED BY <3>1, <2>2, <2>3, <2>4, <2>5
  <2>7. b \cup {x} \in SUBSET B
    BY <2>5
  <2> QED BY <2>6, <2>7
<1>3. P \subseteq SUBSET B
  OBVIOUS
<1>4. B \in P
  <2> HIDE DEF P
  <2> QED BY <1>0, <1>1, <1>2, <1>3, SetInduction
<1> QED BY <1>4

Lines == [k \in DOMAIN log |-> log[k].n]
Spare == [k \in DOMAIN log |-> IF log[k].nx THEN -7 * log[k].n ELSE 3 * log[k].n]

(* The lines of some batches, as a sum.                                    *)
LEMMA TotalIs ==
  ASSUME DnsTypeOK, NEW ks \in SUBSET DOMAIN log
  PROVE  Total(log, ks) = SumOf(Lines, ks) /\ Total(log, ks) \in Nat /\ IsFiniteSet(ks)
<1> DEFINE f == [k \in ks |-> log[k].n]
<1>1. IsFiniteSet(ks)
  BY LogTypes, FS_Subset
<1>2. Total(log, ks) = SumOf(f, ks)
  BY SumOfFunction DEF Total
<1>3. \A k \in ks : f[k] \in Nat /\ f[k] \in Int /\ Lines[k] = f[k]
  BY LogTypes DEF Lines
<1> HIDE DEF f
<1>4. SumOf(f, ks) \in Nat
  BY <1>1, <1>3, SumNat
<1>5. SumOf(Lines, ks) = SumOf(f, ks)
  BY <1>1, <1>3, SumEqual
<1> QED BY <1>1, <1>2, <1>4, <1>5

(* What three tenths of the lines are above the failing ones.              *)
LEMMA SpareIs ==
  ASSUME DnsTypeOK, NEW ks \in SUBSET DOMAIN log
  PROVE  SumOf(Spare, ks) = 3 * Total(log, ks) - 10 * Total(log, Failed(log, ks))
<1> DEFINE P == {s \in SUBSET ks : SumOf(Spare, s) = 3 * SumOf(Lines, s) - 10 * SumOf(Lines, Failed(log, s))}
<1>0. IsFiniteSet(ks) /\ IsFiniteSet(DOMAIN log)
  BY TotalIs, LogTypes
<1>a. \A k \in DOMAIN log : Lines[k] \in Int /\ Spare[k] \in Int
  BY LogTypes DEF Lines, Spare
<1>1. {} \in P
  <2>1. Failed(log, {}) = {}
    BY DEF Failed
  <2> QED BY <2>1, SumEmpty
<1>2. ASSUME NEW s \in P, NEW x \in ks \ s  PROVE s \cup {x} \in P
  <2>1. s \in SUBSET DOMAIN log /\ x \in DOMAIN log \ s /\ s \cup {x} \in SUBSET ks
    OBVIOUS
  <2>2. SumOf(Spare, s \cup {x}) = Spare[x] + SumOf(Spare, s) /\ SumOf(Spare, s) \in Int
    BY <1>0, <1>a, <2>1, SumInsert
  <2>3. SumOf(Lines, s \cup {x}) = Lines[x] + SumOf(Lines, s) /\ SumOf(Lines, s) \in Int
    BY <1>0, <1>a, <2>1, SumInsert
  <2>4. Failed(log, s) \in SUBSET DOMAIN log /\ x \in DOMAIN log \ Failed(log, s)
    BY <2>1 DEF Failed
  <2>5. SumOf(Lines, Failed(log, s) \cup {x}) = Lines[x] + SumOf(Lines, Failed(log, s)) /\ SumOf(Lines, Failed(log, s)) \in Int
    BY <1>0, <1>a, <2>4, SumInsert
  <2>6. SumOf(Spare, s) = 3 * SumOf(Lines, s) - 10 * SumOf(Lines, Failed(log, s))
    OBVIOUS
  <2>7. Lines[x] \in Nat /\ log[x].nx \in BOOLEAN /\ Lines[x] = log[x].n
    BY <2>1, LogTypes DEF Lines
  <2>8. CASE log[x].nx
    <3>1. Failed(log, s \cup {x}) = Failed(log, s) \cup {x}
      BY <2>1, <2>8 DEF Failed
    <3>2. Spare[x] = -7 * Lines[x]
      BY <2>1, <2>7, <2>8 DEF Spare
    <3>3. SumOf(Spare, s \cup {x}) = 3 * SumOf(Lines, s \cup {x}) - 10 * SumOf(Lines, Failed(log, s) \cup {x})
      <4> HIDE DEF P
      <4> QED BY <2>2, <2>3, <2>5, <2>6, <2>7, <3>2
    <3> QED BY <2>1, <3>1, <3>3
  <2>9. CASE ~log[x].nx
    <3>1. Failed(log, s \cup {x}) = Failed(log, s)
      BY <2>1, <2>9 DEF Failed
    <3>2. Spare[x] = 3 * Lines[x]
      BY <2>1, <2>7, <2>9 DEF Spare
    <3>3. SumOf(Spare, s \cup {x}) = 3 * SumOf(Lines, s \cup {x}) - 10 * SumOf(Lines, Failed(log, s))
      <4>1. SumOf(Lines, Failed(log, s)) \in Int
        BY <2>5
      <4> HIDE DEF P
      <4> QED BY <4>1, <2>2, <2>3, <2>6, <2>7, <3>2
    <3> QED BY <2>1, <3>1, <3>3
  <2> QED BY <2>7, <2>8, <2>9
<1>3. P \subseteq SUBSET ks
  OBVIOUS
<1>4. ks \in P
  <2> HIDE DEF P
  <2> QED BY <1>0, <1>1, <1>2, <1>3, SetInduction
<1>5. SumOf(Spare, ks) = 3 * SumOf(Lines, ks) - 10 * SumOf(Lines, Failed(log, ks))
  BY <1>4
<1>6. Failed(log, ks) \in SUBSET DOMAIN log
  BY DEF Failed
<1> QED BY <1>5, <1>6, TotalIs

(* In a list that has room for all of a set, each has fewer before it than *)
(* there is room for.                                                      *)
LEMMA RoomLeft ==
  ASSUME NEW S, IsFiniteSet(S), NEW x \in S, NEW T \in SUBSET (S \ {x}), NEW max \in Int, ~(Cardinality(S) > max)
  PROVE  Cardinality(T) < max
<1>1. IsFiniteSet(S \ {x}) /\ Cardinality(S \ {x}) = Cardinality(S) - 1
  BY FS_RemoveElement
<1>2. Cardinality(T) <= Cardinality(S \ {x}) /\ IsFiniteSet(T)
  BY <1>1, FS_Subset
<1>3. Cardinality(S) \in Nat /\ Cardinality(T) \in Nat
  BY <1>2, FS_CardinalityType
<1> QED BY <1>1, <1>2, <1>3

LinesOf(S) == {k \in DOMAIN log : log[k].src \in S}

(* A source whose queries fail too often is listed if all that fail often  *)
(* have room.                                                              *)
LEMMA BlamedIfRoom ==
  ASSUME DnsTypeOK, ~(Cardinality(Failing(log)) > MaxSources), NEW s \in Sources(log), ManyFail(log, From(log, s))
  PROVE  s \in Blamed(log)
<1> DEFINE all == Failed(log, DOMAIN log)
           src == [k \in all |-> log[k].src]
<1>1. From(log, s) \in SUBSET DOMAIN log /\ Failures(log, s) \in SUBSET DOMAIN log /\ all \in SUBSET DOMAIN log
  BY DEF From, Failed, Failures
<1>2. Total(log, From(log, s)) \in Nat /\ Total(log, Failures(log, s)) \in Nat /\ IsFiniteSet(all)
  <2> HIDE DEF all
  <2> QED BY <1>1, TotalIs
<1>3. s \in Failing(log)
  <2>1. 10 * Total(log, Failures(log, s)) > 3 * Total(log, From(log, s))
    BY DEF ManyFail, Failures
  <2>2. 10 * Total(log, Failures(log, s)) > Total(log, From(log, s))
    BY <1>2, <2>1
  <2> QED BY <2>2 DEF Failing
<1>4. IsFiniteSet(Sources(log))
  <2>1. Sources(log) = {src[k] : k \in all}
    BY DEF Sources
  <2> HIDE DEF all, src
  <2> QED BY <1>2, <2>1, ImageFinite
<1>5. IsFiniteSet(Failing(log))
  BY <1>4, FS_Subset DEF Failing
<1>6. FailOftener(log, s) \in SUBSET (Failing(log) \ {s})
  BY DEF FailOftener
<1> HIDE DEF all, src
<1>7. MaxSources \in Int
  BY DnsAssumption
<1>8. \A T \in SUBSET (Failing(log) \ {s}) : Cardinality(T) < MaxSources
  BY <1>3, <1>5, <1>7, RoomLeft
<1>9. Cardinality(FailOftener(log, s)) < MaxSources
  BY <1>6, <1>8, Zenon
<1> QED BY <1>3, <1>9 DEF Listed, Blamed

(* If the log fails too often, so does a listed source, or there are too   *)
(* many to list: were each source at three tenths at most, so would be     *)
(* their sum.                                                              *)
LEMMA BlamesSource == DnsTypeOK => NxdomainBlamed
<1> SUFFICES ASSUME DnsTypeOK, ManyFail(log, DOMAIN log), ~(Cardinality(Failing(log)) > MaxSources), Blamed(log) = {}
             PROVE  FALSE
  BY DEF NxdomainBlamed
<1> DEFINE Src   == {log[k].src : k \in DOMAIN log}
           P     == {S \in SUBSET Src : SumOf(Spare, LinesOf(S)) >= 0}
           src   == [k \in DOMAIN log |-> log[k].src]
<1>1. IsFiniteSet(DOMAIN log) /\ \A k \in DOMAIN log : Spare[k] \in Int
  BY LogTypes DEF Spare
<1>2. IsFiniteSet(Src)
  <2>1. Src = {src[k] : k \in DOMAIN log}
    OBVIOUS
  <2> HIDE DEF Src, src
  <2> QED BY <1>1, <2>1, ImageFinite
<1>3. ASSUME NEW s  PROVE SumOf(Spare, From(log, s)) >= 0 /\ SumOf(Spare, From(log, s)) \in Int
  <2>1. From(log, s) \in SUBSET DOMAIN log /\ Failed(log, From(log, s)) \in SUBSET DOMAIN log
    BY DEF From, Failed
  <2>2. SumOf(Spare, From(log, s)) = 3 * Total(log, From(log, s)) - 10 * Total(log, Failed(log, From(log, s)))
    BY <2>1, SpareIs
  <2>3. Total(log, From(log, s)) \in Nat /\ Total(log, Failed(log, From(log, s))) \in Nat
    BY <2>1, TotalIs
  <2>4. CASE s \in Sources(log)
    <3>1. ~ManyFail(log, From(log, s))
      BY <2>4, BlamedIfRoom
    <3> QED BY <2>2, <2>3, <3>1 DEF ManyFail
  <2>5. CASE s \notin Sources(log)
    <3>1. Failed(log, From(log, s)) = {}
      BY <2>5 DEF Sources, Failed, From
    <3>2. Total(log, {}) = 0
      BY TotalIs, SumEmpty
    <3> QED BY <2>2, <2>3, <3>1, <3>2
  <2> QED BY <2>4, <2>5
<1>4. {} \in P
  <2>1. LinesOf({}) = {}
    BY DEF LinesOf
  <2>2. SumOf(Spare, LinesOf({})) = 0
    BY <2>1, SumEmpty
  <2> QED BY <2>2
<1>5. ASSUME NEW S \in P, NEW s \in Src \ S  PROVE S \cup {s} \in P
  <2>1. LinesOf(S \cup {s}) = LinesOf(S) \cup From(log, s) /\ LinesOf(S) \cap From(log, s) = {}
    BY DEF From, LinesOf
  <2>2. LinesOf(S) \in SUBSET DOMAIN log /\ From(log, s) \in SUBSET DOMAIN log
    BY DEF From, LinesOf
  <2>3. SumOf(Spare, LinesOf(S) \cup From(log, s)) = SumOf(Spare, LinesOf(S)) + SumOf(Spare, From(log, s))
    <3> QED BY <1>1, <2>1, <2>2, SumUnion
  <2>4. SumOf(Spare, LinesOf(S)) \in Int /\ SumOf(Spare, LinesOf(S)) >= 0
    <3>1. IsFiniteSet(LinesOf(S))
      BY <1>1, <2>2, FS_Subset
    <3>2. \A k \in LinesOf(S) : Spare[k] \in Int
      BY <1>1, <2>2
    <3>3. SumOf(Spare, LinesOf(S)) \in Int
      <4> QED BY <3>1, <3>2, SumType
    <3> QED BY <3>3
  <2>5. SumOf(Spare, From(log, s)) >= 0 /\ SumOf(Spare, From(log, s)) \in Int
    BY <1>3
  <2>6. SumOf(Spare, LinesOf(S \cup {s})) >= 0
    <3>1. SumOf(Spare, LinesOf(S \cup {s})) = SumOf(Spare, LinesOf(S)) + SumOf(Spare, From(log, s))
      BY <2>1, <2>3
    <3> HIDE DEF P, Src
    <3> QED BY <3>1, <2>4, <2>5
  <2> QED BY <2>6
<1>6. P \subseteq SUBSET Src
  OBVIOUS
<1>7. Src \in P
  <2> HIDE DEF P, Src
  <2> QED BY <1>2, <1>4, <1>5, <1>6, SetInduction
<1>8. LinesOf(Src) = DOMAIN log
  BY DEF LinesOf
<1>9. SumOf(Spare, DOMAIN log) >= 0
  BY <1>7, <1>8
<1>10. SumOf(Spare, DOMAIN log) = 3 * Total(log, DOMAIN log) - 10 * Total(log, Failed(log, DOMAIN log))
  BY SpareIs
<1>11. Total(log, DOMAIN log) \in Nat /\ Total(log, Failed(log, DOMAIN log)) \in Nat
  <2>1. Failed(log, DOMAIN log) \in SUBSET DOMAIN log
    BY DEF Failed
  <2> QED BY <2>1, TotalIs
<1> QED BY <1>9, <1>10, <1>11 DEF ManyFail

-----------------------------------------------------------------------------
(* Fast flux.                                                              *)

LEMMA FewAreEqual ==
  ASSUME NEW S, IsFiniteSet(S), ~(Cardinality(S) > 1), NEW x \in S, NEW y \in S
  PROVE  x = y
<1> SUFFICES ASSUME x # y  PROVE FALSE
  OBVIOUS
<1>1. IsFiniteSet(S \ {x}) /\ Cardinality(S \ {x}) = Cardinality(S) - 1
  BY FS_RemoveElement
<1>2. Cardinality(S) \in Nat /\ Cardinality(S \ {x}) \in Nat
  BY <1>1, FS_CardinalityType
<1>3. y \in S \ {x} /\ Cardinality(S \ {x}) = 0
  BY <1>1, <1>2
<1> QED BY <1>1, <1>3, FS_EmptySet

(* Up to the first step nothing is scored.                                 *)
LEMMA StepLow ==
  ASSUME NEW x \in Int, NEW steps \in {SubdomainSteps, AddressSteps}, x <= steps[1]
  PROVE  Step(x, steps) = 0
<1>1. steps[1] \in Nat /\ steps[2] \in Nat /\ steps[3] \in Nat /\ steps[1] < steps[2] /\ steps[2] < steps[3]
  BY DnsAssumption
<1>2. ~(x > steps[3]) /\ ~(x > steps[2]) /\ ~(x > steps[1])
  BY <1>1
<1> QED BY <1>2 DEF Step

(* A step scores 30 at most.                                               *)
LEMMA StepHigh == \A x, steps : Step(x, steps) \in 0..30
BY DEF Step

(* The addresses of lines of one address only.                             *)
LEMMA OneAddress ==
  ASSUME DnsTypeOK, NEW own \in SUBSET DOMAIN log, NEW A, IsFiniteSet(A), ~(Cardinality(A) > 1),
         \A k \in own : Range(log[k].ips) \subseteq A /\ log[k].ips # <<>>
  PROVE  /\ Changes(log, own) = 0
         /\ Step(Cardinality(UNION {Range(log[k].ips) : k \in own}), AddressSteps) = 0
<1>1. ASSUME NEW k \in own
      PROVE  Len(log[k].ips) \in Nat \ {0} /\ \A i \in 1..Len(log[k].ips) : log[k].ips[i] \in A
  <2>1. log[k].ips \in Seq(Range(log[k].ips)) /\ log[k].ips # <<>>
    BY LogTypes
  <2>2. Len(log[k].ips) \in Nat \ {0} /\ DOMAIN log[k].ips = 1..Len(log[k].ips)
    BY <2>1
  <2> QED BY <2>1, <2>2
<1>2. ASSUME NEW k \in own  PROVE Turns(log[k].ips) = 0
  <2>1. \A i \in 2..Len(log[k].ips) : log[k].ips[i] \in A /\ log[k].ips[i - 1] \in A
    BY <1>1
  <2>2. \A i \in 2..Len(log[k].ips) : log[k].ips[i] = log[k].ips[i - 1]
    BY <2>1, FewAreEqual
  <2>3. {i \in 2..Len(log[k].ips) : log[k].ips[i] # log[k].ips[i - 1]} = {}
    BY <2>2
  <2> QED BY <2>3, FS_EmptySet DEF Turns
<1>3. ASSUME NEW j \in own, NEW k \in own  PROVE Turn(log[j].ips, log[k].ips) = 0
  <2>1. log[j].ips[Len(log[j].ips)] \in A /\ log[k].ips[1] \in A
    BY <1>1
  <2> QED BY <2>1, FewAreEqual DEF Turn
<1>4. Changes(log, own) = 0
  <2> DEFINE f == [k \in own |-> log[k].n * Turns(log[k].ips) + (log[k].n - 1) * Turn(log[k].ips, log[k].ips)]
  <2>1. IsFiniteSet(own)
    BY LogTypes, FS_Subset
  <2>2. ASSUME NEW k \in own  PROVE f[k] = 0
    <3>1. log[k].n \in Nat
      BY LogTypes
    <3>2. f[k] = log[k].n * 0 + (log[k].n - 1) * 0
      BY <1>2, <1>3
    <3> QED BY <3>1, <3>2
  <2>3. SumFunction(f) = SumOf(f, own)
    BY SumOfFunction
  <2>4. SumOf(f, own) = 0
    <3> HIDE DEF f
    <3> QED BY <2>1, <2>2, SumZero
  <2>5. {k \in own : \E j \in own : /\ j < k /\ \A m \in own : m < k => m <= j
                                     /\ Turn(log[j].ips, log[k].ips) = 1} = {}
    BY <1>3
  <2>6. Changes(log, own) = SumFunction(f) + Cardinality({})
    BY <2>5 DEF Changes
  <2> QED BY <2>3, <2>4, <2>6, FS_EmptySet
<1>5. Step(Cardinality(UNION {Range(log[k].ips) : k \in own}), AddressSteps) = 0
  <2> DEFINE U == UNION {Range(log[k].ips) : k \in own}
  <2>1. U \in SUBSET A
    OBVIOUS
  <2>2. Cardinality(U) \in Nat /\ Cardinality(A) \in Nat /\ Cardinality(U) <= Cardinality(A)
    <3> HIDE DEF U
    <3> QED BY <2>1, FS_Subset, FS_CardinalityType
  <2>3. AddressSteps[1] \in Nat \ {0} /\ Cardinality(U) \in Int
    BY <2>2, DnsAssumption
  <2>4. Cardinality(U) <= AddressSteps[1]
    <3> HIDE DEF U
    <3> QED BY <2>2, <2>3
  <2> HIDE DEF U
  <2>5. Step(Cardinality(U), AddressSteps) = 0
    BY <2>3, <2>4, StepLow
  <2> QED BY <2>5 DEF U
<1> QED BY <1>4, <1>5

(* The answers to a name do not end before they begin.                     *)
LEMMA AnswersLast ==
  ASSUME DnsTypeOK, NEW own \in SUBSET DOMAIN log, own # {}
  PROVE  /\ Max({EndOfBatch(log[k]) : k \in own}) - Min({log[k].ts : k \in own}) \in Nat
         /\ Min({log[k].ttl : k \in own}) \in Nat
<1> DEFINE ends == {EndOfBatch(log[k]) : k \in own}
           e    == [k \in own |-> EndOfBatch(log[k])]
           begs == {log[k].ts : k \in own}
           ttls == {log[k].ttl : k \in own}
<1>0. IsFiniteSet(own)
  BY LogTypes, FS_Subset
<1>1. \A k \in own : EndOfBatch(log[k]) \in Nat /\ log[k].ts \in Nat /\ log[k].ts <= EndOfBatch(log[k])
  <2> TAKE k \in own
  <2>1. log[k].ts \in Nat /\ log[k].gap \in Nat /\ log[k].n - 1 \in Nat
    BY LogTypes
  <2>2. (log[k].n - 1) * log[k].gap \in Nat
    BY <2>1
  <2> QED BY <2>1, <2>2 DEF EndOfBatch
<1>2. Max(ends) \in ends /\ \A x \in ends : x <= Max(ends)
  <2>1. ends = {e[k] : k \in own}
    OBVIOUS
  <2>2. ends \subseteq Int /\ ends # {}
    BY <1>1
  <2> HIDE DEF ends, e
  <2>3. IsFiniteSet(ends)
    BY <1>0, <2>1, ImageFinite
  <2> QED BY <2>2, <2>3, MaxIsGreatest
<1>3. Min(begs) \in begs /\ (\A x \in begs : Min(begs) <= x) /\ begs \subseteq Nat
  <2>1. begs \subseteq Nat /\ begs # {}
    BY LogTypes
  <2> HIDE DEF begs
  <2> QED BY <2>1, MinIsLeast
<1>4. Min(ttls) \in Nat
  <2>1. ttls \subseteq Nat /\ ttls # {}
    BY LogTypes
  <2> HIDE DEF ttls
  <2>2. Min(ttls) \in ttls
    BY <2>1, MinIsLeast
  <2> QED BY <2>1, <2>2
<1>5. PICK k \in own : TRUE
  OBVIOUS
<1>6. log[k].ts \in begs /\ EndOfBatch(log[k]) \in ends /\ ends \subseteq Nat
  BY <1>1
<1>7. Max(ends) - Min(begs) \in Nat
  <2> HIDE DEF ends, begs
  <2>1. Max(ends) \in Nat /\ Min(begs) \in Nat /\ Min(begs) <= log[k].ts /\ EndOfBatch(log[k]) <= Max(ends)
    BY <1>2, <1>3, <1>6
  <2> QED BY <1>1, <2>1
<1> QED BY <1>4, <1>7

(* One address alone scores neither for its number nor for its turns: too  *)
(* little for fast flux.                                                   *)
LEMMA FluxHasTwo == DnsTypeOK => FluxNeedsTwoAddresses
<1> SUFFICES ASSUME DnsTypeOK, NEW f \in FastFlux(log), f.score >= 50,
                    ~(Cardinality(UNION {Range(log[k].ips) : k \in {m \in DOMAIN log : Folded(log[m].name) = Folded(f.name)}}) > 1)
             PROVE  FALSE
  BY DEF FluxNeedsTwoAddresses
<1> DEFINE like == {m \in DOMAIN log : Folded(log[m].name) = Folded(f.name)}
           sets == {Range(log[k].ips) : k \in like}
           r    == [k \in like |-> Range(log[k].ips)]
           A    == UNION sets
           own  == AnswersTo(log, f.name)
           ttl    == IF own = {} THEN 0 ELSE Min({log[k].ttl : k \in own})
           window == IF own = {} THEN 0 ELSE Max({EndOfBatch(log[k]) : k \in own}) - Min({log[k].ts : k \in own})
<1>1. own \in SUBSET DOMAIN log /\ own \subseteq like /\ \A k \in own : log[k].ips # <<>>
  BY DEF AnswersTo
<1>2. IsFiniteSet(A)
  <2>1. IsFiniteSet(like)
    BY LogTypes, FS_Subset
  <2>2. sets = {r[k] : k \in like}
    OBVIOUS
  <2>3. \A T \in sets : IsFiniteSet(T)
    <3>1. ASSUME NEW k \in like  PROVE IsFiniteSet(Range(log[k].ips))
      <4>1. log[k].ips \in Seq(Range(log[k].ips))
        BY LogTypes
      <4>2. Len(log[k].ips) \in Nat /\ DOMAIN log[k].ips = 1..Len(log[k].ips)
        BY <4>1
      <4>3. IsFiniteSet(DOMAIN log[k].ips)
        BY <4>2, FS_Interval
      <4>4. Range(log[k].ips) = {log[k].ips[i] : i \in DOMAIN log[k].ips}
        BY DEF Range
      <4> QED BY <4>3, <4>4, ImageFinite
    <3> QED BY <3>1
  <2> HIDE DEF sets, r, like
  <2>4. IsFiniteSet(sets)
    BY <2>1, <2>2, ImageFinite
  <2> QED BY <2>3, <2>4, FS_UNION
<1>3. f.score = FluxScore(log, f.name)
  BY DEF FastFlux
<1>4. /\ Changes(log, own) = 0
      /\ Step(Cardinality(UNION {Range(log[k].ips) : k \in own}), AddressSteps) = 0
  <2>1. \A k \in own : Range(log[k].ips) \subseteq A /\ log[k].ips # <<>>
    BY <1>1
  <2>2. ~(Cardinality(A) > 1)
    OBVIOUS
  <2> HIDE DEF A, own
  <2> QED BY <1>1, <1>2, <2>1, <2>2, OneAddress
<1>5. ttl \in Nat /\ window \in Nat
  <2>1. CASE own = {}
    BY <2>1
  <2>2. CASE own # {}
    <3> HIDE DEF own
    <3> QED BY <1>1, <2>2, AnswersLast
  <2> QED BY <2>1, <2>2
<1>6. FluxScore(log, f.name) =
        0 + (IF ttl > 0 /\ ttl < 60 THEN 25 ELSE IF ttl > 0 /\ ttl < 300 THEN 10 ELSE 0)
          + (IF window = 0 THEN 0 ELSE IF 0 * 60000 > 2 * window THEN 25
             ELSE IF 0 * 120000 > window THEN 10 ELSE 0)
  BY <1>4, SMT DEF FluxScore
<1>7. FluxScore(log, f.name) \in 0..25
  <2> HIDE DEF ttl, window
  <2> QED BY <1>5, <1>6, SMT
<1>8. f.score \in 0..25
  BY <1>3, <1>7
<1> QED BY <1>8

-----------------------------------------------------------------------------
(* Tunnels.                                                                *)

LEMMA SumLess ==
  ASSUME NEW S, IsFiniteSet(S), NEW f, \A x \in S : f[x] \in Nat, NEW T \in SUBSET S
  PROVE  SumOf(f, T) <= SumOf(f, S) /\ SumOf(f, T) \in Nat /\ SumOf(f, S) \in Nat
<1>1. S \ T \in SUBSET S /\ T \cap (S \ T) = {} /\ T \cup (S \ T) = S /\ \A x \in S : f[x] \in Int
  OBVIOUS
<1>2. SumOf(f, T \cup (S \ T)) = SumOf(f, T) + SumOf(f, S \ T)
  BY <1>1, SumUnion
<1>3. IsFiniteSet(T) /\ IsFiniteSet(S \ T)
  BY FS_Subset
<1>4. SumOf(f, T) \in Nat /\ SumOf(f, S \ T) \in Nat
  BY <1>3, SumNat
<1>5. SumOf(f, S) = SumOf(f, T) + SumOf(f, S \ T)
  BY <1>1, <1>2
<1> QED BY <1>4, <1>5

(* A factor of all terms is one of their sum.                              *)
LEMMA SumScaled ==
  ASSUME NEW S, IsFiniteSet(S), NEW f, NEW h, NEW c \in Int, \A x \in S : f[x] \in Int /\ h[x] = c * f[x]
  PROVE  SumOf(h, S) = c * SumOf(f, S)
<1> DEFINE P == {s \in SUBSET S : SumOf(h, s) = c * SumOf(f, s)}
<1>0. \A x \in S : h[x] \in Int
  OBVIOUS
<1>1. {} \in P
  BY SumEmpty
<1>2. ASSUME NEW s \in P, NEW x \in S \ s  PROVE s \cup {x} \in P
  <2>1. SumOf(f, s \cup {x}) = f[x] + SumOf(f, s) /\ SumOf(f, s) \in Int
    BY SumInsert
  <2>2. SumOf(h, s \cup {x}) = h[x] + SumOf(h, s)
    BY <1>0, SumInsert
  <2>3. h[x] = c * f[x] /\ f[x] \in Int /\ SumOf(h, s) = c * SumOf(f, s)
    OBVIOUS
  <2>4. c * (f[x] + SumOf(f, s)) = c * f[x] + c * SumOf(f, s)
    BY <2>1, <2>3
  <2>5. SumOf(h, s \cup {x}) = c * SumOf(f, s \cup {x})
    BY <2>1, <2>2, <2>3, <2>4
  <2>6. s \cup {x} \in SUBSET S
    OBVIOUS
  <2> QED BY <2>5, <2>6
<1>3. P \subseteq SUBSET S
  OBVIOUS
<1>4. S \in P
  <2> HIDE DEF P
  <2> QED BY <1>1, <1>2, <1>3, SetInduction
<1> QED BY <1>4

Lowers == {Traits[l].lower : l \in DOMAIN Traits}

(* Folding changes labels one by one.                                      *)
LEMMA FoldedIs ==
  ASSUME NEW name \in Seq(DOMAIN Traits)
  PROVE  /\ Folded(name) \in Seq(Lowers) /\ Len(Folded(name)) = Len(name) /\ Len(name) \in Nat
         /\ DOMAIN name = 1..Len(name) /\ \A i \in 1..Len(name) : Folded(name)[i] = Traits[name[i]].lower
<1>1. DOMAIN name = 1..Len(name) /\ Len(name) \in Nat /\ \A i \in 1..Len(name) : name[i] \in DOMAIN Traits
  OBVIOUS
<1>2. Folded(name) = [i \in 1..Len(name) |-> Traits[name[i]].lower]
  BY <1>1 DEF Folded
<1>3. \A i \in 1..Len(name) : Traits[name[i]].lower \in Lowers
  BY <1>1 DEF Lowers
<1>4. Folded(name) \in [1..Len(name) -> Lowers]
  BY <1>2, <1>3
<1>5. Folded(name) \in Seq(Lowers)
  BY <1>1, <1>4
<1>6. DOMAIN Folded(name) = 1..Len(name)
  BY <1>4
<1>7. Len(Folded(name)) = Len(name)
  BY <1>1, <1>5, <1>6
<1> QED BY <1>1, <1>2, <1>5, <1>7

(* The labels in front of a base domain.                                   *)
LEMMA SubdomainIs ==
  ASSUME NEW name \in Seq(DOMAIN Traits), NEW base, Len(base) \in Nat, Len(name) > Len(base)
  PROVE  /\ Subdomain(name, base) \in Seq(DOMAIN Traits)
         /\ Len(Subdomain(name, base)) = Len(name) - Len(base)
         /\ \A i \in 1..Len(name) - Len(base) : Subdomain(name, base)[i] = name[i]
         /\ Folded(Subdomain(name, base)) = SubSeq(Folded(name), 1, Len(Folded(name)) - Len(base))
<1> DEFINE m == Len(name) - Len(base)
<1>1. m \in Nat \ {0} /\ m <= Len(name) /\ Len(name) \in Nat /\ \A i \in 1..m : name[i] \in DOMAIN Traits
  OBVIOUS
<1>2. SubSeq(name, 1, m) \in Seq(DOMAIN Traits) /\ Len(SubSeq(name, 1, m)) = m
      /\ \A i \in 1..m : SubSeq(name, 1, m)[i] = name[i]
  <2> HIDE DEF m
  <2>1. /\ SubSeq(name, 1, m) \in Seq(DOMAIN Traits) /\ Len(SubSeq(name, 1, m)) = IF 1 <= m THEN m - 1 + 1 ELSE 0
        /\ \A i \in 1..(m - 1 + 1) : SubSeq(name, 1, m)[i] = name[1 + i - 1]
    BY <1>1, SubSeqProperties
  <2> QED BY <1>1, <2>1
<1>3. Subdomain(name, base) = SubSeq(name, 1, m)
  BY DEF Subdomain
<1>4. Len(Folded(name)) = Len(name) /\ Folded(name) \in Seq(Lowers)
      /\ \A i \in 1..Len(name) : Folded(name)[i] = Traits[name[i]].lower
  BY FoldedIs
<1>5. SubSeq(Folded(name), 1, m) \in Seq(Lowers) /\ Len(SubSeq(Folded(name), 1, m)) = m
      /\ \A i \in 1..m : SubSeq(Folded(name), 1, m)[i] = Folded(name)[i]
  <2> HIDE DEF m
  <2>0. \A i \in 1..m : Folded(name)[i] \in Lowers
    BY <1>1, <1>4
  <2>1. /\ SubSeq(Folded(name), 1, m) \in Seq(Lowers) /\ Len(SubSeq(Folded(name), 1, m)) = IF 1 <= m THEN m - 1 + 1 ELSE 0
        /\ \A i \in 1..(m - 1 + 1) : SubSeq(Folded(name), 1, m)[i] = Folded(name)[1 + i - 1]
    BY <1>1, <2>0, SubSeqProperties
  <2> QED BY <1>1, <2>1
<1>6. Folded(SubSeq(name, 1, m)) = SubSeq(Folded(name), 1, m)
  <2> DEFINE a == SubSeq(name, 1, m)
             b == SubSeq(Folded(name), 1, m)
  <2>1. Folded(a) \in Seq(Lowers) /\ Len(Folded(a)) = m /\ \A i \in 1..m : Folded(a)[i] = Traits[a[i]].lower
    BY <1>2, FoldedIs
  <2>2. \A i \in 1..m : Folded(a)[i] = b[i]
    BY <1>1, <1>2, <1>4, <1>5, <2>1
  <2>3. b \in Seq(Lowers) /\ Len(b) = m
    BY <1>5
  <2> HIDE DEF a, b, m
  <2>4. Folded(a) = b
    BY <2>1, <2>2, <2>3
  <2> QED BY <2>4 DEF a, b
<1> QED BY <1>2, <1>3, <1>4, <1>6

(* The width of a name, as a sum.                                          *)
LEMMA WidthIs ==
  ASSUME NEW name \in Seq(DOMAIN Traits), NEW f, f = [i \in DOMAIN name |-> Traits[name[i]].len]
  PROVE  /\ Width(name) = SumOf(f, 1..Len(name)) + Len(name) - 1 /\ Len(name) \in Nat
         /\ IsFiniteSet(1..Len(name)) /\ \A i \in 1..Len(name) : f[i] \in Nat /\ f[i] = Traits[name[i]].len
<1>1. DOMAIN name = 1..Len(name) /\ Len(name) \in Nat /\ \A i \in 1..Len(name) : name[i] \in DOMAIN Traits
  OBVIOUS
<1>2. \A l \in DOMAIN Traits : Traits[l].len \in Nat
  BY DnsAssumption
<1>3. Width(name) = SumFunction(f) + Len(name) - 1
  BY DEF Width
<1>4. DOMAIN f = 1..Len(name)
  BY <1>1
<1>5. SumFunction(f) = SumOf(f, 1..Len(name))
  BY <1>4, SumOfFunction
<1>6. IsFiniteSet(1..Len(name))
  BY <1>1, FS_Interval
<1> QED BY <1>1, <1>2, <1>3, <1>5, <1>6

(* What is in front of a base domain is no wider than the name.            *)
LEMMA SubdomainNarrower ==
  ASSUME NEW name \in Seq(DOMAIN Traits), NEW base, Len(base) \in Nat, Len(name) > Len(base)
  PROVE  Width(Subdomain(name, base)) <= Width(name) /\ Width(Subdomain(name, base)) \in Nat /\ Width(name) \in Int
<1> DEFINE a == Subdomain(name, base)
           f == [i \in DOMAIN name |-> Traits[name[i]].len]
           g == [i \in DOMAIN a |-> Traits[a[i]].len]
           m == Len(name) - Len(base)
<1>1. a \in Seq(DOMAIN Traits) /\ Len(a) = m /\ \A i \in 1..m : a[i] = name[i]
  BY SubdomainIs
<1>2. /\ Width(a) = SumOf(g, 1..m) + m - 1
      /\ IsFiniteSet(1..m) /\ \A i \in 1..m : g[i] \in Nat /\ g[i] = Traits[a[i]].len
  <2> HIDE DEF a, m
  <2> QED BY <1>1, WidthIs
<1>3. /\ Width(name) = SumOf(f, 1..Len(name)) + Len(name) - 1 /\ Len(name) \in Nat
      /\ IsFiniteSet(1..Len(name)) /\ \A i \in 1..Len(name) : f[i] \in Nat /\ f[i] = Traits[name[i]].len
  BY WidthIs
<1>4. m \in Nat \ {0} /\ m <= Len(name) /\ 1..m \in SUBSET (1..Len(name))
  BY <1>3
<1> HIDE DEF a, f, g, m
<1>5. SumOf(g, 1..m) = SumOf(f, 1..m)
  <2>1. \A i \in 1..m : g[i] = f[i] /\ f[i] \in Int
    BY <1>1, <1>2, <1>3, <1>4
  <2> QED BY <1>2, <2>1, SumEqual
<1>6. SumOf(f, 1..m) <= SumOf(f, 1..Len(name)) /\ SumOf(f, 1..m) \in Nat /\ SumOf(f, 1..Len(name)) \in Nat
  BY <1>3, <1>4, SumLess
<1>7. Width(a) <= Width(name) /\ Width(a) \in Nat /\ Width(name) \in Int
  BY <1>2, <1>3, <1>4, <1>5, <1>6
<1> QED BY <1>7 DEF a

(* Names of 20 characters at most are 20 wide on average at most.          *)
LEMMA TimesUp == \A n, w \in Nat : w <= 20 => n * w \in Nat /\ n * w <= n * 20
<1> SUFFICES ASSUME NEW n \in Nat, NEW w \in Nat, w <= 20  PROVE n * w \in Nat /\ n * w <= n * 20
  OBVIOUS
<1>1. w * n <= 20 * n /\ w * n \in Nat
  BY TimesMonotone
<1>2. w * n = n * w /\ 20 * n = n * 20
  OBVIOUS
<1> QED BY <1>1, <1>2

(* A base domain is a sequence of labels, folded.                          *)
LEMMA BasesAreNames ==
  ASSUME DnsTypeOK, NEW x \in Bases(log)
  PROVE  Len(x) \in Nat
<1>1. PICK k \in DOMAIN log : Len(log[k].name) >= 2 /\ x = Base(log[k].name)
  BY DEF Bases, Based
<1> DEFINE name == log[k].name
           from == Len(name) - BaseLength(name) + 1
<1>2. name \in Seq(DOMAIN Traits) /\ Len(name) \in Nat
  BY LogTypes
<1>3. BaseLength(name) \in 2..3 /\ BaseLength(name) <= Len(name)
  BY <1>1, <1>2 DEF BaseLength, ShortTail
<1>4. from \in Int /\ from >= 1 /\ \A i \in from..Len(name) : name[i] \in DOMAIN Traits
  BY <1>2, <1>3
<1>5. SubSeq(name, from, Len(name)) \in Seq(DOMAIN Traits)
  <2> HIDE DEF name, from
  <2> QED BY <1>2, <1>4, SubSeqProperties
<1>6. x = Folded(SubSeq(name, from, Len(name)))
  BY <1>1 DEF Base
<1> QED BY <1>5, <1>6, FoldedIs

(* Lines below a domain whose names are few and short.                     *)
LEMMA FewAndShort ==
  ASSUME DnsTypeOK, NEW at \in SUBSET DOMAIN log, NEW base, Len(base) \in Nat,
         ~(Cardinality({Folded(n) : n \in {log[k].name : k \in at}}) > SubdomainSteps[1]),
         \A k \in at : ~(Width(log[k].name) > 20)
  PROVE  TunnelScore(log, at, base) \in 0..30
<1> DEFINE below  == {k \in at : Len(log[k].name) > Len(base)}
           spelt  == {log[k].name : k \in at}
           folded == {Folded(n) : n \in spelt}
           some   == {Folded(log[k].name) : k \in below}
           unique == {Folded(Subdomain(log[k].name, base)) : k \in below}
           cut    == [x \in some |-> SubSeq(x, 1, Len(x) - Len(base))]
           fold   == [k \in at |-> Folded(log[k].name)]
           chars  == [k \in below |-> log[k].n * Width(Subdomain(log[k].name, base))]
           count  == [k \in below |-> log[k].n]
           most   == [k \in below |-> 20 * log[k].n]
<1>1. IsFiniteSet(at) /\ IsFiniteSet(below) /\ below \in SUBSET DOMAIN log
  <2>1. below \in SUBSET DOMAIN log
    OBVIOUS
  <2> HIDE DEF below
  <2> QED BY <2>1, LogTypes, FS_Subset
<1>2. \A k \in below : /\ log[k].name \in Seq(DOMAIN Traits) /\ Len(log[k].name) > Len(base) /\ log[k].n \in Nat
  BY LogTypes
<1>3. \A k \in below : /\ Width(Subdomain(log[k].name, base)) \in Nat /\ Width(Subdomain(log[k].name, base)) <= 20
  <2> TAKE k \in below
  <2>1. Width(Subdomain(log[k].name, base)) <= Width(log[k].name) /\ Width(Subdomain(log[k].name, base)) \in Nat
        /\ Width(log[k].name) \in Int
    BY <1>2, SubdomainNarrower
  <2>2. ~(Width(log[k].name) > 20)
    OBVIOUS
  <2> QED BY <2>1, <2>2
<1>4. Cardinality(unique) \in Nat /\ Cardinality(unique) <= SubdomainSteps[1]
  <2>1. unique = {cut[x] : x \in some}
    <3>1. \A k \in below : Folded(Subdomain(log[k].name, base)) = cut[Folded(log[k].name)]
      BY <1>2, SubdomainIs
    <3> QED BY <3>1
  <2>2. folded = {fold[k] : k \in at} /\ some \in SUBSET folded
    OBVIOUS
  <2> HIDE DEF unique, cut, some, folded, fold
  <2>3. IsFiniteSet(folded)
    BY <1>1, <2>2, ImageFinite
  <2>4. IsFiniteSet(some) /\ Cardinality(some) <= Cardinality(folded)
    BY <2>2, <2>3, FS_Subset
  <2>5. IsFiniteSet(unique) /\ Cardinality(unique) <= Cardinality(some)
    BY <2>1, <2>4, ImageFinite
  <2>6. ~(Cardinality(folded) > SubdomainSteps[1])
    BY DEF folded
  <2>7. SubdomainSteps[1] \in Nat /\ Cardinality(unique) \in Nat /\ Cardinality(some) \in Nat /\ Cardinality(folded) \in Nat
    BY <2>3, <2>4, <2>5, FS_CardinalityType, DnsAssumption
  <2> QED BY <2>4, <2>5, <2>6, <2>7
<1>5. Step(Cardinality(unique), SubdomainSteps) = 0
  <2> HIDE DEF unique
  <2> QED BY <1>4, StepLow
<1>6. SumFunction(chars) <= 20 * Total(log, below) /\ SumFunction(chars) \in Int /\ Total(log, below) \in Nat
  <2>1. SumFunction(chars) = SumOf(chars, below) /\ Total(log, below) = SumOf(count, below)
    BY SumOfFunction DEF Total
  <2>2. \A k \in below : /\ chars[k] \in Int /\ most[k] \in Int /\ chars[k] <= most[k]
                         /\ count[k] \in Int /\ most[k] = 20 * count[k]
    <3> TAKE k \in below
    <3>1. \A n, w \in Nat : w <= 20 => n * w \in Nat /\ n * w <= n * 20
      BY TimesUp
    <3>2. log[k].n \in Nat /\ Width(Subdomain(log[k].name, base)) \in Nat /\ Width(Subdomain(log[k].name, base)) <= 20
      BY <1>2, <1>3
    <3> QED BY <3>1, <3>2
  <2>3. Total(log, below) \in Nat
    BY <1>1, TotalIs
  <2> HIDE DEF chars, count, most, below
  <2>4. SumOf(chars, below) <= SumOf(most, below) /\ SumOf(chars, below) \in Int
    BY <1>1, <2>2, SumMonotone, SumType
  <2>5. SumOf(most, below) = 20 * SumOf(count, below)
    BY <1>1, <2>2, SumScaled
  <2> QED BY <2>1, <2>3, <2>4, <2>5
<1>7. \A k \in below : ~(Width(Subdomain(log[k].name, base)) > 50)
  BY <1>3
<1>8. CASE at = {}
  BY <1>8 DEF TunnelScore
<1>9. CASE at # {}
  <2>1. ~(SumFunction(chars) > 30 * Total(log, below)) /\ ~(SumFunction(chars) > 20 * Total(log, below))
    <3> HIDE DEF chars, below
    <3> QED BY <1>6
  <2>2. TunnelScore(log, at, base) =
          Step(Cardinality(unique), SubdomainSteps)
            + (IF SumFunction(chars) > 30 * Total(log, below) THEN 25 ELSE IF SumFunction(chars) > 20 * Total(log, below) THEN 15 ELSE 0)
            + (IF \E k \in below : Width(Subdomain(log[k].name, base)) > 50 THEN 15 ELSE 0)
            + (IF 2 * Total(log, {k \in at : log[k].type = "TXT"}) > Total(log, at) THEN 20
               ELSE IF 5 * Total(log, {k \in at : log[k].type = "TXT"}) > Total(log, at) THEN 10 ELSE 0)
            + (IF Total(log, at) > 500 THEN 10 ELSE 0)
    BY <1>9 DEF TunnelScore
  <2> HIDE DEF chars, below, unique
  <2> QED BY <1>5, <1>7, <2>1, <2>2
<1> QED BY <1>8, <1>9

(* A domain whose names are few and short scores below a half, whatever    *)
(* its records and its lines.                                              *)
LEMMA TunnelsAreNamed == DnsTypeOK => TunnelsHaveNames
<1> SUFFICES ASSUME DnsTypeOK, NEW t \in Tunnels(log), t.score >= 50
             PROVE  LET examined == {log[k].name : k \in Indexed(log, t.domain)}
                    IN  /\ Cardinality(NamesUnder(log, t.domain)) > TUNNELING_MIN_SUBDOMAINS
                        /\ \/ Cardinality({Folded(n) : n \in examined}) > SubdomainSteps[1]
                           \/ \E n \in examined : Width(n) > 20
  BY DEF TunnelsHaveNames
<1>1. /\ t.domain \in Bases(log) /\ t.score = TunnelScore(log, Indexed(log, t.domain), t.domain)
      /\ Cardinality(NamesUnder(log, t.domain)) > TUNNELING_MIN_SUBDOMAINS
  BY DEF Tunnels
<1>2. Len(t.domain) \in Nat
  BY <1>1, BasesAreNames
<1>3. Indexed(log, t.domain) \in SUBSET DOMAIN log
  BY DEF Indexed
<1>4. ASSUME ~(Cardinality({Folded(n) : n \in {log[k].name : k \in Indexed(log, t.domain)}}) > SubdomainSteps[1]),
             \A n \in {log[k].name : k \in Indexed(log, t.domain)} : ~(Width(n) > 20)
      PROVE  FALSE
  <2>1. \A k \in Indexed(log, t.domain) : ~(Width(log[k].name) > 20)
    BY <1>4
  <2>2. TunnelScore(log, Indexed(log, t.domain), t.domain) \in 0..30
    BY <1>2, <1>3, <1>4, <2>1, FewAndShort
  <2>3. t.score \in 0..30
    BY <1>1, <2>2
  <2> QED BY <2>3
<1> QED BY <1>1, <1>4

(* All that is said of the DNS log follows from its type.                  *)
LEMMA DnsIsGrounded == DnsTypeOK => DnsGrounded
BY SparesWhitelist, BlamesSource, FluxHasTwo, TunnelsAreNamed DEF DnsGrounded

-----------------------------------------------------------------------------
(* Steps of an analysis.                                                   *)

OneClue  == \A c, d \in evidence : c.on = d.on /\ c.kind = d.kind => c = d
ClueInv  == evidence \subseteq Clues /\ OneClue
Carried  == \A i \in DOMAIN flows : flows[i].bytes > 0
FindInv  == FlowInv /\ Carried /\ DnsTypeOK /\ ClueInv

(* The invariant holds of an analysis that has seen nothing.               *)
LEMMA FindStart == Init => FindInv
<1> SUFFICES ASSUME Init  PROVE FindInv
  OBVIOUS
<1>1. FlowInv /\ DnsTypeOK /\ evidence = {} /\ flows = <<>>
  BY FlowStart, DnsKeeps DEF Init, FlowInit
<1>2. DOMAIN flows = {}
  BY <1>1
<1> QED BY <1>1, <1>2 DEF FindInv, ClueInv, OneClue, Carried

(* A flow is never less than it was.                                       *)
FlowsGrow ==
  /\ DOMAIN flows \subseteq DOMAIN flows'
  /\ \A i \in DOMAIN flows :
       /\ flows'[i].src = flows[i].src /\ flows'[i].dst = flows[i].dst /\ flows'[i].dport = flows[i].dport
       /\ flows'[i].bytes >= flows[i].bytes

(* A train only adds to the flows.                                         *)
LEMMA FlowsGrew ==
  ASSUME FlowInv, Carried, FlowNext
  PROVE  Carried' /\ FlowsGrow /\ wire' # wire
<1>1. PICK t \in Trains : ReadTrain(t)
  BY DEF FlowNext
<1>2. wire' # wire
  <2>1. wire \in Seq(Trains) /\ wire' = Append(wire, t)
    BY <1>1 DEF ReadTrain, FlowInv, FlowTypeOK
  <2>2. Len(wire') = Len(wire) + 1 /\ Len(wire) \in Nat
    BY <2>1
  <2> QED BY <2>2
<1>3. \A i \in DOMAIN flows : flows[i].bytes \in Nat
  BY CountsAre
<1>4. CASE ~HasAddresses(t)
  <2>1. flows' = flows
    BY <1>1, <1>4 DEF ReadTrain
  <2> QED BY <1>2, <1>3, <2>1 DEF Carried, FlowsGrow
<1>5. CASE HasAddresses(t)
  <2>1. PICK j \in Nat : Took(t, j)
    BY <1>1, <1>5, TakesTrain DEF FlowInv
  <2>2. t.n * t.len \in Nat \ {0}
    <3>1. t.n \in Nat \ {0} /\ t.len \in Nat \ {0}
      BY TrainType, FindingsAssumption
    <3>2. 1 * t.len <= t.n * t.len /\ t.n * t.len \in Nat
      BY <3>1, TimesMonotone
    <3> QED BY <3>1, <3>2
  <2>3. DOMAIN flows' = DOMAIN flows \cup {j} /\ \A i \in DOMAIN flows \ {j} : flows'[i] = flows[i]
    BY <2>1 DEF Took
  <2>4. CASE j \in DOMAIN flows
    <3>1. Key(flows[j]) = Key(flows'[j]) /\ flows'[j].bytes = flows[j].bytes + t.n * t.len
      BY <2>1, <2>4 DEF Took
    <3>2. flows'[j].src = flows[j].src /\ flows'[j].dst = flows[j].dst /\ flows'[j].dport = flows[j].dport
      BY <3>1, KeyEnds
    <3>3. flows'[j].bytes >= flows[j].bytes /\ flows'[j].bytes > 0
      BY <1>3, <2>2, <2>4, <3>1
    <3>4. FlowsGrow
      BY <1>3, <2>3, <2>4, <3>2, <3>3 DEF FlowsGrow
    <3>5. Carried'
      BY <2>3, <2>4, <3>3 DEF Carried
    <3> QED BY <1>2, <3>4, <3>5
  <2>5. CASE j \notin DOMAIN flows
    <3>1. flows'[j].bytes > 0
      BY <2>1, <2>2, <2>5 DEF Took
    <3>2. FlowsGrow
      BY <1>3, <2>3, <2>5 DEF FlowsGrow
    <3>3. Carried'
      BY <2>3, <2>5, <3>1 DEF Carried
    <3> QED BY <1>2, <3>2, <3>3
  <2> QED BY <2>4, <2>5
<1> QED BY <1>4, <1>5

(* What a clue leaves of those there were.                                 *)
LEMMA Learned ==
  ASSUME ClueInv, NEW c \in Clues, Learn(c)
  PROVE  /\ ClueInv'
         /\ c \in evidence' /\ \A d \in evidence : d.on = c.on /\ d.kind = c.kind => d.amount < c.amount
         /\ \A d : d.on # c.on \/ d.kind # c.kind => (d \in evidence' <=> d \in evidence)
BY DEF Learn, ClueInv, OneClue

(* A new ranking of beacons leaves one clue of each kind.                  *)
LEMMA RankedAnew ==
  ASSUME ClueInv, Reranked
  PROVE  ClueInv' /\ \A d : d.kind # "beacon" => (d \in evidence' <=> d \in evidence)
<1>1. PICK ranked \in SUBSET {c \in Clues : c.kind = "beacon" /\ c.on \in {flows'[i].dst : i \in DOMAIN flows'}} :
        /\ \A c, d \in ranked : c.on = d.on => c = d
        /\ evidence' = {d \in evidence : d.kind # "beacon"} \cup ranked
  BY DEF Reranked
<1>2. \A c \in ranked : c \in Clues /\ c.kind = "beacon"
  BY <1>1
<1>3. evidence' \subseteq Clues
  BY <1>1, <1>2 DEF ClueInv
<1>4. OneClue'
  <2> SUFFICES ASSUME NEW c \in evidence', NEW d \in evidence', c.on = d.on, c.kind = d.kind  PROVE c = d
    BY DEF OneClue
  <2>1. CASE c.kind = "beacon"
    BY <1>1, <2>1
  <2>2. CASE c.kind # "beacon"
    BY <1>1, <1>2, <2>2 DEF ClueInv, OneClue
  <2> QED BY <2>1, <2>2
<1> QED BY <1>1, <1>2, <1>3, <1>4 DEF ClueInv

(* Every step of an analysis keeps the invariant.                          *)
LEMMA FindKeeps == FindInv /\ [Next]_vars => FindInv'
<1> SUFFICES ASSUME FindInv, [Next]_vars  PROVE FindInv'
  OBVIOUS
<1>1. CASE FlowNext /\ Reranked /\ UNCHANGED dnsVars
  <2>1. FlowInv' /\ Carried'
    BY <1>1, FlowKeeps, FlowsGrew DEF FindInv
  <2>2. DnsTypeOK' /\ ClueInv'
    BY <1>1, RankedAnew DEF FindInv, DnsTypeOK, dnsVars
  <2> QED BY <2>1, <2>2 DEF FindInv
<1>2. CASE DnsNext /\ UNCHANGED <<flowVars, evidence>>
  <2>1. FlowInv' /\ Carried'
    BY <1>2, FlowStays DEF FindInv, Carried, flowVars
  <2>2. DnsTypeOK' /\ ClueInv'
    BY <1>2, DnsKeeps DEF FindInv, ClueInv, OneClue
  <2> QED BY <2>1, <2>2 DEF FindInv
<1>3. CASE (\E c \in Clues : Learn(c)) /\ UNCHANGED <<flowVars, dnsVars>>
  <2>1. FlowInv' /\ Carried'
    BY <1>3, FlowStays DEF FindInv, Carried, flowVars
  <2>2. DnsTypeOK' /\ ClueInv'
    BY <1>3, Learned DEF FindInv, DnsTypeOK, dnsVars
  <2> QED BY <2>1, <2>2 DEF FindInv
<1>4. CASE UNCHANGED vars
  <2>1. FlowInv' /\ Carried'
    BY <1>4, FlowStays DEF FindInv, Carried, flowVars, vars
  <2>2. DnsTypeOK' /\ ClueInv'
    BY <1>4 DEF FindInv, DnsTypeOK, ClueInv, OneClue, vars, dnsVars
  <2> QED BY <2>1, <2>2 DEF FindInv
<1> QED BY <1>1, <1>2, <1>3, <1>4 DEF Next

(* In every state the flows and what flow_analysis.py and visibility.py    *)
(* report of them are those of the wire: totals, uploads, C2 ports, busy   *)
(* flows, window.                                                          *)
THEOREM FlowsAlwaysExact == Spec => []FlowsExact
<1>1. FindInv => FlowsExact
  BY FlowsAreExact DEF FindInv
<1> QED BY <1>1, FindStart, FindKeeps, PTL DEF Spec

(* In every state each verdict of dns_analysis.py has its ground in the    *)
(* log: generated names, tunnels, fast flux, failing sources.              *)
THEOREM DnsAlwaysGrounded == Spec => []DnsGrounded
<1>1. FindInv => DnsGrounded
  BY DnsIsGrounded DEF FindInv
<1> QED BY <1>1, FindStart, FindKeeps, PTL DEF Spec
-----------------------------------------------------------------------------
(* The arithmetic of a verdict.                                            *)

Grounds(signals) == \A s \in SignalNames : signals[s] \in Nat /\ signals[s] <= 100

(* A signal weighs 20 hundredths at most.                                  *)
LEMMA WeightIs == \A s \in SignalNames : SIGNAL_WEIGHTS[s] \in Nat /\ SIGNAL_WEIGHTS[s] <= 20
BY DEF SignalNames, SIGNAL_WEIGHTS

(* A stronger signal weighs more, and half at most.                        *)
LEMMA WeighedRises ==
  ASSUME NEW s \in SignalNames, NEW x \in Nat, NEW y \in Nat, x <= y, y <= 100
  PROVE  /\ Weighed(s, x) \in Nat /\ Weighed(s, y) \in Nat /\ Weighed(s, x) <= Weighed(s, y)
         /\ Weighed(s, y) <= 5000
<1> DEFINE w == SIGNAL_WEIGHTS[s]
<1>1. w \in Nat /\ w <= 20
  BY WeightIs
<1>2. x * w \in Nat /\ y * w \in Nat /\ x * w <= y * w /\ y * w <= 2000
  <2>1. x * w \in Nat /\ y * w \in Nat /\ x * w <= y * w /\ y * w <= 100 * w
    BY <1>1, TimesMonotone
  <2> QED BY <1>1, <2>1
<1> DEFINE m == x * w
           n == y * w
<1>3. m \in Nat /\ n \in Nat /\ m <= n /\ n <= 2000
  BY <1>2
<1>4. Weighed(s, x) = Smaller((m * 5) \div 2, 9500) /\ Weighed(s, y) = Smaller((n * 5) \div 2, 9500)
  BY DEF Weighed
<1> HIDE DEF w, m, n
<1> DEFINE c == (m * 5) \div 2
           d == (n * 5) \div 2
<1>5. c \in Nat /\ d \in Nat /\ c <= d /\ d <= 5000
  BY <1>3
<1>6. Weighed(s, x) = Smaller(c, 9500) /\ Weighed(s, y) = Smaller(d, 9500)
  BY <1>4
<1> HIDE DEF c, d
<1>7. Smaller(c, 9500) = c /\ Smaller(d, 9500) = d
  BY <1>5 DEF Smaller
<1> QED BY <1>5, <1>6, <1>7

(* No signal, no weight.                                                   *)
LEMMA WeighedNone == ASSUME NEW s \in SignalNames  PROVE Weighed(s, 0) = 0
<1> DEFINE w == SIGNAL_WEIGHTS[s]
<1>1. w \in Nat
  BY WeightIs
<1>2. Weighed(s, 0) = Smaller((0 * w * 5) \div 2, 9500)
  BY DEF Weighed
<1> HIDE DEF w
<1>3. (0 * w * 5) \div 2 = 0
  BY <1>1
<1> QED BY <1>2, <1>3 DEF Smaller

(* More of a signal leaves less of a product, none of it leaves it whole.  *)
LEMMA LeftFalls ==
  ASSUME NEW s \in SignalNames, NEW a, NEW b, a[s] \in Nat, b[s] \in Nat, b[s] <= 100, a[s] <= b[s],
         NEW p \in Nat, NEW q \in Nat, q <= p, p <= 10000
  PROVE  Left(a, s, p) \in Nat /\ Left(b, s, q) \in Nat /\ Left(b, s, q) <= Left(a, s, p) /\ Left(a, s, p) <= 10000
<1> DEFINE c == Weighed(s, a[s])
           d == Weighed(s, b[s])
<1>1. c \in Nat /\ d \in Nat /\ c <= d /\ d <= 5000
  BY WeighedRises
<1>2. Left(a, s, p) = (p * (10000 - c)) \div 10000 /\ Left(b, s, q) = (q * (10000 - d)) \div 10000
  BY DEF Left
<1> HIDE DEF c, d
<1> DEFINE u == 10000 - c
           v == 10000 - d
<1>3. u \in Nat /\ v \in Nat /\ v <= u /\ u <= 10000
  BY <1>1, SMT
<1> HIDE DEF u, v
<1>4. Left(a, s, p) = (p * u) \div 10000 /\ Left(b, s, q) = (q * v) \div 10000
  BY <1>2 DEF u, v
<1>5. q * v <= p * v /\ q * v \in Nat
  BY <1>3, TimesMonotone
<1>6. v * p <= u * p /\ u * p \in Nat /\ v * p \in Nat /\ u * p <= 10000 * p
  BY <1>3, TimesMonotone
<1>7. v * p = p * v /\ u * p = p * u
  BY <1>3
<1> DEFINE m == p * u
           k == q * v
<1>8. m \in Nat /\ k \in Nat /\ k <= m /\ m <= 10000 * p
  BY <1>5, <1>6, <1>7
<1>9. Left(a, s, p) = m \div 10000 /\ Left(b, s, q) = k \div 10000
  BY <1>4
<1> HIDE DEF m, k
<1>10. m \div 10000 \in Nat /\ k \div 10000 \in Nat /\ k \div 10000 <= m \div 10000 /\ m \div 10000 <= p
  BY <1>8, SMT
<1> QED BY <1>9, <1>10, SMT

(* A signal that is absent leaves a product as it is.                      *)
LEMMA LeftWhole ==
  ASSUME NEW s \in SignalNames, NEW a, a[s] = 0, NEW p \in Nat
  PROVE  Left(a, s, p) = p
<1>1. Weighed(s, a[s]) = 0
  BY WeighedNone
<1>2. Left(a, s, p) = (p * (10000 - 0)) \div 10000
  BY <1>1 DEF Left
<1>3. (p * (10000 - 0)) \div 10000 = p
  BY SMT
<1> QED BY <1>2, <1>3

(* One signal leaves at least half.                                        *)
LEMMA LeftHalf ==
  ASSUME NEW s \in SignalNames, NEW a, a[s] \in Nat, a[s] <= 100
  PROVE  Left(a, s, 10000) \in Nat /\ Left(a, s, 10000) >= 5000
<1> DEFINE w == Weighed(s, a[s])
<1>1. w \in Nat /\ w <= 5000
  BY WeighedRises
<1>2. Left(a, s, 10000) = (10000 * (10000 - w)) \div 10000
  BY DEF Left
<1> HIDE DEF w
<1>3. (10000 * (10000 - w)) \div 10000 = 10000 - w
  BY <1>1, SMT
<1>4. 10000 - w \in Nat /\ 10000 - w >= 5000
  BY <1>1, SMT
<1> QED BY <1>2, <1>3, <1>4

(* Signals one after the other                                             *)
Shrinks(q, p) == p \in Nat /\ q \in Nat /\ q <= p /\ p <= 10000

Worse(a, b) == Grounds(a) /\ Grounds(b) /\ \A s \in SignalNames : a[s] <= b[s]

(* A stronger signal leaves less, of a product that is no larger.          *)
LEMMA StepFalls ==
  ASSUME NEW a, NEW b, Worse(a, b), NEW s \in SignalNames, NEW p, NEW q, Shrinks(q, p)
  PROVE  Shrinks(Left(b, s, q), Left(a, s, p))
<1>1. a[s] \in Nat /\ b[s] \in Nat /\ b[s] <= 100 /\ a[s] <= b[s]
  BY DEF Worse, Grounds
<1>2. p \in Nat /\ q \in Nat /\ q <= p /\ p <= 10000
  BY DEF Shrinks
<1> QED BY <1>1, <1>2, LeftFalls DEF Shrinks

(* Stronger signals have a larger complement, 10000 at most.               *)
LEMMA ComplementRises ==
  ASSUME NEW a, NEW b, Worse(a, b)
  PROVE  Complement(a) \in Nat /\ Complement(b) \in Nat /\ Complement(a) <= Complement(b) /\ Complement(b) <= 10000
<1> DEFINE p1 == Left(a, "vt_detections", 10000)
           q1 == Left(b, "vt_detections", 10000)
           p2 == Left(a, "greynoise_malicious", p1)
           q2 == Left(b, "greynoise_malicious", q1)
           p3 == Left(a, "abuseipdb", p2)
           q3 == Left(b, "abuseipdb", q2)
           p4 == Left(a, "shodan_vulns", p3)
           q4 == Left(b, "shodan_vulns", q3)
           p5 == Left(a, "shodan_exposure", p4)
           q5 == Left(b, "shodan_exposure", q4)
           p6 == Left(a, "dga_domain", p5)
           q6 == Left(b, "dga_domain", q5)
           p7 == Left(a, "dns_tunneling", p6)
           q7 == Left(b, "dns_tunneling", q6)
           p8 == Left(a, "beacon_score", p7)
           q8 == Left(b, "beacon_score", q7)
           p9 == Left(a, "flow_asymmetry", p8)
           q9 == Left(b, "flow_asymmetry", q8)
<1>a. Shrinks(10000, 10000)
  BY SMT DEF Shrinks
<1>b. {"vt_detections", "greynoise_malicious", "abuseipdb", "shodan_vulns", "shodan_exposure",
       "dga_domain", "dns_tunneling", "beacon_score", "flow_asymmetry"} \subseteq SignalNames
  BY DEF SignalNames
<1>1. Shrinks(q1, p1)
  BY <1>a, <1>b, StepFalls
<1>2. Shrinks(q2, p2)
  BY <1>1, <1>b, StepFalls
<1>3. Shrinks(q3, p3)
  BY <1>2, <1>b, StepFalls
<1>4. Shrinks(q4, p4)
  BY <1>3, <1>b, StepFalls
<1>5. Shrinks(q5, p5)
  BY <1>4, <1>b, StepFalls
<1>6. Shrinks(q6, p6)
  BY <1>5, <1>b, StepFalls
<1>7. Shrinks(q7, p7)
  BY <1>6, <1>b, StepFalls
<1>8. Shrinks(q8, p8)
  BY <1>7, <1>b, StepFalls
<1>9. Shrinks(q9, p9)
  BY <1>8, <1>b, StepFalls
<1>10. Complement(a) = 10000 - p9 /\ Complement(b) = 10000 - q9
  BY DEF Complement
<1> HIDE DEF p9, q9
<1>11. p9 \in Nat /\ q9 \in Nat /\ q9 <= p9 /\ p9 <= 10000
  BY <1>9 DEF Shrinks
<1>12. 10000 - p9 \in Nat /\ 10000 - q9 \in Nat /\ 10000 - p9 <= 10000 - q9 /\ 10000 - q9 <= 10000
  BY <1>11, SMT
<1> QED BY <1>10, <1>12

(* One signal by itself.                                                   *)
LEMMA ComplementOfOne ==
  ASSUME NEW a, Grounds(a), NEW s \in SignalNames, \A r \in SignalNames \ {s} : a[r] = 0
  PROVE  Complement(a) \in Nat /\ Complement(a) <= 5000
<1>b. /\ "vt_detections" \in SignalNames /\ "greynoise_malicious" \in SignalNames /\ "abuseipdb" \in SignalNames
      /\ "shodan_vulns" \in SignalNames /\ "shodan_exposure" \in SignalNames /\ "dga_domain" \in SignalNames
      /\ "dns_tunneling" \in SignalNames /\ "beacon_score" \in SignalNames /\ "flow_asymmetry" \in SignalNames
  BY DEF SignalNames
<1> DEFINE half == Left(a, s, 10000)
<1>1. half \in Nat /\ half >= 5000 /\ half <= 10000 /\ 10000 \in Nat
  <2>1. a[s] \in Nat /\ a[s] <= 100 /\ 10000 \in Nat
    BY DEF Grounds
  <2>2. half \in Nat /\ half >= 5000
    BY <2>1, LeftHalf
  <2>3. half <= 10000
    <3>1. a[s] <= a[s] /\ 10000 <= 10000
      BY <2>1
    <3> QED BY <2>1, <3>1, LeftFalls
  <2> QED BY <2>1, <2>2, <2>3
<1>2. /\ \A r \in SignalNames \ {s} : Left(a, r, half) = half
      /\ \A r \in SignalNames \ {s} : Left(a, r, 10000) = 10000
  <2> HIDE DEF half
  <2> QED BY <1>1, LeftWhole
<1>3. Complement(a) = 10000 - half
  <2>1. CASE s = "vt_detections"
    <3>1. \A r \in SignalNames \ {"vt_detections"} : Left(a, r, 10000) = 10000
      BY <1>2, <2>1
    <3>2. half = Left(a, "vt_detections", 10000)
      BY <2>1
    <3> HIDE DEF half
    <3> QED BY <1>b, <1>2, <3>1, <3>2, <2>1 DEF Complement
  <2>2. CASE s = "greynoise_malicious"
    <3>1. \A r \in SignalNames \ {"greynoise_malicious"} : Left(a, r, 10000) = 10000
      BY <1>2, <2>2
    <3>2. half = Left(a, "greynoise_malicious", 10000)
      BY <2>2
    <3> HIDE DEF half
    <3> QED BY <1>b, <1>2, <3>1, <3>2, <2>2 DEF Complement
  <2>3. CASE s = "abuseipdb"
    <3>1. \A r \in SignalNames \ {"abuseipdb"} : Left(a, r, 10000) = 10000
      BY <1>2, <2>3
    <3>2. half = Left(a, "abuseipdb", 10000)
      BY <2>3
    <3> HIDE DEF half
    <3> QED BY <1>b, <1>2, <3>1, <3>2, <2>3 DEF Complement
  <2>4. CASE s = "shodan_vulns"
    <3>1. \A r \in SignalNames \ {"shodan_vulns"} : Left(a, r, 10000) = 10000
      BY <1>2, <2>4
    <3>2. half = Left(a, "shodan_vulns", 10000)
      BY <2>4
    <3> HIDE DEF half
    <3> QED BY <1>b, <1>2, <3>1, <3>2, <2>4 DEF Complement
  <2>5. CASE s = "shodan_exposure"
    <3>1. \A r \in SignalNames \ {"shodan_exposure"} : Left(a, r, 10000) = 10000
      BY <1>2, <2>5
    <3>2. half = Left(a, "shodan_exposure", 10000)
      BY <2>5
    <3> HIDE DEF half
    <3> QED BY <1>b, <1>2, <3>1, <3>2, <2>5 DEF Complement
  <2>6. CASE s = "dga_domain"
    <3>1. \A r \in SignalNames \ {"dga_domain"} : Left(a, r, 10000) = 10000
      BY <1>2, <2>6
    <3>2. half = Left(a, "dga_domain", 10000)
      BY <2>6
    <3> HIDE DEF half
    <3> QED BY <1>b, <1>2, <3>1, <3>2, <2>6 DEF Complement
  <2>7. CASE s = "dns_tunneling"
    <3>1. \A r \in SignalNames \ {"dns_tunneling"} : Left(a, r, 10000) = 10000
      BY <1>2, <2>7
    <3>2. half = Left(a, "dns_tunneling", 10000)
      BY <2>7
    <3> HIDE DEF half
    <3> QED BY <1>b, <1>2, <3>1, <3>2, <2>7 DEF Complement
  <2>8. CASE s = "beacon_score"
    <3>1. \A r \in SignalNames \ {"beacon_score"} : Left(a, r, 10000) = 10000
      BY <1>2, <2>8
    <3>2. half = Left(a, "beacon_score", 10000)
      BY <2>8
    <3> HIDE DEF half
    <3> QED BY <1>b, <1>2, <3>1, <3>2, <2>8 DEF Complement
  <2>9. CASE s = "flow_asymmetry"
    <3>1. \A r \in SignalNames \ {"flow_asymmetry"} : Left(a, r, 10000) = 10000
      BY <1>2, <2>9
    <3>2. half = Left(a, "flow_asymmetry", 10000)
      BY <2>9
    <3> HIDE DEF half
    <3> QED BY <1>b, <1>2, <3>1, <3>2, <2>9 DEF Complement
  <2> QED BY <2>1, <2>2, <2>3, <2>4, <2>5, <2>6, <2>7, <2>8, <2>9 DEF SignalNames
<1> HIDE DEF half
<1> QED BY <1>1, <1>3, SMT

(* A floor raises a score to 5500 at most.                                 *)
LEMMA FloorIs ==
  ASSUME NEW a, Grounds(a), NEW c \in Nat
  PROVE  /\ Floored(a, c) \in Nat /\ Floored(a, c) >= c
         /\ Floored(a, c) <= Larger(c, 5500)
<1>1. a.vt_detections \in Nat /\ a.greynoise_malicious \in Nat
  BY DEF Grounds, SignalNames
<1> QED BY <1>1, SMT DEF Floored, Larger

(* Stronger signals have a higher score: a floor only rises with them, and *)
(* a cap goes with the first signal of the better tiers.                   *)
LEMMA CompositeRises ==
  ASSUME NEW a, NEW b, Worse(a, b)
  PROVE  Composite(a) \in Nat /\ Composite(b) \in Nat /\ Composite(a) <= Composite(b)
<1> DEFINE ca == Complement(a)
           cb == Complement(b)
           fa == Floored(a, ca)
           fb == Floored(b, cb)
           ga == \E s \in Tier1 \cup Tier2 : a[s] > 0
           gb == \E s \in Tier1 \cup Tier2 : b[s] > 0
<1>1. ca \in Nat /\ cb \in Nat /\ ca <= cb
  BY ComplementRises
<1>2. /\ a.vt_detections \in Nat /\ a.greynoise_malicious \in Nat /\ b.vt_detections \in Nat /\ b.greynoise_malicious \in Nat
      /\ a.vt_detections <= b.vt_detections /\ a.greynoise_malicious <= b.greynoise_malicious
  BY DEF Worse, Grounds, SignalNames
<1>3. fa \in Nat /\ fb \in Nat /\ fa <= fb
  <2> HIDE DEF ca, cb
  <2> QED BY <1>1, <1>2, SMT DEF Floored, Larger
<1>4. ga => gb
  <2>1. Tier1 \cup Tier2 \subseteq SignalNames
    BY DEF Tier1, Tier2, SignalNames
  <2>2. \A s \in Tier1 \cup Tier2 : a[s] \in Nat /\ b[s] \in Nat /\ a[s] <= b[s]
    BY <2>1 DEF Worse, Grounds
  <2> QED BY <2>2
<1>5. /\ Composite(a) = IF ga THEN fa ELSE Smaller(fa, 4500)
      /\ Composite(b) = IF gb THEN fb ELSE Smaller(fb, 4500)
  BY DEF Composite
<1> HIDE DEF fa, fb, ga, gb
<1> QED BY <1>3, <1>4, <1>5, SMT DEF Smaller

(* A higher score has a worse verdict.                                     *)
LEMMA VerdictRises == \A x, y \in Nat : x <= y => Verdict(x) <= Verdict(y)
BY SMT DEF Verdict

(* One signal alone is not critical.                                       *)
LEMMA AloneNotCritical ==
  ASSUME NEW a, Grounds(a), ~(Cardinality({s \in SignalNames : a[s] > 0}) > 1)
  PROVE  Verdict(Composite(a)) # 3
<1> DEFINE some == {s \in SignalNames : a[s] > 0}
<1>1. IsFiniteSet(SignalNames)
  <2>1. SignalNames = {"vt_detections"} \cup ({"greynoise_malicious"} \cup ({"abuseipdb"} \cup ({"beacon_score"} \cup ({"dga_domain"} \cup
          ({"dns_tunneling"} \cup ({"flow_asymmetry"} \cup ({"shodan_vulns"} \cup {"shodan_exposure"})))))))
    BY DEF SignalNames
  <2>2. \A x : IsFiniteSet({x})
    BY FS_Singleton
  <2> QED BY <2>1, <2>2, FS_Union
<1>2. IsFiniteSet(some)
  BY <1>1, FS_Subset
<1>3. \E s \in SignalNames : \A r \in SignalNames \ {s} : a[r] = 0
  <2>1. CASE some = {}
    <3>1. \A r \in SignalNames : a[r] = 0
      BY <2>1 DEF Grounds
    <3>2. "abuseipdb" \in SignalNames
      BY DEF SignalNames
    <3> QED BY <3>1, <3>2
  <2>2. CASE some # {}
    <3>1. PICK s \in some : TRUE
      BY <2>2
    <3>2. \A r \in some : r = s
      <4> HIDE DEF some
      <4>1. ~(Cardinality(some) > 1)
        BY DEF some
      <4> QED BY <1>2, <3>1, <4>1, FewAreEqual
    <3>3. \A r \in SignalNames \ {s} : a[r] = 0
      BY <3>2 DEF Grounds
    <3> QED BY <3>1, <3>3
  <2> QED BY <2>1, <2>2
<1>4. Complement(a) \in Nat /\ Complement(a) <= 5000
  BY <1>3, ComplementOfOne
<1> DEFINE f == Floored(a, Complement(a))
<1>5. f \in Nat /\ f <= 5500
  <2>1. f \in Nat /\ f <= Larger(Complement(a), 5500)
    BY <1>4, FloorIs
  <2> HIDE DEF f
  <2> QED BY <1>4, <2>1, SMT DEF Larger
<1>6. Composite(a) = f \/ Composite(a) = Smaller(f, 4500)
  BY DEF Composite
<1> HIDE DEF f
<1> QED BY <1>5, <1>6, SMT DEF Smaller, Verdict

-----------------------------------------------------------------------------
(* The signals of an indicator.                                            *)

OneOf(es)      == es \subseteq Clues /\ \A c, d \in es : c.on = d.on /\ c.kind = d.kind => c = d
Grown(es, more) == \A d \in es : \E e \in more : e.on = d.on /\ e.kind = d.kind /\ d.amount <= e.amount

(* The fields of a clue.                                                   *)
LEMMA ClueType == \A c \in Clues : /\ c.amount \in Nat \ {0} /\ c.kind \in Kinds
                                   /\ c.kind \in {"abuse", "beacon"} => c.amount <= 100
BY FindingsAssumption

(* What is kept of a clue is its amount, and zero without one.             *)
LEMMA AmountIs ==
  ASSUME NEW es, OneOf(es)
  PROVE  /\ \A d \in es : Amount(es, d.on, d.kind) = d.amount
         /\ \A on, kind : (\A d \in es : d.on # on \/ d.kind # kind) => Amount(es, on, kind) = 0
<1>1. ASSUME NEW d \in es  PROVE Amount(es, d.on, d.kind) = d.amount
  <2>1. {c.amount : c \in {e \in es : e.on = d.on /\ e.kind = d.kind}} = {d.amount}
    BY DEF OneOf
  <2>2. d.amount \in Nat
    BY ClueType DEF OneOf
  <2>3. Max({d.amount}) = d.amount
    BY <2>2 DEF Max
  <2> QED BY <2>1, <2>3 DEF Amount
<1>2. ASSUME NEW on, NEW kind, \A d \in es : d.on # on \/ d.kind # kind  PROVE Amount(es, on, kind) = 0
  <2>1. {c.amount : c \in {e \in es : e.on = on /\ e.kind = kind}} = {}
    BY <1>2
  <2> QED BY <2>1 DEF Amount
<1> QED BY <1>1, <1>2

(* More evidence, larger amounts.                                          *)
LEMMA AmountRises ==
  ASSUME NEW es, NEW more, OneOf(es), OneOf(more), Grown(es, more), NEW on, NEW kind
  PROVE  /\ Amount(es, on, kind) \in Nat /\ Amount(more, on, kind) \in Nat
         /\ Amount(es, on, kind) <= Amount(more, on, kind)
         /\ kind \in {"abuse", "beacon"} => Amount(more, on, kind) <= 100
<1>1. ASSUME NEW fs, OneOf(fs)
      PROVE  Amount(fs, on, kind) \in Nat /\ (kind \in {"abuse", "beacon"} => Amount(fs, on, kind) <= 100)
  <2>1. CASE \E d \in fs : d.on = on /\ d.kind = kind
    BY <1>1, <2>1, AmountIs, ClueType DEF OneOf
  <2>2. CASE ~\E d \in fs : d.on = on /\ d.kind = kind
    BY <1>1, <2>2, AmountIs
  <2> QED BY <2>1, <2>2
<1>2. Amount(es, on, kind) <= Amount(more, on, kind)
  <2>1. CASE \E d \in es : d.on = on /\ d.kind = kind
    <3>1. PICK d \in es : d.on = on /\ d.kind = kind
      BY <2>1
    <3>2. PICK e \in more : e.on = d.on /\ e.kind = d.kind /\ d.amount <= e.amount
      BY <3>1 DEF Grown
    <3>3. Amount(es, on, kind) = d.amount /\ Amount(more, on, kind) = e.amount
      BY <3>1, <3>2, AmountIs
    <3> QED BY <3>2, <3>3
  <2>2. CASE ~\E d \in es : d.on = on /\ d.kind = kind
    <3>1. Amount(es, on, kind) = 0
      BY <2>2, AmountIs
    <3> QED BY <1>1, <3>1
  <2> QED BY <2>1, <2>2
<1> QED BY <1>1, <1>2

(* The greatest of some numbers up to a bound                              *)
LEMMA GreatestUpTo ==
  ASSUME NEW S, S # {}, NEW n \in Nat, S \subseteq 0..n
  PROVE  Max(S) \in S /\ Max(S) \in Nat /\ \A y \in S : y <= Max(S)
<1>1. IsFiniteSet(0..n)
  BY FS_Interval
<1>2. S \in SUBSET (0..n)
  OBVIOUS
<1>3. IsFiniteSet(S)
  BY <1>1, <1>2, FS_Subset
<1>4. S \subseteq Int
  OBVIOUS
<1>5. Max(S) \in S /\ \A y \in S : y <= Max(S)
  BY <1>3, <1>4, MaxIsGreatest
<1>6. \A y \in S : y \in Nat
  OBVIOUS
<1> QED BY <1>5, <1>6

(* The best of some scores up to 100.                                      *)
LEMMA BestIs ==
  ASSUME NEW results, \A r \in results : r.score \in Nat /\ r.score <= 100
  PROVE  BestOf(results) \in Nat /\ BestOf(results) <= 100 /\ \A r \in results : r.score <= BestOf(results)
<1> DEFINE S == {r.score : r \in results}
<1>1. CASE results = {}
  BY <1>1 DEF BestOf
<1>2. CASE results # {}
  <2>1. S # {} /\ S \subseteq 0..100
    BY <1>2
  <2>2. BestOf(results) = Smaller(Max(S), 100)
    BY <1>2 DEF BestOf
  <2>3. \A r \in results : r.score \in S
    OBVIOUS
  <2> HIDE DEF S
  <2>4. Max(S) \in S /\ Max(S) \in Nat /\ \A y \in S : y <= Max(S)
    BY <2>1, GreatestUpTo
  <2>5. Max(S) <= 100
    BY <2>1, <2>4
  <2> QED BY <2>2, <2>3, <2>4, <2>5 DEF Smaller
<1> QED BY <1>1, <1>2

(* An upload scores 100 at most.                                           *)
LEMMA UploadScores ==
  ASSUME NEW fs, NEW ip
  PROVE  AsymmetryOf(fs, ip) \in Nat /\ AsymmetryOf(fs, ip) <= 100
<1>1. \A out, in : RatioScore(out, in) \in {0, 15, 30, 50} /\ VolumeScore(out) \in {0, 15, 30}
  BY SMT DEF RatioScore, VolumeScore
<1>2. ASSUME NEW p  PROVE Asymmetry(fs, p).score \in Nat /\ Asymmetry(fs, p).score <= 100
  <2> DEFINE out == OutBytes(fs, p[1], p[2])
             in  == OutBytes(fs, p[2], p[1])
             sum == RatioScore(out, in) + VolumeScore(out)
  <2>1. sum \in Nat /\ sum <= 100
    BY <1>1
  <2>2. Asymmetry(fs, p).score = IF out >= ASYMMETRY_MIN_BYTES /\ RatioScore(out, in) > 0 THEN sum ELSE 0
    BY DEF Asymmetry
  <2> HIDE DEF sum, out, in
  <2> QED BY <2>1, <2>2
<1>3. \A r \in {u \in Uploads(fs) : u.dst = ip} : r.score \in Nat /\ r.score <= 100
  BY <1>2 DEF Uploads
<1> QED BY <1>3, BestIs DEF AsymmetryOf

(* More evidence, stronger signals of an address.                          *)
LEMMA IpWorse ==
  ASSUME NEW fs, NEW es, NEW more, OneOf(es), OneOf(more), Grown(es, more), NEW x
  PROVE  Worse(IpSignals(fs, es, x), IpSignals(fs, more, x))
<1> DEFINE a == IpSignals(fs, es, x)
           b == IpSignals(fs, more, x)
<1>1. \A kind : /\ Amount(es, x, kind) \in Nat /\ Amount(more, x, kind) \in Nat
                /\ Amount(es, x, kind) <= Amount(more, x, kind)
                /\ kind \in {"abuse", "beacon"} => Amount(more, x, kind) <= 100
  BY AmountRises
<1>2. AsymmetryOf(fs, x) \in Nat /\ AsymmetryOf(fs, x) <= 100
  BY UploadScores
<1> DEFINE Rises(s) == a[s] \in Nat /\ b[s] \in Nat /\ a[s] <= b[s] /\ b[s] <= 100
<1>3. Rises("vt_detections")
  BY <1>1 DEF IpSignals, Smaller
<1>4. Rises("greynoise_malicious")
  BY <1>1 DEF IpSignals
<1>5. Rises("abuseipdb")
  BY <1>1 DEF IpSignals
<1>6. Rises("shodan_vulns")
  BY <1>1 DEF IpSignals, Smaller
<1>7. Rises("shodan_exposure")
  <2> DEFINE m == Amount(es, x, "ports")
             n == Amount(more, x, "ports")
  <2>1. /\ a["shodan_exposure"] = IF m >= 10 THEN Smaller((m * 100) \div 30, 80) ELSE 0
        /\ b["shodan_exposure"] = IF n >= 10 THEN Smaller((n * 100) \div 30, 80) ELSE 0
    BY DEF IpSignals
  <2>2. m \in Nat /\ n \in Nat /\ m <= n
    BY <1>1
  <2> HIDE DEF m, n, a, b
  <2>3. (m * 100) \div 30 \in Nat /\ (n * 100) \div 30 \in Nat /\ (m * 100) \div 30 <= (n * 100) \div 30
    BY <2>2
  <2> DEFINE v == (m * 100) \div 30
             w == (n * 100) \div 30
  <2> HIDE DEF v, w
  <2>4. v \in Nat /\ w \in Nat /\ v <= w
    BY <2>3 DEF v, w
  <2>5. /\ a["shodan_exposure"] = IF m >= 10 THEN Smaller(v, 80) ELSE 0
        /\ b["shodan_exposure"] = IF n >= 10 THEN Smaller(w, 80) ELSE 0
    BY <2>1 DEF v, w
  <2> QED BY <2>2, <2>4, <2>5 DEF Smaller
<1>8. Rises("beacon_score")
  BY <1>1 DEF IpSignals
<1>9. Rises("flow_asymmetry")
  BY <1>2 DEF IpSignals
<1>10. Rises("dga_domain") /\ Rises("dns_tunneling")
  BY DEF IpSignals
<1> HIDE DEF a, b
<1>11. Worse(a, b)
  BY <1>3, <1>4, <1>5, <1>6, <1>7, <1>8, <1>9, <1>10 DEF Worse, Grounds, SignalNames
<1> QED BY <1>11 DEF a, b

(* A tunnel scores 100 at most.                                            *)
LEMMA TunnelScores ==
  ASSUME NEW bs, NEW t \in Tunnels(bs)
  PROVE  t.score \in Nat /\ t.score <= 100
<1>1. \A at, base : TunnelScore(bs, at, base) \in Nat /\ TunnelScore(bs, at, base) <= 100
  <2>1. \A x, steps : Step(x, steps) \in Nat /\ Step(x, steps) <= 30
    BY DEF Step
  <2> TAKE at, base
  <2> DEFINE below  == {k \in at : Len(bs[k].name) > Len(base)}
             unique == {Folded(Subdomain(bs[k].name, base)) : k \in below}
             chars  == SumFunction([k \in below |-> bs[k].n * Width(Subdomain(bs[k].name, base))])
             lines  == Total(bs, at)
             txt    == Total(bs, {k \in at : bs[k].type = "TXT"})
             named  == Total(bs, below)
             long   == \E k \in below : Width(Subdomain(bs[k].name, base)) > 50
             new    == Step(Cardinality(unique), SubdomainSteps)
  <2>2. TunnelScore(bs, at, base) =
          IF at = {} THEN 0
          ELSE new + (IF chars > 30 * named THEN 25 ELSE IF chars > 20 * named THEN 15 ELSE 0)
                   + (IF long THEN 15 ELSE 0)
                   + (IF 2 * txt > lines THEN 20 ELSE IF 5 * txt > lines THEN 10 ELSE 0)
                   + (IF lines > 500 THEN 10 ELSE 0)
    BY DEF TunnelScore
  <2>3. new \in Nat /\ new <= 30
    BY <2>1
  <2> HIDE DEF unique, chars, lines, txt, named, long, new
  <2> QED BY <2>2, <2>3
<1>2. t.score = TunnelScore(bs, Indexed(bs, t.domain), t.domain)
  BY DEF Tunnels
<1> QED BY <1>1, <1>2

(* The signals of a name are scores up to 100.                             *)
LEMMA DomainGrounds ==
  ASSUME NEW bs, NEW es, OneOf(es), NEW x
  PROVE  Grounds(DomainSignals(bs, es, x))
<1> DEFINE a == DomainSignals(bs, es, x)
           some == {t \in TunnelDetections(bs) : t.domain = x /\ t.score >= 50}
<1>1. Amount(es, x, "engines") \in Nat
  <2>1. Grown(es, es)
    BY ClueType DEF Grown, OneOf
  <2> QED BY <2>1, AmountRises
<1>2. a["vt_detections"] \in Nat /\ a["vt_detections"] <= 100
  BY <1>1 DEF DomainSignals, Smaller
<1>3. a["dga_domain"] \in Nat /\ a["dga_domain"] <= 100
  BY DgaBound DEF DomainSignals, Smaller
<1>4. a["dns_tunneling"] \in Nat /\ a["dns_tunneling"] <= 100
  <2>1. \A r \in some : r.score \in Nat /\ r.score <= 100
    BY TunnelScores DEF TunnelDetections, Best
  <2>2. BestOf(some) \in Nat /\ BestOf(some) <= 100
    <3> HIDE DEF some
    <3> QED BY <2>1, BestIs
  <2>3. a["dns_tunneling"] = BestOf(some)
    BY DEF DomainSignals
  <2> QED BY <2>2, <2>3
<1>5. \A s \in SignalNames \ {"vt_detections", "dga_domain", "dns_tunneling"} : a[s] = 0
  BY DEF DomainSignals, SignalNames
<1> HIDE DEF a
<1>6. Grounds(a)
  BY <1>2, <1>3, <1>4, <1>5 DEF Grounds
<1> QED BY <1>6 DEF a

-----------------------------------------------------------------------------
(* The verdicts.                                                           *)

LEMMA CriticalIsNotAlone == FindInv => CriticalNeedsTwoSignals
<1> SUFFICES ASSUME FindInv, NEW r \in Correlations, Verdict(Composite(r.signals)) = 3
             PROVE  Cardinality(Signalled(r)) > 1
  BY DEF CriticalNeedsTwoSignals
<1>1. OneOf(evidence)
  BY DEF FindInv, ClueInv, OneClue, OneOf
<1>2. Grounds(r.signals)
  <2>1. CASE \E x \in Ips \cap Public : r = [on |-> x, signals |-> IpSignals(flows, evidence, x)]
    <3>1. PICK x : r.signals = IpSignals(flows, evidence, x)
      BY <2>1
    <3>2. Grown(evidence, evidence)
      BY <1>1, ClueType DEF Grown, OneOf
    <3> QED BY <1>1, <3>1, <3>2, IpWorse DEF Worse
  <2>2. CASE \E x \in Queried(log) : r = [on |-> x, signals |-> DomainSignals(log, evidence, x)]
    <3>1. PICK x : r.signals = DomainSignals(log, evidence, x)
      BY <2>2
    <3> QED BY <1>1, <3>1, DomainGrounds
  <2> QED BY <2>1, <2>2 DEF Correlations
<1> QED BY <1>2, AloneNotCritical DEF Signalled

(* Confirmed tunnels are finitely many: each has a name of the log below   *)
(* its domain.                                                             *)
LEMMA TunnelsFinite ==
  ASSUME DnsTypeOK
  PROVE  IsFiniteSet({r \in Tunnels(log) : r.score >= 50})
<1> DEFINE base  == [k \in DOMAIN log |-> Base(log[k].name)]
           tun   == [x \in Bases(log) |-> [domain |-> x, score |-> TunnelScore(log, Indexed(log, x), x)]]
           Tuns  == {tun[x] : x \in Bases(log)}
<1>1. IsFiniteSet(Bases(log))
  <2>1. Bases(log) = {base[k] : k \in Based(log)}
    BY DEF Bases, Based
  <2>2. IsFiniteSet(Based(log))
    BY LogTypes, FS_Subset DEF Based
  <2> HIDE DEF base
  <2> QED BY <2>1, <2>2, ImageFinite
<1>2. IsFiniteSet(Tuns)
  <2> HIDE DEF tun
  <2> QED BY <1>1, ImageFinite
<1>3. {r \in Tunnels(log) : r.score >= 50} \in SUBSET Tuns
  BY DEF Tunnels
<1> HIDE DEF Tuns
<1> QED BY <1>2, <1>3, FS_Subset

(* Only confirmed tunnels come before a confirmed one in the list.         *)
LEMMA ConfirmedAreListed ==
  ASSUME DnsTypeOK, NEW t \in Tunnels(log), t.score >= 50,
         Cardinality({u \in Tunnels(log) : u.score >= 50}) <= MAX_TUNNELING_RESULTS
  PROVE  t \in TunnelDetections(log)
<1> DEFINE confirmed == {u \in Tunnels(log) : u.score >= 50}
<1>1. IsFiniteSet(confirmed) /\ Cardinality(confirmed) \in Nat
  BY TunnelsFinite, FS_CardinalityType
<1>2. Before(Tunnels(log), t) \in SUBSET (confirmed \ {t})
  <2>1. \A u \in Before(Tunnels(log), t) : u \in Tunnels(log) /\ u # t /\ u.score >= t.score /\ u.score \in Nat
    BY TunnelScores DEF Before
  <2> QED BY <2>1, TunnelScores
<1>3. Cardinality(Before(Tunnels(log), t)) < MAX_TUNNELING_RESULTS
  <2>1. t \in confirmed /\ MAX_TUNNELING_RESULTS \in Int /\ ~(Cardinality(confirmed) > MAX_TUNNELING_RESULTS)
    BY <1>1, DnsAssumption
  <2> HIDE DEF confirmed
  <2> QED BY <1>1, <1>2, <2>1, RoomLeft
<1> QED BY <1>3 DEF TunnelDetections, Best

(* A confirmed tunnel reaches the verdict of its domain exactly if the     *)
(* domain was asked for, as long as the list has room for all that are     *)
(* confirmed.                                                              *)
LEMMA TunnelsReach == DnsTypeOK => TunnelsCorrelated
<1> SUFFICES ASSUME DnsTypeOK, Cardinality({u \in Tunnels(log) : u.score >= 50}) <= MAX_TUNNELING_RESULTS,
                    NEW t \in Tunnels(log), t.score >= 50
             PROVE  t.domain \in Queried(log) <=> \E r \in Correlations : r.on = t.domain /\ "dns_tunneling" \in Signalled(r)
  BY DEF TunnelsCorrelated
<1>1. ASSUME t.domain \in Queried(log)
      PROVE  \E r \in Correlations : r.on = t.domain /\ "dns_tunneling" \in Signalled(r)
  <2> DEFINE some == {u \in TunnelDetections(log) : u.domain = t.domain /\ u.score >= 50}
             r    == [on |-> t.domain, signals |-> DomainSignals(log, evidence, t.domain)]
  <2>1. r \in Correlations /\ r.on = t.domain
    BY <1>1 DEF Correlations
  <2>2. r.signals["dns_tunneling"] = BestOf(some)
    BY DEF DomainSignals
  <2>3. t \in some /\ \A u \in some : u.score \in Nat /\ u.score <= 100
    BY TunnelScores, ConfirmedAreListed DEF TunnelDetections, Best
  <2>4. BestOf(some) \in Nat /\ t.score <= BestOf(some)
    <3> HIDE DEF some
    <3> QED BY <2>3, BestIs
  <2>5. BestOf(some) > 0 /\ "dns_tunneling" \in SignalNames
    BY <2>3, <2>4 DEF SignalNames
  <2>6. "dns_tunneling" \in Signalled(r)
    <3> HIDE DEF r, some
    <3> QED BY <2>2, <2>5 DEF Signalled
  <2> QED BY <2>1, <2>6
<1>2. ASSUME NEW r \in Correlations, r.on = t.domain, "dns_tunneling" \in Signalled(r)
      PROVE  t.domain \in Queried(log)
  <2>1. r.signals["dns_tunneling"] > 0
    BY <1>2 DEF Signalled
  <2>2. \A x : IpSignals(flows, evidence, x)["dns_tunneling"] = 0
    BY DEF IpSignals
  <2>3. \E x \in Queried(log) : r = [on |-> x, signals |-> DomainSignals(log, evidence, x)]
    BY <2>1, <2>2 DEF Correlations
  <2> QED BY <1>2, <2>3
<1> QED BY <1>1, <1>2

(* A clue of which there is as much or more is still there.                *)
LEMMA StillThere ==
  ASSUME NEW es, OneOf(es), NEW on, NEW kind, NEW n \in Nat \ {0}, Amount(es, on, kind) >= n
  PROVE  \E e \in es : e.on = on /\ e.kind = kind /\ n <= e.amount
<1>1. CASE \A d \in es : d.on # on \/ d.kind # kind
  <2>1. Amount(es, on, kind) = 0
    BY <1>1, AmountIs
  <2> QED BY <2>1
<1>2. CASE \E d \in es : d.on = on /\ d.kind = kind
  <2>1. PICK d \in es : d.on = on /\ d.kind = kind
    BY <1>2
  <2>2. Amount(es, on, kind) = d.amount
    BY <2>1, AmountIs
  <2> QED BY <2>1, <2>2
<1> QED BY <1>1, <1>2

(* What a step adds: stronger clues, or packets that leave the beacons as  *)
(* they were or make them more regular.                                    *)
LEMMA StepAdds ==
  ASSUME FindInv, [Next]_vars, UNCHANGED log
  PROVE  /\ OneOf(evidence) /\ OneOf(evidence')
         /\ UNCHANGED wire \/ BeaconsHold => Grown(evidence, evidence')
         /\ FlowsGrow
         /\ UNCHANGED wire => UNCHANGED flows
<1>1. OneOf(evidence) /\ \A d \in evidence : d.amount \in Nat
  BY ClueType DEF FindInv, ClueInv, OneClue, OneOf
<1>2. OneOf(evidence')
  BY FindKeeps DEF FindInv, ClueInv, OneClue, OneOf
<1>3. ASSUME UNCHANGED evidence  PROVE Grown(evidence, evidence')
  BY <1>1, <1>3 DEF Grown
<1>4. ASSUME UNCHANGED flows  PROVE FlowsGrow
  <2>1. \A i \in DOMAIN flows : flows[i].bytes \in Nat
    BY CountsAre DEF FindInv
  <2> QED BY <1>4, <2>1 DEF FlowsGrow
<1>5. CASE FlowNext /\ Reranked /\ UNCHANGED dnsVars
  <2>1. FlowsGrow /\ wire' # wire
    BY <1>5, FlowsGrew DEF FindInv
  <2>2. ASSUME BeaconsHold  PROVE Grown(evidence, evidence')
    <3> SUFFICES ASSUME NEW d \in evidence  PROVE \E e \in evidence' : e.on = d.on /\ e.kind = d.kind /\ d.amount <= e.amount
      BY DEF Grown
    <3>1. d \in Clues /\ d.amount \in Nat \ {0}
      BY ClueType DEF FindInv, ClueInv
    <3>2. CASE d.kind = "beacon"
      <4>1. Amount(evidence', d.on, "beacon") >= d.amount
        BY <2>2, <3>2 DEF BeaconsHold
      <4> QED BY <1>2, <3>1, <3>2, <4>1, StillThere
    <3>3. CASE d.kind # "beacon"
      <4>1. d \in evidence'
        BY <1>5, <3>3, RankedAnew DEF FindInv
      <4> QED BY <3>1, <4>1
    <3> QED BY <3>2, <3>3
  <2> QED BY <1>1, <1>2, <2>1, <2>2
<1>6. CASE DnsNext
  <2>1. PICK b \in Batches : log' = Append(log, b)
    BY <1>6 DEF DnsNext, ReadBatch
  <2>2. log \in Seq(Batches)
    BY DEF FindInv, DnsTypeOK
  <2>3. Len(log') = Len(log) + 1 /\ Len(log) \in Nat
    BY <2>1, <2>2
  <2> QED BY <2>3
<1>7. CASE (\E c \in Clues : Learn(c)) /\ UNCHANGED <<flowVars, dnsVars>>
  <2>1. PICK c \in Clues : Learn(c)
    BY <1>7
  <2>2. Grown(evidence, evidence')
    <3> SUFFICES ASSUME NEW d \in evidence  PROVE \E e \in evidence' : e.on = d.on /\ e.kind = d.kind /\ d.amount <= e.amount
      BY DEF Grown
    <3>1. /\ c \in evidence' /\ (d.on = c.on /\ d.kind = c.kind => d.amount < c.amount)
          /\ (d.on # c.on \/ d.kind # c.kind => d \in evidence')
      BY <2>1, Learned DEF FindInv
    <3>2. d.amount \in Nat /\ c.amount \in Nat /\ d.amount <= d.amount
      BY <1>1, ClueType
    <3>3. CASE d.on = c.on /\ d.kind = c.kind
      BY <3>1, <3>2, <3>3
    <3>4. CASE d.on # c.on \/ d.kind # c.kind
      BY <3>1, <3>2, <3>4
    <3> QED BY <3>3, <3>4
  <2> QED BY <1>1, <1>2, <1>4, <1>7, <2>2 DEF flowVars
<1>8. CASE UNCHANGED vars
  BY <1>1, <1>2, <1>3, <1>4, <1>8 DEF vars, flowVars
<1> QED BY <1>5, <1>6, <1>7, <1>8 DEF Next

(* A step that reads no packet and no DNS line makes no verdict milder.    *)
LEMMA EvidenceOnlyWorsens ==
  ASSUME FindInv, [Next]_vars, UNCHANGED <<wire, log>>, NEW x
  PROVE  Verdict(Composite(IpSignals(flows', evidence', x))) >= Verdict(Composite(IpSignals(flows, evidence, x)))
<1>1. OneOf(evidence) /\ OneOf(evidence') /\ Grown(evidence, evidence') /\ flows' = flows
  BY StepAdds
<1> DEFINE a == IpSignals(flows, evidence, x)
           b == IpSignals(flows, evidence', x)
<1>2. Worse(a, b)
  BY <1>1, IpWorse
<1> HIDE DEF a, b
<1>3. Composite(a) \in Nat /\ Composite(b) \in Nat /\ Composite(a) <= Composite(b)
  BY <1>2, CompositeRises
<1>4. Verdict(Composite(a)) <= Verdict(Composite(b)) /\ Verdict(Composite(a)) \in Nat /\ Verdict(Composite(b)) \in Nat
  BY <1>3, VerdictRises DEF Verdict
<1> QED BY <1>1, <1>4 DEF a, b

(* Clues of OSINT and YARA, in any order, never make the verdict of        *)
(* _compute_composite() on an address milder.                              *)
THEOREM VerdictsOnlyWorsen == Spec => EvidenceNeverLowersVerdict
<1>1. FindInv /\ [Next]_vars =>
        [UNCHANGED <<wire, log>> =>
           \A x \in Ips \cap Public :
             Verdict(Composite(IpSignals(flows', evidence', x))) >= Verdict(Composite(IpSignals(flows, evidence, x)))]_vars
  BY EvidenceOnlyWorsens
<1> QED BY <1>1, FindStart, FindKeeps, PTL DEF Spec, EvidenceNeverLowersVerdict

-----------------------------------------------------------------------------
(* Techniques.                                                             *)

Beacons(es) == UNION {BeaconTechniques(c.amount) : c \in {d \in es : d.kind = "beacon"}}

Matches(fs, bs, es) ==
  Beacons(es) \cup DnsTechniques(bs) \cup YaraTechniques({c.kind : c \in es})
    \cup TransferTechniques(fs) \cup PortTechniques(fs)

Ids == {"T1071.001", "T1571", "T1573", "T1568.002", "T1071.004", "T1048.003", "T1568.001",
        "T1059", "T1027", "T1055", "T1105", "T1048", "T1041"}
Tactics == {"command-and-control", "exfiltration", "execution", "defense-evasion"}

IsTechnique(t) == /\ t = Technique(t.id, t.tactic, t.confidence) /\ t.id \in Ids /\ t.tactic \in Tactics
                  /\ t.confidence \in Nat /\ t.confidence <= 100
Formed(ts)     == \A t \in ts : IsTechnique(t)

(* Techniques and tactics are finitely many.                               *)
LEMMA IdsFinite == IsFiniteSet(Ids) /\ IsFiniteSet(Tactics)
<1>1. \A x : IsFiniteSet({x})
  BY FS_Singleton
<1>2. IsFiniteSet(Tactics)
  <2>1. Tactics = {"command-and-control"} \cup ({"exfiltration"} \cup ({"execution"} \cup {"defense-evasion"}))
    BY DEF Tactics
  <2> QED BY <1>1, <2>1, FS_Union
<1>3. IsFiniteSet(Ids)
  <2> DEFINE some == {"T1071.001"} \cup ({"T1571"} \cup ({"T1573"} \cup ({"T1568.002"} \cup ({"T1071.004"} \cup {"T1048.003"}))))
             rest == {"T1568.001"} \cup ({"T1059"} \cup ({"T1027"} \cup ({"T1055"} \cup ({"T1105"} \cup ({"T1048"} \cup {"T1041"})))))
  <2>1. Ids = some \cup rest
    BY DEF Ids
  <2>2. IsFiniteSet(some)
    BY <1>1, FS_Union
  <2>3. IsFiniteSet(rest)
    BY <1>1, FS_Union
  <2> HIDE DEF some, rest
  <2> QED BY <2>1, <2>2, <2>3, FS_Union
<1> QED BY <1>2, <1>3

(* What _deduplicate_techniques() keeps                                    *)
Like(ts, t) == {u.confidence : u \in {v \in ts : v.id = t.id /\ v.tactic = t.tactic}}
BestMatch(ts, t) == Technique(t.id, t.tactic, Max(Like(ts, t)))

(* The best of the matches of one technique and tactic.                    *)
LEMMA LikeIs ==
  ASSUME NEW ts, Formed(ts), NEW t \in ts
  PROVE  /\ Max(Like(ts, t)) \in Nat /\ Max(Like(ts, t)) <= 100 /\ t.confidence <= Max(Like(ts, t))
         /\ \E u \in ts : u.id = t.id /\ u.tactic = t.tactic /\ u.confidence = Max(Like(ts, t))
<1> DEFINE S == Like(ts, t)
<1>1. S # {} /\ S \subseteq 0..100 /\ t.confidence \in S
  BY DEF Like, Formed, IsTechnique
<1>2. \A c \in S : \E u \in ts : u.id = t.id /\ u.tactic = t.tactic /\ u.confidence = c
  BY DEF Like
<1> HIDE DEF S
<1>3. Max(S) \in S /\ Max(S) \in Nat /\ \A y \in S : y <= Max(S)
  BY <1>1, GreatestUpTo
<1>4. Max(S) <= 100
  BY <1>1, <1>3
<1> QED BY <1>1, <1>2, <1>3, <1>4 DEF S

(* _deduplicate_techniques() keeps one entry for each technique and        *)
(* tactic.                                                                 *)
LEMMA DeduplicatedIs ==
  ASSUME NEW ts, Formed(ts)
  PROVE  /\ Deduplicated(ts) = {BestMatch(ts, t) : t \in ts}
         /\ Formed(Deduplicated(ts))
         /\ \A x, y \in Deduplicated(ts) : x.id = y.id /\ x.tactic = y.tactic => x = y
<1>1. ASSUME NEW t \in ts  PROVE [t EXCEPT !.confidence = Max(Like(ts, t))] = BestMatch(ts, t)
  <2>1. t = [id |-> t.id, tactic |-> t.tactic, confidence |-> t.confidence]
    BY DEF Formed, IsTechnique, Technique
  <2> DEFINE m == Max(Like(ts, t))
  <2> HIDE DEF m
  <2>2. [t EXCEPT !.confidence = m] = [id |-> t.id, tactic |-> t.tactic, confidence |-> m]
    BY <2>1
  <2> QED BY <2>2 DEF m, BestMatch, Technique
<1>2. Deduplicated(ts) = {BestMatch(ts, t) : t \in ts}
  BY <1>1 DEF Deduplicated, Like
<1>3. ASSUME NEW t \in ts  PROVE IsTechnique(BestMatch(ts, t)) /\ BestMatch(ts, t).id = t.id /\ BestMatch(ts, t).tactic = t.tactic
  <2> DEFINE m == Max(Like(ts, t))
  <2>1. m \in Nat /\ m <= 100
    BY LikeIs
  <2>2. t.id \in Ids /\ t.tactic \in Tactics
    BY DEF Formed, IsTechnique
  <2>3. BestMatch(ts, t) = [id |-> t.id, tactic |-> t.tactic, confidence |-> m]
    BY DEF BestMatch, Technique
  <2> HIDE DEF m
  <2> QED BY <2>1, <2>2, <2>3 DEF IsTechnique, Technique
<1>4. \A t, u \in ts : t.id = u.id /\ t.tactic = u.tactic => BestMatch(ts, t) = BestMatch(ts, u)
  BY DEF BestMatch, Like
<1>5. ASSUME NEW x \in Deduplicated(ts), NEW y \in Deduplicated(ts), x.id = y.id, x.tactic = y.tactic  PROVE x = y
  <2>1. PICK t \in ts : x = BestMatch(ts, t)
    BY <1>2
  <2>2. PICK u \in ts : y = BestMatch(ts, u)
    BY <1>2
  <2> QED BY <1>3, <1>4, <1>5, <2>1, <2>2
<1>6. Formed(Deduplicated(ts))
  BY <1>2, <1>3 DEF Formed
<1> QED BY <1>2, <1>5, <1>6

(* One entry for each technique and tactic: as many as there are of these. *)
LEMMA DeduplicatedCount ==
  ASSUME NEW ts, Formed(ts)
  PROVE  LET pairs == {<<t.id, t.tactic>> : t \in ts}
         IN  IsFiniteSet(pairs) /\ Cardinality(Deduplicated(ts)) = Cardinality(pairs)
<1> DEFINE pairs == {<<t.id, t.tactic>> : t \in ts}
           D     == Deduplicated(ts)
           of    == [q \in pairs |-> CHOOSE x \in D : x.id = q[1] /\ x.tactic = q[2]]
<1>1. IsFiniteSet(pairs)
  <2>1. IsFiniteSet(Ids \X Tactics)
    BY IdsFinite, FS_Product
  <2>2. pairs \in SUBSET (Ids \X Tactics)
    BY DEF Formed, IsTechnique
  <2> HIDE DEF pairs
  <2> QED BY <2>1, <2>2, FS_Subset
<1>2. \A q \in pairs : \E x \in D : x.id = q[1] /\ x.tactic = q[2]
  <2> SUFFICES ASSUME NEW t \in ts  PROVE \E x \in D : x.id = t.id /\ x.tactic = t.tactic
    OBVIOUS
  <2>1. BestMatch(ts, t) \in D /\ BestMatch(ts, t).id = t.id /\ BestMatch(ts, t).tactic = t.tactic
    BY DeduplicatedIs DEF BestMatch, Technique
  <2> QED BY <2>1
<1>3. \A x \in D : <<x.id, x.tactic>> \in pairs
  BY DeduplicatedIs DEF BestMatch, Technique
<1>4. \A q \in pairs : of[q] \in D /\ of[q].id = q[1] /\ of[q].tactic = q[2]
  <2> HIDE DEF pairs, D
  <2> QED BY <1>2
<1>5. \A q \in pairs : q = <<q[1], q[2]>>
  OBVIOUS
<1>6. D = {of[q] : q \in pairs}
  <2>1. ASSUME NEW x \in D  PROVE x \in {of[q] : q \in pairs}
    <3> DEFINE q == <<x.id, x.tactic>>
    <3>1. q \in pairs /\ q[1] = x.id /\ q[2] = x.tactic
      BY <1>3
    <3>2. of[q] \in D /\ of[q].id = x.id /\ of[q].tactic = x.tactic
      BY <1>4, <3>1
    <3>3. of[q] = x
      BY <3>2, DeduplicatedIs
    <3> HIDE DEF of, q
    <3> QED BY <3>1, <3>3
  <2> HIDE DEF of
  <2> QED BY <1>4, <2>1
<1>7. \A q, r \in pairs : of[q] = of[r] => q = r
  <2> SUFFICES ASSUME NEW q \in pairs, NEW r \in pairs, of[q] = of[r]  PROVE q = r
    OBVIOUS
  <2> HIDE DEF pairs, of, D
  <2>1. of[q].id = q[1] /\ of[q].tactic = q[2] /\ of[r].id = r[1] /\ of[r].tactic = r[2]
    BY <1>4
  <2>2. q[1] = r[1] /\ q[2] = r[2]
    BY <2>1
  <2> QED BY <1>5, <2>2
<1> HIDE DEF pairs, D, of
<1>8. Cardinality(D) = Cardinality(pairs)
  BY <1>1, <1>6, <1>7, ImageFinite
<1> QED BY <1>1, <1>8 DEF pairs, D

(* Stronger matches, or more of them.                                      *)
Outdone(ts, us) == \A t \in ts : \E u \in us : u.id = t.id /\ u.tactic = t.tactic /\ t.confidence <= u.confidence

Most(ts) == IF ts = {} THEN 0 ELSE Max({t.confidence : t \in ts})

(* The greatest confidence of some matches.                                *)
LEMMA MostIs ==
  ASSUME NEW ts, Formed(ts)
  PROVE  /\ Most(ts) \in Nat /\ \A t \in ts : t.confidence <= Most(ts)
         /\ ts # {} => \E t \in ts : t.confidence = Most(ts)
<1> DEFINE S == {t.confidence : t \in ts}
<1>1. CASE ts = {}
  BY <1>1 DEF Most
<1>2. CASE ts # {}
  <2>1. S # {} /\ S \subseteq 0..100 /\ \A t \in ts : t.confidence \in S
    BY <1>2 DEF Formed, IsTechnique
  <2>2. \A c \in S : \E t \in ts : t.confidence = c
    OBVIOUS
  <2>3. Most(ts) = Max(S)
    BY <1>2 DEF Most
  <2> HIDE DEF S
  <2>4. Max(S) \in S /\ Max(S) \in Nat /\ \A y \in S : y <= Max(S)
    BY <2>1, GreatestUpTo
  <2> QED BY <2>1, <2>2, <2>3, <2>4
<1> QED BY <1>1, <1>2

(* Matches that outdo others are at least as severe.                       *)
LEMMA SeverityRises ==
  ASSUME NEW ts, NEW us, Formed(ts), Formed(us), Outdone(ts, us)
  PROVE  Severity(Deduplicated(us)) >= Severity(Deduplicated(ts))
<1> DEFINE D == Deduplicated(ts)
           E == Deduplicated(us)
           hitD  == \E t \in D : t.tactic \in {"exfiltration", "impact", "command-and-control"}
           hitE  == \E t \in E : t.tactic \in {"exfiltration", "impact", "command-and-control"}
           manyD == Cardinality(D) >= 3
           manyE == Cardinality(E) >= 3
<1>1. Formed(D) /\ Formed(E) /\ D = {BestMatch(ts, t) : t \in ts} /\ E = {BestMatch(us, u) : u \in us}
  BY DeduplicatedIs
<1>2. ASSUME NEW x \in D  PROVE \E y \in E : y.tactic = x.tactic /\ x.confidence <= y.confidence
  <2>1. PICK t \in ts : x = BestMatch(ts, t)
    BY <1>1
  <2>2. PICK v \in ts : v.id = t.id /\ v.tactic = t.tactic /\ v.confidence = Max(Like(ts, t))
    BY LikeIs
  <2>3. PICK u \in us : u.id = v.id /\ u.tactic = v.tactic /\ v.confidence <= u.confidence
    BY DEF Outdone
  <2>4. u.confidence <= Max(Like(us, u)) /\ Max(Like(us, u)) \in Nat /\ u.confidence \in Nat /\ v.confidence \in Nat
    BY LikeIs DEF Formed, IsTechnique
  <2>5. x.tactic = t.tactic /\ x.confidence = v.confidence
    BY <2>1, <2>2 DEF BestMatch, Technique
  <2>6. BestMatch(us, u).tactic = u.tactic /\ BestMatch(us, u).confidence = Max(Like(us, u)) /\ BestMatch(us, u) \in E
    BY <1>1 DEF BestMatch, Technique
  <2>7. x.confidence <= BestMatch(us, u).confidence /\ BestMatch(us, u).tactic = x.tactic
    BY <2>2, <2>3, <2>4, <2>5, <2>6
  <2> QED BY <2>6, <2>7
<1>3. hitD => hitE
  BY <1>2
<1>4. Most(D) <= Most(E) /\ Most(D) \in Nat /\ Most(E) \in Nat
  <2>1. Most(D) \in Nat /\ Most(E) \in Nat /\ \A y \in E : y.confidence <= Most(E) /\ y.confidence \in Nat
    BY <1>1, MostIs DEF Formed, IsTechnique
  <2>2. CASE D = {}
    <3>1. Most(D) = 0
      BY <2>2 DEF Most
    <3> QED BY <2>1, <3>1
  <2>3. CASE D # {}
    <3>1. PICK x \in D : x.confidence = Most(D)
      BY <1>1, <2>3, MostIs
    <3>2. PICK y \in E : x.confidence <= y.confidence
      BY <1>2
    <3> QED BY <2>1, <3>1, <3>2
  <2> QED BY <2>2, <2>3
<1>5. manyD => manyE
  <2> DEFINE P == {<<t.id, t.tactic>> : t \in ts}
             Q == {<<t.id, t.tactic>> : t \in us}
  <2>1. IsFiniteSet(P) /\ IsFiniteSet(Q) /\ Cardinality(D) = Cardinality(P) /\ Cardinality(E) = Cardinality(Q)
    BY DeduplicatedCount
  <2>2. P \in SUBSET Q
    BY DEF Outdone
  <2> HIDE DEF P, Q, D, E
  <2>3. Cardinality(P) <= Cardinality(Q) /\ Cardinality(P) \in Nat /\ Cardinality(Q) \in Nat
    BY <2>1, <2>2, FS_Subset, FS_CardinalityType
  <2> QED BY <2>1, <2>3
<1>6. /\ Severity(D) = IF hitD /\ Most(D) >= 80 THEN 3 ELSE IF hitD \/ Most(D) >= 70 THEN 2
                       ELSE IF manyD \/ Most(D) >= 50 THEN 1 ELSE 0
      /\ Severity(E) = IF hitE /\ Most(E) >= 80 THEN 3 ELSE IF hitE \/ Most(E) >= 70 THEN 2
                       ELSE IF manyE \/ Most(E) >= 50 THEN 1 ELSE 0
  BY DEF Severity, Most
<1> HIDE DEF D, E, hitD, hitE, manyD, manyE
<1>7. Severity(E) >= Severity(D)
  BY <1>3, <1>4, <1>5, <1>6
<1> QED BY <1>7 DEF D, E

-----------------------------------------------------------------------------
(* Matches of the DNS log.                                                 *)

LEMMA DnsCounts ==
  ASSUME DnsTypeOK
  PROVE  /\ Cardinality({x \in Queried(log) : Dga(x).confirmed /\ Dga(x).listed}) \in Nat
         /\ Confirmed(Tunnels(log)) \in Nat /\ Confirmed(FastFlux(log)) \in Nat
<1> DEFINE name  == [k \in DOMAIN log |-> log[k].name]
           flux  == [x \in Queried(log) |-> [name |-> x, score |-> FluxScore(log, x)]]
           Fluxs == {flux[x] : x \in Queried(log)}
<1>1. IsFiniteSet(DOMAIN log)
  BY LogTypes
<1>2. IsFiniteSet(Queried(log))
  <2>1. Queried(log) = {name[k] : k \in DOMAIN log}
    BY DEF Queried
  <2> HIDE DEF name
  <2> QED BY <1>1, <2>1, ImageFinite
<1>5. IsFiniteSet(Fluxs)
  <2> HIDE DEF flux
  <2> QED BY <1>2, ImageFinite
<1>7. {r \in FastFlux(log) : r.score >= 50} \in SUBSET Fluxs
  BY DEF FastFlux, TopDomains
<1>8. {x \in Queried(log) : Dga(x).confirmed /\ Dga(x).listed} \in SUBSET Queried(log)
  OBVIOUS
<1> HIDE DEF Fluxs
<1>9. /\ Cardinality({r \in Tunnels(log) : r.score >= 50}) \in Nat
      /\ Cardinality({r \in FastFlux(log) : r.score >= 50}) \in Nat
  BY <1>5, <1>7, TunnelsFinite, FS_Subset, FS_CardinalityType
<1>10. Cardinality({x \in Queried(log) : Dga(x).confirmed /\ Dga(x).listed}) \in Nat
  BY <1>2, <1>8, FS_Subset, FS_CardinalityType
<1> QED BY <1>9, <1>10 DEF Confirmed

(* The fields of a technique.                                              *)
LEMMA TechniqueIs ==
  ASSUME NEW id \in Ids, NEW tactic \in Tactics, NEW c \in Nat, c <= 100
  PROVE  IsTechnique(Technique(id, tactic, c))
BY DEF IsTechnique, Technique

(* The names in use.                                                       *)
LEMMA TacticNames ==
  /\ "command-and-control" \in Tactics /\ "exfiltration" \in Tactics /\ "execution" \in Tactics /\ "defense-evasion" \in Tactics
  /\ {"T1071.001", "T1571", "T1573", "T1568.002", "T1071.004", "T1048.003", "T1568.001"} \subseteq Ids
  /\ {"T1059", "T1027", "T1055", "T1105", "T1048", "T1041"} \subseteq Ids
BY DEF Ids, Tactics

(* Matches of the DNS log are techniques of a confidence up to 100.        *)
LEMMA DnsFormed == DnsTypeOK => Formed(DnsTechniques(log))
<1> SUFFICES ASSUME DnsTypeOK  PROVE Formed(DnsTechniques(log))
  OBVIOUS
<1> DEFINE dga     == Cardinality({x \in Queried(log) : Dga(x).confirmed /\ Dga(x).listed})
           tunnels == Confirmed(Tunnels(log))
           flux    == Confirmed(FastFlux(log))
           a == Smaller(50 + 10 * dga, 100)
           b == Smaller(60 + 10 * tunnels, 100)
           c == Smaller(50 + 15 * flux, 100)
<1>1. dga \in Nat /\ tunnels \in Nat /\ flux \in Nat
  BY DnsCounts
<1>2. \A t \in DnsTechniques(log) :
        \/ t = Technique("T1568.002", "command-and-control", a)
        \/ t = Technique("T1071.004", "command-and-control", b)
        \/ t = Technique("T1048.003", "exfiltration", b)
        \/ t = Technique("T1568.001", "command-and-control", c)
  BY DEF DnsTechniques
<1> HIDE DEF dga, tunnels, flux
<1>3. a \in Nat /\ a <= 100 /\ b \in Nat /\ b <= 100 /\ c \in Nat /\ c <= 100
  BY <1>1 DEF Smaller
<1> HIDE DEF a, b, c
<1> QED BY <1>2, <1>3, TechniqueIs, TacticNames DEF Formed

(* So are those of a beacon.                                               *)
LEMMA BeaconFormed ==
  ASSUME NEW s \in Nat
  PROVE  Formed(BeaconTechniques(s))
<1>1. Smaller(s, 100) \in Nat /\ Smaller(s, 100) <= 100
  BY DEF Smaller
<1>2. \A t \in BeaconTechniques(s) :
        \E id \in {"T1071.001", "T1571", "T1573"} : t = Technique(id, "command-and-control", Smaller(s, 100))
  BY DEF BeaconTechniques
<1> QED BY <1>1, <1>2, TechniqueIs, TacticNames DEF Formed

(* So are those of YARA.                                                   *)
LEMMA YaraFormed == \A kinds : Formed(YaraTechniques(kinds))
<1> TAKE kinds
<1>1. \A t \in YaraTechniques(kinds) :
        \/ t = Technique("T1059", "execution", 90) \/ t = Technique("T1027", "defense-evasion", 90)
        \/ t = Technique("T1055", "defense-evasion", 90) \/ t = Technique("T1027", "defense-evasion", 75)
        \/ t = Technique("T1105", "command-and-control", 75)
  BY DEF YaraTechniques
<1>2. 90 \in Nat /\ 90 <= 100 /\ 75 \in Nat /\ 75 <= 100
  OBVIOUS
<1> QED BY <1>1, <1>2, TechniqueIs, TacticNames DEF Formed

(* Matches of the flows.                                                   *)
Sized(fs)      == IsFiniteSet(DOMAIN fs) /\ \A i \in DOMAIN fs : fs[i].bytes \in Nat \ {0}
Longer(fs, gs) == /\ DOMAIN fs \subseteq DOMAIN gs
                  /\ \A i \in DOMAIN fs : /\ gs[i].dst = fs[i].dst /\ gs[i].dport = fs[i].dport
                                          /\ gs[i].bytes >= fs[i].bytes

(* More in the flows, more was sent to an address.                         *)
LEMMA SentRises ==
  ASSUME NEW fs, NEW gs, Sized(fs), Sized(gs), Longer(fs, gs), NEW d
  PROVE  SentTo(fs, d) \in Nat /\ SentTo(gs, d) \in Nat /\ SentTo(fs, d) <= SentTo(gs, d)
<1> DEFINE A == To(fs, d)
           B == To(gs, d)
           f == [i \in A |-> IF fs[i].bytes # 0 THEN fs[i].bytes ELSE fs[i].count * 800]
           g == [i \in B |-> IF gs[i].bytes # 0 THEN gs[i].bytes ELSE gs[i].count * 800]
<1>1. A \in SUBSET B /\ A \in SUBSET (DOMAIN fs) /\ B \in SUBSET (DOMAIN gs)
  BY DEF To, Longer
<1>2. IsFiniteSet(A) /\ IsFiniteSet(B)
  BY <1>1, FS_Subset DEF Sized
<1>3. \A i \in A : f[i] \in Nat /\ f[i] = fs[i].bytes
  BY <1>1 DEF Sized
<1>4. \A i \in B : g[i] \in Nat /\ g[i] = gs[i].bytes
  BY <1>1 DEF Sized
<1>5. SentTo(fs, d) = SumOf(f, A) /\ SentTo(gs, d) = SumOf(g, B)
  BY SumOfFunction DEF SentTo
<1>6. \A i \in A : f[i] \in Int /\ g[i] \in Int /\ f[i] <= g[i]
  BY <1>1, <1>3, <1>4 DEF Longer
<1> HIDE DEF A, B, f, g
<1>7. SumOf(f, A) \in Nat /\ SumOf(f, A) <= SumOf(g, A)
  BY <1>2, <1>3, <1>6, SumNat, SumMonotone
<1>8. SumOf(g, A) <= SumOf(g, B) /\ SumOf(g, A) \in Nat /\ SumOf(g, B) \in Nat
  BY <1>1, <1>2, <1>4, SumLess
<1> QED BY <1>5, <1>7, <1>8

(* The matches of large transfers.                                         *)
LEMMA TransfersAre ==
  ASSUME NEW fs, Sized(fs), NEW t
  PROVE  t \in TransferTechniques(fs) <=>
           \E id \in {"T1048", "T1041"}, i \in DOMAIN fs :
             /\ SentTo(fs, fs[i].dst) >= 10000000
             /\ t = Technique(id, "exfiltration", Smaller(50 + SentTo(fs, fs[i].dst) \div 1000000, 90))
BY SMT DEF TransferTechniques

(* Flows that stay are no fewer and no smaller.                            *)
LEMMA LongerSelf == ASSUME NEW fs, Sized(fs) PROVE Longer(fs, fs)
BY DEF Sized, Longer

(* Matches of transfers are techniques too.                                *)
LEMMA TransfersFormed ==
  ASSUME NEW fs, Sized(fs)
  PROVE  Formed(TransferTechniques(fs))
<1> SUFFICES ASSUME NEW t \in TransferTechniques(fs)  PROVE IsTechnique(t)
  BY DEF Formed
<1>1. PICK id \in {"T1048", "T1041"}, i \in DOMAIN fs :
        t = Technique(id, "exfiltration", Smaller(50 + SentTo(fs, fs[i].dst) \div 1000000, 90))
  BY TransfersAre, SMT
<1> DEFINE s == SentTo(fs, fs[i].dst)
           c == Smaller(50 + s \div 1000000, 90)
<1>2. s \in Nat
  BY LongerSelf, SentRises
<1>3. t = Technique(id, "exfiltration", c)
  BY <1>1, SMT
<1> HIDE DEF s
<1>4. c \in Nat /\ c <= 100
  BY <1>2, SMT DEF Smaller
<1> HIDE DEF c
<1>5. id \in Ids /\ "exfiltration" \in Tactics
  BY TacticNames
<1> QED BY <1>3, <1>4, <1>5, TechniqueIs

(* Larger flows, matches that are at least as confident.                   *)
LEMMA TransfersRise ==
  ASSUME NEW fs, NEW gs, Sized(fs), Sized(gs), Longer(fs, gs)
  PROVE  Outdone(TransferTechniques(fs), TransferTechniques(gs))
<1> SUFFICES ASSUME NEW t \in TransferTechniques(fs)
             PROVE  \E u \in TransferTechniques(gs) : u.id = t.id /\ u.tactic = t.tactic /\ t.confidence <= u.confidence
  BY DEF Outdone
<1>1. PICK id \in {"T1048", "T1041"}, i \in DOMAIN fs :
        /\ SentTo(fs, fs[i].dst) >= 10000000
        /\ t = Technique(id, "exfiltration", Smaller(50 + SentTo(fs, fs[i].dst) \div 1000000, 90))
  BY TransfersAre, SMT
<1> DEFINE d == fs[i].dst
           m == SentTo(fs, d)
           n == SentTo(gs, d)
           u == Technique(id, "exfiltration", Smaller(50 + n \div 1000000, 90))
<1>2. m \in Nat /\ n \in Nat /\ m <= n /\ m >= 10000000
  BY <1>1, SentRises, SMT
<1>3. i \in DOMAIN gs /\ gs[i].dst = d
  BY DEF Longer
<1>4. SentTo(gs, gs[i].dst) = n
  BY <1>3
<1>5. n >= 10000000
  <2> HIDE DEF m, n
  <2> QED BY <1>2, SMT
<1>6. u \in TransferTechniques(gs)
  BY <1>3, <1>4, <1>5, TransfersAre, SMT
<1>7. Smaller(50 + m \div 1000000, 90) <= Smaller(50 + n \div 1000000, 90)
  <2> HIDE DEF m, n
  <2> QED BY <1>2, SMT DEF Smaller
<1>8. t = Technique(id, "exfiltration", Smaller(50 + m \div 1000000, 90))
  BY <1>1, SMT
<1> HIDE DEF m, n
<1>9. u.id = t.id /\ u.tactic = t.tactic /\ t.confidence <= u.confidence
  BY <1>7, <1>8, SMT DEF Technique
<1> HIDE DEF u
<1> QED BY <1>6, <1>9

(* Matches of ports are techniques too.                                    *)
LEMMA PortsFormed == \A fs : Formed(PortTechniques(fs))
<1> TAKE fs
<1>1. \A t \in PortTechniques(fs) : t = Technique("T1571", "command-and-control", 70)
  BY DEF PortTechniques
<1>2. 70 \in Nat /\ 70 <= 100
  OBVIOUS
<1> QED BY <1>1, <1>2, TechniqueIs, TacticNames DEF Formed

(* New flows come last, so a C2 port among the first MAX_FLOWS stays       *)
(* there.                                                                  *)
LEMMA PortsRise ==
  ASSUME NEW fs, NEW gs, Longer(fs, gs)
  PROVE  PortTechniques(fs) \subseteq PortTechniques(gs)
BY DEF PortTechniques, Longer

(* All of them                                                             *)
LEMMA MatchesAre ==
  ASSUME NEW fs, NEW bs, NEW es, NEW t
  PROVE  t \in Matches(fs, bs, es) <=>
           \/ \E c \in es : c.kind = "beacon" /\ t \in BeaconTechniques(c.amount)
           \/ t \in DnsTechniques(bs) \/ t \in YaraTechniques({c.kind : c \in es})
           \/ t \in TransferTechniques(fs) \/ t \in PortTechniques(fs)
<1>1. t \in Beacons(es) <=> \E c \in es : c.kind = "beacon" /\ t \in BeaconTechniques(c.amount)
  BY DEF Beacons
<1> QED BY <1>1 DEF Matches

(* All matches are techniques.                                             *)
LEMMA MatchesFormed ==
  ASSUME DnsTypeOK, NEW fs, Sized(fs), NEW es, OneOf(es)
  PROVE  Formed(Matches(fs, log, es))
<1> SUFFICES ASSUME NEW t \in Matches(fs, log, es)  PROVE IsTechnique(t)
  BY DEF Formed
<1>1. ASSUME NEW c \in es, t \in BeaconTechniques(c.amount)  PROVE IsTechnique(t)
  BY <1>1, ClueType, BeaconFormed DEF Formed, OneOf
<1>2. t \in DnsTechniques(log) => IsTechnique(t)
  BY DnsFormed DEF Formed
<1>3. t \in YaraTechniques({c.kind : c \in es}) => IsTechnique(t)
  BY YaraFormed DEF Formed
<1>4. t \in TransferTechniques(fs) => IsTechnique(t)
  BY TransfersFormed DEF Formed
<1>5. t \in PortTechniques(fs) => IsTechnique(t)
  BY PortsFormed DEF Formed
<1> QED BY <1>1, <1>2, <1>3, <1>4, <1>5, MatchesAre

(* More packets and more clues outdo fewer.                                *)
LEMMA MatchesRise ==
  ASSUME DnsTypeOK, NEW fs, NEW gs, Sized(fs), Sized(gs), Longer(fs, gs),
         NEW es, NEW more, OneOf(es), OneOf(more), Grown(es, more)
  PROVE  Outdone(Matches(fs, log, es), Matches(gs, log, more))
<1> SUFFICES ASSUME NEW t \in Matches(fs, log, es)
             PROVE  \E u \in Matches(gs, log, more) : u.id = t.id /\ u.tactic = t.tactic /\ t.confidence <= u.confidence
  BY DEF Outdone
<1>1. t.confidence \in Nat
  BY MatchesFormed DEF Formed, IsTechnique
<1>2. ASSUME NEW c \in es, c.kind = "beacon", t \in BeaconTechniques(c.amount)
      PROVE  \E u \in Matches(gs, log, more) : u.id = t.id /\ u.tactic = t.tactic /\ t.confidence <= u.confidence
  <2>1. PICK e \in more : e.kind = "beacon" /\ c.amount <= e.amount
    BY <1>2 DEF Grown
  <2>2. c.amount \in Nat /\ e.amount \in Nat
    BY ClueType DEF OneOf
  <2>3. PICK id \in {"T1071.001", "T1571", "T1573"} :
          t = Technique(id, "command-and-control", Smaller(c.amount, 100)) /\ c.amount >= 70
    BY <1>2, <2>2 DEF BeaconTechniques
  <2> DEFINE u == Technique(id, "command-and-control", Smaller(e.amount, 100))
  <2>4. u \in BeaconTechniques(e.amount)
    BY <2>1, <2>2, <2>3 DEF BeaconTechniques
  <2>5. u.id = t.id /\ u.tactic = t.tactic /\ t.confidence <= u.confidence
    BY <2>1, <2>2, <2>3 DEF Technique, Smaller
  <2> HIDE DEF u
  <2> QED BY <2>1, <2>4, <2>5, MatchesAre
<1>3. ASSUME t \in DnsTechniques(log) \/ t \in YaraTechniques({c.kind : c \in es}) \/ t \in PortTechniques(fs)
      PROVE  \E u \in Matches(gs, log, more) : u.id = t.id /\ u.tactic = t.tactic /\ t.confidence <= u.confidence
  <2>1. {c.kind : c \in es} \subseteq {c.kind : c \in more}
    BY DEF Grown
  <2>2. \A some, all : some \subseteq all => YaraTechniques(some) \subseteq YaraTechniques(all)
    BY DEF YaraTechniques
  <2>3. YaraTechniques({c.kind : c \in es}) \subseteq YaraTechniques({c.kind : c \in more})
    BY <2>1, <2>2
  <2>4. t \in Matches(gs, log, more)
    BY <1>3, <2>3, PortsRise, MatchesAre
  <2>5. t.confidence <= t.confidence
    BY <1>1
  <2> QED BY <2>4, <2>5
<1>4. ASSUME t \in TransferTechniques(fs)
      PROVE  \E u \in Matches(gs, log, more) : u.id = t.id /\ u.tactic = t.tactic /\ t.confidence <= u.confidence
  <2>1. PICK u \in TransferTechniques(gs) : u.id = t.id /\ u.tactic = t.tactic /\ t.confidence <= u.confidence
    BY <1>4, TransfersRise DEF Outdone
  <2> QED BY <2>1, MatchesAre
<1> QED BY <1>2, <1>3, <1>4, MatchesAre

(* map_analysis() deduplicates all matches.                                *)
LEMMA TechniquesAre == \A fs, bs, es : Techniques(fs, bs, es) = Deduplicated(Matches(fs, bs, es))
BY DEF Techniques, Matches, Beacons

-----------------------------------------------------------------------------

(* The type invariant follows from the invariant.                          *)
LEMMA TypesHold == FindInv => TypeOK
<1> SUFFICES ASSUME FindInv  PROVE TypeOK
  OBVIOUS
<1>1. Sized(flows) /\ OneOf(evidence) /\ DnsTypeOK
  BY FlowTypes, CountsAre DEF FindInv, Carried, Sized, ClueInv, OneClue, OneOf
<1>2. Formed(Matches(flows, log, evidence))
  BY <1>1, MatchesFormed
<1>3. \A t, u \in Techniques(flows, log, evidence) : t.id = u.id /\ t.tactic = u.tactic => t = u
  BY <1>2, TechniquesAre, DeduplicatedIs
<1> QED BY <1>3 DEF FindInv, FlowInv, DnsTypeOK, ClueInv, OneClue, TypeOK

(* A step that reads no DNS line and lowers no beacon makes a capture no   *)
(* less severe.                                                            *)
LEMMA SeverityOnlyRises ==
  ASSUME FindInv, [Next]_vars, UNCHANGED log, BeaconsHold
  PROVE  Severity(Techniques(flows', log', evidence')) >= Severity(Techniques(flows, log, evidence))
<1>1. OneOf(evidence) /\ OneOf(evidence') /\ Grown(evidence, evidence') /\ FlowsGrow /\ log' = log
  BY StepAdds
<1>2. Longer(flows, flows')
  BY <1>1 DEF FlowsGrow, Longer
<1>3. Sized(flows) /\ DnsTypeOK
  BY FlowTypes, CountsAre DEF FindInv, Carried, Sized
<1>4. Sized(flows')
  <2>1. flows' \in Seq(FlowRecord) /\ \A i \in DOMAIN flows' : flows'[i].bytes > 0
    BY FindKeeps DEF FindInv, FlowInv, FlowTypeOK, Carried
  <2>2. Len(flows') \in Nat /\ DOMAIN flows' = 1..Len(flows') /\ \A i \in DOMAIN flows' : flows'[i] \in FlowRecord
    BY <2>1
  <2>3. \A i \in DOMAIN flows' : flows'[i].bytes \in Nat
    BY <2>2 DEF FlowRecord
  <2>4. IsFiniteSet(DOMAIN flows')
    BY <2>2, FS_Interval
  <2> QED BY <2>1, <2>3, <2>4 DEF Sized
<1> DEFINE ts == Matches(flows, log, evidence)
           us == Matches(flows', log, evidence')
<1>5. Formed(ts) /\ Formed(us) /\ Outdone(ts, us)
  BY <1>1, <1>2, <1>3, <1>4, MatchesFormed, MatchesRise
<1>6. Techniques(flows, log, evidence) = Deduplicated(ts) /\ Techniques(flows', log', evidence') = Deduplicated(us)
  BY <1>1, TechniquesAre
<1> HIDE DEF ts, us
<1> QED BY <1>5, <1>6, SeverityRises

(* More packets or clues, in any order, never lower the severity that      *)
(* _calculate_severity() gives a capture, unless the packets lower the     *)
(* score that rank_beaconing() gives a beacon.                             *)
THEOREM SeverityAlwaysRises == Spec => SeverityNeverFalls
<1>1. FindInv /\ [Next]_vars =>
        [UNCHANGED log /\ BeaconsHold =>
           Severity(Techniques(flows', log', evidence')) >= Severity(Techniques(flows, log, evidence))]_vars
  BY SeverityOnlyRises
<1> QED BY <1>1, FindStart, FindKeeps, PTL DEF Spec, SeverityNeverFalls

(* Verdicts follow the evidence in every run of an analysis: never milder  *)
(* for more clues, a capture never less severe for more packets unless a   *)
(* beacon's score falls, no verdict critical for one signal, and a         *)
(* confirmed tunnel counts for its domain (correlation.py,                 *)
(* attack_mapping.py).                                                     *)
THEOREM VerdictsAlwaysSound == Spec => VerdictsSound
<1>1. FindInv => TypeOK /\ CriticalNeedsTwoSignals /\ TunnelsCorrelated
  BY TypesHold, CriticalIsNotAlone, TunnelsReach DEF FindInv
<1>2. Spec => [](TypeOK /\ CriticalNeedsTwoSignals /\ TunnelsCorrelated)
  BY <1>1, FindStart, FindKeeps, PTL DEF Spec
<1> QED BY <1>2, VerdictsOnlyWorsen, SeverityAlwaysRises, PTL DEF VerdictsSound


-----------------------------------------------------------------------------
(* The prompt.                                                             *)

(* How much of a text fits, and how much of lo .. hi that is.              *)
Room(budget) == 3 * budget - Marker

Within(budget, lo, hi) == IF Room(budget) < lo \/ hi < lo THEN lo - 1
                          ELSE IF Room(budget) > hi THEN hi ELSE Room(budget)

Spans(n) == (0 .. n + 1) \X (-1 .. n)

Searched(n, budget, f) ==
  [s \in Spans(n) |->
     IF s[1] > s[2] THEN s[1] - 1
     ELSE LET keep == (s[1] + s[2]) \div 2
          IN  IF Tokens(Length(Middle(keep))) <= budget THEN f[<<keep + 1, s[2]>>] ELSE f[<<s[1], keep - 1>>]]

Search(n, budget) == CHOOSE f : f = Searched(n, budget, f)

(* _truncate_to_tokens() searches the span of all lengths.                 *)
LEMMA LargestSearch == ASSUME NEW n, NEW budget PROVE Largest(n, budget) = Search(n, budget)[<<0, n>>]
BY DEF Largest, Search, Searched, Spans

(* A text cut in the middle keeps what it is asked to keep, and the        *)
(* marker.                                                                 *)
LEMMA MiddleLength ==
  ASSUME NEW keep \in Nat
  PROVE  /\ Middle(keep).head \in Nat /\ Middle(keep).tail \in Int
         /\ Middle(keep).head + Middle(keep).tail = keep
         /\ Middle(keep).cut = "middle"
         /\ Length(Middle(keep)) = keep + Marker
BY NarrativeAssumption DEF Middle, Length

(* A cut text fits the budget if and only if what is kept does.            *)
LEMMA FitsRoom ==
  ASSUME NEW keep \in Nat, NEW budget \in Nat
  PROVE  Tokens(Length(Middle(keep))) <= budget <=> keep <= Room(budget)
<1>1. Length(Middle(keep)) = keep + Marker /\ Marker \in Nat
  BY MiddleLength, NarrativeAssumption
<1> QED BY <1>1 DEF Tokens, Room

Half(s) == (s[1] + s[2]) \div 2
Above(s) == <<Half(s) + 1, s[2]>>
Below(s) == <<s[1], Half(s) - 1>>

(* Both halves of a span are spans.                                        *)
LEMMA SpanParts ==
  ASSUME NEW n \in Nat, NEW s \in Spans(n)
  PROVE  /\ s[1] \in 0 .. n + 1 /\ s[2] \in -1 .. n /\ Half(s) \in Int
         /\ Above(s)[1] = Half(s) + 1 /\ Above(s)[2] = s[2] /\ Below(s)[1] = s[1] /\ Below(s)[2] = Half(s) - 1
         /\ s[1] <= s[2] => Half(s) \in s[1] .. s[2] /\ Above(s) \in Spans(n) /\ Below(s) \in Spans(n)
<1>1. s[1] \in 0 .. n + 1 /\ s[2] \in -1 .. n
  BY DEF Spans
<1>2. Half(s) \in Int /\ (s[1] <= s[2] => Half(s) \in s[1] .. s[2])
  BY <1>1 DEF Half
<1>3. s[1] <= s[2] => Half(s) + 1 \in 0 .. n + 1 /\ Half(s) - 1 \in -1 .. n
  BY <1>1, <1>2
<1> QED BY <1>1, <1>2, <1>3 DEF Above, Below, Spans

(* One step of the search, in terms of the room there is.                  *)
LEMMA SearchStep ==
  ASSUME NEW n \in Nat, NEW budget \in Nat, NEW f, NEW s \in Spans(n)
  PROVE  Searched(n, budget, f)[s] =
           IF s[1] > s[2] THEN s[1] - 1 ELSE IF Half(s) <= Room(budget) THEN f[Above(s)] ELSE f[Below(s)]
<1>1. Searched(n, budget, f)[s] = IF s[1] > s[2] THEN s[1] - 1
        ELSE IF Tokens(Length(Middle(Half(s)))) <= budget THEN f[Above(s)] ELSE f[Below(s)]
  BY DEF Searched, Half, Above, Below
<1>2. CASE s[1] > s[2]
  BY <1>1, <1>2
<1>3. CASE ~(s[1] > s[2])
  <2>1. Half(s) \in Nat
    BY <1>3, SpanParts
  <2>2. Tokens(Length(Middle(Half(s)))) <= budget <=> Half(s) <= Room(budget)
    BY <2>1, FitsRoom
  <2> QED BY <1>1, <1>3, <2>2
<1> QED BY <1>2, <1>3

(* The length to be found is in the half that the search goes on with.     *)
LEMMA WithinStep ==
  ASSUME NEW n \in Nat, NEW budget \in Nat, NEW s \in Spans(n)
  PROVE  Within(budget, s[1], s[2]) =
           IF s[1] > s[2] THEN s[1] - 1
           ELSE IF Half(s) <= Room(budget) THEN Within(budget, Above(s)[1], Above(s)[2])
           ELSE Within(budget, Below(s)[1], Below(s)[2])
<1>1. Room(budget) \in Int
  BY NarrativeAssumption DEF Room
<1> QED BY <1>1, SpanParts DEF Within

(* The search is defined on every span, by the length of the span.         *)
LEMMA SearchExists ==
  ASSUME NEW n \in Nat, NEW budget \in Nat
  PROVE  Search(n, budget) = Searched(n, budget, Search(n, budget))
<1> DEFINE g == [s \in Spans(n) |-> Within(budget, s[1], s[2])]
<1>1. ASSUME NEW s \in Spans(n)
      PROVE  g[s] = Searched(n, budget, g)[s]
  <2>1. \A t \in Spans(n) : g[t] = Within(budget, t[1], t[2])
    OBVIOUS
  <2> HIDE DEF g
  <2>2. Searched(n, budget, g)[s] =
          IF s[1] > s[2] THEN s[1] - 1 ELSE IF Half(s) <= Room(budget) THEN g[Above(s)] ELSE g[Below(s)]
    BY SearchStep
  <2>3. s[1] <= s[2] => Above(s) \in Spans(n) /\ Below(s) \in Spans(n)
    BY SpanParts
  <2>4. s[1] \in Int /\ s[2] \in Int
    BY SpanParts
  <2> QED BY <2>1, <2>2, <2>3, <2>4, WithinStep
<1>3. g = [s \in Spans(n) |-> g[s]] /\ Searched(n, budget, g) = [s \in Spans(n) |-> Searched(n, budget, g)[s]]
  BY DEF Searched
<1> HIDE DEF g
<1>4. g = Searched(n, budget, g)
  BY <1>1, <1>3
<1> QED BY <1>4 DEF Search

Size(n, s) == s[2] - s[1] + n + 2

(* The search ends at the last length that fits.                           *)
LEMMA SearchFinds ==
  ASSUME NEW n \in Nat, NEW budget \in Nat
  PROVE  \A s \in Spans(n) : Search(n, budget)[s] = Within(budget, s[1], s[2])
<1> DEFINE Bad == {k \in Nat : \E s \in Spans(n) : Size(n, s) = k /\ Search(n, budget)[s] # Within(budget, s[1], s[2])}
<1> SUFFICES ASSUME NEW b \in Spans(n), Search(n, budget)[b] # Within(budget, b[1], b[2])  PROVE FALSE
  OBVIOUS
<1>1. \A s \in Spans(n) : Size(n, s) \in Nat
  BY SpanParts DEF Size
<1>2. Bad \subseteq Nat /\ Bad # {}
  BY <1>1
<1>3. PICK k \in Bad : \A m \in Bad : k <= m
  BY <1>2, LeastNumber
<1>4. PICK s \in Spans(n) : Size(n, s) = k /\ Search(n, budget)[s] # Within(budget, s[1], s[2])
  OBVIOUS
<1>5. ASSUME NEW t \in Spans(n), Size(n, t) < k  PROVE Search(n, budget)[t] = Within(budget, t[1], t[2])
  <2> SUFFICES ASSUME Search(n, budget)[t] # Within(budget, t[1], t[2])  PROVE FALSE
    OBVIOUS
  <2>1. Size(n, t) \in Nat /\ k \in Nat
    BY <1>1, <1>2
  <2>2. Size(n, t) \in Bad
    BY <2>1
  <2>3. ~(k <= Size(n, t))
    BY <1>5, <2>1
  <2> HIDE DEF Bad
  <2> QED BY <1>3, <2>2, <2>3
<1> HIDE DEF Bad
<1>6. Search(n, budget)[s] =
        IF s[1] > s[2] THEN s[1] - 1
        ELSE IF Half(s) <= Room(budget) THEN Search(n, budget)[Above(s)] ELSE Search(n, budget)[Below(s)]
  <2>1. Searched(n, budget, Search(n, budget))[s] =
          IF s[1] > s[2] THEN s[1] - 1
          ELSE IF Half(s) <= Room(budget) THEN Search(n, budget)[Above(s)] ELSE Search(n, budget)[Below(s)]
    BY SearchStep
  <2> QED BY <2>1, SearchExists
<1>7. CASE s[1] > s[2]
  BY <1>4, <1>6, <1>7, WithinStep
<1>8. CASE ~(s[1] > s[2])
  <2>1. Above(s) \in Spans(n) /\ Below(s) \in Spans(n) /\ Size(n, Above(s)) < k /\ Size(n, Below(s)) < k
    BY <1>4, <1>8, SpanParts DEF Size
  <2>2. /\ Search(n, budget)[Above(s)] = Within(budget, Above(s)[1], Above(s)[2])
        /\ Search(n, budget)[Below(s)] = Within(budget, Below(s)[1], Below(s)[2])
    BY <1>5, <2>1
  <2> QED BY <1>4, <1>6, <1>8, <2>2, WithinStep
<1> QED BY <1>7, <1>8

(* So the longest middle is found that fits, if any does.                  *)
LEMMA LargestFits ==
  ASSUME NEW n \in Nat, NEW budget \in Nat
  PROVE  /\ Largest(n, budget) = Within(budget, 0, n)
         /\ Largest(n, budget) \in -1 .. n
         /\ Largest(n, budget) >= 0 => Tokens(Length(Middle(Largest(n, budget)))) <= budget
         /\ Largest(n, budget) \in 0 .. n - 1 => Tokens(Length(Middle(Largest(n, budget) + 1))) > budget
<1>1. <<0, n>> \in Spans(n) /\ Room(budget) \in Int
  BY NarrativeAssumption DEF Spans, Room
<1>2. Largest(n, budget) = Within(budget, 0, n)
  BY <1>1, LargestSearch, SearchFinds
<1>3. Within(budget, 0, n) \in -1 .. n
  BY <1>1 DEF Within
<1>4. Within(budget, 0, n) >= 0 => Within(budget, 0, n) \in Nat /\ Within(budget, 0, n) <= Room(budget)
  BY <1>1 DEF Within
<1>5. Within(budget, 0, n) \in 0 .. n - 1 => Within(budget, 0, n) + 1 \in Nat /\ ~(Within(budget, 0, n) + 1 <= Room(budget))
  BY <1>1 DEF Within
<1>6. \A k \in Nat : Tokens(Length(Middle(k))) \in Int
  BY MiddleLength, NarrativeAssumption DEF Tokens
<1>7. Within(budget, 0, n) >= 0 => Tokens(Length(Middle(Within(budget, 0, n)))) <= budget
  BY <1>4, FitsRoom
<1>8. Within(budget, 0, n) \in 0 .. n - 1 => Tokens(Length(Middle(Within(budget, 0, n) + 1))) > budget
  BY <1>5, <1>6, FitsRoom
<1> QED BY <1>2, <1>3, <1>7, <1>8

(* A longer text has at least as many tokens.                              *)
LEMMA TokensMonotone ==
  ASSUME NEW a \in Nat, NEW b \in Nat, a <= b
  PROVE  Tokens(a) \in Nat /\ Tokens(b) \in Nat /\ Tokens(a) <= Tokens(b)
BY DEF Tokens

(* What becomes of a text that is given a number of tokens.                *)
LEMMA TruncatedFits ==
  ASSUME NEW n \in Nat, NEW budget \in Nat
  PROVE  /\ Length(Truncated(n, budget)) \in Nat
         /\ budget >= Tokens(Marker) => Tokens(Length(Truncated(n, budget))) <= budget
         /\ budget > Tokens(Marker) /\ Tokens(n) <= budget => Truncated(n, budget) = Whole(n)
         /\ Truncated(n, budget).cut = "middle" =>
              /\ Truncated(n, budget).head + Truncated(n, budget).tail \in Nat
              /\ Tokens(Length(Middle(Truncated(n, budget).head + Truncated(n, budget).tail + 1))) > budget
<1> DEFINE t == Truncated(n, budget)
           k == Largest(n, budget)
<1>1. {Marker, BareMarker} \subseteq Nat /\ BareMarker <= Marker
  BY NarrativeAssumption
<1>2. Tokens(n) \in Nat /\ Tokens(Marker) \in Nat /\ Tokens(BareMarker) \in Nat /\ Tokens(BareMarker) <= Tokens(Marker)
  BY <1>1, TokensMonotone
<1>3. CASE budget > Tokens(Marker) /\ Tokens(n) <= budget
  <2>1. t = Whole(n)
    BY <1>3 DEF Truncated
  <2>2. Length(t) = n /\ t.cut = "no"
    BY <2>1 DEF Length, Whole
  <2> QED BY <1>3, <2>1, <2>2
<1>4. CASE ~(budget > Tokens(Marker) /\ Tokens(n) <= budget) /\ budget > Tokens(Marker) /\ k >= 0
  <2>1. t = Middle(k)
    BY <1>4 DEF Truncated
  <2>2. k \in 0 .. n /\ Tokens(Length(Middle(k))) <= budget /\ (k \in 0 .. n - 1 => Tokens(Length(Middle(k + 1))) > budget)
    BY <1>4, LargestFits
  <2>3. Length(t) = k + Marker /\ t.head + t.tail = k
    BY <2>1, <2>2, MiddleLength
  <2>4. k # n
    <3> SUFFICES ASSUME k = n PROVE FALSE
      OBVIOUS
    <3>1. Tokens(n + Marker) <= budget
      BY <2>1, <2>2, <2>3
    <3>2. Tokens(n) <= Tokens(n + Marker) /\ Tokens(n + Marker) \in Nat
      <4> HIDE DEF k
      <4> QED BY <1>1, TokensMonotone
    <3> QED BY <1>2, <1>4, <3>1, <3>2
  <2>5. k \in 0 .. n - 1
    BY <2>2, <2>4
  <2> HIDE DEF k
  <2>6. Length(t) \in Nat /\ Tokens(Length(t)) <= budget
    BY <1>1, <2>1, <2>2, <2>3
  <2>7. t.head + t.tail \in Nat /\ Tokens(Length(Middle(t.head + t.tail + 1))) > budget
    BY <2>2, <2>3, <2>5
  <2> QED BY <1>4, <2>6, <2>7
<1>5. CASE ~(budget > Tokens(Marker) /\ Tokens(n) <= budget) /\ ~(budget > Tokens(Marker) /\ k >= 0)
  <2>1. t = [head |-> 0, tail |-> 0, cut |-> "bare"]
    BY <1>5 DEF Truncated
  <2>2. Length(t) = BareMarker /\ t.cut = "bare"
    BY <2>1 DEF Length
  <2> HIDE DEF t, k
  <2> QED BY <1>1, <1>2, <1>5, <2>2 DEF t
<1> QED BY <1>3, <1>4, <1>5

(* A prompt that was cut keeps to its budget and is cut no shorter than it *)
(* must be.                                                                *)
LEMMA PromptCut ==
  ASSUME NEW p \in [system : Nat, user : Nat, budget : Nat]
  PROVE  /\ p.budget >= Tokens(p.system) + Tokens(Marker) + Overhead
              => Estimate(Fitted(p, FALSE).system, Fitted(p, FALSE).user) <= p.budget
         /\ (Tokens(p.system) + Tokens(p.user) + Overhead <= p.budget
              /\ p.budget > Tokens(p.system) + Tokens(Marker) + Overhead)
              => Fitted(p, FALSE).system = Whole(p.system) /\ Fitted(p, FALSE).user = Whole(p.user)
         /\ Fitted(p, FALSE).user.cut = "middle" =>
              Estimate(Whole(p.system), Middle(Fitted(p, FALSE).user.head + Fitted(p, FALSE).user.tail + 1)) > p.budget
<1> DEFINE room == RoomForUser(p)
           user == Truncated(p.user, room)
           f == Fitted(p, FALSE)
<1>1. {Marker, BareMarker, Overhead} \subseteq Nat
  BY NarrativeAssumption
<1>2. p.system \in Nat /\ p.user \in Nat /\ p.budget \in Nat
  OBVIOUS
<1>3. Tokens(p.system) \in Nat /\ Tokens(p.user) \in Nat /\ Tokens(Marker) \in Nat
  BY <1>1, <1>2, TokensMonotone
<1>4. room \in Nat /\ room = Less(p.budget, Tokens(p.system) + Overhead)
  BY <1>1, <1>2, <1>3 DEF RoomForUser, Less
<1>5. Length(Whole(p.system)) = p.system /\ Length(Whole(p.user)) = p.user
  BY DEF Length, Whole
<1>6. /\ Length(user) \in Nat
      /\ room >= Tokens(Marker) => Tokens(Length(user)) <= room
      /\ room > Tokens(Marker) /\ Tokens(p.user) <= room => user = Whole(p.user)
      /\ user.cut = "middle" =>
              /\ user.head + user.tail \in Nat
              /\ Tokens(Length(Middle(user.head + user.tail + 1))) > room
  BY <1>2, <1>4, TruncatedFits
<1>7. Tokens(Length(user)) \in Nat
  BY <1>6, TokensMonotone
<1>8. f.user = user /\ f.system = IF Estimate(Whole(p.system), user) <= p.budget THEN Whole(p.system)
                  ELSE Truncated(p.system, Less(p.budget, Tokens(Length(user)) + Overhead))
  BY DEF Fitted
<1>9. Estimate(Whole(p.system), user) = Tokens(p.system) + Tokens(Length(user)) + Overhead
  BY <1>5 DEF Estimate
<1> HIDE DEF room, user, f
<1>10. p.budget >= Tokens(p.system) + Tokens(Marker) + Overhead
         => Estimate(f.system, f.user) <= p.budget
  <2> SUFFICES ASSUME p.budget >= Tokens(p.system) + Tokens(Marker) + Overhead
               PROVE  Estimate(f.system, f.user) <= p.budget
    OBVIOUS
  <2>1. room = p.budget - (Tokens(p.system) + Overhead) \/ (room = 0 /\ p.budget = Tokens(p.system) + Overhead)
    BY <1>1, <1>2, <1>3, <1>4 DEF Less
  <2>2. room >= Tokens(Marker)
    BY <1>1, <1>2, <1>3, <2>1
  <2>3. Tokens(p.system) + Tokens(Length(user)) + Overhead <= p.budget
    BY <1>1, <1>2, <1>3, <1>6, <1>7, <2>1, <2>2
  <2> QED BY <1>8, <1>9, <2>3
<1>11. (Tokens(p.system) + Tokens(p.user) + Overhead <= p.budget
              /\ p.budget > Tokens(p.system) + Tokens(Marker) + Overhead)
              => f.system = Whole(p.system) /\ f.user = Whole(p.user)
  <2> SUFFICES ASSUME Tokens(p.system) + Tokens(p.user) + Overhead <= p.budget, 
                      p.budget > Tokens(p.system) + Tokens(Marker) + Overhead
               PROVE  f.system = Whole(p.system) /\ f.user = Whole(p.user)
    OBVIOUS
  <2>1. room = p.budget - (Tokens(p.system) + Overhead)
    BY <1>1, <1>2, <1>3, <1>4 DEF Less
  <2>2. room > Tokens(Marker) /\ Tokens(p.user) <= room
    BY <1>1, <1>2, <1>3, <2>1
  <2>3. user = Whole(p.user)
    BY <1>6, <2>2
  <2>4. Estimate(Whole(p.system), user) <= p.budget
    BY <1>5, <1>9, <2>3
  <2> QED BY <1>8, <2>3, <2>4
<1>12. f.user.cut = "middle" => Estimate(Whole(p.system), Middle(f.user.head + f.user.tail + 1)) > p.budget
  <2> SUFFICES ASSUME user.cut = "middle"
               PROVE  Estimate(Whole(p.system), Middle(user.head + user.tail + 1)) > p.budget
    BY <1>8
  <2> DEFINE m == Tokens(Length(Middle(user.head + user.tail + 1)))
  <2>1. m \in Nat /\ m > room
    BY <1>1, <1>6, MiddleLength, TokensMonotone
  <2>2. Estimate(Whole(p.system), Middle(user.head + user.tail + 1)) = Tokens(p.system) + m + Overhead
    BY <1>5 DEF Estimate
  <2> HIDE DEF m
  <2>3. Tokens(p.system) + m + Overhead > p.budget
    BY <1>1, <1>2, <1>3, <1>4, <2>1 DEF Less
  <2> QED BY <2>2, <2>3
<1> QED BY <1>10, <1>11, <1>12 DEF f

-----------------------------------------------------------------------------
(* The values variables may have.                                          *)

Maps(D, R) == UNION {[d -> R] : d \in SUBSET D}

HostNames == [name : Names \cup {NoName}, at : Nat, seen : Nat]

Phases == {"osint", "asking", "ptr", "lookup", "enriched"}

Warnings == {"osint not configured", "osint failed", "llm not configured", "llm failed"}

Jobs ==
  [request : Orders, pc : Phases, todo : SUBSET Indicators, warnings : SUBSET Warnings, ran : BOOLEAN,
   replies : Maps(Indicators, Maps(Providers, Replies)), answers : Maps(Indicators, Maps(Providers, Replies)),
   ptr : [Addresses -> HostNames], read : Nat, hits : Maps(Addresses, HostNames), looked : Maps(Addresses, HostNames)]

Bodies == {"content", "error", "earlier", "No content returned from the model."}

Sections == [title : Range(Titles) \cup {""}, body : Bodies]

Reports == Seq(Sections)

FactSets ==
  [evidence : Evidences, risk : Verdicts,
   notes : SUBSET {"all clear", "threats", "beacons", "flows", "ports", "no dns", "dns", "no tls", "certificates", "yara", "ja3"},
   providers : [Providers -> {"ok", "none", "limited", "auth", "error", "nodata"}]]

Stories ==
  [pc : {"none", "writing", "closing", "written", "saved"}, facts : {<<>>} \cup FactSets, failed : SUBSET Losses, next : Nat,
   report : Reports, loaded : Reports, gave : Seq({"content", "empty", "error"}), warnings : SUBSET Warnings,
   prompt : {<<>>} \cup [system : Nat, user : Nat, budget : Nat]]

WorldOK ==
  /\ names \in [Addresses -> Names]
  /\ now \in 0 .. MaxTime /\ renames \in 0 .. MaxRenames
  /\ cache \in [Addresses -> HostNames]

JobsOK ==
  /\ job \in [DOMAIN job -> Jobs] 
  /\ \A w \in DOMAIN job : IsFiniteSet(job[w].request.flows)

StoriesOK ==
  /\ saved \in [DOMAIN job -> [report : Reports, warnings : SUBSET Warnings]]
  /\ story \in [DOMAIN job -> Stories]

(* Functions on a part of D.                                               *)
LEMMA MapsMember ==
  ASSUME NEW D, NEW R, NEW f
  PROVE  f \in Maps(D, R) <=> DOMAIN f \subseteq D /\ f \in [DOMAIN f -> R]
BY DEF Maps

(* The empty function is one.                                              *)
LEMMA MapsEmpty == \A D, R : <<>> \in Maps(D, R) /\ DOMAIN <<>> = {}
<1>1. DOMAIN <<>> = {} /\ \A R : <<>> \in [{} -> R]
  OBVIOUS
<1> QED BY <1>1 DEF Maps

(* So is one with an entry more.                                           *)
LEMMA MapsWith ==
  ASSUME NEW D, NEW R, NEW f, NEW x, NEW v, f \in Maps(D, R), x \in D, v \in R
  PROVE  With(f, x, v) \in Maps(D, R)
<1>1. f \in [DOMAIN f -> R] /\ DOMAIN f \subseteq D
  BY MapsMember
<1>2. With(f, x, v) \in [DOMAIN f \cup {x} -> R] /\ DOMAIN With(f, x, v) = DOMAIN f \cup {x}
  BY <1>1 DEF With
<1> QED BY <1>1, <1>2, MapsMember

(* Leaving out odd replies leaves replies.                                 *)
LEMMA UsableReplies ==
  ASSUME NEW f \in Maps(Providers, Replies)
  PROVE  Usable(f) \in Maps(Providers, Replies)
<1>1. f \in [DOMAIN f -> Replies] /\ DOMAIN f \subseteq Providers
  BY MapsMember
<1>2. Usable(f) \in [{p \in DOMAIN f : f[p] # "odd"} -> Replies]
  BY <1>1 DEF Usable, Restrict
<1> QED BY <1>1, <1>2 DEF Maps

(* Every job a request makes is one of these.                              *)
LEMMA NewJobOK == ASSUME NEW r \in Orders PROVE NewJob(r) \in Jobs
<1>1. Nothing \in HostNames
  BY DEF Nothing, HostNames
<1>2. [a \in Addresses |-> Nothing] \in [Addresses -> HostNames]
  BY <1>1
<1>3. r.reportOnly \in BOOLEAN
  BY DEF Orders
<1> HIDE DEF Orders
<1> QED BY <1>2, <1>3, MapsEmpty DEF NewJob, Jobs, Phases

(* Jobs are well formed at first.                                          *)
LEMMA JobsInitially == EnrichInit => WorldOK /\ JobsOK
<1> SUFFICES ASSUME EnrichInit PROVE WorldOK /\ JobsOK
  OBVIOUS
<1>1. Nothing \in HostNames
  BY DEF Nothing, HostNames
<1>2. WorldOK
  BY <1>1, EnrichmentAssumption DEF EnrichInit, WorldOK
<1>3. PICK r \in Requests : job = [w \in DOMAIN r |-> NewJob(r[w])]
  BY DEF EnrichInit
<1>4. \A w \in DOMAIN r : r[w] \in Orders /\ IsFiniteSet(r[w].flows)
  BY NarrativeAssumption
<1>5. \A w \in DOMAIN job : job[w].request = r[w]
  BY <1>3 DEF NewJob
<1>6. \A w \in DOMAIN r : NewJob(r[w]) \in Jobs
  BY <1>4, NewJobOK
<1>7. job \in [DOMAIN job -> Jobs]
  BY <1>3, <1>6
<1>8. \A w \in DOMAIN job : IsFiniteSet(job[w].request.flows)
  BY <1>3, <1>4, <1>5
<1> QED BY <1>2, <1>7, <1>8 DEF JobsOK

(* One change of a job.                                                    *)
LEMMA JobChanged ==
  ASSUME JobsOK, NEW w \in DOMAIN job, NEW j \in Jobs, j.request.flows = job[w].request.flows,
         job' = [job EXCEPT ![w] = j]
  PROVE  JobsOK' /\ DOMAIN job' = DOMAIN job /\ job'[w] = j /\ \A v \in DOMAIN job : v # w => job'[v] = job[v]
<1>1. DOMAIN job' = DOMAIN job /\ job'[w] = j /\ \A v \in DOMAIN job : v # w => job'[v] = job[v]
  BY DEF JobsOK
<1>2. job' \in [DOMAIN job' -> Jobs]
  BY <1>1 DEF JobsOK
<1>3. \A v \in DOMAIN job' : IsFiniteSet(job'[v].request.flows)
  BY <1>1 DEF JobsOK
<1> QED BY <1>1, <1>2, <1>3 DEF JobsOK

-----------------------------------------------------------------------------
(* Host names and answers, step by step of the enrichment.                 *)

(* What is asked about are the addresses chosen and the domains.           *)
Chosen(j) ==
  /\ j.pc = "osint" => DOMAIN j.replies = {} /\ ~j.ran
  /\ j.pc = "asking" => ~j.ran /\ \E s \in TopChoices(j.request) : j.todo \cup DOMAIN j.replies = s \cup Domains
  /\ j.ran => \E s \in TopChoices(j.request) : DOMAIN j.replies = s \cup Domains

(* The answers of a stage that failed are lost, with a warning.            *)
RepliesKept(j) ==
  /\ IF j.ran \/ j.pc = "asking"
     THEN DOMAIN j.answers = DOMAIN j.replies /\ \A i \in DOMAIN j.replies : j.answers[i] = Usable(j.replies[i])
     ELSE DOMAIN j.answers = {}
  /\ j.pc \notin {"osint", "asking"} /\ ~j.ran /\ DOMAIN j.replies # {} => "osint failed" \in j.warnings

NamesKept(j) ==
  /\ \A a \in Addresses : j.ptr[a] = Nothing \/ j.ptr[a].name \in Names
  /\ \A a \in DOMAIN j.hits : j.hits[a].name \in Names
  /\ \A a \in DOMAIN j.looked : j.looked[a].name \in Names
  /\ j.pc = "enriched" => \A a \in DOMAIN j.hits \cup DOMAIN j.looked : j.ptr[a].name \in Names
  /\ j.pc \in {"osint", "asking", "ptr"} => DOMAIN j.hits = {} /\ DOMAIN j.looked = {}

(* A cached name was looked up not long before it was stored.              *)
NamesRecent(j, t) ==
  /\ \A a \in DOMAIN j.hits : j.hits[a].seen + TTL + MaxBatch > j.read
  /\ \A a \in DOMAIN j.looked : j.looked[a].seen >= j.read
  /\ j.pc = "lookup" => j.read <= t /\ t <= j.read + MaxBatch /\ j.todo \subseteq Addresses

Enriched(j, t) == Chosen(j) /\ RepliesKept(j) /\ NamesKept(j) /\ NamesRecent(j, t)

CacheRecent ==
  \A a \in Addresses : cache[a] # Nothing => cache[a].name \in Names /\ cache[a].at <= cache[a].seen + MaxBatch

EnrichInv == WorldOK /\ JobsOK /\ CacheRecent /\ \A w \in DOMAIN job : Enriched(job[w], now)

(* An address that is not in the cache has no name.                        *)
LEMMA NothingHasNoName == Nothing.name = NoName /\ Nothing.name \notin Names
BY EnrichmentAssumption DEF Nothing

(* A job that has not begun has lost nothing.                              *)
LEMMA NewJobEnriched == ASSUME NEW r \in Orders, NEW t \in Nat PROVE Enriched(NewJob(r), t)
<1> DEFINE j == NewJob(r)
<1>1. /\ j.pc = (IF r.reportOnly THEN "enriched" ELSE "osint") /\ j.ran = FALSE
      /\ j.replies = <<>> /\ j.answers = <<>> /\ j.hits = <<>> /\ j.looked = <<>>
      /\ j.ptr = [a \in Addresses |-> Nothing] /\ DOMAIN <<>> = {}
  BY DEF NewJob
<1> HIDE DEF j
<1>2. Chosen(j) /\ RepliesKept(j) /\ NamesKept(j) /\ NamesRecent(j, t)
  BY <1>1 DEF Chosen, RepliesKept, NamesKept, NamesRecent
<1> QED BY <1>2 DEF Enriched, j

(* The invariant of enrichment holds at first.                             *)
LEMMA EnrichInitially == EnrichInit => EnrichInv
<1> SUFFICES ASSUME EnrichInit PROVE EnrichInv
  OBVIOUS
<1>1. WorldOK /\ JobsOK
  BY JobsInitially
<1>2. CacheRecent
  BY DEF CacheRecent, EnrichInit
<1>3. PICK r \in Requests : job = [w \in DOMAIN r |-> NewJob(r[w])]
  BY DEF EnrichInit
<1>4. \A w \in DOMAIN r : r[w] \in Orders
  BY NarrativeAssumption
<1>5. now = 0
  BY DEF EnrichInit
<1>6. \A w \in DOMAIN job : Enriched(job[w], now)
  BY <1>3, <1>4, <1>5, NewJobEnriched
<1> QED BY <1>1, <1>2, <1>6 DEF EnrichInv

(* What no step of the enrichment does to a job.                           *)
JobsMove ==
  /\ DOMAIN job' = DOMAIN job
  /\ \A v \in DOMAIN job :
       /\ job'[v].request = job[v].request
       /\ job[v].pc = "enriched" => job'[v] = job[v]
       /\ (job[v].pc = "lookup" /\ job'[v].pc = "enriched") =>
            \A a \in Addresses : job[v].ptr[a] # Nothing => job'[v].ptr[a] = job[v].ptr[a]

(* A step that changes one job and neither the clock nor the cache.        *)
LEMMA JobStep ==
  ASSUME EnrichInv, NEW w \in DOMAIN job, NEW j \in Jobs, j.request = job[w].request,
         job[w].pc # "enriched", job[w].pc # "lookup" \/ j.pc # "enriched",
         job' = [job EXCEPT ![w] = j], Enriched(j, now), UNCHANGED <<names, renames, now, cache>>
  PROVE  EnrichInv' /\ JobsMove
<1>1. JobsOK' /\ DOMAIN job' = DOMAIN job /\ job'[w] = j /\ \A v \in DOMAIN job : v # w => job'[v] = job[v]
  BY JobChanged DEF EnrichInv
<1>2. WorldOK' /\ CacheRecent'
  BY DEF EnrichInv, WorldOK, CacheRecent
<1>3. \A v \in DOMAIN job' : Enriched(job'[v], now)
  BY <1>1 DEF EnrichInv
<1>4. \A v \in DOMAIN job' : Enriched(job'[v], now')
  BY <1>3
<1>5. JobsMove
  BY <1>1 DEF JobsMove
<1> QED BY <1>1, <1>2, <1>4, <1>5 DEF EnrichInv

(* OSINT switched off: nothing was asked.                                  *)
LEMMA SkipOsintKeeps == ASSUME EnrichInv, NEW w \in DOMAIN job, SkipOsint(w) PROVE EnrichInv' /\ JobsMove
<1> DEFINE j == [job[w] EXCEPT !.pc = "ptr", !.warnings = IF job[w].request.osint THEN {"osint not configured"} ELSE {}]
<1>1. job[w] \in Jobs /\ Enriched(job[w], now) /\ job[w].pc = "osint"
  BY DEF EnrichInv, JobsOK, SkipOsint
<1>2. j \in Jobs
  <2>1. {"osint not configured"} \in SUBSET Warnings /\ {} \in SUBSET Warnings /\ "ptr" \in Phases
    BY DEF Phases, Warnings
  <2> QED BY <1>1, <2>1 DEF Jobs
<1>3. job' = [job EXCEPT ![w] = j]
  BY DEF SkipOsint
<1>4. j.request = job[w].request /\ j.pc = "ptr" /\ j.ran = job[w].ran /\ j.replies = job[w].replies /\ j.answers = job[w].answers
      /\ j.hits = job[w].hits /\ j.looked = job[w].looked /\ j.ptr = job[w].ptr /\ j.read = job[w].read
  BY <1>1 DEF Jobs
<1> HIDE DEF j
<1>5. Enriched(j, now)
  BY <1>1, <1>4 DEF Enriched, Chosen, RepliesKept, NamesKept, NamesRecent
<1> QED BY <1>1, <1>2, <1>3, <1>4, <1>5, JobStep DEF SkipOsint

(* The addresses chosen are addresses.                                     *)
LEMMA ChosenAddresses ==
  ASSUME NEW r \in Orders, NEW s \in TopChoices(r)
  PROVE  s \subseteq Addresses
<1>1. r.addresses \subseteq Addresses
  BY DEF Orders
<1>2. s \subseteq r.addresses
  BY DEF TopChoices, kSubset, Talking
<1> QED BY <1>1, <1>2

(* The busiest public addresses are chosen to be asked about.              *)
LEMMA BeginOsintKeeps == ASSUME EnrichInv, NEW w \in DOMAIN job, BeginOsint(w) PROVE EnrichInv' /\ JobsMove
<1>1. job[w] \in Jobs /\ Enriched(job[w], now) /\ job[w].pc = "osint" /\ job[w].request \in Orders
  BY DEF EnrichInv, JobsOK, BeginOsint, Jobs
<1>2. PICK top \in TopChoices(job[w].request) : job' = [job EXCEPT ![w].pc = "asking", ![w].todo = top \cup Domains]
  BY DEF BeginOsint
<1> DEFINE j == [job[w] EXCEPT !.pc = "asking", !.todo = top \cup Domains]
<1>3. top \subseteq Addresses
  BY <1>1, ChosenAddresses
<1>4. j \in Jobs
  <2>1. top \cup Domains \in SUBSET Indicators /\ "asking" \in Phases
    BY <1>3 DEF Phases, Indicators
  <2> QED BY <1>1, <2>1 DEF Jobs
<1>5. job' = [job EXCEPT ![w] = j]
  BY <1>2
<1>6. j.request = job[w].request /\ j.pc = "asking" /\ j.ran = job[w].ran /\ j.replies = job[w].replies /\ j.answers = job[w].answers
      /\ j.hits = job[w].hits /\ j.looked = job[w].looked /\ j.ptr = job[w].ptr /\ j.read = job[w].read /\ j.todo = top \cup Domains
  BY <1>1 DEF Jobs
<1> HIDE DEF j
<1>7. j.todo \cup DOMAIN j.replies = top \cup Domains /\ ~j.ran
  BY <1>1, <1>6 DEF Enriched, Chosen
<1>8. Chosen(j)
  BY <1>6, <1>7 DEF Chosen
<1>10. DOMAIN j.replies = {} /\ DOMAIN j.answers = {}
  BY <1>1, <1>6 DEF Enriched, Chosen, RepliesKept
<1>9. Enriched(j, now)
  BY <1>1, <1>6, <1>8, <1>10 DEF Enriched, RepliesKept, NamesKept, NamesRecent
<1> QED BY <1>1, <1>4, <1>5, <1>6, <1>9, JobStep DEF BeginOsint

(* One answer of one provider is kept, whatever it is.                     *)
LEMMA AskKeeps == ASSUME EnrichInv, NEW w \in DOMAIN job, Ask(w) PROVE EnrichInv' /\ JobsMove
<1>1. job[w] \in Jobs /\ Enriched(job[w], now) /\ job[w].pc = "asking" /\ job[w].request \in Orders
  BY DEF EnrichInv, JobsOK, Ask, Jobs
<1>2. PICK i \in Earliest(job[w].todo) :
        \E replies \in [Configured(job[w], i) -> job[w].request.replies] :
        \E name \in IF i \in Addresses THEN Lookup(i) ELSE {NoName} :
          job' = [job EXCEPT ![w].todo = @ \ {i},
                             ![w].replies = With(@, i, replies),
                             ![w].answers = With(@, i, Usable(replies)),
                             ![w].ptr = IF name = NoName THEN @ ELSE [@ EXCEPT ![i] = [name |-> name, at |-> 0, seen |-> 0]]]
  BY DEF Ask
<1>3. PICK replies \in [Configured(job[w], i) -> job[w].request.replies] :
        \E name \in IF i \in Addresses THEN Lookup(i) ELSE {NoName} :
          job' = [job EXCEPT ![w].todo = @ \ {i},
                             ![w].replies = With(@, i, replies),
                             ![w].answers = With(@, i, Usable(replies)),
                             ![w].ptr = IF name = NoName THEN @ ELSE [@ EXCEPT ![i] = [name |-> name, at |-> 0, seen |-> 0]]]
  BY <1>2
<1>4. PICK name \in IF i \in Addresses THEN Lookup(i) ELSE {NoName} :
          job' = [job EXCEPT ![w].todo = @ \ {i},
                             ![w].replies = With(@, i, replies),
                             ![w].answers = With(@, i, Usable(replies)),
                             ![w].ptr = IF name = NoName THEN @ ELSE [@ EXCEPT ![i] = [name |-> name, at |-> 0, seen |-> 0]]]
  BY <1>3
<1> DEFINE asked == With(job[w].replies, i, replies)
           kept  == With(job[w].answers, i, Usable(replies))
           ptr   == IF name = NoName THEN job[w].ptr ELSE [job[w].ptr EXCEPT ![i] = [name |-> name, at |-> 0, seen |-> 0]]
           j     == [job[w] EXCEPT !.todo = job[w].todo \ {i}, !.replies = asked, !.answers = kept, !.ptr = ptr]
<1>5. job' = [job EXCEPT ![w] = j]
  BY <1>4
<1>6. i \in job[w].todo /\ i \in Indicators
  BY <1>1 DEF Earliest, Jobs
<1>7. replies \in Maps(Providers, Replies)
  <2>1. Configured(job[w], i) \subseteq Providers /\ job[w].request.replies \subseteq Replies
    BY <1>1 DEF Configured, Providers, Orders
  <2>2. DOMAIN replies \subseteq Providers /\ replies \in [DOMAIN replies -> Replies]
    BY <2>1
  <2> QED BY <2>2, MapsMember
<1>8. /\ job[w].replies \in Maps(Indicators, Maps(Providers, Replies))
      /\ job[w].answers \in Maps(Indicators, Maps(Providers, Replies))
      /\ job[w].ptr \in [Addresses -> HostNames]
  BY <1>1 DEF Jobs
<1>9. /\ asked \in Maps(Indicators, Maps(Providers, Replies))
      /\ DOMAIN asked = DOMAIN job[w].replies \cup {i}
      /\ \A y \in DOMAIN job[w].replies \cup {i} : asked[y] = IF y = i THEN replies ELSE job[w].replies[y]
  <2>1. asked \in Maps(Indicators, Maps(Providers, Replies))
    BY <1>6, <1>7, <1>8, MapsWith
  <2> QED BY <2>1 DEF With
<1>10. Usable(replies) \in Maps(Providers, Replies)
  BY <1>7, UsableReplies
<1>11. /\ kept \in Maps(Indicators, Maps(Providers, Replies))
       /\ DOMAIN kept = DOMAIN job[w].answers \cup {i}
       /\ \A y \in DOMAIN job[w].answers \cup {i} : kept[y] = IF y = i THEN Usable(replies) ELSE job[w].answers[y]
  <2>1. kept \in Maps(Indicators, Maps(Providers, Replies))
    BY <1>6, <1>8, <1>10, MapsWith
  <2> QED BY <2>1 DEF With
<1>12. ptr \in [Addresses -> HostNames] /\ \A a \in Addresses : ptr[a] = job[w].ptr[a] \/ ptr[a].name \in Names
  <2>1. CASE name = NoName
    BY <1>8, <2>1
  <2>2. CASE name # NoName
    <3>1. i \in Addresses /\ name \in Names
      BY <1>4, <2>2 DEF Lookup, EnrichInv, WorldOK
    <3>2. [name |-> name, at |-> 0, seen |-> 0] \in HostNames
      BY <3>1 DEF HostNames
    <3> QED BY <1>8, <2>2, <3>1, <3>2
  <2> QED BY <2>1, <2>2
<1> HIDE DEF asked, kept, ptr
<1>13. j \in Jobs
  BY <1>1, <1>9, <1>11, <1>12 DEF Jobs
<1>14. j.request = job[w].request /\ j.pc = job[w].pc /\ j.ran = job[w].ran /\ j.replies = asked /\ j.answers = kept
      /\ j.hits = job[w].hits /\ j.looked = job[w].looked /\ j.ptr = ptr /\ j.read = job[w].read /\ j.todo = job[w].todo \ {i}
  BY <1>1 DEF Jobs
<1> HIDE DEF j
<1>15. Chosen(j)
  <2>1. j.todo \cup DOMAIN j.replies = job[w].todo \cup DOMAIN job[w].replies
    BY <1>6, <1>9, <1>14
  <2> QED BY <1>1, <1>14, <2>1 DEF Enriched, Chosen
<1>16. RepliesKept(j)
  BY <1>1, <1>9, <1>11, <1>14 DEF Enriched, RepliesKept
<1>17. NamesKept(j)
  BY <1>1, <1>12, <1>14 DEF Enriched, NamesKept
<1>18. Enriched(j, now)
  BY <1>1, <1>14, <1>15, <1>16, <1>17 DEF Enriched, NamesRecent
<1> QED BY <1>1, <1>5, <1>13, <1>14, <1>18, JobStep DEF Ask

(* OSINT ends when every address was asked about.                          *)
LEMMA EndOsintKeeps == ASSUME EnrichInv, NEW w \in DOMAIN job, EndOsint(w) PROVE EnrichInv' /\ JobsMove
<1> DEFINE j == [job[w] EXCEPT !.pc = "ptr", !.ran = TRUE]
<1>1. job[w] \in Jobs /\ Enriched(job[w], now) /\ job[w].pc = "asking" /\ job[w].todo = {}
  BY DEF EnrichInv, JobsOK, EndOsint
<1>2. j \in Jobs
  BY <1>1 DEF Jobs, Phases
<1>3. job' = [job EXCEPT ![w] = j]
  BY DEF EndOsint
<1>4. j.request = job[w].request /\ j.pc = "ptr" /\ j.ran = TRUE /\ j.replies = job[w].replies /\ j.answers = job[w].answers
      /\ j.hits = job[w].hits /\ j.looked = job[w].looked /\ j.ptr = job[w].ptr /\ j.read = job[w].read
  BY <1>1 DEF Jobs
<1> HIDE DEF j
<1>5. \E s \in TopChoices(j.request) : DOMAIN j.replies = s \cup Domains
  BY <1>1, <1>4 DEF Enriched, Chosen
<1>6. Enriched(j, now)
  BY <1>1, <1>4, <1>5 DEF Enriched, Chosen, RepliesKept, NamesKept, NamesRecent
<1> QED BY <1>1, <1>2, <1>3, <1>4, <1>6, JobStep DEF EndOsint

(* A stage that fails leaves no answers behind.                            *)
LEMMA OsintFailsKeeps == ASSUME EnrichInv, NEW w \in DOMAIN job, OsintFails(w) PROVE EnrichInv' /\ JobsMove
<1> DEFINE j == [job[w] EXCEPT !.pc = "ptr", !.todo = {}, !.answers = <<>>,
                              !.ptr = [a \in Addresses |-> Nothing], !.warnings = {"osint failed"}]
<1>1. job[w] \in Jobs /\ Enriched(job[w], now) /\ job[w].pc = "asking"
  BY DEF EnrichInv, JobsOK, OsintFails
<1>2. j \in Jobs
  <2>1. {"osint failed"} \in SUBSET Warnings /\ "ptr" \in Phases /\ {} \in SUBSET Indicators
    BY DEF Warnings, Phases
  <2>2. [a \in Addresses |-> Nothing] \in [Addresses -> HostNames]
    BY DEF Nothing, HostNames
  <2> QED BY <1>1, <2>1, <2>2, MapsEmpty DEF Jobs
<1>3. job' = [job EXCEPT ![w] = j]
  BY DEF OsintFails
<1>4. j.request = job[w].request /\ j.pc = "ptr" /\ j.replies = job[w].replies /\ j.answers = <<>> /\ j.ran = job[w].ran
      /\ "osint failed" \in j.warnings
      /\ j.hits = job[w].hits /\ j.looked = job[w].looked /\ j.ptr = [a \in Addresses |-> Nothing] /\ j.read = job[w].read
  BY <1>1 DEF Jobs
<1> HIDE DEF j
<1>5. DOMAIN <<>> = {}
  BY MapsEmpty
<1>6. Enriched(j, now)
  BY <1>1, <1>4, <1>5 DEF Enriched, Chosen, RepliesKept, NamesKept, NamesRecent
<1> QED BY <1>1, <1>2, <1>3, <1>4, <1>6, JobStep DEF OsintFails

(* The cache gives names that are young enough.                            *)
LEMMA ReadCacheKeeps == ASSUME EnrichInv, NEW w \in DOMAIN job, ReadCache(w) PROVE EnrichInv' /\ JobsMove
<1>1. /\ job[w] \in Jobs /\ Enriched(job[w], now) /\ job[w].pc = "ptr" /\ job[w].request \in Orders
      /\ cache \in [Addresses -> HostNames] /\ now \in Nat
  BY EnrichmentAssumption DEF EnrichInv, JobsOK, WorldOK, ReadCache, Jobs
<1>2. PICK served \in {{a \in job[w].request.addresses : FreshEntry(cache, now, a)}, {}} :
        job' = [job EXCEPT ![w].pc = "lookup", ![w].read = now, ![w].hits = Restrict(cache, served),
                           ![w].todo = job[w].request.addresses \ served]
  BY DEF ReadCache
<1> DEFINE found == Restrict(cache, served)
           left  == job[w].request.addresses \ served
           j     == [job[w] EXCEPT !.pc = "lookup", !.read = now, !.hits = found, !.todo = left]
<1>3. job' = [job EXCEPT ![w] = j]
  BY <1>2
<1>4. job[w].request.addresses \subseteq Addresses
  BY <1>1 DEF Orders
<1>5. served \subseteq Addresses /\ \A a \in served : FreshEntry(cache, now, a)
  BY <1>4
<1>6. DOMAIN found = served /\ \A a \in served : found[a] = cache[a]
  BY DEF Restrict
<1>7. found \in Maps(Addresses, HostNames)
  <2>1. found \in [served -> HostNames]
    BY <1>1, <1>5 DEF Restrict
  <2> QED BY <1>5, <1>6, <2>1, MapsMember
<1>8. left \in SUBSET Indicators /\ left \subseteq Addresses
  BY <1>4 DEF Indicators
<1> HIDE DEF found, left
<1>9. j \in Jobs
  BY <1>1, <1>7, <1>8 DEF Jobs, Phases
<1>10. j.request = job[w].request /\ j.pc = "lookup" /\ j.warnings = job[w].warnings /\ j.ran = job[w].ran
      /\ j.replies = job[w].replies /\ j.answers = job[w].answers
      /\ j.hits = found /\ j.looked = job[w].looked /\ j.ptr = job[w].ptr /\ j.read = now /\ j.todo \subseteq Addresses
  BY <1>1, <1>8 DEF Jobs
<1> HIDE DEF j
<1>11. \A a \in served : found[a].name \in Names /\ found[a].seen + TTL + MaxBatch > now
  <2> SUFFICES ASSUME NEW a \in served PROVE cache[a].name \in Names /\ cache[a].seen + TTL + MaxBatch > now
    BY <1>6
  <2>1. cache[a] # Nothing /\ cache[a].at + TTL > now /\ cache[a] \in HostNames
    BY <1>1, <1>5 DEF FreshEntry
  <2>2. cache[a].name \in Names /\ cache[a].at <= cache[a].seen + MaxBatch
    BY <1>5, <2>1 DEF EnrichInv, CacheRecent
  <2>3. cache[a].at \in Nat /\ cache[a].seen \in Nat
    BY <2>1 DEF HostNames
  <2> QED BY <1>1, <2>1, <2>2, <2>3, EnrichmentAssumption
<1>12. NamesKept(j)
  BY <1>1, <1>6, <1>10, <1>11 DEF Enriched, NamesKept
<1>13. NamesRecent(j, now)
  BY <1>1, <1>6, <1>10, <1>11, EnrichmentAssumption DEF Enriched, NamesKept, NamesRecent
<1>14. Chosen(j) /\ RepliesKept(j)
  BY <1>1, <1>10 DEF Enriched, Chosen, RepliesKept
<1>15. Enriched(j, now)
  BY <1>12, <1>13, <1>14 DEF Enriched
<1> QED BY <1>1, <1>3, <1>9, <1>10, <1>15, JobStep DEF ReadCache

(* A lookup of one name.                                                   *)
LEMMA ResolveOneKeeps == ASSUME EnrichInv, NEW w \in DOMAIN job, ResolveOne(w) PROVE EnrichInv' /\ JobsMove
<1>1. /\ job[w] \in Jobs /\ Enriched(job[w], now) /\ job[w].pc = "lookup" /\ job[w].request \in Orders
      /\ now \in Nat /\ job[w].request.addresses \subseteq Addresses
  BY EnrichmentAssumption DEF EnrichInv, JobsOK, WorldOK, ResolveOne, Jobs, Orders
<1>2. PICK a \in job[w].todo : \E name \in Lookup(a) :
        job' = [job EXCEPT ![w].todo = @ \ {a},
                           ![w].looked = IF name = NoName THEN @ ELSE With(@, a, [name |-> name, at |-> 0, seen |-> now])]
  BY DEF ResolveOne
<1>3. PICK name \in Lookup(a) :
        job' = [job EXCEPT ![w].todo = @ \ {a},
                           ![w].looked = IF name = NoName THEN @ ELSE With(@, a, [name |-> name, at |-> 0, seen |-> now])]
  BY <1>2
<1> DEFINE looked == IF name = NoName THEN job[w].looked ELSE With(job[w].looked, a, [name |-> name, at |-> 0, seen |-> now])
           j == [job[w] EXCEPT !.todo = job[w].todo \ {a}, !.looked = looked]
<1>4. job' = [job EXCEPT ![w] = j]
  BY <1>3
<1>5. job[w].looked \in Maps(Addresses, HostNames) /\ job[w].read \in Nat
  BY <1>1 DEF Jobs
<1>6. /\ looked \in Maps(Addresses, HostNames)
      /\ \A b \in DOMAIN looked : looked[b].name \in Names /\ looked[b].seen >= job[w].read
  <2>1. CASE name = NoName
    BY <1>1, <1>5, <2>1 DEF Enriched, NamesKept, NamesRecent
  <2>2. CASE name # NoName
    <3>1. a \in Addresses /\ name \in Names
      BY <1>1, <1>2, <1>3, <2>2 DEF Enriched, NamesRecent, Lookup, EnrichInv, WorldOK
    <3>2. [name |-> name, at |-> 0, seen |-> now] \in HostNames
      BY <1>1, <3>1 DEF HostNames
    <3>3. looked = With(job[w].looked, a, [name |-> name, at |-> 0, seen |-> now])
      BY <2>2
    <3>4. /\ looked \in Maps(Addresses, HostNames)
          /\ DOMAIN looked = DOMAIN job[w].looked \cup {a}
          /\ \A b \in DOMAIN job[w].looked \cup {a} : looked[b] = IF b = a THEN [name |-> name, at |-> 0, seen |-> now] ELSE job[w].looked[b]
      <4>1. looked \in Maps(Addresses, HostNames)
        BY <1>5, <3>1, <3>2, <3>3, MapsWith
      <4> QED BY <3>3, <4>1 DEF With
    <3>5. now >= job[w].read
      BY <1>1, <1>5 DEF Enriched, NamesRecent
    <3> HIDE DEF looked
    <3> QED BY <1>1, <3>1, <3>4, <3>5 DEF Enriched, NamesKept, NamesRecent
  <2> QED BY <2>1, <2>2
<1> HIDE DEF looked
<1>7. j \in Jobs
  BY <1>1, <1>6 DEF Jobs
<1>8. j.request = job[w].request /\ j.pc = "lookup" /\ j.warnings = job[w].warnings /\ j.ran = job[w].ran
      /\ j.replies = job[w].replies /\ j.answers = job[w].answers
      /\ j.hits = job[w].hits /\ j.looked = looked /\ j.ptr = job[w].ptr /\ j.read = job[w].read /\ j.todo \subseteq job[w].todo
  BY <1>1 DEF Jobs
<1> HIDE DEF j
<1>9. Enriched(j, now)
  BY <1>1, <1>6, <1>8 DEF Enriched, Chosen, RepliesKept, NamesKept, NamesRecent
<1> QED BY <1>1, <1>4, <1>7, <1>8, <1>9, JobStep DEF ResolveOne

(* Names that were looked up go to the job and to the cache.               *)
LEMMA StoreNamesKeeps ==
  ASSUME EnrichInv, NEW w \in DOMAIN job, StoreNames(w)
  PROVE  EnrichInv' /\ JobsMove
<1>1. /\ job[w] \in Jobs /\ Enriched(job[w], now) /\ job[w].pc = "lookup" /\ now \in Nat
      /\ cache \in [Addresses -> HostNames] /\ now' = now /\ names' = names /\ renames' = renames
  BY EnrichmentAssumption DEF EnrichInv, JobsOK, WorldOK, StoreNames
<1>2. PICK entries \in {NewEntries(job[w]), <<>>} :
        cache' = [a \in Addresses |-> IF a \in DOMAIN entries THEN [entries[a] EXCEPT !.at = now] ELSE cache[a]]
  BY DEF StoreNames
<1>3. /\ job[w].looked \in Maps(Addresses, HostNames) /\ job[w].hits \in Maps(Addresses, HostNames)
      /\ job[w].ptr \in [Addresses -> HostNames] /\ job[w].read \in Nat
  BY <1>1 DEF Jobs
<1>4. \A a \in DOMAIN entries : a \in DOMAIN job[w].looked /\ entries[a] = job[w].looked[a]
  BY <1>2, MapsEmpty DEF NewEntries
<1>5. \A a \in DOMAIN job[w].looked : a \in Addresses /\ job[w].looked[a] \in HostNames
  BY <1>3, MapsMember
<1>6. \A a \in Addresses : cache'[a] \in HostNames
         /\ (cache'[a] # Nothing => cache'[a].name \in Names /\ cache'[a].at <= cache'[a].seen + MaxBatch)
  <2> SUFFICES ASSUME NEW a \in Addresses
               PROVE  /\ cache'[a] \in HostNames
                      /\ cache'[a] # Nothing => cache'[a].name \in Names /\ cache'[a].at <= cache'[a].seen + MaxBatch
    OBVIOUS
  <2>1. CASE a \in DOMAIN entries
    <3> DEFINE e == job[w].looked[a]
    <3>1. e \in HostNames /\ e.name \in Names /\ e.seen >= job[w].read /\ now <= job[w].read + MaxBatch
      BY <1>1, <1>4, <1>5, <2>1 DEF Enriched, NamesKept, NamesRecent
    <3>2. cache'[a] = [e EXCEPT !.at = now]
      BY <1>2, <1>4, <2>1
    <3> HIDE DEF e
    <3>3. cache'[a] \in HostNames /\ cache'[a].name = e.name /\ cache'[a].at = now /\ cache'[a].seen = e.seen /\ e.seen \in Nat
      BY <1>1, <3>1, <3>2 DEF HostNames
    <3> QED BY <1>1, <1>3, <3>1, <3>3, EnrichmentAssumption
  <2>2. CASE a \notin DOMAIN entries
    <3>1. cache'[a] = cache[a]
      BY <1>2, <2>2
    <3> QED BY <1>1, <3>1 DEF EnrichInv, CacheRecent
  <2> QED BY <2>1, <2>2
<1>7. cache' \in [Addresses -> HostNames]
  BY <1>2, <1>6
<1> DEFINE ptr == Merged(job[w], Found(job[w]))
           j   == [job[w] EXCEPT !.pc = "enriched", !.ptr = ptr]
<1>8. job' = [job EXCEPT ![w] = j]
  BY DEF StoreNames
<1>9. \A a \in DOMAIN job[w].looked \cup DOMAIN job[w].hits :
         Found(job[w])[a] \in HostNames /\ Found(job[w])[a].name \in Names
  <2>1. \A a \in DOMAIN job[w].hits : a \in Addresses /\ job[w].hits[a] \in HostNames
    BY <1>3, MapsMember
  <2> QED BY <1>1, <1>5, <2>1 DEF Found, Enriched, NamesKept
<1>10. DOMAIN Found(job[w]) = DOMAIN job[w].looked \cup DOMAIN job[w].hits
  BY DEF Found
<1>11. /\ ptr \in [Addresses -> HostNames]
       /\ \A a \in Addresses : job[w].ptr[a] # Nothing => ptr[a] = job[w].ptr[a]
       /\ \A a \in Addresses : ptr[a] = Nothing \/ ptr[a].name \in Names
       /\ \A a \in Addresses : a \in DOMAIN Found(job[w]) => ptr[a].name \in Names
  <2> SUFFICES ASSUME NEW a \in Addresses
               PROVE  /\ ptr[a] \in HostNames
                      /\ job[w].ptr[a] # Nothing => ptr[a] = job[w].ptr[a]
                      /\ ptr[a] = Nothing \/ ptr[a].name \in Names
                      /\ a \in DOMAIN Found(job[w]) => ptr[a].name \in Names
    BY DEF Merged
  <2>1. ptr[a] = IF job[w].ptr[a] = Nothing /\ a \in DOMAIN Found(job[w]) THEN Found(job[w])[a] ELSE job[w].ptr[a]
    BY DEF Merged
  <2>2. job[w].ptr[a] \in HostNames /\ (job[w].ptr[a] = Nothing \/ job[w].ptr[a].name \in Names)
    BY <1>1, <1>3 DEF Enriched, NamesKept
  <2> HIDE DEF ptr
  <2> QED BY <1>9, <1>10, <2>1, <2>2
<1> HIDE DEF ptr
<1>12. j \in Jobs
  BY <1>1, <1>11 DEF Jobs, Phases
<1>13. j.request = job[w].request /\ j.pc = "enriched" /\ j.warnings = job[w].warnings /\ j.ran = job[w].ran
      /\ j.replies = job[w].replies /\ j.answers = job[w].answers
      /\ j.hits = job[w].hits /\ j.looked = job[w].looked /\ j.ptr = ptr /\ j.read = job[w].read
  BY <1>1 DEF Jobs
<1> HIDE DEF j
<1>14. \A a \in DOMAIN job[w].hits \cup DOMAIN job[w].looked : a \in Addresses
  BY <1>3, MapsMember
<1>15. NamesKept(j)
  BY <1>1, <1>10, <1>11, <1>13, <1>14 DEF Enriched, NamesKept
<1>16. Enriched(j, now)
  BY <1>1, <1>13, <1>15 DEF Enriched, Chosen, RepliesKept, NamesRecent
<1>17. JobsOK' /\ DOMAIN job' = DOMAIN job /\ job'[w] = j /\ \A v \in DOMAIN job : v # w => job'[v] = job[v]
  BY <1>8, <1>12, <1>13, JobChanged DEF EnrichInv
<1>18. WorldOK'
  BY <1>1, <1>7 DEF EnrichInv, WorldOK
<1>19. CacheRecent'
  BY <1>6 DEF CacheRecent
<1>20. \A v \in DOMAIN job' : Enriched(job'[v], now)
  BY <1>16, <1>17 DEF EnrichInv
<1>21. \A v \in DOMAIN job' : Enriched(job'[v], now')
  BY <1>1, <1>20
<1>22. JobsMove
  BY <1>1, <1>11, <1>13, <1>17 DEF JobsMove
<1> QED BY <1>17, <1>18, <1>19, <1>21, <1>22 DEF EnrichInv

(* A name changes in the world: no job holds the world.                    *)
LEMMA RenameKeeps == ASSUME EnrichInv, NEW a \in Addresses, Rename(a) PROVE EnrichInv' /\ JobsMove
<1>1. names' \in [Addresses -> Names] /\ renames' \in 0 .. MaxRenames
  BY EnrichmentAssumption DEF EnrichInv, WorldOK, Rename
<1>2. now' = now /\ cache' = cache /\ job' = job
  BY DEF Rename
<1>3. WorldOK' /\ JobsOK' /\ CacheRecent'
  BY <1>1, <1>2 DEF EnrichInv, WorldOK, JobsOK, CacheRecent
<1>4. \A v \in DOMAIN job' : Enriched(job'[v], now')
  BY <1>2 DEF EnrichInv
<1> QED BY <1>2, <1>3, <1>4 DEF EnrichInv, JobsMove

(* Time passes: names get older, jobs and cache stay.                      *)
LEMMA TickKeeps == ASSUME EnrichInv, Tick PROVE EnrichInv' /\ JobsMove
<1>1. now' = now + 1 /\ names' = names /\ renames' = renames /\ cache' = cache /\ job' = job /\ now \in Nat /\ now' \in 0 .. MaxTime
  BY EnrichmentAssumption DEF Tick, EnrichInv, WorldOK
<1>2. WorldOK' /\ JobsOK' /\ CacheRecent'
  BY <1>1 DEF EnrichInv, WorldOK, JobsOK, CacheRecent
<1>3. ASSUME NEW v \in DOMAIN job PROVE Enriched(job[v], now')
  <2>1. job[v].pc = "lookup" => now < job[v].read + MaxBatch
    BY DEF Tick
  <2>2. job[v].read \in Nat /\ MaxBatch \in Nat
    BY EnrichmentAssumption DEF EnrichInv, JobsOK, Jobs
  <2> QED BY <1>1, <2>1, <2>2 DEF EnrichInv, Enriched, NamesRecent
<1>4. \A v \in DOMAIN job' : Enriched(job'[v], now')
  BY <1>1, <1>3
<1> QED BY <1>1, <1>2, <1>4 DEF EnrichInv, JobsMove

(* Every step of enrichment keeps its invariant and moves a job along.     *)
LEMMA EnrichKeeps == EnrichInv /\ EnrichNext => EnrichInv' /\ JobsMove
BY SkipOsintKeeps, BeginOsintKeeps, AskKeeps, EndOsintKeeps, OsintFailsKeeps, ReadCacheKeeps, ResolveOneKeeps,
   StoreNamesKeeps, RenameKeeps, TickKeeps DEF EnrichNext

-----------------------------------------------------------------------------
(* What a report is told.                                                  *)

LEMMA PlacesFinite == \A list, row : \A n \in Nat : DOMAIN list = 1 .. n =>
                        IsFiniteSet(Places(list, row)) /\ Places(list, row) \subseteq Nat
<1> SUFFICES ASSUME NEW list, NEW row, NEW n \in Nat, DOMAIN list = 1 .. n
             PROVE  IsFiniteSet(Places(list, row)) /\ Places(list, row) \subseteq Nat
  OBVIOUS
<1>1. IsFiniteSet(1 .. n) /\ Places(list, row) \subseteq 1 .. n
  BY FS_Interval DEF Places
<1> QED BY <1>1, FS_Subset

(* Cutting a list of places that is not empty leaves some of it.           *)
LEMMA UptoKeeps ==
  ASSUME NEW places, places \subseteq Nat, NEW limit \in Nat \ {0}
  PROVE  Upto(places, limit) = {} <=> places = {}
<1>1. Upto(places, limit) \subseteq places
  BY DEF Upto
<1>2. ASSUME places # {} PROVE Upto(places, limit) # {}
  <2>1. PICK i \in places : \A k \in places : i <= k
    BY <1>2, LeastNumber
  <2>2. {k \in places : k < i} = {}
    <3>1. \A k \in places : ~(k < i)
      BY <2>1
    <3> QED BY <3>1
  <2>3. Cardinality({}) = 0
    BY FS_EmptySet
  <2>4. i \in Upto(places, limit)
    BY <2>2, <2>3 DEF Upto
  <2> QED BY <2>4
<1> QED BY <1>1, <1>2

(* Details are given exactly if a row is bad, however few of them are      *)
(* listed.                                                                 *)
LEMMA DetailsGiven ==
  ASSUME NEW list, NEW n \in Nat, DOMAIN list = 1 .. n, NEW limit \in Nat \ {0}
  PROVE  Details(list, limit) = {} <=> "bad" \notin Range(list)
<1>1. Details(list, limit) = {} <=> Places(list, "bad") = {}
  BY PlacesFinite, UptoKeeps DEF Details
<1> QED BY <1>1 DEF Places, Range

(* A verdict is counted if a row has it.                                   *)
LEMMA DistributionCounts ==
  ASSUME NEW rows \in Seq(Verdicts), NEW v \in Verdicts
  PROVE  Distribution(rows)[v] > 0 <=> \E i \in DOMAIN rows : rows[i] = v
<1> DEFINE S == {i \in DOMAIN rows : rows[i] = v}
<1>1. IsFiniteSet(S)
  <2>1. Len(rows) \in Nat /\ DOMAIN rows = 1 .. Len(rows)
    OBVIOUS
  <2>2. IsFiniteSet(1 .. Len(rows)) /\ S \subseteq 1 .. Len(rows)
    BY <2>1, FS_Interval
  <2> QED BY <2>2, FS_Subset
<1>2. Distribution(rows)[v] = Cardinality(S)
  BY DEF Distribution, Verdicts
<1>3. Cardinality(S) \in Nat /\ (Cardinality(S) = 0 <=> S = {})
  BY <1>1, FS_CardinalityType, FS_EmptySet
<1> QED BY <1>2, <1>3

(* The risk is that of the worst row.                                      *)
LEMMA RiskWorst ==
  ASSUME NEW rows \in Seq(Verdicts), NEW limit
  PROVE  /\ Risk(rows, limit) \in Verdicts
         /\ \A i \in DOMAIN rows : Rank[rows[i]] <= Rank[Risk(rows, limit)]
         /\ Risk(rows, limit) # "low" => Risk(rows, limit) \in Range(rows)
<1> DEFINE levels == {i \in DOMAIN Elevated : Distribution(rows)[Elevated[i]] > 0}
<1>1. DOMAIN Elevated = 1 .. 3 /\ Elevated[1] = "critical" /\ Elevated[2] = "high" /\ Elevated[3] = "medium"
  BY DEF Elevated
<1>2. Rank["critical"] = 4 /\ Rank["high"] = 3 /\ Rank["medium"] = 2 /\ Rank["low"] = 1
  BY DEF Rank, Verdicts
<1>3. \A i \in DOMAIN rows : rows[i] \in Verdicts
  OBVIOUS
<1>4. \A k \in 1 .. 3 : k \in levels <=> \E i \in DOMAIN rows : rows[i] = Elevated[k]
  BY <1>1, DistributionCounts DEF Verdicts
<1>5. CASE levels = {}
  <2>1. Risk(rows, limit) = "low"
    BY <1>5 DEF Risk
  <2>2. \A i \in DOMAIN rows : rows[i] = "low"
    <3>1. \A k \in 1 .. 3 : k \notin levels
      BY <1>5
    <3>2. 1 \in 1 .. 3 /\ 2 \in 1 .. 3 /\ 3 \in 1 .. 3
      OBVIOUS
    <3> HIDE DEF levels
    <3> QED BY <1>1, <1>3, <1>4, <3>1, <3>2 DEF Verdicts
  <2> QED BY <1>2, <2>1, <2>2 DEF Verdicts
<1>6. CASE levels # {}
  <2> DEFINE m == Min(levels)
  <2>1. levels \subseteq Nat
    BY <1>1
  <2>2. m \in levels /\ \A k \in levels : m <= k
    <3> HIDE DEF levels
    <3> QED BY <1>6, <2>1, MinIsLeast
  <2>3. m \in 1 .. 3 /\ Risk(rows, limit) = Elevated[m]
    BY <1>1, <1>6, <2>2 DEF Risk
  <2> HIDE DEF m, levels
  <2>4. \E i \in DOMAIN rows : rows[i] = Elevated[m]
    BY <1>4, <2>2, <2>3
  <2>5. Elevated[m] \in Verdicts
    BY <1>1, <2>3 DEF Verdicts
  <2>6. \A i \in DOMAIN rows : \A k \in 1 .. 3 : rows[i] = Elevated[k] => m <= k
    BY <1>4, <2>2
  <2>7. \A i \in DOMAIN rows : Rank[rows[i]] <= Rank[Elevated[m]]
    <3> SUFFICES ASSUME NEW i \in DOMAIN rows PROVE Rank[rows[i]] <= Rank[Elevated[m]]
      OBVIOUS
    <3>1. rows[i] = "low" \/ \E k \in 1 .. 3 : rows[i] = Elevated[k]
      <4>1. 1 \in 1 .. 3 /\ 2 \in 1 .. 3 /\ 3 \in 1 .. 3
        OBVIOUS
      <4> QED BY <1>1, <1>3, <4>1 DEF Verdicts
    <3>2. \A k \in 1 .. 3 : Rank[Elevated[k]] = 5 - k
      BY <1>1, <1>2
    <3>3. CASE rows[i] = "low"
      BY <1>2, <2>3, <3>2, <3>3
    <3>4. ASSUME NEW k \in 1 .. 3, rows[i] = Elevated[k] PROVE Rank[rows[i]] <= Rank[Elevated[m]]
      BY <2>3, <2>6, <3>2, <3>4
    <3> QED BY <3>1, <3>3, <3>4
  <2> QED BY <2>3, <2>4, <2>5, <2>7 DEF Range
<1> QED BY <1>5, <1>6

(* A provider is called ok only with a payload, and silent or without data *)
(* only if nothing failed.                                                 *)
LEMMA ProviderTold ==
  ASSUME NEW S, S \subseteq Replies \ {"odd"}
  PROVE  /\ ProviderStatus(S) \in {"ok", "none", "limited", "auth", "error", "nodata"}
         /\ ProviderStatus(S) \in {"nodata", "none"} => S \cap {"limited", "auth", "error"} = {}
         /\ ProviderStatus(S) = "ok" => "payload" \in S
<1> DEFINE levels == {i \in DOMAIN Precedence : Precedence[i] \in S}
<1>1. DOMAIN Precedence = 1 .. 4 /\ Precedence[1] = "limited" /\ Precedence[2] = "auth" /\ Precedence[3] = "error" /\ Precedence[4] = "nodata"
  BY DEF Precedence
<1>2. CASE "payload" \in S
  BY <1>2 DEF ProviderStatus
<1>3. CASE S = {}
  BY <1>3 DEF ProviderStatus
<1>4. CASE "payload" \notin S /\ S # {}
  <2> DEFINE m == Min(levels)
  <2>0. 1 \in 1 .. 4 /\ 2 \in 1 .. 4 /\ 3 \in 1 .. 4 /\ 4 \in 1 .. 4
    OBVIOUS
  <2>1. levels \subseteq Nat /\ levels # {}
    <3>1. PICK s \in S : s \in {"limited", "auth", "error", "nodata"}
      BY <1>4 DEF Replies
    <3>2. \E k \in 1 .. 4 : Precedence[k] = s
      BY <1>1, <2>0, <3>1
    <3> QED BY <1>1, <3>2
  <2>2. m \in levels /\ \A k \in levels : m <= k
    <3> HIDE DEF levels
    <3> QED BY <2>1, MinIsLeast
  <2>3. ProviderStatus(S) = Precedence[m] /\ m \in 1 .. 4
    BY <1>1, <1>4, <2>2 DEF ProviderStatus
  <2>4. \A k \in 1 .. 4 : Precedence[k] \in S => m <= k
    BY <1>1, <2>2
  <2> HIDE DEF m, levels
  <2>5. CASE m = 4
    <3>1. Precedence[1] \notin S /\ Precedence[2] \notin S /\ Precedence[3] \notin S
      BY <2>0, <2>4, <2>5
    <3> QED BY <1>1, <2>3, <2>5, <3>1
  <2>6. CASE m # 4
    <3>1. m = 1 \/ m = 2 \/ m = 3
      BY <2>3, <2>6
    <3> QED BY <1>1, <2>3, <3>1
  <2> QED BY <2>5, <2>6
<1> QED BY <1>2, <1>3, <1>4

(* What is answered is what the providers replied, if it can be used.      *)
LEMMA AnsweredUsable ==
  ASSUME NEW w, RepliesKept(job[w]), job[w].ran, NEW p
  PROVE  Answered(w, p) =
           {job[w].replies[i][p] : i \in {k \in DOMAIN job[w].replies : p \in DOMAIN job[w].replies[k]}} \ {"odd"}
<1>1. \A i \in DOMAIN job[w].replies : 
        /\ job[w].answers[i] = Usable(job[w].replies[i])
        /\ p \in DOMAIN job[w].answers[i] <=> p \in DOMAIN job[w].replies[i] /\ job[w].replies[i][p] # "odd"
        /\ p \in DOMAIN job[w].answers[i] => job[w].answers[i][p] = job[w].replies[i][p]
  BY DEF RepliesKept, Usable, Restrict
<1>2. DOMAIN job[w].answers = DOMAIN job[w].replies
  BY DEF RepliesKept
<1> QED BY <1>1, <1>2 DEF Answered

(* The answers of a provider are replies it gave.                          *)
LEMMA AnsweredReplies ==
  ASSUME NEW w, job[w] \in Jobs, RepliesKept(job[w]), job[w].pc # "asking", NEW p \in Providers
  PROVE  Answered(w, p) \subseteq Replies \ {"odd"}
<1>1. job[w].replies \in Maps(Indicators, Maps(Providers, Replies))
  BY DEF Jobs
<1>2. \A i \in DOMAIN job[w].replies : job[w].replies[i] \in Maps(Providers, Replies)
  BY <1>1, MapsMember
<1>3. \A i \in DOMAIN job[w].replies : \A q \in DOMAIN job[w].replies[i] : job[w].replies[i][q] \in Replies
  BY <1>2, MapsMember
<1>4. CASE job[w].ran
  BY <1>3, <1>4, AnsweredUsable
<1>5. CASE ~job[w].ran /\ job[w].pc # "asking"
  BY <1>5 DEF Answered, RepliesKept
<1> QED BY <1>4, <1>5

(* What is told to the model is a set of facts.                            *)
LEMMA FactsTyped ==
  ASSUME NEW w, job[w] \in Jobs, RepliesKept(job[w]), job[w].pc # "asking",
         NEW e \in Evidences, NEW limit \in Nat \ {0}
  PROVE  Facts(w, e, limit) \in FactSets
<1>1. Risk(e.rows, limit) \in Verdicts
  <2>1. e.rows \in Seq(Verdicts)
    BY DEF Evidences
  <2> QED BY <2>1, RiskWorst
<1>2. [p \in Providers |-> ProviderStatus(Answered(w, p))] \in [Providers -> {"ok", "none", "limited", "auth", "error", "nodata"}]
  BY AnsweredReplies, ProviderTold
<1>3. ThreatNotes(e, limit) \cup DetectorNotes(e, limit) \in
        SUBSET {"all clear", "threats", "beacons", "flows", "ports", "no dns", "dns", "no tls", "certificates", "yara", "ja3"}
  BY DEF ThreatNotes, DetectorNotes
<1> QED BY <1>1, <1>2, <1>3 DEF Facts, FactSets

(* The correlation without flows is no worse than with them.               *)
LEMMA MilderRows ==
  ASSUME NEW rows \in Seq(Verdicts), NEW r \in Milder(rows)
  PROVE  r \in Seq(Verdicts) /\ DOMAIN r = DOMAIN rows /\ \A i \in DOMAIN rows : Rank[r[i]] <= Rank[rows[i]]
<1>1. r \in [1 .. Len(rows) -> Verdicts] /\ Len(rows) \in Nat
  BY DEF Milder
<1> QED BY <1>1 DEF Milder

(* What the derivations leave of the evidence: all of it, but for those    *)
(* that failed.                                                            *)
LEMMA DerivedFrom ==
  ASSUME NEW e \in Evidences, NEW failed, NEW d \in Derivations(e, failed)
  PROVE  /\ d \in Evidences
         /\ d.beacons = e.beacons /\ d.certificates = e.certificates /\ d.dns = e.dns /\ d.tls = e.tls /\ d.yara = e.yara
         /\ "flows" \notin failed => d.flows = e.flows
         /\ failed \cap {"flows", "ports"} = {} => d.ports = e.ports
         /\ "ja3" \notin failed => d.ja3 = e.ja3
         /\ failed \cap {"correlation", "flows"} = {} => d.rows = e.rows
         /\ \A i \in DOMAIN d.rows : i \in DOMAIN e.rows /\ Rank[d.rows[i]] <= Rank[e.rows[i]]
<1> DEFINE fl == IF "flows" \in failed THEN <<>> ELSE e.flows
           po == IF failed \cap {"flows", "ports"} # {} THEN "clear" ELSE e.ports
           ja == IF "ja3" \in failed THEN "absent" ELSE e.ja3
<1>1. PICK r \in IF "correlation" \in failed THEN {<<>>} ELSE IF "flows" \in failed THEN Milder(e.rows) ELSE {e.rows} :
        d = [e EXCEPT !.rows = r, !.flows = fl, !.ports = po, !.ja3 = ja]
  BY DEF Derivations
<1>2. e.rows \in Seq(Verdicts) /\ e.flows \in Seq({"ok", "bad"}) /\ e.ja3 \in Outcomes /\ e.ports \in {"clear", "found"}
  BY DEF Evidences
<1>3. /\ r \in Seq(Verdicts)
      /\ failed \cap {"correlation", "flows"} = {} => r = e.rows
      /\ \A i \in DOMAIN r : i \in DOMAIN e.rows /\ Rank[r[i]] <= Rank[e.rows[i]]
  <2>1. CASE "correlation" \in failed
    BY <1>1, <2>1
  <2>2. CASE "correlation" \notin failed /\ "flows" \in failed
    <3>1. r \in Milder(e.rows)
      BY <1>1, <2>2
    <3> QED BY <1>2, <2>2, <3>1, MilderRows
  <2>3. CASE "correlation" \notin failed /\ "flows" \notin failed
    <3>1. \A i \in DOMAIN e.rows : Rank[e.rows[i]] \in Nat
      BY <1>2 DEF Rank, Verdicts
    <3> QED BY <1>1, <1>2, <2>3, <3>1
  <2> QED BY <2>1, <2>2, <2>3
<1>4. fl \in Seq({"ok", "bad"}) /\ po \in {"clear", "found"} /\ ja \in Outcomes
  BY <1>2 DEF Outcomes
<1>5. /\ "flows" \notin failed => fl = e.flows
      /\ failed \cap {"flows", "ports"} = {} => po = e.ports
      /\ "ja3" \notin failed => ja = e.ja3
  OBVIOUS
<1> HIDE DEF fl, po, ja
<1>6. d \in Evidences /\ d.rows = r /\ d.flows = fl /\ d.ports = po /\ d.ja3 = ja
      /\ d.beacons = e.beacons /\ d.certificates = e.certificates /\ d.dns = e.dns /\ d.tls = e.tls /\ d.yara = e.yara
  BY <1>1, <1>3, <1>4 DEF Evidences
<1> QED BY <1>3, <1>5, <1>6

(* All clear is said of evidence without a finding.                        *)
LEMMA ClearOfFindings ==
  ASSUME NEW e \in Evidences, NEW limit \in Nat \ {0}, ~Significant(e, limit)
  PROVE  /\ NothingFound(e, {})
         /\ (ThreatNotes(e, limit) \cup DetectorNotes(e, limit))
              \cap {"threats", "beacons", "flows", "ports", "dns", "certificates", "yara"} = {}
<1>1. e.rows \in Seq(Verdicts) /\ e.flows \in Seq({"ok", "bad"}) /\ e.certificates \in Seq({"ok", "bad"}) /\ e.ports \in {"clear", "found"}
  BY DEF Evidences
<1>2. DOMAIN e.rows = 1 .. Len(e.rows) /\ Len(e.rows) \in Nat /\ DOMAIN e.flows = 1 .. Len(e.flows) /\ Len(e.flows) \in Nat
      /\ DOMAIN e.certificates = 1 .. Len(e.certificates) /\ Len(e.certificates) \in Nat
  BY <1>1
<1>3. /\ Risk(e.rows, limit) = "low"
      /\ "bad" \notin Range(e.beacons)
      /\ Details(e.flows, limit) = {}
      /\ Ran(e.tls) => Details(e.certificates, limit) = {}
      /\ "found" \notin {e.dns, e.yara, e.ja3, e.ports}
  BY DEF Significant
<1>4. \A i \in DOMAIN e.rows : e.rows[i] = "low"
  <2>1. \A i \in DOMAIN e.rows : Rank[e.rows[i]] <= Rank["low"] /\ e.rows[i] \in Verdicts
    BY <1>1, <1>3, RiskWorst
  <2>2. Rank["critical"] = 4 /\ Rank["high"] = 3 /\ Rank["medium"] = 2 /\ Rank["low"] = 1
    BY DEF Rank, Verdicts
  <2> QED BY <2>1, <2>2 DEF Verdicts
<1>5. "bad" \notin Range(e.flows) /\ (Ran(e.tls) => "bad" \notin Range(e.certificates))
  BY <1>2, <1>3, DetailsGiven
<1>6. Upto(DOMAIN e.rows \ Places(e.rows, "low"), limit) = {}
  <2>1. DOMAIN e.rows \ Places(e.rows, "low") = {}
    BY <1>4 DEF Places
  <2> QED BY <2>1, UptoKeeps
<1>7. ThreatNotes(e, limit) \cap {"threats", "beacons", "flows", "ports", "dns", "certificates", "yara"} = {}
  BY <1>3, <1>6 DEF ThreatNotes
<1>8. DetectorNotes(e, limit) \cap {"threats", "beacons", "flows", "ports", "dns", "certificates", "yara"} = {}
  BY <1>3 DEF DetectorNotes
<1>9. Range(e.rows) \subseteq {"low"}
  BY <1>4 DEF Range
<1>10. NothingFound(e, {})
  BY <1>1, <1>3, <1>5, <1>9 DEF NothingFound
<1> QED BY <1>7, <1>8, <1>10

-----------------------------------------------------------------------------
(* The story of a report, step by step.                                    *)

(* The sections that are kept stand in the report in their order.          *)
Filled(gave) == {i \in DOMAIN gave : gave[i] # "empty"}

Place(gave, i) == Cardinality({j \in Filled(gave) : j <= i})

Ranked(report, gave) ==
  /\ Len(report) = Cardinality(Filled(gave))
  /\ \A i \in Filled(gave) : Place(gave, i) \in DOMAIN report /\ report[Place(gave, i)] = [title |-> Titles[i], body |-> gave[i]]

Untold(s) == s.pc = "none" => s.facts = <<>> /\ s.gave = <<>> /\ s.report = <<>> /\ s.next = 1 /\ s.prompt = <<>>

(* The facts are those of the evidence, less what failed.                  *)
Told(w, s) ==
  /\ s.pc # "none"
  /\ \E e \in Derivations(Request(w).evidence, s.failed), limit \in Nat \ {0} : s.facts = Facts(w, e, limit)

FactsTold(w) ==
  /\ story[w].pc # "none" => job[w].pc = "enriched" /\ job[w].warnings \subseteq story[w].warnings
  /\ story[w].facts # <<>> => Told(w, story[w])

SectionsWritten(s, chunked) ==
  /\ s.pc = "writing" /\ chunked  => Ranked(s.report, s.gave) /\ s.next = Len(s.gave) + 1 /\ Len(s.gave) < Len(Titles)
  /\ s.pc = "writing" /\ ~chunked => s.gave = <<>>
  /\ s.pc = "closing" => Ranked(s.report, s.gave) /\ Len(s.gave) = Len(Titles)
  /\ s.pc \in {"written", "saved"} /\ s.gave # <<>> =>
       /\ Len(s.gave) < Len(Titles) => s.report = <<>> /\ OnFailure \subseteq s.warnings
       /\ Len(s.gave) >= Len(Titles) =>
            /\ Len(s.gave) = Len(Titles)
            /\ Filled(s.gave) = {} => s.report = NoContent
            /\ Filled(s.gave) # {} => Ranked(s.report, s.gave)

Excused == {"llm not configured", "llm failed"}

WarnedElse(s, kept, llm) ==
  /\ s.pc = "written" /\ llm => s.report # <<>> \/ s.warnings \cap Excused # {}
  /\ s.pc = "saved" /\ llm => s.report # <<>> \/ kept.warnings \cap Excused # {}
  /\ s.pc \in {"writing", "closing", "written"} => s.loaded = kept.report

Narrated(w) ==
  /\ Untold(story[w]) /\ FactsTold(w)
  /\ SectionsWritten(story[w], Chunked(job[w].request))
  /\ WarnedElse(story[w], saved[w], job[w].request.llm)

NarrInv == EnrichInv /\ StoriesOK /\ \A w \in DOMAIN job : Narrated(w)

(* A story that has not begun says nothing.                                *)
LEMMA NoStoryTold ==
  /\ NoStory \in Stories /\ NoStory.pc = "none" /\ Untold(NoStory) /\ NoStory.facts = <<>>
  /\ \A chunked, kept, llm : SectionsWritten(NoStory, chunked) /\ WarnedElse(NoStory, kept, llm)
<1>1. NoStory.pc = "none" /\ NoStory.facts = <<>> /\ NoStory.gave = <<>> /\ NoStory.report = <<>> /\ NoStory.next = 1 /\ NoStory.prompt = <<>>
  BY DEF NoStory
<1>2. <<>> \in Reports /\ <<>> \in Seq({"content", "empty", "error"}) /\ {} \in SUBSET Warnings /\ {} \in SUBSET Losses
  BY DEF Reports
<1>3. NoStory \in Stories
  BY <1>2 DEF NoStory, Stories
<1> QED BY <1>1, <1>3 DEF Untold, SectionsWritten, WarnedElse

(* A report of one section is a report.                                    *)
LEMMA OneSection == \A x \in Sections : <<x>> \in Reports
BY DEF Reports

(* No report, and the one of an earlier run.                               *)
LEMMA NoReportTyped == NoReport \in [report : Reports, warnings : SUBSET Warnings] /\ [NoReport EXCEPT !.report = Earlier] \in [report : Reports, warnings : SUBSET Warnings]
<1>1. <<>> \in Reports /\ {} \in SUBSET Warnings
  BY DEF Reports
<1>2. [title |-> "", body |-> "earlier"] \in Sections
  BY DEF Sections, Bodies
<1>3. Earlier \in Reports
  BY <1>2, OneSection DEF Earlier
<1> QED BY <1>1, <1>3 DEF NoReport

(* The invariant holds at first.                                           *)
LEMMA NarrInitially == NarrativeInit => NarrInv
<1> SUFFICES ASSUME NarrativeInit PROVE NarrInv
  OBVIOUS
<1>1. EnrichInv
  BY EnrichInitially DEF NarrativeInit
<1>2. StoriesOK
  <2>1. story \in [DOMAIN job -> Stories]
    BY NoStoryTold DEF NarrativeInit
  <2>2. PICK s \in {NoReport, [NoReport EXCEPT !.report = Earlier]} :
          saved = [w \in DOMAIN job |-> IF job[w].request.reportOnly THEN s ELSE NoReport]
    BY DEF NarrativeInit
  <2>3. s \in [report : Reports, warnings : SUBSET Warnings] /\ NoReport \in [report : Reports, warnings : SUBSET Warnings]
    BY NoReportTyped
  <2>4. saved \in [DOMAIN job -> [report : Reports, warnings : SUBSET Warnings]]
    BY <2>2, <2>3
  <2> QED BY <2>1, <2>4 DEF StoriesOK
<1>3. ASSUME NEW w \in DOMAIN job PROVE Narrated(w)
  <2>1. story[w] = NoStory
    BY DEF NarrativeInit
  <2> QED BY <2>1, NoStoryTold DEF Narrated, FactsTold
<1> QED BY <1>1, <1>2, <1>3 DEF NarrInv

(* A step of the enrichment leaves what is told of it true.                *)
LEMMA EnrichNarrated == NarrInv /\ EnrichNext /\ UNCHANGED <<saved, story>> => NarrInv'
<1> SUFFICES ASSUME NarrInv, EnrichNext, UNCHANGED <<saved, story>> PROVE NarrInv'
  OBVIOUS
<1>1. EnrichInv' /\ JobsMove
  BY EnrichKeeps DEF NarrInv
<1>2. DOMAIN job' = DOMAIN job
  BY <1>1 DEF JobsMove
<1>3. StoriesOK'
  BY <1>2 DEF NarrInv, StoriesOK
<1>4. ASSUME NEW w \in DOMAIN job PROVE Narrated(w)'
  <2>1. job'[w].request = job[w].request /\ (job[w].pc = "enriched" => job'[w] = job[w]) /\ story'[w] = story[w] /\ saved'[w] = saved[w]
    BY <1>1 DEF JobsMove
  <2>2. Narrated(w)
    BY DEF NarrInv
  <2>3. story[w].pc # "none" => job'[w].pc = "enriched" /\ job'[w].warnings \subseteq story[w].warnings
    BY <2>1, <2>2 DEF Narrated, FactsTold
  <2>4. ASSUME story[w].facts # <<>> PROVE Told(w, story[w])'
    <3>1. Told(w, story[w]) /\ job'[w] = job[w]
      BY <2>1, <2>2, <2>4 DEF Narrated, FactsTold, Told
    <3>2. \A e, limit : Facts(w, e, limit)' = Facts(w, e, limit)
      BY <3>1 DEF Facts, Answered, Request
    <3> QED BY <2>1, <3>1, <3>2 DEF Told, Request
  <2>5. FactsTold(w)'
    BY <2>1, <2>3, <2>4 DEF FactsTold
  <2> QED BY <2>1, <2>2, <2>5 DEF Narrated
<1> QED BY <1>1, <1>2, <1>3, <1>4 DEF NarrInv

(* One story changes, and perhaps the saved analysis of its worker.        *)
LEMMA StoryStep ==
  ASSUME NarrInv, NEW w \in DOMAIN job, NEW s \in Stories, NEW k \in [report : Reports, warnings : SUBSET Warnings],
         story' = [story EXCEPT ![w] = s], saved' = [saved EXCEPT ![w] = k], UNCHANGED enrichVars,
         Untold(s), SectionsWritten(s, Chunked(job[w].request)), WarnedElse(s, k, job[w].request.llm),
         job[w].pc = "enriched", s.pc # "none" => job[w].warnings \subseteq s.warnings,
         s.facts # <<>> => Told(w, s)
  PROVE  NarrInv'
<1>1. names' = names /\ renames' = renames /\ now' = now /\ cache' = cache /\ job' = job
  BY DEF enrichVars
<1>2. EnrichInv'
  BY <1>1 DEF NarrInv, EnrichInv, WorldOK, JobsOK, CacheRecent
<1>3. story'[w] = s /\ saved'[w] = k /\ \A v \in DOMAIN job : v # w => story'[v] = story[v] /\ saved'[v] = saved[v]
  BY DEF NarrInv, StoriesOK
<1>4. StoriesOK'
  BY <1>1, <1>3 DEF NarrInv, StoriesOK
<1>5. \A v, e, limit : Facts(v, e, limit)' = Facts(v, e, limit)
  BY <1>1 DEF Facts, Answered, Request
<1>6. Narrated(w)'
  <2>1. s.facts # <<>> => Told(w, story[w])'
    BY <1>1, <1>3, <1>5 DEF Told, Request
  <2>2. FactsTold(w)'
    BY <1>1, <1>3, <2>1 DEF FactsTold
  <2> QED BY <1>1, <1>3, <2>2 DEF Narrated
<1>7. ASSUME NEW v \in DOMAIN job, v # w PROVE Narrated(v)'
  <2>1. Narrated(v)
    BY DEF NarrInv
  <2>2. story[v].facts # <<>> => Told(v, story[v])'
    BY <1>1, <1>3, <1>5, <1>7, <2>1 DEF FactsTold, Narrated, Told, Request
  <2>3. FactsTold(v)'
    BY <1>1, <1>3, <1>7, <2>1, <2>2 DEF FactsTold, Narrated
  <2> QED BY <1>1, <1>3, <1>7, <2>1, <2>3 DEF Narrated
<1> QED BY <1>1, <1>2, <1>4, <1>6, <1>7 DEF NarrInv

(* The narrative is switched off.                                          *)
LEMMA SkipNarrativeKeeps == ASSUME NarrInv, NEW w \in DOMAIN job, SkipNarrative(w) PROVE NarrInv'
<1> DEFINE warned == saved[w].warnings \cup job[w].warnings \cup IF Request(w).llm THEN {"llm not configured"} ELSE {}
           s == [story[w] EXCEPT !.pc = "written", !.loaded = saved[w].report, !.warnings = warned]
<1>1. /\ story[w] \in Stories /\ saved[w] \in [report : Reports, warnings : SUBSET Warnings] /\ job[w].warnings \subseteq Warnings
      /\ Narrated(w) /\ story[w].pc = "none" /\ job[w].pc = "enriched" /\ saved' = saved /\ UNCHANGED enrichVars
  BY DEF NarrInv, StoriesOK, EnrichInv, JobsOK, Jobs, SkipNarrative
<1>2. story' = [story EXCEPT ![w] = s]
  BY DEF SkipNarrative
<1>3. saved' = [saved EXCEPT ![w] = saved[w]]
  BY <1>1 DEF NarrInv, StoriesOK
<1>4. warned \subseteq Warnings /\ job[w].warnings \subseteq warned /\ (job[w].request.llm => "llm not configured" \in warned)
  <2>1. {"llm not configured"} \subseteq Warnings
    BY DEF Warnings
  <2> QED BY <1>1, <2>1 DEF Request
<1>5. saved[w].report \in Reports
  BY <1>1
<1> HIDE DEF warned
<1>6. s \in Stories
  BY <1>1, <1>4, <1>5 DEF Stories
<1>7. s.pc = "written" /\ s.gave = <<>> /\ s.facts = <<>> /\ s.loaded = saved[w].report /\ s.warnings = warned
  BY <1>1 DEF Stories, Narrated, Untold
<1> HIDE DEF s
<1>8. Untold(s) /\ SectionsWritten(s, Chunked(job[w].request)) /\ WarnedElse(s, saved[w], job[w].request.llm)
  BY <1>4, <1>7 DEF Untold, SectionsWritten, WarnedElse, Excused
<1> QED BY <1>1, <1>2, <1>3, <1>4, <1>6, <1>7, <1>8, StoryStep

(* The facts are put together from what the stages left.                   *)
LEMMA BeginNarrativeKeeps == ASSUME NarrInv, NEW w \in DOMAIN job, BeginNarrative(w) PROVE NarrInv'
<1>1. /\ story[w] \in Stories /\ saved[w] \in [report : Reports, warnings : SUBSET Warnings] /\ job[w] \in Jobs
      /\ Narrated(w) /\ story[w].pc = "none" /\ job[w].pc = "enriched" /\ saved' = saved /\ UNCHANGED enrichVars
      /\ RepliesKept(job[w])
  BY DEF NarrInv, StoriesOK, EnrichInv, JobsOK, BeginNarrative, Enriched
<1>2. PICK failed \in SUBSET Losses, p \in Request(w).prompts : \E e \in Derivations(Request(w).evidence, failed) :
         /\ failed = {} \/ Request(w).mayFail
         /\ story' = [story EXCEPT ![w].pc = "writing", ![w].prompt = p, ![w].loaded = saved[w].report,
                              ![w].facts = Facts(w, e, Request(w).limit), ![w].failed = failed,
                              ![w].warnings = saved[w].warnings \cup job[w].warnings]
  BY DEF BeginNarrative
<1>16. PICK e \in Derivations(Request(w).evidence, failed) :
         story' = [story EXCEPT ![w].pc = "writing", ![w].prompt = p, ![w].loaded = saved[w].report,
                                ![w].facts = Facts(w, e, Request(w).limit), ![w].failed = failed,
                                ![w].warnings = saved[w].warnings \cup job[w].warnings]
  BY <1>2
<1> DEFINE facts == Facts(w, e, Request(w).limit)
           warned == saved[w].warnings \cup job[w].warnings
           s == [story[w] EXCEPT !.pc = "writing", !.prompt = p, !.loaded = saved[w].report, !.facts = facts, !.failed = failed,
                                !.warnings = warned]
<1>3. story' = [story EXCEPT ![w] = s]
  BY <1>16
<1>4. saved' = [saved EXCEPT ![w] = saved[w]]
  BY <1>1 DEF NarrInv, StoriesOK
<1>5. job[w].request \in Orders /\ job[w].warnings \subseteq Warnings
  BY <1>1 DEF Jobs
<1>6. Request(w).evidence \in Evidences /\ Request(w).limit \in Nat \ {0} /\ p \in [system : Nat, user : Nat, budget : Nat]
  BY <1>5 DEF Orders, Request
<1>7. e \in Evidences
  BY <1>6, DerivedFrom
<1>8. facts \in FactSets
  BY <1>1, <1>6, <1>7, FactsTyped
<1>9. warned \subseteq Warnings /\ job[w].warnings \subseteq warned /\ saved[w].report \in Reports
  BY <1>1, <1>5
<1> HIDE DEF warned, facts
<1>10. s \in Stories
  BY <1>1, <1>6, <1>8, <1>9 DEF Stories
<1>11. s.pc = "writing" /\ s.gave = <<>> /\ s.report = <<>> /\ s.next = 1 /\ s.facts = facts /\ s.loaded = saved[w].report
       /\ s.failed = failed /\ s.warnings = warned
  BY <1>1 DEF Stories, Narrated, Untold
<1> HIDE DEF s
<1>12. Ranked(<<>>, <<>>)
  <2>1. Filled(<<>>) = {} /\ Cardinality({}) = 0 /\ Len(<<>>) = 0
    BY FS_EmptySet DEF Filled
  <2> QED BY <2>1 DEF Ranked
<1>13. Len(<<>>) = 0 /\ Len(Titles) > 0
  BY NarrativeAssumption
<1>14. Untold(s) /\ SectionsWritten(s, Chunked(job[w].request)) /\ WarnedElse(s, saved[w], job[w].request.llm)
  BY <1>11, <1>12, <1>13 DEF Untold, SectionsWritten, WarnedElse
<1>15. Told(w, s)
  BY <1>6, <1>11 DEF facts, Told
<1> QED BY <1>1, <1>3, <1>4, <1>9, <1>10, <1>11, <1>14, <1>15, StoryStep

(* One more section in the report, or one that is left out.                *)
LEMMA RankedAppend ==
  ASSUME NEW report \in Reports, NEW gave \in Seq({"content", "empty", "error"}), Ranked(report, gave),
         NEW outcome \in {"content", "empty", "error"}, NEW title
  PROVE  LET n == Len(gave) + 1
         IN  title = Titles[n] =>
               Ranked(IF outcome = "empty" THEN report ELSE Append(report, [title |-> title, body |-> outcome]),
                      Append(gave, outcome))
<1> DEFINE n   == Len(gave) + 1
           new == Append(gave, outcome)
           F   == Filled(gave)
           sec == [title |-> title, body |-> outcome]
<1>1. /\ Len(gave) \in Nat /\ DOMAIN gave = 1 .. Len(gave) /\ DOMAIN new = 1 .. n /\ new[n] = outcome
      /\ \A i \in 1 .. Len(gave) : new[i] = gave[i] /\ n \in Nat
  OBVIOUS
<1>2. F \subseteq 1 .. Len(gave) /\ IsFiniteSet(F)
  <2>1. F \subseteq 1 .. Len(gave) /\ IsFiniteSet(1 .. Len(gave))
    BY <1>1, FS_Interval DEF Filled
  <2> QED BY <2>1, FS_Subset
<1>3. Filled(new) = IF outcome = "empty" THEN F ELSE F \cup {n}
  BY <1>1 DEF Filled
<1>4. n \notin F /\ \A i \in F : i <= n /\ ~(n <= i) /\ i \in Nat
  BY <1>1, <1>2
<1>5. Cardinality(F \cup {n}) = Cardinality(F) + 1 /\ Cardinality(F) \in Nat
  BY <1>2, <1>4, FS_AddElement, FS_CardinalityType
<1>6. \A i \in F : Place(new, i) = Place(gave, i)
  <2> SUFFICES ASSUME NEW i \in F PROVE Place(new, i) = Place(gave, i)
    OBVIOUS
  <2>1. {j \in Filled(new) : j <= i} = {j \in F : j <= i}
    <3> HIDE DEF F, new, n
    <3> QED BY <1>3, <1>4
  <2> QED BY <2>1 DEF Place
<1>7. outcome # "empty" => Place(new, n) = Cardinality(F) + 1
  <2> SUFFICES ASSUME outcome # "empty" PROVE Place(new, n) = Cardinality(F) + 1
    OBVIOUS
  <2>1. {j \in Filled(new) : j <= n} = F \cup {n}
    <3> HIDE DEF F, new
    <3> QED BY <1>1, <1>3, <1>4
  <2> QED BY <1>5, <2>1 DEF Place
<1>8. /\ Len(report) = Cardinality(F) /\ DOMAIN report = 1 .. Len(report)
      /\ \A i \in F : Place(gave, i) \in DOMAIN report /\ report[Place(gave, i)] = [title |-> Titles[i], body |-> gave[i]]
  BY DEF Ranked, Reports
<1>9. /\ Len(Append(report, sec)) = Len(report) + 1 /\ DOMAIN Append(report, sec) = 1 .. (Len(report) + 1)
      /\ Append(report, sec)[Len(report) + 1] = sec /\ \A k \in 1 .. Len(report) : Append(report, sec)[k] = report[k]
  BY DEF Reports
<1>10. ASSUME title = Titles[n], outcome = "empty" PROVE Ranked(report, new)
  <2>1. Filled(new) = F
    BY <1>3, <1>10
  <2>2. \A i \in F : i \in 1 .. Len(gave)
    BY <1>2
  <2> HIDE DEF F, new, n
  <2> QED BY <1>1, <1>6, <1>8, <2>1, <2>2 DEF Ranked
<1>11. ASSUME title = Titles[n], outcome # "empty" PROVE Ranked(Append(report, sec), new)
  <2>1. Filled(new) = F \cup {n}
    BY <1>3, <1>11
  <2>2. \A i \in F : i \in 1 .. Len(gave)
    BY <1>2
  <2>3. Len(Append(report, sec)) = Cardinality(F \cup {n})
    BY <1>5, <1>8, <1>9
  <2>4. ASSUME NEW i \in F
        PROVE  Place(new, i) \in DOMAIN Append(report, sec) /\ Append(report, sec)[Place(new, i)] = [title |-> Titles[i], body |-> new[i]]
    <3>1. Place(new, i) = Place(gave, i) /\ Place(gave, i) \in 1 .. Len(report) /\ new[i] = gave[i]
      BY <1>1, <1>6, <1>8, <2>2
    <3>2. 1 .. Len(report) \subseteq 1 .. (Len(report) + 1)
      BY <1>5, <1>8
    <3> HIDE DEF F, new, n, sec
    <3> QED BY <1>8, <1>9, <3>1, <3>2
  <2>5. Place(new, n) \in DOMAIN Append(report, sec) /\ Append(report, sec)[Place(new, n)] = [title |-> Titles[n], body |-> new[n]]
    <3>1. Place(new, n) = Len(report) + 1 /\ Len(report) + 1 \in 1 .. (Len(report) + 1)
      BY <1>5, <1>7, <1>8, <1>11
    <3>2. sec = [title |-> Titles[n], body |-> new[n]]
      BY <1>1, <1>11
    <3> HIDE DEF F, new, n, sec
    <3> QED BY <1>9, <3>1, <3>2
  <2> HIDE DEF F, new, n, sec
  <2> QED BY <2>1, <2>3, <2>4, <2>5 DEF Ranked
<1> QED BY <1>10, <1>11

(* A report that ends, without sections or broken off between two of them. *)
LEMMA ReportEnds ==
  ASSUME NarrInv, NEW w \in DOMAIN job, story[w].pc = "writing", saved' = saved, UNCHANGED enrichVars,
         NEW report \in Reports, NEW warned \in SUBSET Warnings, story[w].warnings \subseteq warned,
         report # <<>> \/ OnFailure \subseteq warned,
         story[w].gave # <<>> => Len(story[w].gave) < Len(Titles) /\ report = <<>>,
         story' = [story EXCEPT ![w] = [story[w] EXCEPT !.pc = "written", !.report = report, !.warnings = warned]]
  PROVE  NarrInv'
<1> DEFINE s == [story[w] EXCEPT !.pc = "written", !.report = report, !.warnings = warned]
<1>1. /\ story[w] \in Stories /\ saved[w] \in [report : Reports, warnings : SUBSET Warnings] /\ Narrated(w)
      /\ story[w].loaded = saved[w].report
  BY DEF NarrInv, StoriesOK, Narrated, WarnedElse
<1>2. saved' = [saved EXCEPT ![w] = saved[w]]
  BY DEF NarrInv, StoriesOK
<1>3. /\ s \in Stories /\ s.pc = "written" /\ s.gave = story[w].gave /\ s.report = report /\ s.facts = story[w].facts
      /\ s.failed = story[w].failed /\ s.warnings = warned /\ s.loaded = story[w].loaded
  BY <1>1 DEF Stories
<1>4. story' = [story EXCEPT ![w] = s]
  OBVIOUS
<1> HIDE DEF s
<1>5. "llm failed" \in OnFailure
  BY DEF OnFailure
<1>6. s.gave # <<>> => ~(Len(s.gave) >= Len(Titles))
  <2>1. Len(s.gave) \in Nat /\ Len(Titles) \in Nat
    BY <1>3, NarrativeAssumption DEF Stories
  <2> QED BY <1>3, <2>1
<1>7. Untold(s) /\ SectionsWritten(s, Chunked(job[w].request)) /\ WarnedElse(s, saved[w], job[w].request.llm)
  BY <1>1, <1>3, <1>5, <1>6 DEF Untold, SectionsWritten, WarnedElse, Excused
<1>8. job[w].pc = "enriched" /\ job[w].warnings \subseteq s.warnings /\ (s.facts # <<>> => Told(w, s))
  BY <1>1, <1>3 DEF Narrated, FactsTold, Told
<1> QED BY <1>1, <1>2, <1>3, <1>4, <1>7, <1>8, StoryStep

(* One section is written or fails.                                        *)
LEMMA SectionKeeps ==
  ASSUME NarrInv, NEW w \in DOMAIN job, WriteSection(w), NEW outcome \in {"content", "empty", "error"},
         story' = [story EXCEPT ![w].gave = Append(@, outcome),
                                ![w].report = IF outcome = "empty" THEN @
                                              ELSE Append(@, [title |-> Titles[story[w].next], body |-> outcome]),
                                ![w].next = @ + 1,
                                ![w].pc = IF LastSection(outcome, story[w].next) THEN "closing" ELSE "writing"]
  PROVE  NarrInv'
<1>1. /\ story[w] \in Stories /\ saved[w] \in [report : Reports, warnings : SUBSET Warnings]
      /\ Narrated(w) /\ story[w].pc = "writing" /\ Chunked(job[w].request) /\ saved' = saved /\ UNCHANGED enrichVars
  BY DEF NarrInv, StoriesOK, WriteSection, Request
<1> DEFINE gave   == Append(story[w].gave, outcome)
           sec    == [title |-> Titles[story[w].next], body |-> outcome]
           report == IF outcome = "empty" THEN story[w].report ELSE Append(story[w].report, sec)
           pc     == IF LastSection(outcome, story[w].next) THEN "closing" ELSE "writing"
           s      == [story[w] EXCEPT !.gave = gave, !.report = report, !.next = story[w].next + 1, !.pc = pc]
<1>3. story' = [story EXCEPT ![w] = s]
  OBVIOUS
<1>4. saved' = [saved EXCEPT ![w] = saved[w]]
  BY <1>1 DEF NarrInv, StoriesOK
<1>5. /\ Ranked(story[w].report, story[w].gave) /\ story[w].next = Len(story[w].gave) + 1 /\ Len(story[w].gave) < Len(Titles)
      /\ story[w].report \in Reports /\ story[w].gave \in Seq({"content", "empty", "error"}) /\ story[w].next \in Nat
      /\ story[w].loaded = saved[w].report
  BY <1>1 DEF Narrated, SectionsWritten, WarnedElse, Stories
<1>6. /\ gave \in Seq({"content", "empty", "error"}) /\ Len(gave) = Len(story[w].gave) + 1 /\ Len(gave) \in Nat
  BY <1>5
<1>7. outcome # "empty" => sec \in Sections
  <2>1. story[w].next \in DOMAIN Titles
    <3>1. Titles \in Seq(STRING) /\ Len(Titles) \in Nat /\ DOMAIN Titles = 1 .. Len(Titles) /\ Len(story[w].gave) \in Nat
      BY <1>5, NarrativeAssumption
    <3> QED BY <1>5, <3>1
  <2> QED BY <2>1 DEF Sections, Bodies, Range
<1>8. report \in Reports
  BY <1>5, <1>7 DEF Reports
<1>9. Ranked(report, gave)
  <2> HIDE DEF gave
  <2> QED BY <1>5, RankedAppend DEF gave
<1>10. pc \in {"writing", "closing"} /\ (pc = "closing" <=> story[w].next = Len(Titles))
  BY DEF LastSection
<1> HIDE DEF gave, report, pc, sec
<1>11. s \in Stories /\ s.pc = pc /\ s.gave = gave /\ s.report = report /\ s.next = story[w].next + 1 /\ s.facts = story[w].facts
       /\ s.loaded = story[w].loaded /\ s.failed = story[w].failed /\ s.warnings = story[w].warnings
  <2>1. story[w].next + 1 \in Nat /\ pc \in {"none", "writing", "closing", "written", "saved"}
        /\ gave \in Seq({"content", "empty", "error"})
    BY <1>5, <1>6, <1>10
  <2> QED BY <1>1, <1>8, <2>1 DEF Stories
<1> HIDE DEF s
<1>12. Len(Titles) \in Nat /\ Len(story[w].gave) \in Nat
  BY <1>5, NarrativeAssumption
<1>13. SectionsWritten(s, Chunked(job[w].request))
  BY <1>1, <1>5, <1>6, <1>9, <1>10, <1>11, <1>12 DEF SectionsWritten
<1>14. Untold(s) /\ WarnedElse(s, saved[w], job[w].request.llm)
  BY <1>5, <1>10, <1>11 DEF Untold, WarnedElse
<1>15. job[w].pc = "enriched" /\ job[w].warnings \subseteq s.warnings /\ (s.facts # <<>> => Told(w, s))
  BY <1>1, <1>10, <1>11 DEF Narrated, FactsTold, Told
<1> QED BY <1>1, <1>3, <1>4, <1>11, <1>13, <1>14, <1>15, StoryStep

(* Or the report is broken off.                                            *)
LEMMA WriteSectionKeeps == ASSUME NarrInv, NEW w \in DOMAIN job, WriteSection(w) PROVE NarrInv'
<1>1. /\ story[w] \in Stories /\ Narrated(w) /\ story[w].pc = "writing" /\ Chunked(job[w].request) /\ saved' = saved /\ UNCHANGED enrichVars
  BY DEF NarrInv, StoriesOK, WriteSection, Request
<1>2. ASSUME story' = [story EXCEPT ![w].pc = "written", ![w].report = <<>>, ![w].warnings = @ \cup OnFailure]
      PROVE  NarrInv'
  <2>1. Len(story[w].gave) < Len(Titles)
    BY <1>1 DEF Narrated, SectionsWritten
  <2>2. <<>> \in Reports /\ story[w].warnings \cup OnFailure \in SUBSET Warnings
    <3>1. <<>> \in Reports
      BY DEF Reports
    <3>2. story[w].warnings \in SUBSET Warnings
      BY <1>1 DEF Stories
    <3> QED BY <3>1, <3>2 DEF Warnings, OnFailure
  <2>3. story' = [story EXCEPT ![w] = [story[w] EXCEPT !.pc = "written", !.report = <<>>, !.warnings = story[w].warnings \cup OnFailure]]
    BY <1>2
  <2> QED BY <1>1, <2>1, <2>2, <2>3, ReportEnds
<1>3. CASE \E outcome \in {"content", "empty", "error"} :
         story' = [story EXCEPT ![w].gave = Append(@, outcome),
                                ![w].report = IF outcome = "empty" THEN @
                                              ELSE Append(@, [title |-> Titles[story[w].next], body |-> outcome]),
                                ![w].next = @ + 1,
                                ![w].pc = IF LastSection(outcome, story[w].next) THEN "closing" ELSE "writing"]
  BY <1>3, SectionKeeps
<1> QED BY <1>2, <1>3 DEF WriteSection

(* The text that stands for a report without sections is not empty.        *)
LEMMA NoContentTyped == NoContent \in Reports /\ NoContent # <<>>
<1>1. [title |-> "", body |-> "No content returned from the model."] \in Sections
  BY DEF Sections, Bodies
<1> QED BY <1>1, OneSection DEF NoContent

(* A report that is ranked is empty when no section is kept.               *)
LEMMA NothingRanked ==
  ASSUME NEW report \in Reports, NEW gave \in Seq({"content", "empty", "error"}), Ranked(report, gave)
  PROVE  report = <<>> <=> Filled(gave) = {}
<1>1. IsFiniteSet(Filled(gave))
  <2>1. Len(gave) \in Nat /\ DOMAIN gave = 1 .. Len(gave)
    OBVIOUS
  <2>2. Filled(gave) \subseteq 1 .. Len(gave) /\ IsFiniteSet(1 .. Len(gave))
    BY <2>1, FS_Interval DEF Filled
  <2> QED BY <2>2, FS_Subset
<1>2. Cardinality(Filled(gave)) = 0 <=> Filled(gave) = {}
  BY <1>1, FS_EmptySet
<1>3. Len(report) = 0 <=> report = <<>>
  BY DEF Reports
<1> QED BY <1>2, <1>3 DEF Ranked

(* The sections are joined.                                                *)
LEMMA CloseReportKeeps == ASSUME NarrInv, NEW w \in DOMAIN job, CloseReport(w) PROVE NarrInv'
<1>1. /\ story[w] \in Stories /\ saved[w] \in [report : Reports, warnings : SUBSET Warnings]
      /\ Narrated(w) /\ story[w].pc = "closing" /\ saved' = saved /\ UNCHANGED enrichVars
  BY DEF NarrInv, StoriesOK, CloseReport
<1> DEFINE report == IF story[w].report = <<>> THEN NoContent ELSE story[w].report
           s == [story[w] EXCEPT !.pc = "written", !.report = report]
<1>2. story' = [story EXCEPT ![w] = s]
  BY DEF CloseReport
<1>3. saved' = [saved EXCEPT ![w] = saved[w]]
  BY <1>1 DEF NarrInv, StoriesOK
<1>4. /\ Ranked(story[w].report, story[w].gave) /\ Len(story[w].gave) = Len(Titles)
      /\ story[w].report \in Reports /\ story[w].gave \in Seq({"content", "empty", "error"})
      /\ story[w].loaded = saved[w].report
  BY <1>1 DEF Narrated, SectionsWritten, WarnedElse, Stories
<1>5. /\ report \in Reports /\ report # <<>>
      /\ Filled(story[w].gave) = {} => report = NoContent
      /\ Filled(story[w].gave) # {} => report = story[w].report
  BY <1>4, NoContentTyped, NothingRanked
<1> HIDE DEF report
<1>6. s \in Stories /\ s.pc = "written" /\ s.gave = story[w].gave /\ s.report = report /\ s.facts = story[w].facts
      /\ s.loaded = story[w].loaded /\ s.failed = story[w].failed /\ s.warnings = story[w].warnings
  BY <1>1, <1>5 DEF Stories
<1> HIDE DEF s
<1>9. Len(Titles) \in Nat
  BY NarrativeAssumption
<1>7. Untold(s) /\ SectionsWritten(s, Chunked(job[w].request)) /\ WarnedElse(s, saved[w], job[w].request.llm)
  BY <1>4, <1>5, <1>6, <1>9 DEF Untold, SectionsWritten, WarnedElse
<1>8. job[w].pc = "enriched" /\ job[w].warnings \subseteq s.warnings /\ (s.facts # <<>> => Told(w, s))
  BY <1>1, <1>6 DEF Narrated, FactsTold, Told
<1> QED BY <1>1, <1>2, <1>3, <1>6, <1>7, <1>8, StoryStep

(* The report is written in one call, or fails.                            *)
LEMMA WriteWholeKeeps == ASSUME NarrInv, NEW w \in DOMAIN job, WriteWhole(w) PROVE NarrInv'
<1>1. /\ story[w] \in Stories /\ saved[w] \in [report : Reports, warnings : SUBSET Warnings]
      /\ Narrated(w) /\ story[w].pc = "writing" /\ ~Chunked(job[w].request) /\ saved' = saved /\ UNCHANGED enrichVars
  BY DEF NarrInv, StoriesOK, WriteWhole, Request
<1>3. story[w].gave = <<>>
  BY <1>1 DEF Narrated, SectionsWritten
<1>4. ASSUME NEW report \in Reports, NEW warned \in SUBSET Warnings, story[w].warnings \subseteq warned,
             report # <<>> \/ OnFailure \subseteq warned,
             story' = [story EXCEPT ![w] = [story[w] EXCEPT !.pc = "written", !.report = report, !.warnings = warned]]
      PROVE  NarrInv'
  BY <1>1, <1>3, <1>4, ReportEnds
<1>5. story[w].warnings \in SUBSET Warnings /\ story[w].warnings \cup OnFailure \in SUBSET Warnings /\ story[w].report \in Reports
  BY <1>1 DEF Stories, Warnings, OnFailure
<1>6. \A body \in {"content", "error"} : <<[title |-> "", body |-> body]>> \in Reports
  <2> SUFFICES ASSUME NEW body \in {"content", "error"} PROVE <<[title |-> "", body |-> body]>> \in Reports
    OBVIOUS
  <2>1. [title |-> "", body |-> body] \in Sections
    BY DEF Sections, Bodies
  <2> QED BY <2>1, OneSection
<1>7. story \in [DOMAIN job -> Stories]
  BY DEF NarrInv, StoriesOK
<1>8. ASSUME NEW report \in Reports, story' = [story EXCEPT ![w].pc = "written", ![w].report = report]
      PROVE  story' = [story EXCEPT ![w] = [story[w] EXCEPT !.pc = "written", !.report = report, !.warnings = story[w].warnings]]
  <2>1. [story[w] EXCEPT !.pc = "written", !.report = report]
          = [story[w] EXCEPT !.pc = "written", !.report = report, !.warnings = story[w].warnings]
    BY <1>1 DEF Stories
  <2> QED BY <1>8, <2>1
<1>9. CASE story' = [story EXCEPT ![w].pc = "written", ![w].report = <<[title |-> "", body |-> "content"]>>]
  BY <1>4, <1>5, <1>6, <1>8, <1>9
<1>10. CASE story' = [story EXCEPT ![w].pc = "written", ![w].report = NoContent]
  BY <1>4, <1>5, <1>8, <1>10, NoContentTyped
<1>11. CASE story' = [story EXCEPT ![w].pc = "written", ![w].report = <<[title |-> "", body |-> "error"]>>]
  BY <1>4, <1>5, <1>6, <1>8, <1>11
<1>12. CASE story' = [story EXCEPT ![w].pc = "written", ![w].warnings = @ \cup OnFailure]
  <2>1. story' = [story EXCEPT ![w] = [story[w] EXCEPT !.pc = "written", !.report = story[w].report, !.warnings = story[w].warnings \cup OnFailure]]
    <3>1. [story[w] EXCEPT !.pc = "written", !.warnings = story[w].warnings \cup OnFailure]
            = [story[w] EXCEPT !.pc = "written", !.report = story[w].report, !.warnings = story[w].warnings \cup OnFailure]
      BY <1>1 DEF Stories
    <3> QED BY <1>12, <3>1
  <2> QED BY <1>4, <1>5, <2>1
<1> QED BY <1>9, <1>10, <1>11, <1>12 DEF WriteWhole

(* The report is saved, and a warning with it if there is none.            *)
LEMMA SaveReportKeeps == ASSUME NarrInv, NEW w \in DOMAIN job, SaveReport(w) PROVE NarrInv'
<1>1. /\ story[w] \in Stories /\ saved[w] \in [report : Reports, warnings : SUBSET Warnings]
      /\ Narrated(w) /\ story[w].pc = "written" /\ UNCHANGED enrichVars
  BY DEF NarrInv, StoriesOK, SaveReport
<1> DEFINE s == [story[w] EXCEPT !.pc = "saved"]
           k == [report |-> Kept(w), warnings |-> story[w].warnings]
<1>2. story' = [story EXCEPT ![w] = s] /\ saved' = [saved EXCEPT ![w] = k]
  BY DEF SaveReport
<1>3. k \in [report : Reports, warnings : SUBSET Warnings] /\ k.warnings = story[w].warnings
  BY <1>1 DEF Kept, Stories
<1>4. s \in Stories /\ s.pc = "saved" /\ s.gave = story[w].gave /\ s.report = story[w].report /\ s.facts = story[w].facts
      /\ s.failed = story[w].failed /\ s.warnings = story[w].warnings
  BY <1>1 DEF Stories
<1> HIDE DEF s, k
<1>5. Untold(s) /\ SectionsWritten(s, Chunked(job[w].request)) /\ WarnedElse(s, k, job[w].request.llm)
  BY <1>1, <1>3, <1>4 DEF Untold, SectionsWritten, WarnedElse, Narrated
<1>6. job[w].pc = "enriched" /\ job[w].warnings \subseteq s.warnings /\ (s.facts # <<>> => Told(w, s))
  BY <1>1, <1>4 DEF Narrated, FactsTold, Told
<1> QED BY <1>1, <1>2, <1>3, <1>4, <1>5, <1>6, StoryStep

(* A story that starts again, of the same analysis or of the next one.     *)
LEMMA StoryAnew ==
  ASSUME NarrInv, NEW w \in DOMAIN job, NEW j \in Jobs, j.request.flows = job[w].request.flows, Enriched(j, now),
         NEW k \in [report : Reports, warnings : SUBSET Warnings],
         job' = [job EXCEPT ![w] = j], story' = [story EXCEPT ![w] = NoStory], saved' = [saved EXCEPT ![w] = k],
         UNCHANGED <<names, renames, now, cache>>
  PROVE  NarrInv'
<1>1. EnrichInv
  BY DEF NarrInv
<1>2. JobsOK' /\ DOMAIN job' = DOMAIN job /\ job'[w] = j /\ \A v \in DOMAIN job : v # w => job'[v] = job[v]
  BY <1>1, JobChanged DEF EnrichInv
<1>3. WorldOK' /\ CacheRecent'
  BY <1>1 DEF EnrichInv, WorldOK, CacheRecent
<1>4. \A v \in DOMAIN job' : Enriched(job'[v], now)
  BY <1>1, <1>2 DEF EnrichInv
<1>5. EnrichInv'
  <2>1. \A v \in DOMAIN job' : Enriched(job'[v], now')
    BY <1>4
  <2> QED BY <1>2, <1>3, <2>1 DEF EnrichInv
<1>6. story'[w] = NoStory /\ saved'[w] = k /\ \A v \in DOMAIN job : v # w => story'[v] = story[v] /\ saved'[v] = saved[v]
  BY DEF NarrInv, StoriesOK
<1>7. StoriesOK'
  BY <1>2, NoStoryTold DEF NarrInv, StoriesOK
<1>8. Narrated(w)'
  <2>1. FactsTold(w)'
    BY <1>6, NoStoryTold DEF FactsTold
  <2> QED BY <1>2, <1>6, <2>1, NoStoryTold DEF Narrated
<1>9. ASSUME NEW v \in DOMAIN job, v # w PROVE Narrated(v)'
  <2>1. Narrated(v) /\ job'[v] = job[v] /\ story'[v] = story[v] /\ saved'[v] = saved[v]
    BY <1>2, <1>6, <1>9 DEF NarrInv
  <2>2. \A e, limit : Facts(v, e, limit)' = Facts(v, e, limit)
    BY <2>1 DEF Facts, Answered, Request
  <2>4. story[v].facts # <<>> => Told(v, story[v])'
    BY <2>1, <2>2 DEF FactsTold, Narrated, Told, Request
  <2>3. FactsTold(v)'
    BY <2>1, <2>4 DEF FactsTold, Narrated
  <2> QED BY <2>1, <2>3 DEF Narrated
<1> QED BY <1>2, <1>5, <1>7, <1>8, <1>9 DEF NarrInv

(* The analyst asks for the report again.                                  *)
LEMMA RegenerateKeeps == ASSUME NarrInv, NEW w \in DOMAIN job, Regenerate(w) PROVE NarrInv'
<1>1. /\ job[w] \in Jobs /\ Enriched(job[w], now) /\ saved[w] \in [report : Reports, warnings : SUBSET Warnings]
      /\ job[w].request \in Orders /\ job[w].pc = "enriched"
  BY DEF NarrInv, StoriesOK, EnrichInv, JobsOK, Jobs, Regenerate, Narrated, FactsTold
<1> DEFINE r == [job[w].request EXCEPT !.regenerate = FALSE]
           j == [job[w] EXCEPT !.request = r]
<1>2. r \in Orders /\ r.addresses = job[w].request.addresses /\ r.flows = job[w].request.flows /\ r.top = job[w].request.top
  BY <1>1 DEF Orders
<1>3. TopChoices(r) = TopChoices(job[w].request)
  BY <1>2 DEF TopChoices, Talking
<1> HIDE DEF r
<1>4. j \in Jobs /\ j.request = r /\ j.pc = "enriched" /\ j.warnings = job[w].warnings /\ j.ran = job[w].ran /\ j.replies = job[w].replies /\ j.answers = job[w].answers
      /\ j.hits = job[w].hits /\ j.looked = job[w].looked /\ j.ptr = job[w].ptr /\ j.read = job[w].read
  BY <1>1, <1>2 DEF Jobs
<1>5. job' = [job EXCEPT ![w] = j]
  BY <1>1 DEF Regenerate, r
<1>6. saved' = [saved EXCEPT ![w] = saved[w]]
  BY DEF Regenerate, NarrInv, StoriesOK
<1> HIDE DEF j
<1>7. Enriched(j, now)
  BY <1>1, <1>3, <1>4 DEF Enriched, Chosen, RepliesKept, NamesKept, NamesRecent
<1>8. story' = [story EXCEPT ![w] = NoStory] /\ UNCHANGED <<names, renames, now, cache>>
  BY DEF Regenerate
<1>9. j.request.flows = job[w].request.flows
  BY <1>2, <1>4
<1> QED BY <1>1, <1>4, <1>5, <1>6, <1>7, <1>8, <1>9, StoryAnew

(* The next capture starts anew.                                           *)
LEMMA NextCaptureKeeps == ASSUME NarrInv, NEW w \in DOMAIN job, NextCapture(w) PROVE NarrInv'
<1>1. job[w] \in Jobs /\ job[w].request \in Orders /\ now \in Nat
  BY EnrichmentAssumption DEF NarrInv, EnrichInv, JobsOK, Jobs, WorldOK
<1> DEFINE r == [job[w].request EXCEPT !.again = FALSE]
<1>2. r \in Orders /\ r.flows = job[w].request.flows
  BY <1>1 DEF Orders
<1>3. job' = [job EXCEPT ![w] = NewJob(r)]
  BY DEF NextCapture, Request
<1> HIDE DEF r
<1>4. NewJob(r) \in Jobs /\ NewJob(r).request = r /\ Enriched(NewJob(r), now)
  <2>1. NewJob(r).request = r
    BY DEF NewJob
  <2> QED BY <1>1, <1>2, <2>1, NewJobOK, NewJobEnriched
<1> QED BY <1>2, <1>3, <1>4, NoReportTyped, StoryAnew DEF NextCapture

(* Every step keeps the invariant.                                         *)
LEMMA NarrKeeps == NarrInv /\ [NarrativeNext]_narrativeVars => NarrInv'
<1> SUFFICES ASSUME NarrInv, [NarrativeNext]_narrativeVars PROVE NarrInv'
  OBVIOUS
<1>1. CASE NarrativeNext
  BY <1>1, EnrichNarrated, SkipNarrativeKeeps, BeginNarrativeKeeps, WriteSectionKeeps, CloseReportKeeps, WriteWholeKeeps,
     SaveReportKeeps, RegenerateKeeps, NextCaptureKeeps DEF NarrativeNext
<1>2. CASE UNCHANGED narrativeVars
  <2>1. names' = names /\ renames' = renames /\ now' = now /\ cache' = cache /\ job' = job /\ saved' = saved /\ story' = story
    BY <1>2 DEF narrativeVars, enrichVars
  <2>2. EnrichInv' /\ StoriesOK'
    BY <2>1 DEF NarrInv, EnrichInv, WorldOK, JobsOK, CacheRecent, StoriesOK
  <2>3. \A v, e, limit : Facts(v, e, limit)' = Facts(v, e, limit)
    BY <2>1 DEF Facts, Answered, Request
  <2>4. \A v \in DOMAIN job : FactsTold(v)'
    BY <2>1, <2>3 DEF NarrInv, Narrated, FactsTold, Told, Request
  <2> QED BY <2>1, <2>2, <2>4 DEF NarrInv, Narrated
<1> QED BY <1>1, <1>2

(* The inductive invariant of the enrichment and the report stage: what    *)
(* each job asked, was answered and read from the cache, and what each     *)
(* story has been told and has written so far (queue.py).                  *)
THEOREM NarrativeInvariant == NarrativeSpec => []NarrInv
BY NarrInitially, NarrKeeps, PTL DEF NarrativeSpec

-----------------------------------------------------------------------------
(* What follows.                                                           *)

LEMMA TypeFromInv == NarrInv => NarrativeTypeOK
<1> SUFFICES ASSUME NarrInv PROVE NarrativeTypeOK
  OBVIOUS
<1>1. now \in 0 .. MaxTime /\ renames \in 0 .. MaxRenames /\ names \in [Addresses -> Names]
      /\ \A a \in Addresses : cache[a].name \in Names \cup {NoName}
  BY DEF NarrInv, EnrichInv, WorldOK, HostNames
<1>2. ASSUME NEW w \in DOMAIN job
      PROVE  /\ job[w].pc \in {"osint", "asking", "ptr", "lookup", "enriched"}
             /\ job[w].todo \subseteq Indicators
             /\ \A a \in Addresses : job[w].ptr[a].name \in Names \cup {NoName}
             /\ DOMAIN job[w].answers \subseteq Indicators
             /\ story[w].pc \in {"none", "writing", "closing", "written", "saved"}
             /\ Len(story[w].gave) <= Len(Titles)
  <2>1. job[w] \in Jobs /\ story[w] \in Stories /\ Narrated(w)
    BY DEF NarrInv, EnrichInv, JobsOK, StoriesOK
  <2>2. job[w].pc \in Phases /\ job[w].todo \subseteq Indicators /\ job[w].ptr \in [Addresses -> HostNames]
        /\ job[w].answers \in Maps(Indicators, Maps(Providers, Replies))
    BY <2>1 DEF Jobs
  <2>3. DOMAIN job[w].answers \subseteq Indicators
    BY <2>2, MapsMember
  <2>4. story[w].pc \in {"none", "writing", "closing", "written", "saved"}
    BY <2>1 DEF Stories
  <2>5. Len(story[w].gave) <= Len(Titles)
    <3>1. Len(Titles) \in Nat /\ Len(<<>>) = 0
      BY NarrativeAssumption
    <3>3. Len(story[w].gave) \in Nat
      BY <2>1 DEF Stories
    <3>2. story[w].gave = <<>> \/ Len(story[w].gave) = Len(Titles) \/ Len(story[w].gave) < Len(Titles)
      BY <2>1, <2>4, <3>1, <3>3 DEF Narrated, Untold, SectionsWritten
    <3> QED BY <3>1, <3>2, <3>3
  <2> QED BY <2>2, <2>3, <2>4, <2>5 DEF Phases, HostNames
<1> QED BY <1>1, <1>2 DEF NarrativeTypeOK

(* Packets of an address are those it sent and those it received.          *)
LEMMA SizesAdd ==
  ASSUME NEW r \in Orders, IsFiniteSet(r.flows), NEW a \in Addresses
  PROVE  PacketsOf(r.flows, a) = SumFunction([f \in {g \in r.flows : g.src = a} |-> f.size])
                                   + SumFunction([f \in {g \in r.flows : g.dst = a} |-> f.size])
<1> DEFINE S == {g \in r.flows : g.src = a}
           D == {g \in r.flows : g.dst = a}
           sent == [f \in r.flows |-> IF f.src = a THEN f.size ELSE 0]
           got  == [f \in r.flows |-> IF f.dst = a THEN f.size ELSE 0]
           both == [f \in r.flows |-> (IF f.src = a THEN f.size ELSE 0) + (IF f.dst = a THEN f.size ELSE 0)]
<1>1. \A f \in r.flows : f.size \in Nat
  BY DEF Orders
<1>2. SumOf(both, r.flows) = SumOf(sent, r.flows) + SumOf(got, r.flows)
  <2>1. \A f \in r.flows : sent[f] \in Int /\ got[f] \in Int /\ both[f] = sent[f] + got[f]
    BY <1>1
  <2> HIDE DEF sent, got, both
  <2> QED BY <2>1, SumAdds
<1>3. SumOf(sent, r.flows) = SumFunction([f \in S |-> f.size])
  <2>1. SumOf(sent, r.flows) = SumOf(sent, S)
    <3>1. S \in SUBSET r.flows /\ (\A f \in r.flows : sent[f] \in Int) /\ \A f \in r.flows \ S : sent[f] = 0
      BY <1>1
    <3> HIDE DEF S, sent
    <3> QED BY <3>1, SumOnSubset
  <2>2. SumOf(sent, S) = SumOf([f \in S |-> f.size], S)
    <3> DEFINE size == [f \in S |-> f.size]
    <3>1. (\A f \in S : sent[f] = size[f] /\ sent[f] \in Int) /\ IsFiniteSet(S)
      BY <1>1, FS_Subset
    <3> HIDE DEF sent, S, size
    <3>2. SumOf(sent, S) = SumOf(size, S)
      BY <3>1, SumEqual
    <3> QED BY <3>2 DEF size
  <2> QED BY <2>1, <2>2, SumOfFunction
<1>4. SumOf(got, r.flows) = SumFunction([f \in D |-> f.size])
  <2>1. SumOf(got, r.flows) = SumOf(got, D)
    <3>1. D \in SUBSET r.flows /\ (\A f \in r.flows : got[f] \in Int) /\ \A f \in r.flows \ D : got[f] = 0
      BY <1>1
    <3> HIDE DEF D, got
    <3> QED BY <3>1, SumOnSubset
  <2>2. SumOf(got, D) = SumOf([f \in D |-> f.size], D)
    <3> DEFINE size == [f \in D |-> f.size]
    <3>1. (\A f \in D : got[f] = size[f] /\ got[f] \in Int) /\ IsFiniteSet(D)
      BY <1>1, FS_Subset
    <3> HIDE DEF got, D, size
    <3>2. SumOf(got, D) = SumOf(size, D)
      BY <3>1, SumEqual
    <3> QED BY <3>2 DEF size
  <2> QED BY <2>1, <2>2, SumOfFunction
<1>5. PacketsOf(r.flows, a) = SumOf(both, r.flows)
  BY SumOfFunction DEF PacketsOf
<1> QED BY <1>2, <1>3, <1>4, <1>5

(* It gives: the addresses asked about are the busiest ones.               *)
LEMMA BusiestFromInv == NarrInv => BusiestAsked
<1> SUFFICES ASSUME NarrInv, NEW w \in DOMAIN job, job[w].ran, Talking(Request(w)) # {}
    PROVE    LET r     == Request(w)
                 asked == Addresses \cap DOMAIN job[w].replies
                 size(a) == SumFunction([f \in {g \in r.flows : g.src = a} |-> f.size])
                              + SumFunction([f \in {g \in r.flows : g.dst = a} |-> f.size])
             IN  /\ asked # {} /\ Cardinality(asked) <= r.top
                 /\ \A a \in asked, b \in Talking(r) \ asked : size(a) >= size(b)
  BY DEF BusiestAsked
<1> DEFINE r == Request(w)
           asked == Addresses \cap DOMAIN job[w].replies
<1>1. r \in Orders /\ IsFiniteSet(r.flows) /\ Chosen(job[w]) /\ r = job[w].request
  BY DEF NarrInv, EnrichInv, JobsOK, Jobs, Enriched, Request
<1>2. PICK s \in TopChoices(r) : DOMAIN job[w].replies = s \cup Domains
  BY <1>1 DEF Chosen
<1>3. Talking(r) \subseteq Addresses /\ IsFiniteSet(Talking(r)) /\ r.top \in Nat \ {0}
  <2>1. Talking(r) \subseteq Addresses /\ r.top \in Nat \ {0}
    BY <1>1 DEF Orders, Talking
  <2> QED BY <2>1, EnrichmentAssumption, FS_Subset
<1>4. Cardinality(Talking(r)) \in Nat \ {0}
  BY <1>3, FS_CardinalityType, FS_EmptySet
<1>5. /\ s \subseteq Talking(r)
      /\ Cardinality(s) = IF Cardinality(Talking(r)) < r.top THEN Cardinality(Talking(r)) ELSE r.top
      /\ \A a \in s, b \in Talking(r) \ s : PacketsOf(r.flows, a) >= PacketsOf(r.flows, b)
  <2> HIDE DEF r
  <2> QED BY <1>2, <1>4 DEF TopChoices, kSubset
<1>6. asked = s
  BY <1>2, <1>3, <1>5, EnrichmentAssumption
<1>7. asked # {} /\ Cardinality(asked) <= r.top
  <2>1. Cardinality(s) # 0 /\ Cardinality(s) <= r.top
    BY <1>3, <1>4, <1>5
  <2> QED BY <1>6, <2>1, FS_EmptySet
<1>8. \A a \in asked, b \in Talking(r) \ asked :
         SumFunction([f \in {g \in r.flows : g.src = a} |-> f.size]) + SumFunction([f \in {g \in r.flows : g.dst = a} |-> f.size])
           >= SumFunction([f \in {g \in r.flows : g.src = b} |-> f.size]) + SumFunction([f \in {g \in r.flows : g.dst = b} |-> f.size])
  <2> SUFFICES ASSUME NEW a \in asked, NEW b \in Talking(r) \ asked
        PROVE SumFunction([f \in {g \in r.flows : g.src = a} |-> f.size]) + SumFunction([f \in {g \in r.flows : g.dst = a} |-> f.size])
           >= SumFunction([f \in {g \in r.flows : g.src = b} |-> f.size]) + SumFunction([f \in {g \in r.flows : g.dst = b} |-> f.size])
    OBVIOUS
  <2>1. a \in Addresses /\ b \in Addresses /\ PacketsOf(r.flows, a) >= PacketsOf(r.flows, b)
    BY <1>3, <1>5, <1>6
  <2> HIDE DEF r, asked
  <2> QED BY <1>1, <2>1, SizesAdd
<1> QED BY <1>7, <1>8

(* It gives: no answer of a provider is lost.                              *)
LEMMA AnswersFromInv == NarrInv => AnswersKept
<1> SUFFICES ASSUME NarrInv, NEW w \in DOMAIN job, job[w].ran \/ job[w].pc = "asking",
                    NEW i \in DOMAIN job[w].replies, NEW p \in DOMAIN job[w].replies[i]
    PROVE  IF job[w].replies[i][p] = "odd" THEN p \notin DOMAIN job[w].answers[i]
           ELSE p \in DOMAIN job[w].answers[i] /\ job[w].answers[i][p] = job[w].replies[i][p]
  BY DEF AnswersKept
<1>1. job[w].answers[i] = Usable(job[w].replies[i])
  BY DEF NarrInv, EnrichInv, Enriched, RepliesKept
<1> QED BY <1>1 DEF Usable, Restrict

(* It gives: failures of a provider are told.                              *)
LEMMA FailuresFromInv == NarrInv => FailuresTold
<1> SUFFICES ASSUME NarrInv, NEW w \in DOMAIN job, NEW p \in Providers, story[w].facts # <<>>, job[w].replies # <<>>
    PROVE  IF ~job[w].ran THEN "osint failed" \in story[w].warnings ELSE
           LET got == {job[w].replies[i][p] : i \in {k \in DOMAIN job[w].replies : p \in DOMAIN job[w].replies[k]}}
               told == story[w].facts.providers[p]
           IN  /\ told \in {"nodata", "none"} => got \cap {"limited", "auth", "error"} = {}
               /\ told = "ok" => "payload" \in got
  BY DEF FailuresTold
<1> DEFINE got == {job[w].replies[i][p] : i \in {k \in DOMAIN job[w].replies : p \in DOMAIN job[w].replies[k]}}
<1>1. job[w] \in Jobs /\ RepliesKept(job[w]) /\ FactsTold(w) /\ job[w].pc = "enriched" /\ job[w].warnings \subseteq story[w].warnings
  BY DEF NarrInv, EnrichInv, JobsOK, Enriched, Narrated, FactsTold, Told
<1>7. CASE ~job[w].ran
  <2>1. DOMAIN job[w].replies # {}
    <3>1. job[w].replies \in [DOMAIN job[w].replies -> Maps(Providers, Replies)]
      BY <1>1, MapsMember DEF Jobs
    <3>2. ASSUME DOMAIN job[w].replies = {} PROVE job[w].replies = <<>>
      BY <3>1, <3>2
    <3> QED BY <3>2
  <2> QED BY <1>1, <1>7, <2>1 DEF RepliesKept
<1> SUFFICES ASSUME job[w].ran
             PROVE  /\ story[w].facts.providers[p] \in {"nodata", "none"} => got \cap {"limited", "auth", "error"} = {}
                    /\ story[w].facts.providers[p] = "ok" => "payload" \in got
  BY <1>7
<1>2. PICK e, limit : story[w].facts = Facts(w, e, limit)
  BY <1>1 DEF FactsTold, Told
<1>3. story[w].facts.providers[p] = ProviderStatus(Answered(w, p))
  BY <1>2 DEF Facts
<1>4. Answered(w, p) = got \ {"odd"} /\ Answered(w, p) \subseteq Replies \ {"odd"}
  BY <1>1, AnsweredUsable, AnsweredReplies
<1> HIDE DEF got
<1>5. /\ ProviderStatus(Answered(w, p)) \in {"nodata", "none"} => Answered(w, p) \cap {"limited", "auth", "error"} = {}
      /\ ProviderStatus(Answered(w, p)) = "ok" => "payload" \in Answered(w, p)
  BY <1>4, ProviderTold
<1> QED BY <1>3, <1>4, <1>5

(* It gives: no host name is lost, and each was good when it was read.     *)
LEMMA NamesFromInv == NarrInv => NoHostNameLost /\ HostNamesRecent
BY DEF NarrInv, EnrichInv, Enriched, NamesKept, NamesRecent, NoHostNameLost, HostNamesRecent

(* A name that was found stays with its job.                               *)
LEMMA NamesStay ==
  NarrInv /\ [NarrativeNext]_narrativeVars =>
    [\A w \in DOMAIN job : \A a \in Addresses :
       (job[w].pc = "lookup" /\ job'[w].pc = "enriched" /\ job[w].ptr[a] # Nothing)
         => job'[w].ptr[a] = job[w].ptr[a]]_narrativeVars
<1> SUFFICES ASSUME NarrInv, NarrativeNext, NEW w \in DOMAIN job, NEW a \in Addresses,
                    job[w].pc = "lookup", job'[w].pc = "enriched", job[w].ptr[a] # Nothing
             PROVE  job'[w].ptr[a] = job[w].ptr[a]
  OBVIOUS
<1>1. CASE EnrichNext
  BY <1>1, EnrichKeeps DEF NarrInv, JobsMove
<1>2. ASSUME NEW v \in DOMAIN job, SkipNarrative(v) \/ BeginNarrative(v) \/ WriteSection(v) \/ CloseReport(v) \/ WriteWhole(v) \/ SaveReport(v)
      PROVE  job' = job
  BY <1>2 DEF SkipNarrative, BeginNarrative, WriteSection, CloseReport, WriteWhole, SaveReport, enrichVars
<1>3. ASSUME NEW v \in DOMAIN job, Regenerate(v) \/ NextCapture(v)
      PROVE  job'[w] = job[w]
  <2>1. story[v].pc = "saved" /\ v \in DOMAIN job
    BY <1>3 DEF Regenerate, NextCapture
  <2>2. job[v].pc = "enriched"
    BY <2>1 DEF NarrInv, Narrated, FactsTold
  <2>3. v # w
    BY <2>2
  <2> QED BY <1>3, <2>3 DEF Regenerate, NextCapture, NarrInv, EnrichInv, JobsOK
<1> QED BY <1>1, <1>2, <1>3 DEF NarrativeNext

(* What providers and the resolver answered stands: each usable answer is  *)
(* kept with its indicator, the busiest addresses are asked about, failures*)
(* are told apart, and host names are kept and recent (osint.py,           *)
(* rdns_cache.py, network_utils.py).                                       *)
THEOREM AnswersDoStand == NarrativeSpec => AnswersStand
<1>1. NarrInv => NarrativeTypeOK /\ BusiestAsked /\ AnswersKept /\ FailuresTold /\ NoHostNameLost /\ HostNamesRecent
  BY TypeFromInv, BusiestFromInv, AnswersFromInv, FailuresFromInv, NamesFromInv
<1>2. NarrativeSpec => [](NarrativeTypeOK /\ BusiestAsked /\ AnswersKept /\ FailuresTold /\ NoHostNameLost /\ HostNamesRecent)
  BY <1>1, NarrInitially, NarrKeeps, PTL DEF NarrativeSpec
<1>3. NarrativeSpec => HostNamesStay
  BY NarrInitially, NarrKeeps, NamesStay, PTL DEF NarrativeSpec, HostNamesStay
<1> QED BY <1>2, <1>3 DEF AnswersStand

(* The facts of a story were made from the evidence of its request.        *)
LEMMA FactsGiven ==
  ASSUME NarrInv, NEW w \in DOMAIN job, story[w].facts # <<>>
  PROVE  /\ Request(w).evidence \in Evidences
         /\ \E d \in Derivations(Request(w).evidence, story[w].failed), limit \in Nat \ {0} :
              /\ story[w].facts.risk = Risk(d.rows, limit)
              /\ story[w].facts.notes = IF Chunked(Request(w)) THEN ThreatNotes(d, limit) \cup DetectorNotes(d, limit) ELSE {}
<1>1. PICK d \in Derivations(Request(w).evidence, story[w].failed), limit \in Nat \ {0} : story[w].facts = Facts(w, d, limit)
  BY DEF NarrInv, Narrated, FactsTold, Told
<1>2. Request(w).evidence \in Evidences
  BY DEF NarrInv, EnrichInv, JobsOK, Jobs, Orders, Request
<1> DEFINE notes == IF Chunked(Request(w)) THEN ThreatNotes(d, limit) \cup DetectorNotes(d, limit) ELSE {}
           told  == [p \in Providers |-> ProviderStatus(Answered(w, p))]
<1>3. story[w].facts = [evidence |-> d, risk |-> Risk(d.rows, limit), notes |-> notes, providers |-> told]
  BY <1>1 DEF Facts
<1> HIDE DEF notes, told
<1>4. story[w].facts.risk = Risk(d.rows, limit) /\ story[w].facts.notes = notes
  BY <1>3
<1> QED BY <1>2, <1>4 DEF notes

(* It gives: the risk told is that of the worst verdict, milder only if    *)
(* the correlation or the flows failed.                                    *)
LEMMA RiskFromInv == NarrInv => RiskIsWorst
<1> SUFFICES ASSUME NarrInv, NEW w \in DOMAIN job, story[w].facts # <<>>
    PROVE  LET rows == Request(w).evidence.rows
               risk == story[w].facts.risk
           IN  /\ story[w].failed \cap {"correlation", "flows"} = {} => \A i \in DOMAIN rows : Rank[rows[i]] <= Rank[risk]
               /\ risk # "low" => \E i \in DOMAIN rows : Rank[rows[i]] >= Rank[risk]
  BY DEF RiskIsWorst
<1> DEFINE e == Request(w).evidence
<1>1. PICK d \in Derivations(e, story[w].failed), limit \in Nat \ {0} : story[w].facts.risk = Risk(d.rows, limit)
  BY FactsGiven
<1>2. e \in Evidences
  BY FactsGiven
<1> HIDE DEF e
<1>3. /\ d \in Evidences
      /\ story[w].failed \cap {"correlation", "flows"} = {} => d.rows = e.rows
      /\ \A i \in DOMAIN d.rows : i \in DOMAIN e.rows /\ Rank[d.rows[i]] <= Rank[e.rows[i]]
  BY <1>2, DerivedFrom
<1>4. d.rows \in Seq(Verdicts)
  BY <1>3 DEF Evidences
<1>5. /\ \A i \in DOMAIN d.rows : Rank[d.rows[i]] <= Rank[story[w].facts.risk]
      /\ story[w].facts.risk # "low" => story[w].facts.risk \in Range(d.rows)
  BY <1>1, <1>4, RiskWorst
<1>6. ASSUME story[w].facts.risk # "low" PROVE \E i \in DOMAIN e.rows : Rank[e.rows[i]] >= Rank[story[w].facts.risk]
  <2>1. PICK i \in DOMAIN d.rows : d.rows[i] = story[w].facts.risk
    BY <1>5, <1>6 DEF Range
  <2>2. \A v \in Verdicts : Rank[v] \in Nat
    BY DEF Rank
  <2>3. e.rows \in Seq(Verdicts) /\ i \in DOMAIN e.rows /\ Rank[d.rows[i]] <= Rank[e.rows[i]]
    BY <1>2, <1>3, <2>1 DEF Evidences
  <2>4. Rank[e.rows[i]] \in Nat /\ Rank[d.rows[i]] \in Nat
    BY <1>4, <2>1, <2>2, <2>3
  <2> QED BY <2>1, <2>3, <2>4
<1> QED BY <1>3, <1>5, <1>6 DEF e

(* It gives: no all-clear where something was found, but for what lost     *)
(* derivations would have shown.                                           *)
LEMMA AllClearFromInv == NarrInv => NoFalseAllClear
<1> SUFFICES ASSUME NarrInv, NEW w \in DOMAIN job, AllClear(w)
    PROVE  /\ NothingFound(Request(w).evidence, story[w].failed)
           /\ story[w].facts.notes \cap {"threats", "beacons", "flows", "ports", "dns", "certificates", "yara"} = {}
  BY DEF NoFalseAllClear
<1> DEFINE e == Request(w).evidence
<1>1. story[w].facts # <<>> /\ "all clear" \in story[w].facts.notes
  BY DEF AllClear
<1>2. PICK d \in Derivations(e, story[w].failed), limit \in Nat \ {0} :
         story[w].facts.notes = IF Chunked(Request(w)) THEN ThreatNotes(d, limit) \cup DetectorNotes(d, limit) ELSE {}
  BY <1>1, FactsGiven
<1>3. e \in Evidences
  BY <1>1, FactsGiven
<1> HIDE DEF e
<1>8. story[w].facts.notes = ThreatNotes(d, limit) \cup DetectorNotes(d, limit)
  BY <1>1, <1>2
<1>9. "all clear" \notin DetectorNotes(d, limit)
  BY DEF DetectorNotes
<1>4. "all clear" \in ThreatNotes(d, limit) /\ ~Significant(d, limit)
  <2>1. "all clear" \in ThreatNotes(d, limit)
    BY <1>1, <1>8, <1>9
  <2> QED BY <2>1 DEF ThreatNotes
<1>5. /\ d \in Evidences
      /\ d.beacons = e.beacons /\ d.certificates = e.certificates /\ d.dns = e.dns /\ d.tls = e.tls /\ d.yara = e.yara
      /\ "flows" \notin story[w].failed => d.flows = e.flows
      /\ story[w].failed \cap {"flows", "ports"} = {} => d.ports = e.ports
      /\ "ja3" \notin story[w].failed => d.ja3 = e.ja3
      /\ story[w].failed \cap {"correlation", "flows"} = {} => d.rows = e.rows
  BY <1>3, DerivedFrom
<1>6. NothingFound(d, {}) /\ story[w].facts.notes \cap {"threats", "beacons", "flows", "ports", "dns", "certificates", "yara"} = {}
  BY <1>4, <1>5, <1>8, ClearOfFindings
<1>7. NothingFound(e, story[w].failed)
  BY <1>5, <1>6 DEF NothingFound
<1> QED BY <1>6, <1>7 DEF e

(* It gives: each section that was written is in the report, in its order, *)
(* unless it was broken off.                                               *)
LEMMA SectionsFromInv == NarrInv => SectionsKept
<1> SUFFICES ASSUME NarrInv, NEW w \in DOMAIN job, story[w].pc \in {"written", "saved"}, story[w].gave # <<>>
    PROVE  LET kept == {i \in DOMAIN Titles : story[w].gave[i] # "empty"}
           IN  IF Len(story[w].gave) < Len(Titles) THEN story[w].report = <<>> /\ OnFailure \subseteq story[w].warnings ELSE
               /\ kept = {} => story[w].report = NoContent
               /\ kept # {} => Len(story[w].report) = Cardinality(kept)
               /\ \A i \in kept : story[w].report[Cardinality({j \in kept : j <= i})]
                                   = [title |-> Titles[i], body |-> story[w].gave[i]]
  BY DEF SectionsKept
<1>1. story[w].gave \in Seq({"content", "empty", "error"}) /\ SectionsWritten(story[w], Chunked(job[w].request))
  BY DEF NarrInv, StoriesOK, Stories, Narrated
<1>2. Len(story[w].gave) \in Nat /\ Len(Titles) \in Nat
  BY <1>1, NarrativeAssumption
<1>3. CASE Len(story[w].gave) < Len(Titles)
  BY <1>1, <1>3 DEF SectionsWritten
<1>4. CASE ~(Len(story[w].gave) < Len(Titles))
  <2>1. Len(story[w].gave) = Len(Titles)
    BY <1>1, <1>2, <1>4 DEF SectionsWritten
  <2>2. DOMAIN story[w].gave = DOMAIN Titles
    BY <1>1, <2>1, NarrativeAssumption
  <2>3. {i \in DOMAIN Titles : story[w].gave[i] # "empty"} = Filled(story[w].gave)
    BY <2>2 DEF Filled
  <2>4. /\ Filled(story[w].gave) = {} => story[w].report = NoContent
        /\ Filled(story[w].gave) # {} => Ranked(story[w].report, story[w].gave)
    BY <1>1, <1>2, <2>1 DEF SectionsWritten
  <2> QED BY <1>4, <2>3, <2>4 DEF Ranked, Place
<1> QED BY <1>3, <1>4

(* It gives: there is a report or a warning.                               *)
LEMMA WarnedFromInv == NarrInv => ReportOrWarning
BY DEF NarrInv, Narrated, WarnedElse, ReportOrWarning, Request, Excused

(* It gives: a prompt loses no more than it has to.                        *)
LEMMA PromptFromInv == NarrInv => PromptCutLeast
<1> SUFFICES ASSUME NarrInv, NEW w \in DOMAIN job, story[w].prompt # <<>>
    PROVE  LET p == story[w].prompt
               u == Request(w).unlimited
               f == Fitted(p, u)
           IN  /\ ~u /\ p.budget >= Tokens(p.system) + Tokens(Marker) + Overhead => Estimate(f.system, f.user) <= p.budget
               /\ \/ u
                  \/ /\ Tokens(p.system) + Tokens(p.user) + Overhead <= p.budget
                     /\ p.budget > Tokens(p.system) + Tokens(Marker) + Overhead
                  => f.system = Whole(p.system) /\ f.user = Whole(p.user)
               /\ f.user.cut = "middle" =>
                    Estimate(Whole(p.system), Middle(f.user.head + f.user.tail + 1)) > p.budget
  BY DEF PromptCutLeast, PromptFits, CutIsLeast
<1>1. story[w].prompt \in [system : Nat, user : Nat, budget : Nat] /\ Request(w).unlimited \in BOOLEAN
  BY DEF NarrInv, StoriesOK, Stories, EnrichInv, JobsOK, Jobs, Orders, Request
<1>2. CASE Request(w).unlimited = FALSE
  BY <1>1, <1>2, PromptCut
<1>3. CASE Request(w).unlimited = TRUE
  <2>1. /\ Fitted(story[w].prompt, TRUE).user = Whole(story[w].prompt.user)
        /\ Fitted(story[w].prompt, TRUE).system = Whole(story[w].prompt.system)
    BY DEF Fitted
  <2>2. Whole(story[w].prompt.user).cut # "middle"
    BY DEF Whole
  <2> QED BY <1>3, <2>1, <2>2
<1> QED BY <1>1, <1>2, <1>3

(* A report once saved is not replaced by none while no other capture      *)
(* came.                                                                   *)
LEMMA NotBlanked ==
  NarrInv /\ [NarrativeNext]_narrativeVars =>
    [\A w \in DOMAIN job :
       (saved[w].report # <<>> /\ job'[w].request.again = job[w].request.again) => saved'[w].report # <<>>]_narrativeVars
<1> SUFFICES ASSUME NarrInv, NarrativeNext, NEW w \in DOMAIN job,
                    saved[w].report # <<>>, job'[w].request.again = job[w].request.again
             PROVE  saved'[w].report # <<>>
  OBVIOUS
<1>1. ASSUME saved' = saved PROVE saved'[w].report # <<>>
  BY <1>1
<1>2. ASSUME NEW v \in DOMAIN job, SkipNarrative(v) \/ BeginNarrative(v) \/ WriteSection(v) \/ CloseReport(v) \/ WriteWhole(v) \/ Regenerate(v)
      PROVE  saved' = saved
  BY <1>2 DEF SkipNarrative, BeginNarrative, WriteSection, CloseReport, WriteWhole, Regenerate
<1>3. ASSUME NEW v \in DOMAIN job, SaveReport(v) PROVE saved'[w].report # <<>>
  <2>1. saved' = [saved EXCEPT ![v] = [report |-> Kept(v), warnings |-> story[v].warnings]] /\ story[v].pc = "written"
    BY <1>3 DEF SaveReport
  <2>2. saved \in [DOMAIN job -> [report : Reports, warnings : SUBSET Warnings]]
    BY DEF NarrInv, StoriesOK
  <2>3. story[w].pc = "written" => story[w].loaded = saved[w].report
    BY DEF NarrInv, Narrated, WarnedElse
  <2>4. CASE v = w
    <3>1. saved'[w].report = Kept(w)
      BY <2>1, <2>2, <2>4
    <3> QED BY <2>1, <2>3, <2>4, <3>1 DEF Kept
  <2> QED BY <2>1, <2>2, <2>4
<1>4. ASSUME NEW v \in DOMAIN job, NextCapture(v) PROVE saved'[w].report # <<>>
  <2>1. saved' = [saved EXCEPT ![v] = NoReport] /\ job' = [job EXCEPT ![v] = NewJob([Request(v) EXCEPT !.again = FALSE])]
        /\ Request(v).again
    BY <1>4 DEF NextCapture
  <2>2. saved \in [DOMAIN job -> [report : Reports, warnings : SUBSET Warnings]] /\ job \in [DOMAIN job -> Jobs]
    BY DEF NarrInv, StoriesOK, EnrichInv, JobsOK
  <2>3. CASE v = w
    <3>1. job'[w].request = [job[w].request EXCEPT !.again = FALSE] /\ job[w].request \in Orders
      BY <2>1, <2>2, <2>3 DEF NewJob, Request, Jobs
    <3>2. job'[w].request.again = FALSE /\ job[w].request.again = TRUE
      BY <2>1, <2>3, <3>1 DEF Request, Orders
    <3> QED BY <3>2
  <2> QED BY <2>1, <2>2, <2>3
<1> QED BY <1>1, <1>2, <1>3, <1>4 DEF NarrativeNext

(* A report starts from the worst verdict there is and is told all clear   *)
(* only where nothing was found, but for what derivations that failed      *)
(* would have shown; it keeps every section that was written, has a        *)
(* warning where there is no report, and is not blanked by a later one     *)
(* (llm/client.py, queue.py).                                              *)
THEOREM ReportIsHonest == NarrativeSpec => ReportHonest
<1>1. NarrInv => NoFalseAllClear /\ RiskIsWorst /\ SectionsKept /\ ReportOrWarning
  BY AllClearFromInv, RiskFromInv, SectionsFromInv, WarnedFromInv
<1>2. NarrativeSpec => [](NoFalseAllClear /\ RiskIsWorst /\ SectionsKept /\ ReportOrWarning)
  BY <1>1, NarrInitially, NarrKeeps, PTL DEF NarrativeSpec
<1>3. NarrativeSpec => ReportNotBlanked
  BY NarrInitially, NarrKeeps, NotBlanked, PTL DEF NarrativeSpec, ReportNotBlanked
<1> QED BY <1>2, <1>3 DEF ReportHonest

(* A prompt fits the window whenever instructions and a marker do, whole   *)
(* if it can be, and what is cut is the least that must go: the binary     *)
(* search of _truncate_middle() finds the largest part that fits           *)
(* (llm/context_window.py).                                                *)
THEOREM PromptsAreCutLeast == NarrativeSpec => []PromptCutLeast
BY NarrInitially, NarrKeeps, PromptFromInv, PTL DEF NarrativeSpec
=============================================================================
