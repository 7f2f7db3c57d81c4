---------------------------- MODULE ViewsProofs ----------------------------
(***************************************************************************)
(* What is proved of the views of saved analyses, for any captures and any *)
(* limits of the lists: what several analyses opened together show is what *)
(* the analyses have, and what the dashboard shows of one agrees with its  *)
(* flows.                                                                  *)
(***************************************************************************)
EXTENDS Dashboard, FiniteSetTheorems, SequenceTheorems, WellFoundedInduction, TLAPS

-----------------------------------------------------------------------------
(* Sequences: induction over prefixes, sums and concatenations.            *)

LEMMA LeastNumber ==
  ASSUME NEW T, T \subseteq Nat, T # {}
  PROVE  \E x \in T : \A y \in T : x <= y
<1>1. PICK x \in T : \A y \in T : ~(<<y, x>> \in OpToRel(<, Nat))
  BY NatLessThanWellFounded, WFMin, Zenon
<1>2. \A y \in T : ~(y < x)
  BY <1>1 DEF OpToRel
<1> QED BY <1>2

(* What holds of 0 and goes from each number to the next holds up to n.    *)
LEMMA UpTo ==
  ASSUME NEW n \in Nat, NEW P, 0 \in P, \A i \in 0..(n - 1) : i \in P => i + 1 \in P
  PROVE  \A i \in 0..n : i \in P
<1> SUFFICES ASSUME NEW m \in 0..n, m \notin P  PROVE FALSE
  OBVIOUS
<1> DEFINE T == {i \in 0..n : i \notin P}
<1>1. T \subseteq Nat /\ T # {}
  OBVIOUS
<1>2. PICK i \in T : \A j \in T : i <= j
  BY <1>1, LeastNumber
<1>3. i # 0 /\ i \in 0..n /\ i \notin P
  OBVIOUS
<1>4. i - 1 \in 0..(n - 1) /\ i - 1 \notin T
  BY <1>2, <1>3
<1>5. i - 1 \in P
  BY <1>4
<1>6. (i - 1) + 1 \in P
  BY <1>4, <1>5
<1> QED BY <1>3, <1>6

(* What IsSequence() says of its elements, length and positions.           *)
LEMMA SequenceIs ==
  ASSUME NEW xs, IsSequence(xs)
  PROVE  xs \in Seq(Entries(xs)) /\ Len(xs) \in Nat /\ DOMAIN xs = 1..Len(xs)
BY DEF IsSequence

(* A function on the positions of a sequence is a sequence as long.        *)
LEMMA EachIs ==
  ASSUME NEW n \in Nat, NEW f, f = [i \in 1..n |-> f[i]]
  PROVE  Len(f) = n /\ DOMAIN f = 1..n /\ IsSequence(f)
<1>1. f \in [1..n -> Entries(f)]
  BY DEF Entries
<1> HIDE DEF Entries
<1>2. f \in Seq(Entries(f))
  BY <1>1
<1> QED BY <1>1, <1>2 DEF IsSequence

Sums(ns) == CHOOSE g : g = [i \in 0..Len(ns) |-> IF i = 0 THEN 0 ELSE g[i - 1] + ns[i]]

(* The chosen function adds a sequence up, number by number.               *)
LEMMA SumsAre ==
  ASSUME NEW ns, Len(ns) \in Nat
  PROVE  /\ Sums(ns)[0] = 0
         /\ \A i \in 1..Len(ns) : Sums(ns)[i] = Sums(ns)[i - 1] + ns[i]
         /\ Total(ns) = Sums(ns)[Len(ns)]
<1> DEFINE n == Len(ns)
           IsSum(g, j) == g = [i \in 0..j |-> IF i = 0 THEN 0 ELSE g[i - 1] + ns[i]]
           P == {j \in 0..n : \E g : IsSum(g, j)}
<1>1. 0 \in P
  <2>1. IsSum([i \in 0..0 |-> 0], 0)
    OBVIOUS
  <2>2. \E g : IsSum(g, 0)
    BY <2>1
  <2> HIDE DEF IsSum
  <2> QED BY <2>2
<1>2. ASSUME NEW j \in 0..(n - 1), j \in P  PROVE j + 1 \in P
  <2>1. PICK g : IsSum(g, j)
    BY <1>2
  <2> DEFINE h == [i \in 0..(j + 1) |-> IF i = 0 THEN 0 ELSE g[i - 1] + ns[i]]
  <2>2. \A i \in 0..j : h[i] = g[i]
    BY <2>1
  <2>3. \A i \in 0..(j + 1) : i # 0 => i - 1 \in 0..j
    OBVIOUS
  <2>4. \A i \in 0..(j + 1) : h[i] = IF i = 0 THEN 0 ELSE h[i - 1] + ns[i]
    BY <2>2, <2>3
  <2>5. h = [i \in 0..(j + 1) |-> h[i]]
    OBVIOUS
  <2> HIDE DEF h
  <2>6. IsSum(h, j + 1)
    BY <2>4, <2>5
  <2> QED BY <2>6
<1>3. n \in P
  <2> HIDE DEF P
  <2>1. \A i \in 0..(n - 1) : i \in P => i + 1 \in P
    BY <1>2
  <2>2. \A i \in 0..n : i \in P
    BY <1>1, <2>1, UpTo
  <2> QED BY <2>2
<1>4. IsSum(Sums(ns), n)
  BY <1>3 DEF Sums
<1>5. Total(ns) = Sums(ns)[n]
  BY DEF Total, Sums
<1>6. \A i \in 0..n : Sums(ns)[i] = IF i = 0 THEN 0 ELSE Sums(ns)[i - 1] + ns[i]
  <2> HIDE DEF n
  <2> QED BY <1>4
<1> QED BY <1>5, <1>6

(* A running sum ends in the total.                                        *)
LEMMA TotalBy ==
  ASSUME NEW ns, Len(ns) \in Nat, NEW h, h[0] = 0, \A i \in 1..Len(ns) : h[i] = h[i - 1] + ns[i]
  PROVE  Total(ns) = h[Len(ns)]
<1> DEFINE P == {i \in 0..Len(ns) : Sums(ns)[i] = h[i]}
<1>1. 0 \in P
  BY SumsAre
<1>2. ASSUME NEW i \in 0..(Len(ns) - 1), i \in P  PROVE i + 1 \in P
  <2>1. i + 1 \in 1..Len(ns) /\ (i + 1) - 1 = i /\ i + 1 \in 0..Len(ns)
    OBVIOUS
  <2>2. Sums(ns)[i + 1] = Sums(ns)[(i + 1) - 1] + ns[i + 1] /\ h[i + 1] = h[(i + 1) - 1] + ns[i + 1]
    BY <2>1, SumsAre
  <2> QED BY <1>2, <2>1, <2>2
<1>3. Len(ns) \in P
  <2> HIDE DEF P
  <2>1. \A i \in 0..Len(ns) : i \in P
    BY <1>1, <1>2, UpTo
  <2> QED BY <2>1
<1> QED BY <1>3, SumsAre

(* Natural numbers add up to a natural number.                             *)
LEMMA SumsNat ==
  ASSUME NEW ns, Len(ns) \in Nat, \A i \in 1..Len(ns) : ns[i] \in Nat
  PROVE  (\A i \in 0..Len(ns) : Sums(ns)[i] \in Nat) /\ Total(ns) \in Nat
<1> DEFINE P == {i \in 0..Len(ns) : Sums(ns)[i] \in Nat}
<1>1. 0 \in P
  BY SumsAre
<1>2. ASSUME NEW i \in 0..(Len(ns) - 1), i \in P  PROVE i + 1 \in P
  <2>1. i + 1 \in 1..Len(ns) /\ (i + 1) - 1 = i /\ i + 1 \in 0..Len(ns)
    OBVIOUS
  <2>2. Sums(ns)[i + 1] = Sums(ns)[i] + ns[i + 1]
    BY <2>1, SumsAre
  <2> QED BY <1>2, <2>1, <2>2
<1>3. \A i \in 0..Len(ns) : i \in P
  <2> HIDE DEF P
  <2> QED BY <1>1, <1>2, UpTo
<1> QED BY <1>3, SumsAre

(* Lists one after the other, up to one of them                            *)
Joins(lists) == CHOOSE g : g = [i \in 0..Len(lists) |-> IF i = 0 THEN <<>> ELSE g[i - 1] \o lists[i]]

(* The chosen function joins lists, one after the other.                   *)
LEMMA JoinsAre ==
  ASSUME NEW ls, Len(ls) \in Nat
  PROVE  /\ Joins(ls)[0] = <<>>
         /\ \A i \in 1..Len(ls) : Joins(ls)[i] = Joins(ls)[i - 1] \o ls[i]
         /\ Joined(ls) = Joins(ls)[Len(ls)]
<1> DEFINE n == Len(ls)
           IsJoin(g, j) == g = [i \in 0..j |-> IF i = 0 THEN <<>> ELSE g[i - 1] \o ls[i]]
           P == {j \in 0..n : \E g : IsJoin(g, j)}
<1>1. 0 \in P
  <2>1. IsJoin([i \in 0..0 |-> <<>>], 0)
    OBVIOUS
  <2>2. \E g : IsJoin(g, 0)
    BY <2>1
  <2> HIDE DEF IsJoin
  <2> QED BY <2>2
<1>2. ASSUME NEW j \in 0..(n - 1), j \in P  PROVE j + 1 \in P
  <2>1. PICK g : IsJoin(g, j)
    BY <1>2
  <2> DEFINE h == [i \in 0..(j + 1) |-> IF i = 0 THEN <<>> ELSE g[i - 1] \o ls[i]]
  <2>2. \A i \in 0..j : h[i] = g[i]
    BY <2>1
  <2>3. \A i \in 0..(j + 1) : i # 0 => i - 1 \in 0..j
    OBVIOUS
  <2>4. \A i \in 0..(j + 1) : h[i] = IF i = 0 THEN <<>> ELSE h[i - 1] \o ls[i]
    BY <2>2, <2>3
  <2>5. h = [i \in 0..(j + 1) |-> h[i]]
    OBVIOUS
  <2> HIDE DEF h
  <2>6. IsJoin(h, j + 1)
    BY <2>4, <2>5
  <2>7. \E f : IsJoin(f, j + 1)
    BY <2>6
  <2> HIDE DEF IsJoin
  <2> QED BY <2>7
<1>3. n \in P
  <2> HIDE DEF P
  <2>1. \A i \in 0..(n - 1) : i \in P => i + 1 \in P
    BY <1>2
  <2>2. \A i \in 0..n : i \in P
    BY <1>1, <2>1, UpTo
  <2> QED BY <2>2
<1>4. IsJoin(Joins(ls), n)
  BY <1>3 DEF Joins
<1>5. Joined(ls) = Joins(ls)[n]
  BY DEF Joined, Joins
<1>6. \A i \in 0..n : Joins(ls)[i] = IF i = 0 THEN <<>> ELSE Joins(ls)[i - 1] \o ls[i]
  <2> HIDE DEF n
  <2> QED BY <1>4
<1>7. Joins(ls)[0] = <<>>
  BY <1>6
<1>8. \A i \in 1..n : i \in 0..n /\ i # 0
  OBVIOUS
<1>9. \A i \in 1..n : Joins(ls)[i] = Joins(ls)[i - 1] \o ls[i]
  <2> HIDE DEF n
  <2> QED BY <1>6, <1>8
<1> QED BY <1>5, <1>7, <1>9

(* Entries of the lists up to one of them                                  *)
Within(ls, i) == UNION {Entries(ls[j]) : j \in 1..i}

(* Two joined lists have the entries of both.                              *)
LEMMA EntriesJoin ==
  ASSUME NEW xs, NEW ys, IsSequence(xs), IsSequence(ys)
  PROVE  IsSequence(xs \o ys) /\ Entries(xs \o ys) = Entries(xs) \cup Entries(ys)
<1> DEFINE S == Entries(xs) \cup Entries(ys)
<1>1. xs \in Seq(S) /\ ys \in Seq(S)
  BY SequenceIs
<1> HIDE DEF S
<1>2. /\ xs \o ys \in Seq(S) /\ Len(xs \o ys) = Len(xs) + Len(ys) /\ Len(xs) \in Nat /\ Len(ys) \in Nat
      /\ DOMAIN (xs \o ys) = 1..(Len(xs) + Len(ys)) /\ DOMAIN xs = 1..Len(xs) /\ DOMAIN ys = 1..Len(ys)
      /\ \A i \in 1..(Len(xs) + Len(ys)) : (xs \o ys)[i] = IF i <= Len(xs) THEN xs[i] ELSE ys[i - Len(xs)]
  BY <1>1, ConcatProperties, LenProperties
<1>3. ASSUME NEW i \in DOMAIN (xs \o ys)  PROVE (xs \o ys)[i] \in Entries(xs) \cup Entries(ys)
  <2>1. CASE i <= Len(xs)
    BY <1>2, <2>1 DEF Entries
  <2>2. CASE ~(i <= Len(xs))
    <3>1. i - Len(xs) \in DOMAIN ys /\ (xs \o ys)[i] = ys[i - Len(xs)]
      BY <1>2, <2>2
    <3> QED BY <3>1 DEF Entries
  <2> QED BY <2>1, <2>2
<1>4. ASSUME NEW i \in DOMAIN xs  PROVE i \in DOMAIN (xs \o ys) /\ (xs \o ys)[i] = xs[i]
  BY <1>2
<1>5. ASSUME NEW i \in DOMAIN ys  PROVE i + Len(xs) \in DOMAIN (xs \o ys) /\ (xs \o ys)[i + Len(xs)] = ys[i]
  <2>1. i + Len(xs) \in 1..(Len(xs) + Len(ys)) /\ ~(i + Len(xs) <= Len(xs)) /\ (i + Len(xs)) - Len(xs) = i
    BY <1>2
  <2> QED BY <1>2, <2>1
<1>6. Entries(xs \o ys) = Entries(xs) \cup Entries(ys)
  <2>1. Entries(xs \o ys) \subseteq Entries(xs) \cup Entries(ys)
    BY <1>3 DEF Entries
  <2>2. Entries(xs) \subseteq Entries(xs \o ys)
    BY <1>4 DEF Entries
  <2>3. Entries(ys) \subseteq Entries(xs \o ys)
    BY <1>5 DEF Entries
  <2> QED BY <2>1, <2>2, <2>3
<1>7. xs \o ys \in Seq(Entries(xs \o ys))
  BY <1>2, <1>6 DEF S
<1> QED BY <1>6, <1>7 DEF IsSequence

(* Joined lists are a list that has the entries of each.                   *)
LEMMA JoinedIs ==
  ASSUME NEW ls, Len(ls) \in Nat, \A i \in 1..Len(ls) : IsSequence(ls[i])
  PROVE  /\ \A i \in 0..Len(ls) : IsSequence(Joins(ls)[i]) /\ Entries(Joins(ls)[i]) = Within(ls, i)
         /\ IsSequence(Joined(ls)) /\ Entries(Joined(ls)) = UNION {Entries(ls[j]) : j \in 1..Len(ls)}
<1> DEFINE P == {i \in 0..Len(ls) : IsSequence(Joins(ls)[i]) /\ Entries(Joins(ls)[i]) = Within(ls, i)}
<1>1. 0 \in P
  <2>1. Entries(<<>>) = {} /\ <<>> \in Seq({}) /\ Within(ls, 0) = {}
    BY DEF Entries, Within
  <2>2. Joins(ls)[0] = <<>>
    BY JoinsAre
  <2>3. IsSequence(<<>>)
    BY <2>1 DEF IsSequence
  <2>4. IsSequence(Joins(ls)[0]) /\ Entries(Joins(ls)[0]) = Within(ls, 0)
    BY <2>1, <2>2, <2>3, Zenon
  <2> QED BY <2>4
<1>2. ASSUME NEW i \in 0..(Len(ls) - 1), i \in P  PROVE i + 1 \in P
  <2>1. i + 1 \in 1..Len(ls) /\ (i + 1) - 1 = i /\ i + 1 \in 0..Len(ls) /\ 1..(i + 1) = (1..i) \cup {i + 1}
    OBVIOUS
  <2>2. Joins(ls)[i + 1] = Joins(ls)[i] \o ls[i + 1]
    BY <2>1, JoinsAre
  <2>3. IsSequence(Joins(ls)[i + 1]) /\ Entries(Joins(ls)[i + 1]) = Within(ls, i) \cup Entries(ls[i + 1])
    BY <1>2, <2>1, <2>2, EntriesJoin
  <2>4. Within(ls, i + 1) = Within(ls, i) \cup Entries(ls[i + 1])
    BY <2>1 DEF Within
  <2> QED BY <2>1, <2>3, <2>4
<1>3. \A i \in 0..Len(ls) : i \in P
  <2> HIDE DEF P
  <2> QED BY <1>1, <1>2, UpTo
<1>4. Len(ls) \in 0..Len(ls)
  OBVIOUS
<1>5. IsSequence(Joins(ls)[Len(ls)]) /\ Entries(Joins(ls)[Len(ls)]) = Within(ls, Len(ls))
  BY <1>3, <1>4
<1>6. Joined(ls) = Joins(ls)[Len(ls)]
  BY JoinsAre
<1> QED BY <1>3, <1>5, <1>6 DEF Within

(* There are n positions in a list of n.                                   *)
LEMMA PositionsAre == \A n \in Nat : IsFiniteSet(1..n) /\ Cardinality(1..n) = n
<1> SUFFICES ASSUME NEW n \in Nat  PROVE IsFiniteSet(1..n) /\ Cardinality(1..n) = n
  OBVIOUS
<1>1. Cardinality(1..n) = IF 1 > n THEN 0 ELSE n - 1 + 1
  BY FS_Interval
<1> QED BY <1>1, FS_Interval

(* Of n positions there are at most n.                                     *)
LEMMA PositionsFinite ==
  ASSUME NEW n \in Nat, NEW A, A \subseteq 1..n
  PROVE  IsFiniteSet(A) /\ Cardinality(A) \in Nat /\ Cardinality(A) <= n
<1>1. IsFiniteSet(1..n) /\ Cardinality(1..n) = n
  BY PositionsAre
<1> QED BY <1>1, FS_Subset, FS_CardinalityType

(* How many positions of a list are in a set                               *)
Hits(xs, T) == {m \in DOMAIN xs : xs[m] \in T}

(* Of two joined lists as many entries are in a set as of each together.   *)
LEMMA HitsJoin ==
  ASSUME NEW xs, NEW ys, IsSequence(xs), IsSequence(ys), NEW T
  PROVE  /\ Cardinality(Hits(xs \o ys, T)) = Cardinality(Hits(xs, T)) + Cardinality(Hits(ys, T))
         /\ Cardinality(Hits(xs, T)) \in Nat /\ Cardinality(Hits(ys, T)) \in Nat
<1> DEFINE S == Entries(xs) \cup Entries(ys)
           A == Hits(xs, T)
           B == Hits(ys, T)
           C == {i + Len(xs) : i \in B}
<1>1. xs \in Seq(S) /\ ys \in Seq(S)
  BY SequenceIs
<1>2. /\ Len(xs \o ys) = Len(xs) + Len(ys) /\ Len(xs) \in Nat /\ Len(ys) \in Nat
      /\ DOMAIN (xs \o ys) = 1..(Len(xs) + Len(ys)) /\ DOMAIN xs = 1..Len(xs) /\ DOMAIN ys = 1..Len(ys)
      /\ \A i \in 1..(Len(xs) + Len(ys)) : (xs \o ys)[i] = IF i <= Len(xs) THEN xs[i] ELSE ys[i - Len(xs)]
  <2> HIDE DEF S
  <2> QED BY <1>1, ConcatProperties, LenProperties
<1>3. /\ A \subseteq 1..Len(xs) /\ B \subseteq 1..Len(ys) /\ IsFiniteSet(A) /\ IsFiniteSet(B)
      /\ Cardinality(A) \in Nat /\ Cardinality(B) \in Nat
  <2>1. A \subseteq 1..Len(xs) /\ B \subseteq 1..Len(ys)
    BY <1>2 DEF Hits
  <2> HIDE DEF A, B
  <2> QED BY <1>2, <2>1, PositionsFinite
<1>4. IsFiniteSet(C) /\ Cardinality(C) = Cardinality(B)
  <2> DEFINE f == [i \in B |-> i + Len(xs)]
  <2>1. f \in Bijection(B, C)
    <3>1. f \in [B -> C] /\ \A c \in C : \E i \in B : f[i] = c
      OBVIOUS
    <3>2. \A i, j \in B : f[i] = f[j] => i = j
      BY <1>2, <1>3
    <3> QED BY <3>1, <3>2 DEF Bijection, Injection, Surjection, IsInjective
  <2> HIDE DEF f, C, B
  <2>2. ExistsBijection(B, C)
    BY <2>1 DEF ExistsBijection
  <2> QED BY <1>3, <2>2, FS_Bijection
<1>5. Hits(xs \o ys, T) = A \cup C
  <2>1. ASSUME NEW i \in Hits(xs \o ys, T)  PROVE i \in A \cup C
    <3>1. CASE i <= Len(xs)
      BY <1>2, <3>1 DEF Hits
    <3>2. CASE ~(i <= Len(xs))
      <4>1. i - Len(xs) \in B /\ i = (i - Len(xs)) + Len(xs)
        BY <1>2, <3>2 DEF Hits
      <4> QED BY <4>1
    <3> QED BY <3>1, <3>2
  <2>2. ASSUME NEW i \in A  PROVE i \in Hits(xs \o ys, T)
    BY <1>2 DEF Hits
  <2>3. ASSUME NEW i \in B  PROVE i + Len(xs) \in Hits(xs \o ys, T)
    <3>1. i + Len(xs) \in 1..(Len(xs) + Len(ys)) /\ ~(i + Len(xs) <= Len(xs)) /\ (i + Len(xs)) - Len(xs) = i
      BY <1>2, <1>3
    <3> QED BY <1>2, <3>1 DEF Hits
  <2> QED BY <2>1, <2>2, <2>3
<1>6. A \cap C = {}
  BY <1>2, <1>3
<1> HIDE DEF A, B, C
<1>7. Cardinality(A \cup C) = Cardinality(A) + Cardinality(C)
  <2>1. Cardinality(A \cap C) = 0
    BY <1>6, FS_EmptySet
  <2>2. Cardinality(C) \in Nat
    BY <1>3, <1>4
  <2>3. Cardinality(A \cup C) = Cardinality(A) + Cardinality(C) - Cardinality(A \cap C)
    BY <1>3, <1>4, FS_Union, Zenon
  <2> QED BY <1>3, <2>1, <2>2, <2>3
<1> QED BY <1>3, <1>4, <1>5, <1>7 DEF A, B

(* Of joined lists as many entries are in a set as of each, added up.      *)
LEMMA HitsJoined ==
  ASSUME NEW ls, Len(ls) \in Nat, \A i \in 1..Len(ls) : IsSequence(ls[i]), NEW T
  PROVE  Cardinality(Hits(Joined(ls), T)) = Total([i \in 1..Len(ls) |-> Cardinality(Hits(ls[i], T))])
<1> DEFINE h == [i \in 0..Len(ls) |-> Cardinality(Hits(Joins(ls)[i], T))]
           ns == [i \in 1..Len(ls) |-> Cardinality(Hits(ls[i], T))]
<1>1. Len(ns) = Len(ls)
  BY EachIs
<1>2. h[0] = 0
  <2>1. Hits(<<>>, T) = {}
    BY DEF Hits
  <2>2. Joins(ls)[0] = <<>> /\ Cardinality({}) = 0
    BY JoinsAre, FS_EmptySet
  <2> QED BY <2>1, <2>2
<1>3. ASSUME NEW i \in 1..Len(ls)  PROVE h[i] = h[i - 1] + ns[i]
  <2>1. i - 1 \in 0..Len(ls) /\ i \in 0..Len(ls)
    OBVIOUS
  <2>2. Joins(ls)[i] = Joins(ls)[i - 1] \o ls[i] /\ IsSequence(Joins(ls)[i - 1])
    BY <2>1, JoinsAre, JoinedIs
  <2>3. /\ h[i] = Cardinality(Hits(Joins(ls)[i], T)) /\ h[i - 1] = Cardinality(Hits(Joins(ls)[i - 1], T))
        /\ ns[i] = Cardinality(Hits(ls[i], T))
    BY <2>1
  <2> HIDE DEF h, ns
  <2> QED BY <2>2, <2>3, HitsJoin
<1> HIDE DEF h, ns
<1>4. Total(ns) = h[Len(ls)]
  BY <1>1, <1>2, <1>3, TotalBy
<1>5. h[Len(ls)] = Cardinality(Hits(Joins(ls)[Len(ls)], T))
  BY DEF h
<1>6. Joined(ls) = Joins(ls)[Len(ls)]
  BY JoinsAre
<1> QED BY <1>4, <1>5, <1>6 DEF ns

-----------------------------------------------------------------------------
(* Sorting: a relation that is a strict order of a set, and its listing.   *)

StrictOrder(R, S) ==
  /\ \A x \in S : <<x, x>> \notin R
  /\ \A x, y, z \in S : <<x, y>> \in R /\ <<y, z>> \in R => <<x, z>> \in R
  /\ \A x, y \in S : x = y \/ <<x, y>> \in R \/ <<y, x>> \in R

Below(R, S, x) == {y \in S : <<y, x>> \in R}
Rank(R, S, x) == Cardinality(Below(R, S, x)) + 1

Listed(L, S, R) ==
  /\ DOMAIN L = 1..Cardinality(S) /\ Len(L) = Cardinality(S) /\ IsSequence(L) /\ Entries(L) = S
  /\ \A i, j \in DOMAIN L : (i < j <=> <<L[i], L[j]>> \in R) /\ (L[i] = L[j] => i = j)

(* The rank of an element is its place, and grows with the order.          *)
LEMMA RankIs ==
  ASSUME NEW S, IsFiniteSet(S), NEW R, StrictOrder(R, S)
  PROVE  /\ Cardinality(S) \in Nat
         /\ \A x \in S : Rank(R, S, x) \in 1..Cardinality(S)
         /\ \A x, y \in S : <<x, y>> \in R => Rank(R, S, x) < Rank(R, S, y)
<1>1. \A x \in S : IsFiniteSet(Below(R, S, x)) /\ Cardinality(Below(R, S, x)) \in Nat
  BY FS_Subset, FS_CardinalityType DEF Below
<1>2. Cardinality(S) \in Nat
  BY FS_CardinalityType
<1>3. ASSUME NEW x \in S  PROVE Rank(R, S, x) \in 1..Cardinality(S)
  <2>1. IsFiniteSet(S \ {x}) /\ Cardinality(S \ {x}) = Cardinality(S) - 1
    BY FS_RemoveElement
  <2>2. Below(R, S, x) \in SUBSET (S \ {x})
    BY DEF Below, StrictOrder
  <2>3. Cardinality(Below(R, S, x)) <= Cardinality(S \ {x})
    BY <2>1, <2>2, FS_Subset
  <2> QED BY <1>1, <1>2, <2>1, <2>3 DEF Rank
<1>4. ASSUME NEW x \in S, NEW y \in S, <<x, y>> \in R  PROVE Rank(R, S, x) < Rank(R, S, y)
  <2>1. x \notin Below(R, S, x)
    BY DEF Below, StrictOrder
  <2>2. Cardinality(Below(R, S, x) \cup {x}) = Cardinality(Below(R, S, x)) + 1
    BY <1>1, <2>1, FS_AddElement
  <2>3. Below(R, S, x) \cup {x} \in SUBSET Below(R, S, y)
    BY <1>4 DEF Below, StrictOrder
  <2>4. Cardinality(Below(R, S, x) \cup {x}) <= Cardinality(Below(R, S, y))
    BY <1>1, <2>3, FS_Subset
  <2> QED BY <1>1, <2>2, <2>4 DEF Rank
<1> QED BY <1>2, <1>3, <1>4

(* A finite set is listed in a strict order: each element once, and before *)
(* those that are after it.                                                *)
LEMMA ListingIs ==
  ASSUME NEW S, IsFiniteSet(S), NEW R, StrictOrder(R, S), NEW L,
         L = [k \in 1..Cardinality(S) |-> (CHOOSE p \in {<<Rank(R, S, x), x>> : x \in S} : p[1] = k)[2]]
  PROVE  Listed(L, S, R)
<1> DEFINE n == Cardinality(S)
           f == [x \in S |-> Rank(R, S, x)]
           T == {Rank(R, S, x) : x \in S}
<1>1. n \in Nat /\ f \in [S -> 1..n] /\ T \in SUBSET (1..n)
  BY RankIs
<1>2. \A x, y \in S : Rank(R, S, x) = Rank(R, S, y) => x = y
  <2>1. \A x \in S : Rank(R, S, x) \in Int
    BY RankIs
  <2>2. \A x, y \in S : <<x, y>> \in R => Rank(R, S, x) < Rank(R, S, y)
    BY RankIs
  <2>3. \A x, y \in S : Rank(R, S, x) = Rank(R, S, y) => ~(Rank(R, S, x) < Rank(R, S, y)) /\ ~(Rank(R, S, y) < Rank(R, S, x))
    BY <2>1
  <2> QED BY <2>2, <2>3, Zenon DEF StrictOrder
<1>3. Cardinality(T) = n
  <2>1. f \in Bijection(S, T)
    BY <1>2 DEF Bijection, Injection, Surjection, IsInjective
  <2> HIDE DEF f, T
  <2>2. ExistsBijection(S, T)
    BY <2>1 DEF ExistsBijection
  <2> QED BY <2>2, FS_Bijection
<1>4. T = 1..n
  <2>1. IsFiniteSet(1..n) /\ Cardinality(1..n) = n
    BY <1>1, PositionsAre
  <2> HIDE DEF T, n
  <2> QED BY <1>1, <1>3, <2>1, FS_Subset
<1>5. ASSUME NEW k \in 1..n  PROVE L[k] \in S /\ Rank(R, S, L[k]) = k
  <2> DEFINE ps == {<<Rank(R, S, x), x>> : x \in S}
  <2>1. PICK x \in S : Rank(R, S, x) = k
    BY <1>4
  <2>2. <<k, x>> \in ps /\ <<k, x>>[1] = k
    BY <2>1
  <2>3. L[k] = (CHOOSE p \in ps : p[1] = k)[2]
    OBVIOUS
  <2>4. \A p \in ps : p[2] \in S /\ p[1] = Rank(R, S, p[2])
    OBVIOUS
  <2> HIDE DEF ps
  <2>5. (CHOOSE p \in ps : p[1] = k) \in ps /\ (CHOOSE p \in ps : p[1] = k)[1] = k
    BY <2>2
  <2> QED BY <2>3, <2>4, <2>5
<1>6. DOMAIN L = 1..n /\ L = [k \in 1..n |-> L[k]]
  OBVIOUS
<1>7. Len(L) = n /\ IsSequence(L)
  BY <1>1, <1>6, EachIs
<1>8. Entries(L) = S
  <2>1. Entries(L) \subseteq S
    BY <1>5, <1>6 DEF Entries
  <2>2. ASSUME NEW x \in S  PROVE x \in Entries(L)
    <3>1. Rank(R, S, x) \in 1..n
      BY <1>4
    <3>2. L[Rank(R, S, x)] = x
      BY <1>2, <1>5, <3>1
    <3> QED BY <1>6, <3>1, <3>2 DEF Entries
  <2> QED BY <2>1, <2>2
<1>9. ASSUME NEW i \in 1..n, NEW j \in 1..n  PROVE (i < j <=> <<L[i], L[j]>> \in R) /\ (L[i] = L[j] => i = j)
  <2>1. L[i] \in S /\ L[j] \in S /\ Rank(R, S, L[i]) = i /\ Rank(R, S, L[j]) = j
    BY <1>5
  <2>2. <<L[i], L[j]>> \in R => i < j
    BY <2>1, RankIs
  <2>3. <<L[j], L[i]>> \in R => j < i
    BY <2>1, RankIs
  <2>4. L[i] = L[j] \/ <<L[i], L[j]>> \in R \/ <<L[j], L[i]>> \in R
    BY <2>1 DEF StrictOrder
  <2>5. i < j => ~(j < i) /\ i # j
    OBVIOUS
  <2> HIDE DEF n
  <2> QED BY <2>1, <2>2, <2>3, <2>4, <2>5
<1> QED BY <1>6, <1>7, <1>8, <1>9 DEF Listed

(* What stands at some positions, in their order                           *)
LEMMA PickedIs ==
  ASSUME NEW xs, NEW n \in Nat, NEW at, at \subseteq 1..n
  PROVE  /\ Listed(Listing(at, LAMBDA i, j : i < j), at, {p \in at \X at : p[1] < p[2]})
         /\ IsSequence(Picked(xs, at)) /\ Len(Picked(xs, at)) = Cardinality(at)
         /\ Entries(Picked(xs, at)) = {xs[i] : i \in at}
<1> DEFINE R == {p \in at \X at : p[1] < p[2]}
           L == Listing(at, LAMBDA i, j : i < j)
<1>1. IsFiniteSet(at) /\ Cardinality(at) \in Nat
  BY PositionsFinite
<1>2. StrictOrder(R, at)
  BY DEF StrictOrder
<1>3. \A x \in at : {y \in at : y < x} = Below(R, at, x)
  BY DEF Below
<1>4. L = [k \in 1..Cardinality(at) |-> (CHOOSE p \in {<<Rank(R, at, x), x>> : x \in at} : p[1] = k)[2]]
  <2> DEFINE A == {<<Cardinality({y \in at : y < x}) + 1, x>> : x \in at}
             B == {<<Rank(R, at, x), x>> : x \in at}
  <2>1. A = B
    BY <1>3 DEF Rank
  <2>2. L = [k \in 1..Cardinality(at) |-> (CHOOSE p \in A : p[1] = k)[2]]
    BY DEF Listing
  <2> HIDE DEF R, L, A
  <2> QED BY <2>1, <2>2
<1> HIDE DEF R, L
<1>5. Listed(L, at, R)
  BY <1>1, <1>2, <1>4, ListingIs
<1> DEFINE P == [k \in DOMAIN L |-> xs[L[k]]]
<1>6. Picked(xs, at) = P
  BY DEF Picked, L
<1>7. Len(P) = Cardinality(at) /\ IsSequence(P)
  BY <1>1, <1>5, EachIs DEF Listed
<1>8. Entries(P) = {xs[L[k]] : k \in DOMAIN L}
  BY DEF Entries
<1>9. {xs[L[k]] : k \in DOMAIN L} = {xs[i] : i \in at}
  BY <1>5 DEF Listed, Entries
<1> QED BY <1>5, <1>6, <1>7, <1>8, <1>9 DEF R, L

(* A list has no more different entries than positions.                    *)
LEMMA EntriesFinite ==
  ASSUME NEW xs, IsSequence(xs)
  PROVE  IsFiniteSet(Entries(xs)) /\ Cardinality(Entries(xs)) <= Len(xs)
<1>1. Len(xs) \in Nat /\ DOMAIN xs = 1..Len(xs)
  BY SequenceIs
<1>2. IsFiniteSet(1..Len(xs)) /\ Cardinality(1..Len(xs)) = Len(xs)
  BY <1>1, PositionsAre
<1> DEFINE g == [i \in 1..Len(xs) |-> xs[i]]
<1>3. g \in [1..Len(xs) -> Entries(xs)] /\ \A y \in Entries(xs) : \E i \in 1..Len(xs) : g[i] = y
  BY <1>1 DEF Entries
<1>4. g \in Surjection(1..Len(xs), Entries(xs))
  BY <1>3 DEF Surjection
<1> HIDE DEF g
<1> QED BY <1>2, <1>4, FS_Surjection

(* A list with the entries of another in another order                     *)
Permutes(L, ys, xs) ==
  /\ \A k \in 1..Len(xs) : L[k] \in 1..Len(xs) /\ ys[k] = xs[L[k]]
  /\ \A k, m \in 1..Len(xs) : L[k] = L[m] => k = m
  /\ \A i \in 1..Len(xs) : \E k \in 1..Len(xs) : L[k] = i

Permuted(ys, xs) == \E L : Permutes(L, ys, xs)

(* Python's sorted(key = score, reverse = True)                            *)
LEMMA ByScoreIs ==
  ASSUME NEW xs, IsSequence(xs), \A d \in Entries(xs) : d.score \in Int
  PROVE  /\ IsSequence(ByScore(xs)) /\ Len(ByScore(xs)) = Len(xs) /\ Entries(ByScore(xs)) = Entries(xs)
         /\ \A i, j \in 1..Len(xs) : i < j => ByScore(xs)[i].score >= ByScore(xs)[j].score
         /\ Permuted(ByScore(xs), xs)
<1> DEFINE S == DOMAIN xs
           R == {p \in S \X S : xs[p[1]].score > xs[p[2]].score \/ (xs[p[1]].score = xs[p[2]].score /\ p[1] < p[2])}
           A == {<<Cardinality({y \in S : xs[y].score > xs[x].score \/ (xs[y].score = xs[x].score /\ y < x)}) + 1, x>> : x \in S}
           B == {<<Rank(R, S, x), x>> : x \in S}
           L == [k \in 1..Cardinality(S) |-> (CHOOSE p \in A : p[1] = k)[2]]
           Q == [k \in DOMAIN L |-> xs[L[k]]]
<1>1. Len(xs) \in Nat /\ S = 1..Len(xs) /\ \A i \in S : xs[i].score \in Int
  BY SequenceIs DEF Entries
<1>2. IsFiniteSet(S) /\ Cardinality(S) = Len(xs)
  BY <1>1, PositionsAre
<1>3. StrictOrder(R, S)
  <2>1. \A x, y \in S : <<x, y>> \in R <=> xs[x].score > xs[y].score \/ (xs[x].score = xs[y].score /\ x < y)
    OBVIOUS
  <2>2. \A x \in S : x \in Int /\ xs[x].score \in Int
    BY <1>1
  <2> HIDE DEF R, S
  <2> QED BY <2>1, <2>2 DEF StrictOrder
<1>4. A = B
  BY DEF Rank, Below
<1>5. ByScore(xs) = Q
  BY DEF ByScore, Listing
<1>6. Listed(L, S, R)
  <2>1. L = [k \in 1..Cardinality(S) |-> (CHOOSE p \in B : p[1] = k)[2]]
    <3> HIDE DEF A, B
    <3> QED BY <1>4
  <2> HIDE DEF A, L, R, S
  <2> QED BY <1>2, <1>3, <2>1, ListingIs
<1>7. DOMAIN L = 1..Len(xs) /\ \A k \in 1..Len(xs) : L[k] \in S
  <2> HIDE DEF L, R
  <2> QED BY <1>2, <1>6 DEF Listed, Entries
<1>8. IsSequence(Q) /\ Len(Q) = Len(xs)
  <2> HIDE DEF L
  <2> QED BY <1>1, <1>7, EachIs
<1>9. Entries(Q) = Entries(xs)
  <2>1. Entries(L) = S
    BY <1>6 DEF Listed
  <2> HIDE DEF L, R
  <2>2. Entries(Q) = {xs[L[k]] : k \in DOMAIN L}
    BY DEF Entries
  <2> QED BY <2>1, <2>2 DEF Entries
<1>10. ASSUME NEW i \in 1..Len(xs), NEW j \in 1..Len(xs), i < j  PROVE Q[i].score >= Q[j].score
  <2>1. <<L[i], L[j]>> \in R
    <3> HIDE DEF L, R
    <3> QED BY <1>6, <1>7, <1>10 DEF Listed
  <2>2. Q[i] = xs[L[i]] /\ Q[j] = xs[L[j]] /\ L[i] \in S /\ L[j] \in S
    <3> HIDE DEF L
    <3> QED BY <1>7
  <2> HIDE DEF L
  <2> QED BY <1>1, <2>1, <2>2
<1>11. Permuted(Q, xs)
  <2> HIDE DEF L, R
  <2>1. \A k, m \in 1..Len(xs) : L[k] = L[m] => k = m
    BY <1>6, <1>7 DEF Listed
  <2>2. \A i \in 1..Len(xs) : \E k \in 1..Len(xs) : L[k] = i
    BY <1>1, <1>6, <1>7 DEF Listed, Entries
  <2>3. \A k \in 1..Len(xs) : L[k] \in 1..Len(xs) /\ Q[k] = xs[L[k]]
    BY <1>1, <1>7
  <2> HIDE DEF Q
  <2>4. Permutes(L, Q, xs)
    BY <2>1, <2>2, <2>3 DEF Permutes
  <2> QED BY <2>4 DEF Permuted
<1> HIDE DEF Q, L
<1> QED BY <1>5, <1>8, <1>9, <1>10, <1>11

(* A list that is cut keeps what stands first.                             *)
LEMMA FirstOfIs ==
  ASSUME NEW xs, IsSequence(xs), NEW m \in Nat
  PROVE  /\ IsSequence(FirstOf(xs, m)) /\ Len(FirstOf(xs, m)) = Lesser(m, Len(xs)) /\ Lesser(m, Len(xs)) \in Nat
         /\ DOMAIN FirstOf(xs, m) = 1..Lesser(m, Len(xs))
         /\ \A i \in 1..Lesser(m, Len(xs)) : FirstOf(xs, m)[i] = xs[i]
         /\ Entries(FirstOf(xs, m)) \subseteq Entries(xs)
<1> DEFINE n == Lesser(m, Len(xs))
           Q == SubSeq(xs, 1, n)
<1>1. Len(xs) \in Nat /\ DOMAIN xs = 1..Len(xs)
  BY SequenceIs
<1>2. n \in Nat /\ n <= Len(xs)
  BY <1>1 DEF Lesser
<1>3. \A i \in 1..n : xs[i] \in Entries(xs)
  BY <1>1, <1>2 DEF Entries
<1> HIDE DEF n
<1>4. Q \in Seq(Entries(xs)) /\ Len(Q) = (IF 1 <= n THEN n - 1 + 1 ELSE 0) /\ \A i \in 1..(n - 1 + 1) : Q[i] = xs[1 + i - 1]
  BY <1>2, <1>3, SubSeqProperties
<1>5. Len(Q) = n /\ DOMAIN Q = 1..n /\ \A i \in 1..n : Q[i] = xs[i]
  BY <1>2, <1>4, LenProperties
<1> HIDE DEF Q
<1>6. IsSequence(Q)
  <2>1. Q = [i \in 1..n |-> Q[i]]
    BY <1>4, <1>5
  <2> QED BY <1>2, <2>1, EachIs
<1>7. Entries(Q) \subseteq Entries(xs)
  BY <1>3, <1>5 DEF Entries
<1>8. FirstOf(xs, m) = Q
  BY DEF FirstOf, Q, n
<1> QED BY <1>2, <1>5, <1>6, <1>7, <1>8 DEF n

(* Least and greatest of a finite set of numbers                           *)
LEMMA ExtremesAre ==
  ASSUME NEW S, IsFiniteSet(S), S # {}, S \subseteq Int
  PROVE  /\ Lowest(S) \in S /\ \A x \in S : Lowest(S) <= x
         /\ Highest(S) \in S /\ \A x \in S : x <= Highest(S)
<1> DEFINE R == {p \in S \X S : p[1] < p[2]}
           L == [k \in 1..Cardinality(S) |-> (CHOOSE p \in {<<Rank(R, S, x), x>> : x \in S} : p[1] = k)[2]]
           n == Cardinality(S)
<1>1. StrictOrder(R, S)
  <2>1. \A x, y \in S : (<<x, y>> \in R <=> x < y) /\ x \in Int
    OBVIOUS
  <2> HIDE DEF R
  <2> QED BY <2>1 DEF StrictOrder
<1>2. Listed(L, S, R)
  <2> HIDE DEF R
  <2> QED BY <1>1, ListingIs
<1> HIDE DEF L
<1>3. n \in Nat /\ n # 0
  BY FS_CardinalityType, FS_EmptySet
<1>4. DOMAIN L = 1..n /\ Entries(L) = S /\ \A i, j \in 1..n : i < j => L[i] < L[j]
  <2>1. DOMAIN L = 1..n /\ Entries(L) = S /\ \A i, j \in 1..n : i < j => <<L[i], L[j]>> \in R
    BY <1>2 DEF Listed
  <2> QED BY <2>1
<1> HIDE DEF R
<1>5. \A i \in 1..n : L[i] \in S /\ L[i] \in Int
  BY <1>4 DEF Entries
<1>6. \A x \in S : \E i \in 1..n : x = L[i]
  BY <1>4 DEF Entries
<1> HIDE DEF n
<1>7. 1 \in 1..n /\ n \in 1..n
  BY <1>3
<1>8. \A i \in 1..n : L[1] <= L[i] /\ L[i] <= L[n]
  <2> TAKE i \in 1..n
  <2>1. i = 1 \/ 1 < i
    OBVIOUS
  <2>2. i = n \/ i < n
    BY <1>3
  <2> QED BY <1>4, <1>5, <1>7, <2>1, <2>2
<1>9. L[1] \in S /\ (\A x \in S : L[1] <= x) /\ L[n] \in S /\ (\A x \in S : L[n] >= x)
  BY <1>5, <1>6, <1>7, <1>8
<1>10. Lowest(S) \in S /\ \A x \in S : Lowest(S) <= x
  <2>1. \E x \in S : \A y \in S : x <= y
    BY <1>9
  <2> QED BY <2>1 DEF Lowest
<1>11. Highest(S) \in S /\ \A x \in S : Highest(S) >= x
  <2>1. \E x \in S : \A y \in S : x >= y
    BY <1>9
  <2> QED BY <2>1 DEF Highest
<1>12. \A x \in S : x <= Highest(S)
  BY <1>11
<1> QED BY <1>10, <1>11, <1>12

-----------------------------------------------------------------------------
(* Analyses that workers have saved, and the invariant of the workbench    *)
(* that shows them.                                                        *)

Analyses == {Analysed(c) : c \in Captures}

Gone(ids, old) == [i \in DOMAIN ids |-> ids[i] \in old]

(* What is on display was made of the analyses opened, when no more of     *)
(* their run directories were gone than are now.                           *)
ViewOf(v, ids, rs, old) ==
  \/ v = NoView
  \/ Len(ids) = 1 /\ v = RestoredOne(saved[ids[1]], ids[1] \in old)
  \/ Len(ids) > 1 /\ v = Merged(rs, Gone(ids, old))
  \/ Len(ids) = 1 /\ v = DashboardState(saved[ids[1]], Public)

ViewsInv ==
  /\ saved \in Seq(Analyses)
  /\ swept = 1..Cardinality(swept) /\ Cardinality(swept) \in Nat /\ Cardinality(swept) <= Len(saved)
  /\ opened \in Seq(DOMAIN saved) /\ \A i, j \in DOMAIN opened : opened[i] = opened[j] => i = j
  /\ \E old \in SUBSET swept : ViewOf(view, opened, Chosen(opened), old)

-----------------------------------------------------------------------------
(* One analysis.                                                           *)

FlowsOK(fs) == IsSequence(fs) /\ \A f \in Entries(fs) : FlowTypeOK(f)

(* The packets that were parsed are a number.                              *)
LEMMA ParsedIs ==
  ASSUME NEW fs, FlowsOK(fs)
  PROVE  Total([i \in DOMAIN fs |-> fs[i].count]) \in Nat
<1> DEFINE ns == [i \in DOMAIN fs |-> fs[i].count]
<1>1. Len(fs) \in Nat /\ DOMAIN fs = 1..Len(fs)
  BY SequenceIs DEF FlowsOK
<1>2. \A i \in DOMAIN fs : ns[i] \in Nat
  BY DEF FlowsOK, FlowTypeOK, Entries
<1>3. Len(ns) = Len(fs)
  BY <1>1, EachIs
<1> HIDE DEF ns
<1>4. Total(ns) \in Nat
  BY <1>1, <1>2, <1>3, SumsNat
<1> QED BY <1>4 DEF ns

DetectionsOK(ds) == IsSequence(ds) /\ \A d \in Entries(ds) : d.score \in Nat /\ d.hit \in BOOLEAN

DnsOK(dns) ==
  \/ dns.kind \in {"none", "error"}
  \/ /\ dns.kind = "ran"
     /\ \A k \in DnsKinds :
          /\ DetectionsOK(dns.found[k]) /\ Len(dns.found[k]) <= MAX_RESULTS[k]
          /\ dns.alerts[k] \in Nat
          /\ Len(dns.found[k]) < MAX_RESULTS[k] =>
               dns.alerts[k] = CountIn(dns.found[k], LAMBDA d : d.hit)

(* Sorting changes no count.                                               *)
LEMMA CountSorted ==
  ASSUME NEW xs, DetectionsOK(xs)
  PROVE  /\ CountIn(ByScore(xs), LAMBDA d : d.hit) = CountIn(xs, LAMBDA d : d.hit)
         /\ CountIn(xs, LAMBDA d : d.hit) \in Nat
<1> DEFINE n == Len(xs)
           ys == ByScore(xs)
           A == {k \in DOMAIN ys : ys[k].hit}
           B == {i \in DOMAIN xs : xs[i].hit}
<1>1. n \in Nat /\ DOMAIN xs = 1..n /\ \A d \in Entries(xs) : d.score \in Int
  BY SequenceIs DEF DetectionsOK
<1>2. DOMAIN ys = 1..n
  BY <1>1, ByScoreIs, SequenceIs DEF DetectionsOK
<1>a. PICK L : Permutes(L, ys, xs)
  <2>1. IsSequence(xs)
    BY DEF DetectionsOK
  <2>2. Permuted(ys, xs)
    BY <1>1, <2>1, ByScoreIs
  <2> QED BY <2>2 DEF Permuted
<1>3. /\ \A k \in 1..n : L[k] \in 1..n /\ ys[k] = xs[L[k]]
      /\ \A k, m \in 1..n : L[k] = L[m] => k = m
      /\ \A i \in 1..n : \E k \in 1..n : L[k] = i
  <2> HIDE DEF ys
  <2> QED BY <1>a DEF Permutes
<1>4. CountIn(ys, LAMBDA d : d.hit) = Cardinality(A) /\ CountIn(xs, LAMBDA d : d.hit) = Cardinality(B)
  BY DEF CountIn
<1> DEFINE f == [k \in A |-> L[k]]
<1> HIDE DEF ys, n
<1>5. f \in Bijection(A, B)
  <2>1. f \in [A -> B] /\ \A i \in B : \E k \in A : f[k] = i
    BY <1>1, <1>2, <1>3
  <2>2. \A k, m \in A : f[k] = f[m] => k = m
    BY <1>2, <1>3
  <2> QED BY <2>1, <2>2 DEF Bijection, Injection, Surjection, IsInjective
<1>6. IsFiniteSet(A) /\ Cardinality(A) \in Nat
  <2>1. A \subseteq 1..n
    BY <1>2
  <2> HIDE DEF A
  <2> QED BY <1>1, <2>1, PositionsFinite
<1> HIDE DEF f, A, B
<1>7. ExistsBijection(A, B)
  BY <1>5 DEF ExistsBijection
<1>8. Cardinality(B) = Cardinality(A)
  BY <1>6, <1>7, FS_Bijection
<1> QED BY <1>4, <1>6, <1>8 DEF ys

(* What the DNS stage keeps of its detections                              *)
LEMMA DnsKept ==
  ASSUME NEW found, \A k \in DnsKinds : DetectionsOK(found[k])
  PROVE  DnsOK(DnsOf(found))
<1> SUFFICES ASSUME NEW k \in DnsKinds
             PROVE  LET kept == FirstOf(ByScore(found[k]), MAX_RESULTS[k])
                    IN  /\ DetectionsOK(kept) /\ Len(kept) <= MAX_RESULTS[k]
                        /\ CountIn(found[k], LAMBDA d : d.hit) \in Nat
                        /\ Len(kept) < MAX_RESULTS[k] =>
                             CountIn(found[k], LAMBDA d : d.hit) = CountIn(kept, LAMBDA d : d.hit)
  BY DEF DnsOf, DnsOK
<1> DEFINE xs == found[k]
           ys == ByScore(xs)
           kept == FirstOf(ys, MAX_RESULTS[k])
           m == MAX_RESULTS[k]
<1>1. m \in Nat /\ DetectionsOK(xs) /\ IsSequence(xs) /\ Len(xs) \in Nat
  BY BatchAssumption, SequenceIs DEF DetectionsOK
<1>2. \A d \in Entries(xs) : d.score \in Nat /\ d.score \in Int /\ d.hit \in BOOLEAN
  BY <1>1 DEF DetectionsOK
<1> HIDE DEF xs, m
<1>3. IsSequence(ys) /\ Len(ys) = Len(xs) /\ Entries(ys) = Entries(xs)
  BY <1>1, <1>2, ByScoreIs
<1>4. /\ CountIn(ys, LAMBDA d : d.hit) = CountIn(xs, LAMBDA d : d.hit)
      /\ CountIn(xs, LAMBDA d : d.hit) \in Nat
  BY <1>1, CountSorted
<1> HIDE DEF ys
<1>5. IsSequence(kept) /\ Len(kept) = Lesser(m, Len(ys)) /\ Entries(kept) \subseteq Entries(ys)
      /\ \A i \in 1..Lesser(m, Len(ys)) : kept[i] = ys[i]
  BY <1>1, <1>3, FirstOfIs DEF m
<1>6. DetectionsOK(kept) /\ Len(kept) <= m
  BY <1>1, <1>2, <1>3, <1>5 DEF DetectionsOK, Lesser
<1>7. ASSUME Len(kept) < m  PROVE kept = ys
  <2>1. Len(kept) = Len(ys)
    BY <1>1, <1>3, <1>5, <1>7 DEF Lesser
  <2>2. \A i \in 1..Len(ys) : kept[i] = ys[i]
    BY <1>5, <2>1
  <2>3. ys = [i \in 1..Len(ys) |-> ys[i]] /\ kept = [i \in 1..Len(kept) |-> kept[i]]
    BY <1>3, <1>5 DEF IsSequence
  <2> HIDE DEF kept
  <2> QED BY <2>1, <2>2, <2>3
<1> HIDE DEF kept
<1>8. Len(kept) < m => CountIn(xs, LAMBDA d : d.hit) = CountIn(kept, LAMBDA d : d.hit)
  BY <1>4, <1>7
<1> QED BY <1>4, <1>6, <1>8 DEF kept, ys, xs, m

(* What an analysis has, saved                                             *)
AnalysisOK(r) ==
  /\ r.packets \in Nat /\ r.zeek \in BOOLEAN /\ FlowsOK(r.flows)
  /\ IsSequence(r.ssl) /\ IsSequence(r.carved)
  /\ IsFiniteSet(r.indicators) /\ r.indicators \subseteq Int \X Int /\ DOMAIN r.osint \subseteq r.indicators
  /\ DnsOK(r.dns)
  /\ r.metrics = BuildCaptureMetrics([packets |-> r.packets, flows |-> r.flows, zeek |-> r.zeek,
                                      dns |-> r.dns, yara |-> r.yara])
  /\ \E files : r.yara = ScanCarved(r.carved, files) /\ r.rules = Rules(files)

(* Every analysis a worker saves has what AnalysisOK() says.               *)
LEMMA AnalysedIs == \A r \in Analyses : AnalysisOK(r)
<1> SUFFICES ASSUME NEW c \in Captures  PROVE AnalysisOK(Analysed(c))
  BY DEF Analyses
<1>1. CaptureTypeOK(c)
  BY CapturesAssumption
<1> DEFINE dns == IF c.dns.kind = "ran" THEN DnsOf(c.dns.found) ELSE c.dns
           yara == ScanCarved(c.carved, c.rules)
           r == Analysed(c)
<1>2. /\ r.packets = c.packets /\ r.flows = c.flows /\ r.indicators = c.indicators /\ r.osint = c.osint
      /\ r.ssl = c.ssl /\ r.zeek = c.zeek /\ r.carved = c.carved /\ r.rules = Rules(c.rules) /\ r.dns = dns
      /\ r.yara = yara
      /\ r.metrics = BuildCaptureMetrics([packets |-> c.packets, flows |-> c.flows, zeek |-> c.zeek,
                                          dns |-> dns, yara |-> yara])
  <2> HIDE DEF dns, yara
  <2>1. r = [name |-> c.name, packets |-> c.packets, flows |-> c.flows, indicators |-> c.indicators,
             osint |-> c.osint, report |-> c.report, ssl |-> c.ssl, zeek |-> c.zeek, carved |-> c.carved,
             rules |-> Rules(c.rules), dns |-> dns, beacons |-> RankBeaconing(c.flows), yara |-> yara,
             metrics |-> BuildCaptureMetrics([packets |-> c.packets, flows |-> c.flows, zeek |-> c.zeek,
                                              dns |-> dns, yara |-> yara])]
    BY DEF Analysed, dns, yara
  <2> HIDE DEF r
  <2> QED BY <2>1
<1>3. DnsOK(dns)
  <2>1. CASE c.dns.kind = "ran"
    <3>1. \A k \in DnsKinds : DetectionsOK(c.dns.found[k])
      BY <1>1, <2>1 DEF CaptureTypeOK, DetectionsOK
    <3> QED BY <2>1, <3>1, DnsKept
  <2>2. CASE c.dns.kind # "ran"
    BY <1>1, <2>2 DEF CaptureTypeOK, DnsOK
  <2> QED BY <2>1, <2>2
<1> HIDE DEF dns, yara, r
<1>4. FlowsOK(c.flows) /\ IsSequence(c.ssl) /\ IsSequence(c.carved)
  BY <1>1 DEF CaptureTypeOK, FlowsOK
<1>5. /\ c.packets \in Nat /\ c.zeek \in BOOLEAN
      /\ IsFiniteSet(c.indicators) /\ c.indicators \subseteq Int \X Int /\ DOMAIN c.osint \subseteq c.indicators
  BY <1>1 DEF CaptureTypeOK
<1>6. r.yara = ScanCarved(c.carved, c.rules)
  BY <1>2 DEF yara
<1> QED BY <1>2, <1>3, <1>4, <1>5, <1>6 DEF AnalysisOK, r

-----------------------------------------------------------------------------
(* The time range.                                                         *)

LEMMA TimesAre ==
  ASSUME NEW xs \in Seq(Nat \ {0}), xs # <<>>
  PROVE  LET S == {xs[i] : i \in DOMAIN xs} IN {Lowest(S), Highest(S)} \subseteq Nat \ {0}
<1>1. Len(xs) \in Nat /\ DOMAIN xs = 1..Len(xs) /\ xs = [i \in 1..Len(xs) |-> xs[i]] /\ Len(xs) # 0
  OBVIOUS
<1>2. IsSequence(xs)
  BY <1>1, EachIs
<1>3. Entries(xs) # {} /\ Entries(xs) \subseteq Nat \ {0} /\ Entries(xs) \subseteq Int
  BY <1>1 DEF Entries
<1>4. Lowest(Entries(xs)) \in Entries(xs) /\ Highest(Entries(xs)) \in Entries(xs)
  BY <1>2, <1>3, EntriesFinite, ExtremesAre
<1>5. {Lowest(Entries(xs)), Highest(Entries(xs))} \subseteq Nat \ {0}
  BY <1>3, <1>4
<1> QED BY <1>5 DEF Entries

(* A flow has a first and a last time, or neither.                         *)
LEMMA FlowTimes ==
  ASSUME NEW f, FlowTypeOK(f)
  PROVE  /\ FlowStart(f) \in (Nat \ {0}) \cup {Missing} /\ FlowEnd(f) \in (Nat \ {0}) \cup {Missing}
         /\ FlowStart(f) = Missing <=> FlowEnd(f) = Missing
<1>1. Missing \notin Nat
  BY DEF Missing
<1>2. CASE {f.first, f.last} \subseteq Nat \ {0}
  BY <1>1, <1>2 DEF FlowStart, FlowEnd
<1>3. CASE {f.first, f.last} = {Missing} /\ f.times = <<>>
  BY <1>3 DEF FlowStart, FlowEnd
<1>4. CASE {f.first, f.last} = {Missing} /\ f.times # <<>>
  <2>1. f.first = Missing /\ f.last = Missing
    BY <1>4
  <2>2. {Lowest({f.times[i] : i \in DOMAIN f.times}), Highest({f.times[i] : i \in DOMAIN f.times})} \subseteq Nat \ {0}
    BY <1>4, TimesAre DEF FlowTypeOK
  <2> QED BY <1>1, <1>4, <2>1, <2>2 DEF FlowStart, FlowEnd
<1> QED BY <1>2, <1>3, <1>4 DEF FlowTypeOK

TimedOf(fs) == {f \in Entries(fs) : FlowStart(f) # Missing}

(* The first and the last time of some flows                               *)
LEMMA BoundsAre ==
  ASSUME NEW fs, FlowsOK(fs)
  PROVE  \/ TimedOf(fs) = {} /\ Earliest(fs) = Missing /\ Latest(fs) = Missing
         \/ /\ TimedOf(fs) # {} /\ Earliest(fs) \in Nat \ {0} /\ Latest(fs) \in Nat \ {0}
            /\ \A f \in TimedOf(fs) : Earliest(fs) <= FlowStart(f) /\ FlowEnd(f) <= Latest(fs)
            /\ \E f \in TimedOf(fs) : Earliest(fs) = FlowStart(f)
            /\ \E f \in TimedOf(fs) : Latest(fs) = FlowEnd(f)
<1> DEFINE ss == [i \in DOMAIN fs |-> FlowStart(fs[i])]
           es == [i \in DOMAIN fs |-> FlowEnd(fs[i])]
<1>1. Len(fs) \in Nat /\ DOMAIN fs = 1..Len(fs) /\ \A i \in DOMAIN fs : fs[i] \in Entries(fs) /\ FlowTypeOK(fs[i])
  BY SequenceIs DEF FlowsOK, Entries
<1>2. \A f \in Entries(fs) : /\ FlowStart(f) \in (Nat \ {0}) \cup {Missing} /\ FlowEnd(f) \in (Nat \ {0}) \cup {Missing}
                             /\ FlowStart(f) = Missing <=> FlowEnd(f) = Missing
  BY FlowTimes DEF FlowsOK
<1>3. Starts(fs) = Entries(ss) \ {Missing} /\ Ends(fs) = Entries(es) \ {Missing}
  BY DEF Starts, Ends, Entries
<1>4. IsSequence(ss) /\ IsSequence(es)
  BY <1>1, EachIs
<1>5. IsFiniteSet(Starts(fs)) /\ IsFiniteSet(Ends(fs))
  <2> HIDE DEF ss, es
  <2>1. IsFiniteSet(Entries(ss)) /\ IsFiniteSet(Entries(es))
    BY <1>4, EntriesFinite
  <2> QED BY <1>3, <2>1, FS_Subset
<1>6. Starts(fs) = {FlowStart(f) : f \in TimedOf(fs)} /\ Ends(fs) = {FlowEnd(f) : f \in TimedOf(fs)}
  BY <1>2 DEF Starts, Ends, TimedOf, Entries
<1>7. Starts(fs) \subseteq Nat \ {0} /\ Ends(fs) \subseteq Nat \ {0}
  BY <1>2, <1>6 DEF TimedOf
<1>8. CASE TimedOf(fs) = {}
  BY <1>6, <1>8 DEF Earliest, Latest
<1>9. CASE TimedOf(fs) # {}
  <2>1. Starts(fs) # {} /\ Ends(fs) # {} /\ Starts(fs) \subseteq Int /\ Ends(fs) \subseteq Int
    BY <1>6, <1>7, <1>9
  <2>2. /\ Earliest(fs) \in Starts(fs) /\ \A x \in Starts(fs) : Earliest(fs) <= x
        /\ Latest(fs) \in Ends(fs) /\ \A x \in Ends(fs) : x <= Latest(fs)
    BY <1>5, <2>1, ExtremesAre DEF Earliest, Latest
  <2> QED BY <1>6, <1>7, <1>9, <2>2
<1> QED BY <1>8, <1>9

-----------------------------------------------------------------------------
(* What is on display.                                                     *)

LEMMA FilesAre ==
  ASSUME ViewsInv
  PROVE  /\ Len(Files) = Len(opened) /\ Len(opened) \in Nat /\ DOMAIN Files = 1..Len(opened) /\ DOMAIN opened = 1..Len(opened)
         /\ IsSequence(Files)
         /\ \A i \in 1..Len(opened) : Files[i] = saved[opened[i]] /\ opened[i] \in DOMAIN saved /\ AnalysisOK(Files[i])
<1>1. Len(opened) \in Nat /\ DOMAIN opened = 1..Len(opened) /\ \A i \in 1..Len(opened) : opened[i] \in DOMAIN saved
  BY DEF ViewsInv
<1>2. \A i \in DOMAIN saved : saved[i] \in Analyses
  BY DEF ViewsInv
<1>3. Files = [i \in 1..Len(opened) |-> saved[opened[i]]]
  BY <1>1 DEF Files, Chosen
<1>4. Len(Files) = Len(opened) /\ DOMAIN Files = 1..Len(opened) /\ IsSequence(Files)
  BY <1>1, <1>3, EachIs
<1>5. \A i \in 1..Len(opened) : Files[i] = saved[opened[i]] /\ AnalysisOK(Files[i])
  BY <1>1, <1>2, <1>3, AnalysedIs
<1> QED BY <1>1, <1>4, <1>5

One(r, gone) == view = RestoredOne(r, gone)
Several(rs, gone) == view = Merged(rs, gone)

(* What is on display was made of one analysis or merged of several.       *)
LEMMA Displayed ==
  ASSUME ViewsInv, OnDisplay
  PROVE  \E old \in SUBSET swept : \/ Len(opened) = 1 /\ One(Files[1], opened[1] \in old)
                                   \/ Len(opened) > 1 /\ Several(Files, Gone(opened, old))
<1>1. PICK old \in SUBSET swept : ViewOf(view, opened, Chosen(opened), old)
  BY DEF ViewsInv
<1>2. view # NoView
  BY DEF OnDisplay, NoView
<1>3. view # DashboardState(saved[opened[1]], Public)
  BY DEF OnDisplay, DashboardState
<1>4. \/ Len(opened) = 1 /\ view = RestoredOne(saved[opened[1]], opened[1] \in old)
      \/ Len(opened) > 1 /\ view = Merged(Chosen(opened), Gone(opened, old))
  BY <1>1, <1>2, <1>3 DEF ViewOf
<1>5. Len(opened) = 1 => Files[1] = saved[opened[1]]
  BY FilesAre
<1> QED BY <1>4, <1>5 DEF One, Several, Files

(* What one analysis shows (cases_tab.py).                                 *)
LEMMA OneShows ==
  ASSUME NEW r, NEW gone, One(r, gone)
  PROVE  /\ view.page = "single" /\ view.packets = r.packets /\ view.indicators = r.indicators
         /\ view.range = <<Earliest(r.flows), Latest(r.flows)>>
         /\ view.osint = r.osint /\ view.dns = r.dns /\ view.yara = r.yara
         /\ view.ja3 = AnalyzeJa3(Ja3Rows(r.ssl, gone)) /\ view.reports = Reports(<<r>>) /\ view.metrics = r.metrics
BY DEF One, RestoredOne

(* What several analyses show (batch.py).                                  *)
LEMMA SeveralShow ==
  ASSUME NEW rs, NEW gone, Several(rs, gone)
  PROVE  /\ view.page = "merged" /\ view.packets = Total([i \in DOMAIN rs |-> rs[i].packets])
         /\ view.indicators = Indicators(rs) /\ view.shared = Shared(rs) /\ view.common = Common(rs)
         /\ view.range = TimeRange(rs) /\ view.osint = MergeOsint(rs) /\ view.dns = AggregateDns(rs)
         /\ view.yara = MergeYara(rs) /\ view.ja3 = Ja3OfAll(rs, gone) /\ view.reports = Reports(rs)
         /\ view.metrics = BuildCaptureMetrics([packets |-> view.packets, flows |-> AllFlows(rs), dns |-> AggregateDns(rs),
                                                zeek |-> \E i \in DOMAIN rs : rs[i].zeek, yara |-> MergeYara(rs)])
BY DEF Several, Merged

(* The metrics bar has the times, the packets and the gaps                 *)
(* (visibility.py).                                                        *)
LEMMA MetricsAre ==
  ASSUME NEW s
  PROVE  LET m == BuildCaptureMetrics(s)
         IN  /\ m.first_seen = Earliest(s.flows) /\ m.last_seen = Latest(s.flows)
             /\ m.parsed = Total([i \in DOMAIN s.flows |-> s.flows[i].count])
             /\ m.gaps = {d \in Detectors : DetectorStatus(s)[d] # "available"}
BY DEF BuildCaptureMetrics

(* All flows of the analyses opened                                        *)
LEMMA AllFlowsAre ==
  ASSUME ViewsInv
  PROVE  FlowsOK(AllFlows(Files)) /\ Entries(AllFlows(Files)) = UNION {Entries(Files[i].flows) : i \in DOMAIN Files}
<1> DEFINE ls == [i \in DOMAIN Files |-> Files[i].flows]
           n == Len(opened)
<1>1. n \in Nat /\ DOMAIN Files = 1..n /\ \A i \in 1..n : FlowsOK(Files[i].flows)
  BY FilesAre DEF AnalysisOK
<1>2. Len(ls) = n /\ \A i \in 1..n : ls[i] = Files[i].flows
  BY <1>1, EachIs
<1>3. \A i \in 1..n : IsSequence(ls[i])
  BY <1>1, <1>2 DEF FlowsOK
<1>4. AllFlows(Files) = Joined(ls)
  BY DEF AllFlows
<1> HIDE DEF ls, n
<1>5. IsSequence(Joined(ls)) /\ Entries(Joined(ls)) = UNION {Entries(ls[i]) : i \in 1..n}
  BY <1>1, <1>2, <1>3, JoinedIs
<1>6. UNION {Entries(ls[i]) : i \in 1..n} = UNION {Entries(Files[i].flows) : i \in DOMAIN Files}
  BY <1>1, <1>2
<1>7. \A f \in Entries(Joined(ls)) : FlowTypeOK(f)
  BY <1>1, <1>5, <1>6 DEF FlowsOK
<1> QED BY <1>4, <1>5, <1>6, <1>7 DEF FlowsOK

(* The time range on display holds every flow opened and is no wider.      *)
LEMMA RangeIsTight == ViewsInv => RangeTight
<1> SUFFICES ASSUME ViewsInv, OnDisplay
             PROVE  LET flows == {f \in UNION {{Files[i].flows[j] : j \in DOMAIN Files[i].flows} : i \in DOMAIN Files} :
                                    FlowStart(f) # Missing}
                    IN  /\ view.range = <<view.metrics.first_seen, view.metrics.last_seen>>
                        /\ flows # {} => /\ \A f \in flows : view.range[1] <= FlowStart(f) /\ FlowEnd(f) <= view.range[2]
                                         /\ \E f \in flows : view.range[1] = FlowStart(f)
                                         /\ \E f \in flows : view.range[2] = FlowEnd(f)
  BY DEF RangeTight
<1> DEFINE every == UNION {{Files[i].flows[j] : j \in DOMAIN Files[i].flows} : i \in DOMAIN Files}
           fs == IF Len(opened) = 1 THEN Files[1].flows ELSE AllFlows(Files)
<1>1. PICK old \in SUBSET swept : \/ Len(opened) = 1 /\ One(Files[1], opened[1] \in old)
                                  \/ Len(opened) > 1 /\ Several(Files, Gone(opened, old))
  BY Displayed
<1>2. every = UNION {Entries(Files[i].flows) : i \in DOMAIN Files}
  BY DEF Entries
<1>3. FlowsOK(fs) /\ Entries(fs) = every
  <2>1. CASE Len(opened) = 1
    <3>1. DOMAIN Files = {1} /\ AnalysisOK(Files[1])
      BY <2>1, FilesAre
    <3> QED BY <1>2, <2>1, <3>1 DEF AnalysisOK
  <2>2. CASE Len(opened) # 1
    BY <1>2, <2>2, AllFlowsAre
  <2> QED BY <2>1, <2>2
<1>4. /\ view.metrics.first_seen = Earliest(fs) /\ view.metrics.last_seen = Latest(fs)
      /\ view.range = <<Earliest(fs), Latest(fs)>>
  <2>1. CASE One(Files[1], opened[1] \in old) /\ Len(opened) = 1
    <3>1. AnalysisOK(Files[1])
      BY <2>1, FilesAre
    <3>2. view.metrics = Files[1].metrics /\ view.range = <<Earliest(Files[1].flows), Latest(Files[1].flows)>>
      BY <2>1, OneShows
    <3>3. fs = Files[1].flows
      BY <2>1
    <3> DEFINE of == [packets |-> Files[1].packets, flows |-> Files[1].flows, zeek |-> Files[1].zeek,
                      dns |-> Files[1].dns, yara |-> Files[1].yara]
    <3>4. view.metrics = BuildCaptureMetrics(of) /\ of.flows = fs
      BY <3>1, <3>2, <3>3 DEF AnalysisOK
    <3> HIDE DEF fs, of
    <3>5. view.metrics.first_seen = Earliest(fs) /\ view.metrics.last_seen = Latest(fs)
      BY <3>4, MetricsAre
    <3> QED BY <3>2, <3>3, <3>5
  <2>2. CASE Several(Files, Gone(opened, old)) /\ Len(opened) > 1
    <3>0. Len(opened) # 1
      BY <2>2, FilesAre
    <3>1. view.range = TimeRange(Files) /\ fs = AllFlows(Files)
      <4>1. view.range = TimeRange(Files)
        BY <2>2, SeveralShow
      <4> QED BY <3>0, <4>1
    <3>2. view.metrics.first_seen = Earliest(AllFlows(Files)) /\ view.metrics.last_seen = Latest(AllFlows(Files))
      <4> DEFINE of == [packets |-> view.packets, flows |-> AllFlows(Files), dns |-> AggregateDns(Files),
                        zeek |-> \E i \in DOMAIN Files : Files[i].zeek, yara |-> MergeYara(Files)]
      <4>1. view.metrics = BuildCaptureMetrics(of)
        BY <2>2, SeveralShow
      <4>2. of.flows = AllFlows(Files)
        OBVIOUS
      <4> HIDE DEF of
      <4> QED BY <4>1, <4>2, MetricsAre
    <3>3. TimeRange(Files) = <<Earliest(AllFlows(Files)), Latest(AllFlows(Files))>>
      <4>1. \/ Earliest(fs) = Missing /\ Latest(fs) = Missing
            \/ Earliest(fs) \in Nat \ {0} /\ Latest(fs) \in Nat \ {0}
        BY <1>3, BoundsAre
      <4>2. Missing \notin Nat /\ Missing # 0
        BY DEF Missing
      <4> HIDE DEF fs
      <4> QED BY <3>1, <4>1, <4>2 DEF TimeRange
    <3> QED BY <3>1, <3>2, <3>3
  <2> QED BY <1>1, <2>1, <2>2
<1>5. TimedOf(fs) = {f \in every : FlowStart(f) # Missing}
  BY <1>3 DEF TimedOf
<1> HIDE DEF fs, every
<1>6. view.range[1] = Earliest(fs) /\ view.range[2] = Latest(fs)
  BY <1>4
<1> QED BY <1>3, <1>4, <1>5, <1>6, BoundsAre DEF every

-----------------------------------------------------------------------------
(* Verdicts, gaps, reports and fingerprints.                               *)
LEMMA LastVerdictIs ==
  ASSUME NEW rs, NEW i \in DOMAIN rs, NEW x \in DOMAIN rs[i].osint, NEW p \in DOMAIN rs[i].osint[x]
  PROVE  LET told == {j \in DOMAIN rs : x \in DOMAIN rs[j].osint /\ p \in DOMAIN rs[j].osint[x]}
         IN  i \in told /\ MergeOsint(rs)[x][p] = rs[Highest(told)].osint[x][p]
BY DEF MergeOsint

(* The verdict of the last capture that has one is the one on display.     *)
LEMMA VerdictsAreKept == ViewsInv => VerdictsKept
<1> SUFFICES ASSUME ViewsInv, OnDisplay,
                    NEW i \in DOMAIN Files, NEW x \in DOMAIN Files[i].osint, NEW p \in DOMAIN Files[i].osint[x]
             PROVE  \/ view.osint[x][p] = Files[i].osint[x][p]
                    \/ \E j \in DOMAIN Files : /\ j > i /\ x \in DOMAIN Files[j].osint /\ p \in DOMAIN Files[j].osint[x]
                                               /\ view.osint[x][p] = Files[j].osint[x][p]
  BY DEF VerdictsKept
<1>1. PICK old \in SUBSET swept : \/ Len(opened) = 1 /\ One(Files[1], opened[1] \in old)
                                  \/ Len(opened) > 1 /\ Several(Files, Gone(opened, old))
  BY Displayed
<1>2. DOMAIN Files = 1..Len(opened) /\ Len(opened) \in Nat
  BY FilesAre
<1>3. CASE One(Files[1], opened[1] \in old) /\ Len(opened) = 1
  <2>1. i = 1
    BY <1>2, <1>3
  <2>2. view.osint = Files[1].osint
    BY <1>3, OneShows
  <2> QED BY <2>1, <2>2
<1>4. CASE Several(Files, Gone(opened, old)) /\ Len(opened) > 1
  <2> DEFINE told == {j \in DOMAIN Files : x \in DOMAIN Files[j].osint /\ p \in DOMAIN Files[j].osint[x]}
  <2>1. view.osint = MergeOsint(Files)
    BY <1>4, SeveralShow
  <2>2. i \in told /\ MergeOsint(Files)[x][p] = Files[Highest(told)].osint[x][p]
    BY LastVerdictIs
  <2>3. told \subseteq 1..Len(opened) /\ told \subseteq Int /\ told # {}
    BY <1>2, <2>2
  <2>4. \A j \in told : j \in DOMAIN Files /\ x \in DOMAIN Files[j].osint /\ p \in DOMAIN Files[j].osint[x]
    OBVIOUS
  <2> HIDE DEF told
  <2>5. IsFiniteSet(told)
    BY <1>2, <2>3, PositionsFinite
  <2>6. Highest(told) \in told /\ i <= Highest(told)
    BY <2>2, <2>3, <2>5, ExtremesAre
  <2>7. i = Highest(told) \/ Highest(told) > i
    BY <2>2, <2>3, <2>6
  <2> QED BY <2>1, <2>2, <2>4, <2>6, <2>7
<1> QED BY <1>1, <1>3, <1>4

(* A gap is a detector that has not run.                                   *)
LEMMA GapsAre ==
  ASSUME NEW s
  PROVE  LET gaps == BuildCaptureMetrics(s).gaps
         IN  /\ "dns" \in gaps => s.dns.kind \in {"none", "error"}
             /\ "yara" \in gaps => s.yara.kind = "none"
             /\ "zeek" \in gaps => ~s.zeek
<1>1. BuildCaptureMetrics(s).gaps = {d \in Detectors : DetectorStatus(s)[d] # "available"}
  BY MetricsAre
<1>2. {"dns", "yara", "zeek"} \subseteq Detectors
  BY DEF Detectors
<1>3. /\ DetectorStatus(s)["zeek"] = IF s.zeek THEN "available" ELSE "unavailable"
      /\ DetectorStatus(s)["dns"] = IF s.dns.kind \in {"none", "error"} THEN "partial" ELSE "available"
      /\ DetectorStatus(s)["yara"] = IF s.yara.kind = "none" THEN "unavailable" ELSE "available"
  BY <1>2 DEF DetectorStatus
<1> QED BY <1>1, <1>3

(* A gap of a batch is a gap of each of its captures.                      *)
LEMMA GapsAreGaps == ViewsInv => GapsAreReal
<1> SUFFICES ASSUME ViewsInv, OnDisplay
             PROVE  /\ "dns"  \in view.metrics.gaps => \A i \in DOMAIN Files : Files[i].dns.kind # "ran"
                    /\ "yara" \in view.metrics.gaps => \A i \in DOMAIN Files : Files[i].yara.kind = "none"
                    /\ "zeek" \in view.metrics.gaps => \A i \in DOMAIN Files : ~Files[i].zeek
  BY DEF GapsAreReal
<1>1. PICK old \in SUBSET swept : \/ Len(opened) = 1 /\ One(Files[1], opened[1] \in old)
                                  \/ Len(opened) > 1 /\ Several(Files, Gone(opened, old))
  BY Displayed
<1>2. /\ DOMAIN Files = 1..Len(opened) /\ Len(opened) \in Nat
      /\ \A i \in DOMAIN Files : AnalysisOK(Files[i])
  BY FilesAre
<1>3. CASE One(Files[1], opened[1] \in old) /\ Len(opened) = 1
  <2> DEFINE r == Files[1]
             of == [packets |-> r.packets, flows |-> r.flows, zeek |-> r.zeek, dns |-> r.dns, yara |-> r.yara]
  <2>1. DOMAIN Files = {1}
    BY <1>2, <1>3
  <2>2. r.metrics = BuildCaptureMetrics(of)
    BY <1>2, <2>1 DEF AnalysisOK
  <2>3. view.metrics = r.metrics
    BY <1>3, OneShows
  <2>4. of.dns = r.dns /\ of.yara = r.yara /\ of.zeek = r.zeek
    OBVIOUS
  <2> HIDE DEF of
  <2> QED BY <2>1, <2>2, <2>3, <2>4, GapsAre
<1>4. CASE Several(Files, Gone(opened, old)) /\ Len(opened) > 1
  <2> DEFINE of == [packets |-> view.packets, flows |-> AllFlows(Files), dns |-> AggregateDns(Files),
                    zeek |-> \E i \in DOMAIN Files : Files[i].zeek, yara |-> MergeYara(Files)]
  <2>1. view.metrics = BuildCaptureMetrics(of)
    BY <1>4, SeveralShow
  <2>2. of.dns = AggregateDns(Files) /\ of.yara = MergeYara(Files) /\ of.zeek = \E i \in DOMAIN Files : Files[i].zeek
    OBVIOUS
  <2> HIDE DEF of
  <2>3. AggregateDns(Files).kind = "ran"
    BY DEF AggregateDns
  <2>4. MergeYara(Files).kind = "none" => \A i \in DOMAIN Files : Files[i].yara.kind = "none"
    BY DEF MergeYara
  <2> QED BY <2>1, <2>2, <2>3, <2>4, GapsAre
<1> QED BY <1>1, <1>3, <1>4

(* The reports of a batch are those of its captures that have one.         *)
LEMMA ReportsAre ==
  ASSUME NEW rs, IsSequence(rs)
  PROVE  Entries(Reports(rs)) = {<<rs[i].name, rs[i].report>> : i \in {i \in DOMAIN rs : rs[i].report # ""}}
<1> DEFINE f(i) == IF rs[i].report = "" THEN <<>> ELSE <<<<rs[i].name, rs[i].report>>>>
           n == Len(rs)
           ls == [i \in 1..n |-> f(i)]
<1>1. n \in Nat /\ DOMAIN rs = 1..n
  BY SequenceIs
<1>2. Reports(rs) = Joined(ls)
  BY <1>1 DEF Reports
<1>3. \A i \in 1..n : ls[i] = f(i)
  OBVIOUS
<1>4. \A i \in 1..n : /\ IsSequence(f(i))
                      /\ Entries(f(i)) = IF rs[i].report = "" THEN {} ELSE {<<rs[i].name, rs[i].report>>}
  <2> SUFFICES ASSUME NEW i \in 1..n
               PROVE  /\ IsSequence(f(i))
                      /\ Entries(f(i)) = IF rs[i].report = "" THEN {} ELSE {<<rs[i].name, rs[i].report>>}
    OBVIOUS
  <2>1. Entries(<<>>) = {} /\ IsSequence(<<>>)
    BY DEF Entries, IsSequence
  <2>2. \A p : Entries(<<p>>) = {p} /\ IsSequence(<<p>>)
    BY DEF Entries, IsSequence
  <2> QED BY <2>1, <2>2
<1>5. Len(ls) = n
  BY <1>1, EachIs
<1> HIDE DEF ls, n
<1>6. Entries(Joined(ls)) = UNION {Entries(ls[j]) : j \in 1..n}
  <2>1. \A i \in 1..n : IsSequence(ls[i])
    BY <1>3, <1>4
  <2> QED BY <1>1, <1>5, <2>1, JoinedIs
<1>7. UNION {Entries(ls[j]) : j \in 1..n} = {<<rs[i].name, rs[i].report>> : i \in {i \in 1..n : rs[i].report # ""}}
  <2>1. \A j \in 1..n : Entries(ls[j]) = IF rs[j].report = "" THEN {} ELSE {<<rs[j].name, rs[j].report>>}
    BY <1>3, <1>4
  <2> HIDE DEF f
  <2> QED BY <2>1
<1> QED BY <1>1, <1>2, <1>6, <1>7

(* Each report on display stands under the name of its capture.            *)
LEMMA ReportsAreNamed == ViewsInv => ReportsUnderTheirNames
<1> SUFFICES ASSUME ViewsInv, OnDisplay
             PROVE  Entries(view.reports) = {<<Files[i].name, Files[i].report>> : i \in {i \in DOMAIN Files : Files[i].report # ""}}
  BY DEF ReportsUnderTheirNames, Entries
<1>1. PICK old \in SUBSET swept : \/ Len(opened) = 1 /\ One(Files[1], opened[1] \in old)
                                  \/ Len(opened) > 1 /\ Several(Files, Gone(opened, old))
  BY Displayed
<1>2. DOMAIN Files = 1..Len(opened) /\ Len(opened) \in Nat /\ IsSequence(Files)
  BY FilesAre
<1>3. CASE One(Files[1], opened[1] \in old) /\ Len(opened) = 1
  <2> DEFINE rs == <<Files[1]>>
  <2>1. DOMAIN rs = {1} /\ rs[1] = Files[1] /\ IsSequence(rs)
    BY DEF IsSequence, Entries
  <2>2. view.reports = Reports(rs)
    BY <1>3, OneShows
  <2>3. DOMAIN Files = {1}
    BY <1>2, <1>3
  <2> HIDE DEF rs
  <2>4. Entries(Reports(rs)) = {<<rs[i].name, rs[i].report>> : i \in {i \in DOMAIN rs : rs[i].report # ""}}
    BY <2>1, ReportsAre
  <2> DEFINE D == {i \in DOMAIN Files : Files[i].report # ""}
  <2>5. {i \in DOMAIN rs : rs[i].report # ""} = D
    BY <2>1, <2>3
  <2>6. \A i \in D : rs[i] = Files[i]
    BY <2>1, <2>3
  <2> HIDE DEF D
  <2>7. {<<rs[i].name, rs[i].report>> : i \in D} = {<<Files[i].name, Files[i].report>> : i \in D}
    BY <2>6
  <2>8. Entries(view.reports) = {<<rs[i].name, rs[i].report>> : i \in D}
    BY <2>2, <2>4, <2>5
  <2> QED BY <2>7, <2>8 DEF D
<1>4. CASE Several(Files, Gone(opened, old)) /\ Len(opened) > 1
  <2>1. view.reports = Reports(Files)
    BY <1>4, SeveralShow
  <2> QED BY <1>2, <2>1, ReportsAre
<1> QED BY <1>1, <1>3, <1>4

(* A fingerprint of malware has a row of its log as long as the log is on  *)
(* disk.                                                                   *)
LEMMA RowsAre ==
  ASSUME NEW log, IsSequence(log), NEW gone
  PROVE  /\ IsSequence(Ja3Rows(log, gone))
         /\ gone = FALSE => \A j \in DOMAIN log : IsMalware(log[j]) => log[j] \in Entries(Ja3Rows(log, gone))
<1> DEFINE at == {i \in DOMAIN log : log[i].ja3 # "" \/ log[i].ja3s # ""}
<1>1. Len(log) \in Nat /\ at \subseteq 1..Len(log)
  BY SequenceIs
<1>2. Ja3Rows(log, gone) = IF gone THEN <<>> ELSE Picked(log, at)
  BY DEF Ja3Rows
<1>3. IsSequence(<<>>)
  BY DEF IsSequence, Entries
<1>4. \A j \in DOMAIN log : IsMalware(log[j]) => j \in at
  BY DetectionsAssumption DEF IsMalware
<1> HIDE DEF at
<1>5. IsSequence(Picked(log, at)) /\ Entries(Picked(log, at)) = {log[i] : i \in at}
  BY <1>1, PickedIs
<1> QED BY <1>2, <1>3, <1>4, <1>5

(* Rows that are the same are taken once, and none is lost.                *)
LEMMA DistinctIs ==
  ASSUME NEW rows, IsSequence(rows)
  PROVE  IsSequence(Distinct(rows)) /\ Entries(Distinct(rows)) = Entries(rows)
<1> DEFINE at == {i \in DOMAIN rows : \A j \in 1..(i - 1) : rows[j] # rows[i]}
<1>1. Len(rows) \in Nat /\ DOMAIN rows = 1..Len(rows)
  BY SequenceIs
<1>2. \A d \in Entries(rows) : \E i \in at : rows[i] = d
  <2> TAKE d \in Entries(rows)
  <2> DEFINE where == {i \in DOMAIN rows : rows[i] = d}
  <2>1. where \subseteq Nat /\ where # {}
    BY <1>1 DEF Entries
  <2>2. PICK i \in where : \A j \in where : i <= j
    <3> HIDE DEF where
    <3> QED BY <2>1, LeastNumber
  <2>3. \A j \in 1..(i - 1) : rows[j] # rows[i]
    BY <1>1, <2>2
  <2> QED BY <2>2, <2>3
<1>3. at \subseteq 1..Len(rows)
  BY <1>1
<1>4. Distinct(rows) = Picked(rows, at)
  BY DEF Distinct
<1> HIDE DEF at
<1>5. IsSequence(Picked(rows, at)) /\ Entries(Picked(rows, at)) = {rows[i] : i \in at}
  BY <1>1, <1>3, PickedIs
<1>6. {rows[i] : i \in at} = Entries(rows)
  BY <1>1, <1>2, <1>3 DEF Entries
<1> QED BY <1>4, <1>5, <1>6

(* Every row with a fingerprint of malware is told.                        *)
LEMMA MalwareIs ==
  ASSUME NEW rows, NEW row \in Entries(rows), IsMalware(row)
  PROVE  row \in AnalyzeJa3(rows).malware
BY DEF AnalyzeJa3, Entries

(* So fingerprints of malware are shown of all logs opened.                *)
LEMMA MalwareIsShown == ViewsInv => MalwareOfEveryLogShown
<1> SUFFICES ASSUME ViewsInv, OnDisplay, NEW i \in DOMAIN opened, opened[i] \notin swept,
                    NEW j \in DOMAIN saved[opened[i]].ssl, IsMalware(saved[opened[i]].ssl[j])
             PROVE  saved[opened[i]].ssl[j] \in view.ja3.malware
  BY DEF MalwareOfEveryLogShown
<1>1. PICK old \in SUBSET swept : \/ Len(opened) = 1 /\ One(Files[1], opened[1] \in old)
                                  \/ Len(opened) > 1 /\ Several(Files, Gone(opened, old))
  BY Displayed
<1>2. /\ DOMAIN Files = 1..Len(opened) /\ DOMAIN opened = 1..Len(opened) /\ Len(opened) \in Nat
      /\ \A k \in 1..Len(opened) : Files[k] = saved[opened[k]] /\ IsSequence(Files[k].ssl)
  BY FilesAre DEF AnalysisOK
<1> DEFINE row == saved[opened[i]].ssl[j]
<1>3. i \in 1..Len(opened) /\ j \in DOMAIN Files[i].ssl /\ row = Files[i].ssl[j] /\ IsMalware(row) /\ opened[i] \notin old
  BY <1>1, <1>2
<1> HIDE DEF row
<1>4. CASE One(Files[1], opened[1] \in old) /\ Len(opened) = 1
  <2>1. i = 1
    BY <1>3, <1>4
  <2>2. view.ja3 = AnalyzeJa3(Ja3Rows(Files[1].ssl, opened[1] \in old))
    BY <1>4, OneShows
  <2> DEFINE g == opened[1] \in old
  <2>a. g = FALSE
    BY <1>3, <2>1
  <2> HIDE DEF g
  <2>3. row \in Entries(Ja3Rows(Files[1].ssl, g))
    BY <1>2, <1>3, <2>1, <2>a, RowsAre
  <2>4. row \in view.ja3.malware
    BY <1>3, <2>2, <2>3, MalwareIs DEF g
  <2> QED BY <2>4 DEF row
<1>5. CASE Several(Files, Gone(opened, old)) /\ Len(opened) > 1
  <2> DEFINE gone == Gone(opened, old)
             ls == [k \in DOMAIN Files |-> Ja3Rows(Files[k].ssl, gone[k])]
             rows == Joined(ls)
  <2>1. /\ DOMAIN ls = 1..Len(opened) /\ Len(ls) = Len(opened)
        /\ \A k \in 1..Len(opened) : ls[k] = Ja3Rows(Files[k].ssl, gone[k])
    BY <1>2, EachIs
  <2>2. gone[i] = FALSE
    <3> DEFINE g == opened[i] \in old
    <3>1. gone[i] = g
      BY <1>2, <1>3 DEF Gone
    <3>2. g = FALSE
      BY <1>3
    <3> HIDE DEF g
    <3> QED BY <3>1, <3>2
  <2>3. Ja3OfAll(Files, gone) = AnalyzeJa3(rows) \/ Ja3OfAll(Files, gone) = AnalyzeJa3(Distinct(rows))
    <3>1. Ja3OfAll(Files, gone) =
            AnalyzeJa3(IF Cardinality({k \in DOMAIN Files : Files[k].zeek}) > 1 THEN Distinct(rows) ELSE rows)
      BY DEF Ja3OfAll
    <3> HIDE DEF rows, gone
    <3> QED BY <3>1
  <2>4. view.ja3 = Ja3OfAll(Files, gone)
    BY <1>5, SeveralShow
  <2> HIDE DEF gone, ls
  <2>5. \A k \in 1..Len(ls) : IsSequence(ls[k])
    <3> TAKE k \in 1..Len(ls)
    <3>1. IsSequence(Ja3Rows(Files[k].ssl, gone[k]))
      BY <1>2, <2>1, RowsAre
    <3> QED BY <2>1, <3>1
  <2>6. row \in Entries(ls[i])
    BY <1>2, <1>3, <2>1, <2>2, RowsAre
  <2>7. IsSequence(rows) /\ row \in Entries(rows)
    BY <1>2, <1>3, <2>1, <2>5, <2>6, JoinedIs
  <2> HIDE DEF rows
  <2>8. row \in Entries(Distinct(rows))
    BY <2>7, DistinctIs
  <2>9. row \in view.ja3.malware
    BY <1>3, <2>3, <2>4, <2>7, <2>8, MalwareIs
  <2> QED BY <2>9 DEF row
<1> QED BY <1>1, <1>4, <1>5

(* The payloads told as critical are those with the sign of a malware      *)
(* rule.                                                                   *)
LEMMA ScannedIs ==
  ASSUME NEW carved, NEW files, ScanCarved(carved, files).kind = "scanned"
  PROVE  LET bad == {i \in DOMAIN carved : /\ carved[i].readable
                                           /\ \E r \in Rules(files) : r.tag = "malware" /\ r.finds \in carved[i].signs}
         IN  ScanCarved(carved, files).by_severity["critical"] = Cardinality(bad)
<1> DEFINE rules == Rules(files)
           found == [i \in DOMAIN carved |-> Tags(carved[i], rules)]
           scan == [kind        |-> "scanned",
                    matched     |-> CountIn(found, LAMBDA t : t # {}),
                    errors      |-> CountIn(carved, LAMBDA p : ~p.readable),
                    by_severity |-> [s \in Severities |-> CountIn(found, LAMBDA t : SeverityOf(t) = s)]]
           bad == {i \in DOMAIN carved : /\ carved[i].readable
                                         /\ \E r \in rules : r.tag = "malware" /\ r.finds \in carved[i].signs}
<1>1. ScanCarved(carved, files) = IF carved = <<>> THEN NoYara
                                  ELSE IF rules = {} THEN [kind |-> "error", matched |-> 0] ELSE scan
  BY DEF ScanCarved
<1>2. NoYara.kind # "scanned" /\ [kind |-> "error", matched |-> 0].kind # "scanned"
  BY DEF NoYara
<1>3. scan.by_severity["critical"] = Cardinality({i \in DOMAIN found : SeverityOf(found[i]) = "critical"})
  <2>1. "critical" \in Severities
    BY DEF Severities
  <2>2. scan.by_severity["critical"] = CountIn(found, LAMBDA t : SeverityOf(t) = "critical")
    BY <2>1
  <2> HIDE DEF scan, found
  <2> QED BY <2>2 DEF CountIn
<1>4. {i \in DOMAIN found : SeverityOf(found[i]) = "critical"} = bad
  <2>1. \A t : SeverityOf(t) = "critical" <=> "malware" \in t
    BY DEF SeverityOf
  <2>2. \A i \in DOMAIN carved : "malware" \in Tags(carved[i], rules) <=> i \in bad
    BY DEF Tags
  <2>3. DOMAIN found = DOMAIN carved /\ \A i \in DOMAIN carved : found[i] = Tags(carved[i], rules)
    OBVIOUS
  <2>4. bad \subseteq DOMAIN carved
    OBVIOUS
  <2> HIDE DEF found, bad, rules
  <2> QED BY <2>1, <2>2, <2>3, <2>4
<1> HIDE DEF scan, found
<1>5. ScanCarved(carved, files) = scan
  BY <1>1, <1>2
<1> QED BY <1>3, <1>4, <1>5

(* So it is on the page of one analysis.                                   *)
LEMMA WorstRules == ViewsInv => WorstRuleDecides
<1> SUFFICES ASSUME ViewsInv, view.page = "single", view.yara.kind = "scanned"
             PROVE  LET bad == {i \in DOMAIN Files[1].carved :
                                  /\ Files[1].carved[i].readable
                                  /\ \E r \in Files[1].rules : r.tag = "malware" /\ r.finds \in Files[1].carved[i].signs}
                    IN  view.yara.by_severity["critical"] = Cardinality(bad)
  BY DEF WorstRuleDecides
<1>1. PICK old \in SUBSET swept : \/ Len(opened) = 1 /\ One(Files[1], opened[1] \in old)
                                  \/ Len(opened) > 1 /\ Several(Files, Gone(opened, old))
  BY Displayed DEF OnDisplay
<1>2. Len(opened) = 1 /\ One(Files[1], opened[1] \in old)
  BY <1>1, SeveralShow
<1>3. view.yara = Files[1].yara
  BY <1>2, OneShows
<1>4. AnalysisOK(Files[1])
  BY <1>2, FilesAre
<1>5. PICK files : Files[1].yara = ScanCarved(Files[1].carved, files) /\ Files[1].rules = Rules(files)
  BY <1>4 DEF AnalysisOK
<1> QED BY <1>3, <1>5, ScannedIs

-----------------------------------------------------------------------------
(* DNS detections.                                                         *)
LEMMA CutShows ==
  ASSUME NEW xs, DetectionsOK(xs), NEW m \in Nat, NEW d \in Entries(xs)
  PROVE  LET kept     == FirstOf(ByScore(xs), m)
             stronger == {n \in DOMAIN kept : kept[n].score >= d.score}
         IN  d \in {kept[n] : n \in stronger} \/ Cardinality(stronger) = m
<1> DEFINE ys == ByScore(xs)
           kept == FirstOf(ys, m)
           stronger == {n \in DOMAIN kept : kept[n].score >= d.score}
<1>1. IsSequence(xs) /\ (\A e \in Entries(xs) : e.score \in Int) /\ Len(xs) \in Nat
  BY SequenceIs DEF DetectionsOK
<1>2. /\ IsSequence(ys) /\ Len(ys) = Len(xs) /\ Entries(ys) = Entries(xs)
      /\ \A i, j \in 1..Len(xs) : i < j => ys[i].score >= ys[j].score
  BY <1>1, ByScoreIs
<1> HIDE DEF ys
<1>3. DOMAIN ys = 1..Len(xs)
  BY <1>2, SequenceIs
<1>4. PICK n \in 1..Len(xs) : ys[n] = d
  BY <1>2, <1>3 DEF Entries
<1>5. /\ DOMAIN kept = 1..Lesser(m, Len(ys)) /\ \A i \in 1..Lesser(m, Len(ys)) : kept[i] = ys[i]
  BY <1>2, FirstOfIs
<1>6. d.score \in Int
  BY <1>1
<1> HIDE DEF kept
<1>7. CASE n <= m
  <2>1. n \in DOMAIN kept /\ kept[n] = d
    BY <1>1, <1>2, <1>4, <1>5, <1>7 DEF Lesser
  <2>2. n \in stronger
    BY <1>6, <2>1
  <2> QED BY <2>1, <2>2 DEF kept, ys
<1>8. CASE ~(n <= m)
  <2>1. Lesser(m, Len(ys)) = m
    BY <1>1, <1>2, <1>4, <1>8 DEF Lesser
  <2>2. \A i \in 1..m : kept[i].score >= d.score
    <3> TAKE i \in 1..m
    <3>1. i < n /\ i \in 1..Len(xs)
      BY <1>1, <1>4, <1>8
    <3> QED BY <1>2, <1>4, <1>5, <2>1, <3>1
  <2>3. stronger = 1..m
    BY <1>5, <2>1, <2>2
  <2> HIDE DEF stronger
  <2>4. Cardinality(stronger) = m
    BY <2>3, PositionsAre
  <2> QED BY <2>4 DEF stronger, kept, ys
<1> QED BY <1>1, <1>4, <1>7, <1>8

(* The detections of all analyses, of one kind                             *)
All(rs, k) == Joined([i \in DOMAIN rs |-> Found(rs[i], k)])

(* The detections of a batch are those of its captures.                    *)
LEMMA AllIs ==
  ASSUME ViewsInv, NEW k \in DnsKinds
  PROVE  /\ DetectionsOK(All(Files, k))
         /\ \A i \in DOMAIN Files : /\ DetectionsOK(Found(Files[i], k))
                                    /\ Entries(Found(Files[i], k)) \subseteq Entries(All(Files, k))
<1> DEFINE n == Len(opened)
           ls == [i \in DOMAIN Files |-> Found(Files[i], k)]
<1>1. DOMAIN Files = 1..n /\ n \in Nat /\ \A i \in 1..n : DnsOK(Files[i].dns)
  BY FilesAre DEF AnalysisOK
<1>2. DetectionsOK(<<>>)
  BY DEF DetectionsOK, IsSequence, Entries
<1>3. \A i \in 1..n : DetectionsOK(Found(Files[i], k))
  BY <1>1, <1>2 DEF Found, DnsOK
<1>4. Len(ls) = n /\ \A i \in 1..n : ls[i] = Found(Files[i], k)
  BY <1>1, EachIs
<1>5. All(Files, k) = Joined(ls)
  BY DEF All
<1> HIDE DEF ls, n
<1>6. \A i \in 1..n : DetectionsOK(ls[i]) /\ IsSequence(ls[i])
  BY <1>3, <1>4 DEF DetectionsOK
<1>7. IsSequence(Joined(ls)) /\ Entries(Joined(ls)) = UNION {Entries(ls[j]) : j \in 1..n}
  BY <1>1, <1>4, <1>6, JoinedIs
<1>8. DetectionsOK(Joined(ls))
  BY <1>6, <1>7 DEF DetectionsOK
<1>9. \A i \in 1..n : Entries(ls[i]) \subseteq Entries(Joined(ls))
  BY <1>7
<1> QED BY <1>1, <1>3, <1>4, <1>5, <1>8, <1>9

(* What aggregate_dns_analysis() returns of one kind.                      *)
LEMMA AggregatedIs ==
  ASSUME NEW rs, NEW k \in DnsKinds
  PROVE  /\ AggregateDns(rs).kind = "ran"
         /\ AggregateDns(rs).found[k] = FirstOf(ByScore(All(rs, k)), MAX_RESULTS[k])
         /\ AggregateDns(rs).alerts[k] = CountIn(All(rs, k), LAMBDA d : d.hit)
BY DEF AggregateDns, All

(* No detection that is left out is stronger than one on display.          *)
LEMMA StrongestAreShown == ViewsInv => StrongestDetectionsShown
<1> SUFFICES ASSUME ViewsInv, OnDisplay, view.dns.kind = "ran", NEW k \in DnsKinds,
                    NEW i \in DOMAIN Files, NEW d \in Entries(Found(Files[i], k))
             PROVE  LET stronger == {n \in DOMAIN view.dns.found[k] : view.dns.found[k][n].score >= d.score}
                    IN  \/ d \in {view.dns.found[k][n] : n \in stronger}
                        \/ Cardinality(stronger) = MAX_RESULTS[k]
  BY DEF StrongestDetectionsShown, Entries
<1>1. PICK old \in SUBSET swept : \/ Len(opened) = 1 /\ One(Files[1], opened[1] \in old)
                                  \/ Len(opened) > 1 /\ Several(Files, Gone(opened, old))
  BY Displayed
<1>2. DOMAIN Files = 1..Len(opened) /\ Len(opened) \in Nat
  BY FilesAre
<1>3. CASE One(Files[1], opened[1] \in old) /\ Len(opened) = 1
  <2>1. i = 1
    BY <1>2, <1>3
  <2>2. view.dns = Files[1].dns
    BY <1>3, OneShows
  <2>3. Found(Files[i], k) = view.dns.found[k]
    BY <2>1, <2>2 DEF Found
  <2>4. DetectionsOK(view.dns.found[k])
    BY <2>3, AllIs
  <2> DEFINE found == view.dns.found[k]
  <2>5. PICK n \in DOMAIN found : found[n] = d
    BY <2>3 DEF Entries
  <2>6. d.score \in Int
    BY <2>3, <2>4 DEF DetectionsOK
  <2> HIDE DEF found
  <2>7. n \in {m \in DOMAIN found : found[m].score >= d.score}
    BY <2>5, <2>6
  <2> QED BY <2>5, <2>7 DEF found
<1>4. CASE Several(Files, Gone(opened, old)) /\ Len(opened) > 1
  <2>1. view.dns = AggregateDns(Files)
    BY <1>4, SeveralShow
  <2>2. view.dns.found[k] = FirstOf(ByScore(All(Files, k)), MAX_RESULTS[k])
    BY <2>1, AggregatedIs
  <2>3. DetectionsOK(All(Files, k)) /\ d \in Entries(All(Files, k)) /\ MAX_RESULTS[k] \in Nat
    BY AllIs, BatchAssumption
  <2> QED BY <2>2, <2>3, CutShows
<1> QED BY <1>1, <1>3, <1>4

(* The alerts of a batch are those of its captures, added up.              *)
LEMMA AlertsDoAddUp == ViewsInv => AlertsAddUp
<1> SUFFICES ASSUME ViewsInv, view.page = "merged", NEW k \in DnsKinds,
                    \A i \in DOMAIN Files : Len(Found(Files[i], k)) < MAX_RESULTS[k]
             PROVE  view.dns.alerts[k] =
                      Total([i \in DOMAIN Files |-> IF Files[i].dns.kind = "ran" THEN Files[i].dns.alerts[k] ELSE 0])
  BY DEF AlertsAddUp
<1>1. PICK old \in SUBSET swept : \/ Len(opened) = 1 /\ One(Files[1], opened[1] \in old)
                                  \/ Len(opened) > 1 /\ Several(Files, Gone(opened, old))
  BY Displayed DEF OnDisplay
<1>2. Several(Files, Gone(opened, old))
  BY <1>1, OneShows
<1> DEFINE n == Len(opened)
           all == All(Files, k)
           T == {d \in Entries(all) : d.hit}
           ls == [i \in DOMAIN Files |-> Found(Files[i], k)]
<1>3. DOMAIN Files = 1..n /\ n \in Nat /\ \A i \in 1..n : DnsOK(Files[i].dns)
  BY FilesAre DEF AnalysisOK
<1>4. view.dns.alerts[k] = CountIn(all, LAMBDA d : d.hit)
  <2>1. view.dns = AggregateDns(Files)
    BY <1>2, SeveralShow
  <2> QED BY <2>1, AggregatedIs
<1>5. CountIn(all, LAMBDA d : d.hit) = Cardinality(Hits(all, T))
  <2>1. {m \in DOMAIN all : all[m].hit} = Hits(all, T)
    BY DEF Hits, Entries
  <2> HIDE DEF all, T
  <2> QED BY <2>1 DEF CountIn
<1>6. Len(ls) = n /\ \A i \in 1..n : ls[i] = Found(Files[i], k)
  BY <1>3, EachIs
<1>7. \A i \in 1..n : DetectionsOK(Found(Files[i], k)) /\ Entries(Found(Files[i], k)) \subseteq Entries(all)
  BY <1>3, AllIs
<1>8. all = Joined(ls)
  BY DEF All
<1> HIDE DEF ls, all
<1>9. Cardinality(Hits(all, T)) = Total([i \in 1..n |-> Cardinality(Hits(ls[i], T))])
  <2>1. \A i \in 1..n : IsSequence(ls[i])
    BY <1>6, <1>7 DEF DetectionsOK
  <2> HIDE DEF T, n
  <2> QED BY <1>3, <1>6, <1>8, <2>1, HitsJoined
<1>10. ASSUME NEW i \in 1..n
       PROVE  Cardinality(Hits(ls[i], T)) = IF Files[i].dns.kind = "ran" THEN Files[i].dns.alerts[k] ELSE 0
  <2>1. CASE Files[i].dns.kind = "ran"
    <3> DEFINE found == Files[i].dns.found[k]
    <3>1. ls[i] = found /\ Found(Files[i], k) = found
      BY <1>6, <2>1 DEF Found
    <3>2. Files[i].dns.alerts[k] = CountIn(found, LAMBDA d : d.hit)
      BY <1>3, <2>1, <3>1 DEF DnsOK
    <3>3. {m \in DOMAIN found : found[m].hit} = Hits(found, T)
      <4>1. \A m \in DOMAIN found : found[m] \in Entries(all)
        BY <1>7, <3>1 DEF Entries
      <4> HIDE DEF found
      <4> QED BY <4>1 DEF Hits
    <3> HIDE DEF found, T
    <3> QED BY <2>1, <3>1, <3>2, <3>3 DEF CountIn
  <2>2. CASE Files[i].dns.kind # "ran"
    <3>1. ls[i] = <<>>
      BY <1>6, <2>2 DEF Found
    <3>2. Hits(ls[i], T) = {}
      BY <3>1 DEF Hits
    <3> QED BY <2>2, <3>2, FS_EmptySet
  <2> QED BY <2>1, <2>2
<1>11. [i \in 1..n |-> Cardinality(Hits(ls[i], T))]
         = [i \in DOMAIN Files |-> IF Files[i].dns.kind = "ran" THEN Files[i].dns.alerts[k] ELSE 0]
  <2> HIDE DEF T, n
  <2> QED BY <1>3, <1>10
<1> HIDE DEF T, n
<1> QED BY <1>4, <1>5, <1>9, <1>11

-----------------------------------------------------------------------------
(* Indicators that captures share.                                         *)
CountOf(rs, x) == Cardinality(FilesOf(rs, x))
Ahead(rs, x, y) ==
  CountOf(rs, x) > CountOf(rs, y) \/ (CountOf(rs, x) = CountOf(rs, y) /\ Collected(rs, x, y))
SharedOrder(rs) == {p \in Shared(rs) \X Shared(rs) : Ahead(rs, p[1], p[2])}

(* There are finitely many shared indicators, each in two captures or      *)
(* more.                                                                   *)
LEMMA SharedIs ==
  ASSUME ViewsInv
  PROVE  /\ IsFiniteSet(Shared(Files)) /\ Shared(Files) \subseteq Indicators(Files)
         /\ \A x \in Indicators(Files) : /\ x \in Int \X Int
                                         /\ CountOf(Files, x) \in Nat /\ Lowest(FilesOf(Files, x)) \in Int
                                         /\ x \in Shared(Files) <=> CountOf(Files, x) >= 2
<1> DEFINE n == Len(opened)
<1>1. /\ DOMAIN Files = 1..n /\ n \in Nat
      /\ \A i \in 1..n : IsFiniteSet(Files[i].indicators) /\ Files[i].indicators \subseteq Int \X Int
  BY FilesAre DEF AnalysisOK
<1> HIDE DEF n
<1>2. ASSUME NEW x \in Indicators(Files)
      PROVE  /\ x \in Int \X Int /\ CountOf(Files, x) \in Nat /\ Lowest(FilesOf(Files, x)) \in Int
             /\ x \in Shared(Files) <=> CountOf(Files, x) >= 2
  <2>1. FilesOf(Files, x) \subseteq 1..n /\ FilesOf(Files, x) # {} /\ x \in Int \X Int
    BY <1>1, <1>2 DEF FilesOf, Indicators
  <2>2. IsFiniteSet(FilesOf(Files, x)) /\ CountOf(Files, x) \in Nat
    BY <1>1, <2>1, PositionsFinite DEF CountOf
  <2>3. Lowest(FilesOf(Files, x)) \in Int
    BY <2>1, <2>2, ExtremesAre
  <2>4. x \in Shared(Files) <=> CountOf(Files, x) > 1
    BY <1>2 DEF Shared, CountOf
  <2> QED BY <2>1, <2>2, <2>3, <2>4
<1>3. Shared(Files) \subseteq Indicators(Files)
  BY DEF Shared
<1>4. IsFiniteSet(Indicators(Files))
  <2> DEFINE all == {Files[i].indicators : i \in 1..n}
  <2>1. IsFiniteSet(1..n)
    BY <1>1, PositionsAre
  <2>2. IsFiniteSet(all)
    <3> DEFINE f == [i \in 1..n |-> Files[i].indicators]
    <3>1. f \in Surjection(1..n, all)
      BY DEF Surjection
    <3> HIDE DEF f, all
    <3> QED BY <2>1, <3>1, FS_Surjection
  <2>3. \A A \in all : IsFiniteSet(A)
    BY <1>1
  <2>4. Indicators(Files) = UNION all
    BY <1>1 DEF Indicators
  <2> HIDE DEF all
  <2> QED BY <2>2, <2>3, <2>4, FS_UNION
<1>5. IsFiniteSet(Shared(Files))
  BY <1>3, <1>4, FS_Subset
<1> QED BY <1>2, <1>3, <1>5

(* The order they are listed in is strict: by captures, then as collected. *)
LEMMA SharedOrdered ==
  ASSUME ViewsInv
  PROVE  StrictOrder(SharedOrder(Files), Shared(Files))
<1> DEFINE S == Shared(Files)
           R == SharedOrder(Files)
           low(x) == Lowest(FilesOf(Files, x))
           count(x) == CountOf(Files, x)
<1>1. \A x \in S : /\ count(x) \in Int /\ low(x) \in Int /\ x[1] \in Int /\ x[2] \in Int /\ x = <<x[1], x[2]>>
  BY SharedIs
<1>2. \A x, y \in S : <<x, y>> \in R <=>
        \/ count(x) > count(y)
        \/ /\ count(x) = count(y)
           /\ \/ x[1] < y[1]
              \/ x[1] = y[1] /\ low(x) < low(y)
              \/ x[1] = y[1] /\ low(x) = low(y) /\ x[2] < y[2]
  BY DEF SharedOrder, Ahead, Collected
<1> HIDE DEF S, R, low, count
<1>3. \A x \in S : <<x, x>> \notin R
  BY <1>1, <1>2
<1>4. ASSUME NEW x \in S, NEW y \in S, NEW z \in S, <<x, y>> \in R, <<y, z>> \in R  PROVE <<x, z>> \in R
  BY <1>1, <1>2, <1>4
<1>5. ASSUME NEW x \in S, NEW y \in S, x # y  PROVE <<x, y>> \in R \/ <<y, x>> \in R
  <2>1. x[1] # y[1] \/ x[2] # y[2]
    BY <1>1, <1>5
  <2>2. /\ count(x) \in Int /\ low(x) \in Int /\ x[1] \in Int /\ x[2] \in Int
        /\ count(y) \in Int /\ low(y) \in Int /\ y[1] \in Int /\ y[2] \in Int
    BY <1>1
  <2> QED BY <1>2, <2>1, <2>2
<1> QED BY <1>3, <1>4, <1>5 DEF StrictOrder, S, R

(* What is listed of the shared indicators                                 *)
LEMMA CommonIs ==
  ASSUME ViewsInv
  PROVE  \E L : /\ Listed(L, Shared(Files), SharedOrder(Files))
                /\ Common(Files) = FirstOf(L, MAX_COMMON_INDICATORS)
<1> DEFINE S == Shared(Files)
           R == SharedOrder(Files)
           A == {<<Cardinality({y \in S : Ahead(Files, y, x)}) + 1, x>> : x \in S}
           B == {<<Rank(R, S, x), x>> : x \in S}
           L == [k \in 1..Cardinality(S) |-> (CHOOSE p \in A : p[1] = k)[2]]
<1>1. \A x \in S : {y \in S : Ahead(Files, y, x)} = Below(R, S, x)
  BY DEF Below, SharedOrder
<1>2. A = B
  BY <1>1 DEF Rank
<1>3. Common(Files) = FirstOf(L, MAX_COMMON_INDICATORS)
  BY DEF Common, Listing, Ahead, CountOf
<1>4. L = [k \in 1..Cardinality(S) |-> (CHOOSE p \in B : p[1] = k)[2]]
  <2> HIDE DEF A, B
  <2> QED BY <1>2
<1>5. IsFiniteSet(S) /\ StrictOrder(R, S)
  BY SharedIs, SharedOrdered
<1> HIDE DEF L, S, R
<1>6. Listed(L, S, R)
  BY <1>4, <1>5, ListingIs
<1> QED BY <1>3, <1>6 DEF S, R

(* A list without repetitions has as many entries as it is long.           *)
LEMMA PrefixCounted ==
  ASSUME NEW L, NEW m \in Nat, NEW xs, DOMAIN xs = 1..m, \A i \in 1..m : xs[i] = L[i],
         \A i, j \in 1..m : L[i] = L[j] => i = j
  PROVE  Cardinality({xs[i] : i \in DOMAIN xs}) = m
<1> DEFINE T == {xs[i] : i \in DOMAIN xs}
           f == [i \in 1..m |-> xs[i]]
<1>1. f \in Bijection(1..m, T)
  <2>1. f \in [1..m -> T] /\ \A t \in T : \E i \in 1..m : f[i] = t
    OBVIOUS
  <2>2. \A i, j \in 1..m : f[i] = f[j] => i = j
    OBVIOUS
  <2> HIDE DEF T, f
  <2> QED BY <2>1, <2>2 DEF Bijection, Injection, Surjection, IsInjective
<1> HIDE DEF f, T
<1>2. ExistsBijection(1..m, T)
  BY <1>1 DEF ExistsBijection
<1>3. IsFiniteSet(1..m) /\ Cardinality(1..m) = m
  BY PositionsAre
<1>4. Cardinality(T) = Cardinality(1..m)
  BY <1>2, <1>3, FS_Bijection
<1> QED BY <1>3, <1>4 DEF T

(* The indicators listed are those in the most captures.                   *)
LEMMA MostSharedAreListed == ViewsInv => MostSharedListed
<1> SUFFICES ASSUME ViewsInv, view.page = "merged"
             PROVE  LET shown == {view.common[i] : i \in DOMAIN view.common}
                    IN  /\ \A x \in view.indicators : x \in view.shared <=> CountOf(Files, x) >= 2
                        /\ shown \subseteq view.shared /\ Cardinality(shown) = Len(view.common)
                        /\ \A x \in shown, y \in view.shared \ shown : CountOf(Files, x) >= CountOf(Files, y)
  BY DEF MostSharedListed, CountOf, FilesOf
<1>1. PICK old \in SUBSET swept : \/ Len(opened) = 1 /\ One(Files[1], opened[1] \in old)
                                  \/ Len(opened) > 1 /\ Several(Files, Gone(opened, old))
  BY Displayed DEF OnDisplay
<1>2. Several(Files, Gone(opened, old))
  BY <1>1, OneShows
<1>3. view.indicators = Indicators(Files) /\ view.shared = Shared(Files) /\ view.common = Common(Files)
  BY <1>2, SeveralShow
<1>4. PICK L : Listed(L, Shared(Files), SharedOrder(Files)) /\ Common(Files) = FirstOf(L, MAX_COMMON_INDICATORS)
  BY CommonIs
<1> DEFINE xs == Common(Files)
           S == Shared(Files)
           n == Cardinality(S)
           m == Lesser(MAX_COMMON_INDICATORS, Len(L))
           shown == {xs[i] : i \in DOMAIN xs}
<1>5. /\ DOMAIN L = 1..n /\ Len(L) = n /\ IsSequence(L) /\ Entries(L) = S /\ n \in Nat
      /\ \A i, j \in 1..n : (i < j <=> <<L[i], L[j]>> \in SharedOrder(Files)) /\ (L[i] = L[j] => i = j)
  <2>1. Cardinality(S) \in Nat
    BY SharedIs, FS_CardinalityType
  <2> QED BY <1>4, <2>1 DEF Listed
<1>6. /\ DOMAIN xs = 1..m /\ m \in Nat /\ \A i \in 1..m : xs[i] = L[i]
      /\ Len(xs) = m
  <2> DEFINE ys == FirstOf(L, MAX_COMMON_INDICATORS)
  <2>1. MAX_COMMON_INDICATORS \in Nat
    BY BatchAssumption
  <2>2. /\ DOMAIN ys = 1..m /\ m \in Nat /\ \A i \in 1..m : ys[i] = L[i]
        /\ Len(ys) = m
    BY <1>5, <2>1, FirstOfIs
  <2> HIDE DEF m, ys
  <2> QED BY <1>4, <2>2 DEF ys
<1>7. 1..m \subseteq 1..n /\ m <= n
  BY <1>5, <1>6, BatchAssumption DEF Lesser
<1> HIDE DEF xs, S, n, m
<1>8. shown \subseteq S
  BY <1>5, <1>6, <1>7 DEF Entries
<1>9. Cardinality(shown) = Len(xs)
  <2>1. \A i, j \in 1..m : L[i] = L[j] => i = j
    BY <1>5, <1>7
  <2>2. DOMAIN xs = 1..m /\ m \in Nat /\ \A i \in 1..m : xs[i] = L[i]
    BY <1>6
  <2>3. Cardinality({xs[i] : i \in DOMAIN xs}) = m
    BY <2>1, <2>2, PrefixCounted
  <2> QED BY <1>6, <2>3
<1>10. ASSUME NEW x \in shown, NEW y \in S \ shown  PROVE CountOf(Files, x) >= CountOf(Files, y)
  <2>1. PICK i \in 1..m : x = L[i]
    BY <1>6
  <2>2. PICK j \in 1..n : y = L[j]
    BY <1>5 DEF Entries
  <2>3. j \notin 1..m
    BY <1>6, <2>2
  <2>4. i < j /\ i \in 1..n
    BY <1>5, <1>6, <1>7, <2>3
  <2>5. <<x, y>> \in SharedOrder(Files)
    BY <1>5, <2>1, <2>2, <2>4
  <2>6. CountOf(Files, x) \in Nat /\ CountOf(Files, y) \in Nat
    BY <1>8, SharedIs DEF S
  <2>7. Ahead(Files, x, y)
    BY <2>5 DEF SharedOrder
  <2> QED BY <2>6, <2>7 DEF Ahead
<1>11. \A x \in view.indicators : x \in S <=> CountOf(Files, x) >= 2
  BY <1>3, SharedIs DEF S
<1> QED BY <1>3, <1>8, <1>9, <1>10, <1>11 DEF xs, S

(* What is on display is of analyses that are saved.                       *)
LEMMA BatchTyped == ViewsInv => BatchTypeOK
<1> SUFFICES ASSUME ViewsInv  PROVE BatchTypeOK
  OBVIOUS
<1>1. swept \subseteq DOMAIN saved
  <2>1. swept = 1..Cardinality(swept) /\ Cardinality(swept) \in Nat /\ Cardinality(swept) <= Len(saved)
        /\ Len(saved) \in Nat /\ DOMAIN saved = 1..Len(saved)
    BY DEF ViewsInv
  <2> QED BY <2>1
<1>2. Len(opened) <= Len(saved) /\ {opened[i] : i \in DOMAIN opened} \subseteq DOMAIN saved
  <2> DEFINE A == 1..Len(opened)
             B == 1..Len(saved)
             f == [i \in A |-> opened[i]]
  <2>1. /\ Len(saved) \in Nat /\ DOMAIN saved = B /\ Len(opened) \in Nat /\ DOMAIN opened = A
        /\ \A i \in A : opened[i] \in B
        /\ \A i, j \in A : opened[i] = opened[j] => i = j
    BY DEF ViewsInv
  <2>2. IsFiniteSet(B) /\ Cardinality(B) = Len(saved) /\ Cardinality(A) = Len(opened)
    BY <2>1, PositionsAre
  <2> HIDE DEF A, B
  <2>3. f \in Injection(A, B)
    BY <2>1 DEF Injection, IsInjective
  <2> HIDE DEF f
  <2>4. Cardinality(A) <= Cardinality(B)
    BY <2>2, <2>3, FS_Injection
  <2> QED BY <2>1, <2>2, <2>4
<1>3. ASSUME OnDisplay
      PROVE  /\ view.packets \in Nat /\ view.metrics.parsed \in Nat
             /\ DOMAIN view.osint \subseteq view.indicators
  <2>1. PICK old \in SUBSET swept : \/ Len(opened) = 1 /\ One(Files[1], opened[1] \in old)
                                    \/ Len(opened) > 1 /\ Several(Files, Gone(opened, old))
    BY <1>3, Displayed
  <2>2. /\ DOMAIN Files = 1..Len(opened) /\ Len(opened) \in Nat
        /\ \A i \in DOMAIN Files : AnalysisOK(Files[i])
    BY FilesAre
  <2>3. CASE One(Files[1], opened[1] \in old) /\ Len(opened) = 1
    <3> DEFINE r == Files[1]
               of == [packets |-> r.packets, flows |-> r.flows, zeek |-> r.zeek, dns |-> r.dns, yara |-> r.yara]
    <3>1. DOMAIN Files = {1} /\ AnalysisOK(r)
      BY <2>2, <2>3
    <3>2. r.metrics = BuildCaptureMetrics(of) /\ of.flows = r.flows
      BY <3>1 DEF AnalysisOK
    <3>3. view.metrics = r.metrics /\ view.packets = r.packets /\ view.osint = r.osint /\ view.indicators = r.indicators
      BY <2>3, OneShows
    <3>4. r.packets \in Nat /\ DOMAIN r.osint \subseteq r.indicators /\ FlowsOK(r.flows)
      BY <3>1 DEF AnalysisOK
    <3> HIDE DEF of, r
    <3>5. r.metrics.parsed = Total([i \in DOMAIN r.flows |-> r.flows[i].count])
      BY <3>2, MetricsAre
    <3> QED BY <3>3, <3>4, <3>5, ParsedIs
  <2>4. CASE Several(Files, Gone(opened, old)) /\ Len(opened) > 1
    <3> DEFINE of == [packets |-> view.packets, flows |-> AllFlows(Files), dns |-> AggregateDns(Files),
                      zeek |-> \E i \in DOMAIN Files : Files[i].zeek, yara |-> MergeYara(Files)]
               fs == AllFlows(Files)
               ns == [i \in DOMAIN Files |-> Files[i].packets]
    <3>1. /\ view.metrics = BuildCaptureMetrics(of) /\ view.packets = Total(ns)
          /\ view.osint = MergeOsint(Files) /\ view.indicators = Indicators(Files)
      BY <2>4, SeveralShow
    <3>2. of.flows = fs /\ FlowsOK(fs)
      BY AllFlowsAre
    <3>3. Len(ns) = Len(opened) /\ \A i \in 1..Len(opened) : ns[i] \in Nat
      BY <2>2, EachIs DEF AnalysisOK
    <3>4. DOMAIN MergeOsint(Files) = UNION {DOMAIN Files[i].osint : i \in DOMAIN Files}
      BY DEF MergeOsint
    <3>5. UNION {DOMAIN Files[i].osint : i \in DOMAIN Files} \subseteq Indicators(Files)
      BY <2>2 DEF AnalysisOK, Indicators
    <3> HIDE DEF of, fs, ns
    <3>6. view.metrics.parsed = Total([i \in DOMAIN fs |-> fs[i].count])
      BY <3>1, <3>2, MetricsAre
    <3>7. Total(ns) \in Nat
      BY <2>2, <3>3, SumsNat
    <3> QED BY <3>1, <3>2, <3>4, <3>5, <3>6, <3>7, ParsedIs
  <2> QED BY <2>1, <2>3, <2>4
<1> QED BY <1>1, <1>2, <1>3 DEF BatchTypeOK

(* The invariant implies every part of BatchHonest.                        *)
LEMMA PartsAreHonest == ViewsInv => BatchHonest
<1> SUFFICES ASSUME ViewsInv  PROVE BatchHonest
  OBVIOUS
<1>1. BatchTypeOK /\ MostSharedListed /\ RangeTight
  BY BatchTyped, MostSharedAreListed, RangeIsTight
<1>2. StrongestDetectionsShown /\ AlertsAddUp /\ VerdictsKept
  BY StrongestAreShown, AlertsDoAddUp, VerdictsAreKept
<1>3. MalwareOfEveryLogShown /\ ReportsUnderTheirNames /\ GapsAreReal /\ WorstRuleDecides
  BY MalwareIsShown, ReportsAreNamed, GapsAreGaps, WorstRules
<1> QED BY <1>1, <1>2, <1>3 DEF BatchHonest

-----------------------------------------------------------------------------
(* The invariant holds initially and every step keeps it.                  *)
LEMMA SelectedAre ==
  ASSUME saved \in Seq(Analyses), NEW ids \in Selections
  PROVE  /\ ids \in Seq(DOMAIN saved) /\ Len(ids) \in Nat /\ DOMAIN ids = 1..Len(ids)
         /\ \A i, j \in DOMAIN ids : ids[i] = ids[j] => i = j
<1> DEFINE upward == {xs \in UNION {[1..n -> DOMAIN saved] : n \in 1..Len(saved)} :
                        \A i, j \in DOMAIN xs : i < j => xs[i] < xs[j]}
<1>1. Len(saved) \in Nat /\ DOMAIN saved = 1..Len(saved)
  OBVIOUS
<1>2. ASSUME NEW xs \in upward
      PROVE  \E n \in Nat : /\ xs \in [1..n -> DOMAIN saved]
                            /\ \A i, j \in 1..n : i < j => xs[i] < xs[j]
  <2>1. PICK n \in 1..Len(saved) : xs \in [1..n -> DOMAIN saved]
    BY <1>2
  <2>2. \A i, j \in 1..n : i < j => xs[i] < xs[j]
    BY <1>2, <2>1
  <2> QED BY <1>1, <2>1, <2>2
<1>3. PICK xs \in upward : ids = xs \/ ids = [i \in DOMAIN xs |-> xs[Len(xs) + 1 - i]]
  BY DEF Selections
<1> HIDE DEF upward
<1>4. PICK n \in Nat : /\ xs \in [1..n -> DOMAIN saved]
                       /\ \A i, j \in 1..n : i < j => xs[i] < xs[j]
  BY <1>2, <1>3
<1>5. Len(xs) = n /\ DOMAIN xs = 1..n /\ \A i \in 1..n : xs[i] \in Int
  BY <1>1, <1>4
<1>6. \A i, j \in 1..n : xs[i] = xs[j] => i = j
  <2> SUFFICES ASSUME NEW i \in 1..n, NEW j \in 1..n, xs[i] = xs[j], i # j  PROVE FALSE
    OBVIOUS
  <2>1. i < j \/ j < i
    OBVIOUS
  <2>2. xs[i] < xs[j] \/ xs[j] < xs[i]
    BY <1>4, <2>1
  <2> QED BY <1>5, <2>2
<1>7. ids \in [1..n -> DOMAIN saved] /\ \A i, j \in 1..n : ids[i] = ids[j] => i = j
  <2>1. CASE ids = xs
    BY <1>4, <1>6, <2>1
  <2>2. CASE ids = [i \in DOMAIN xs |-> xs[Len(xs) + 1 - i]]
    <3>1. ids = [i \in 1..n |-> xs[n + 1 - i]]
      BY <1>5, <2>2
    <3>2. \A i \in 1..n : n + 1 - i \in 1..n
      OBVIOUS
    <3>3. ids \in [1..n -> DOMAIN saved]
      BY <1>4, <3>1, <3>2
    <3>4. ASSUME NEW i \in 1..n, NEW j \in 1..n, ids[i] = ids[j]  PROVE i = j
      <4>1. n + 1 - i = n + 1 - j
        BY <1>6, <3>1, <3>2, <3>4
      <4> QED BY <4>1
    <3> QED BY <3>3, <3>4
  <2> QED BY <1>3, <2>1, <2>2
<1> QED BY <1>7

(* Nothing is saved, opened or on display at first.                        *)
LEMMA ViewsBegin == BatchInit => ViewsInv
<1> SUFFICES ASSUME BatchInit  PROVE ViewsInv
  OBVIOUS
<1>1. saved = <<>> /\ swept = {} /\ opened = <<>> /\ view = NoView
  BY DEF BatchInit
<1>2. Cardinality({}) = 0 /\ {} = 1..0
  BY FS_EmptySet
<1>3. saved \in Seq(Analyses) /\ opened \in Seq(DOMAIN saved) /\ Len(saved) = 0 /\ DOMAIN opened = {}
  BY <1>1
<1>4. ViewOf(view, opened, Chosen(opened), {})
  BY <1>1 DEF ViewOf
<1> QED BY <1>1, <1>2, <1>3, <1>4 DEF ViewsInv

(* Saving, sweeping, opening and the dashboard keep the invariant.         *)
LEMMA ViewsStep == ViewsInv /\ [Next]_batchVars => ViewsInv'
<1> SUFFICES ASSUME ViewsInv, [Next]_batchVars  PROVE ViewsInv'
  OBVIOUS
<1>1. /\ saved \in Seq(Analyses)
      /\ swept = 1..Cardinality(swept) /\ Cardinality(swept) \in Nat /\ Cardinality(swept) <= Len(saved)
      /\ opened \in Seq(DOMAIN saved) /\ \A i, j \in DOMAIN opened : opened[i] = opened[j] => i = j
  BY DEF ViewsInv
<1>2. PICK old \in SUBSET swept : ViewOf(view, opened, Chosen(opened), old)
  BY DEF ViewsInv
<1>3. ASSUME NEW c \in Captures, SaveAnalysis(c)  PROVE ViewsInv'
  <2>1. saved' = Append(saved, Analysed(c)) /\ swept' = swept /\ opened' = opened /\ view' = view
    BY <1>3 DEF SaveAnalysis
  <2>2. Analysed(c) \in Analyses
    BY DEF Analyses
  <2> DEFINE a == Analysed(c)
  <2> HIDE DEF a
  <2>3. saved' \in Seq(Analyses) /\ Len(saved') = Len(saved) + 1 /\ DOMAIN saved \subseteq DOMAIN saved'
    BY <1>1, <2>1, <2>2 DEF a
  <2>4. \A i \in DOMAIN saved : saved'[i] = saved[i]
    BY <1>1, <2>1
  <2>5. opened' \in Seq(DOMAIN saved')
    BY <1>1, <2>1, <2>3
  <2>6. \A i \in DOMAIN opened : opened[i] \in DOMAIN saved
    BY <1>1
  <2>7. Chosen(opened)' = Chosen(opened)
    BY <2>1, <2>4, <2>6 DEF Chosen
  <2>8. Len(opened) = 1 => saved'[opened[1]] = saved[opened[1]]
    BY <1>1, <2>4, <2>6
  <2>9. ViewOf(view, opened, Chosen(opened), old)'
    BY <1>2, <2>1, <2>7, <2>8 DEF ViewOf
  <2>10. Cardinality(swept) <= Len(saved')
    BY <1>1, <2>3
  <2> QED BY <1>1, <1>2, <2>1, <2>3, <2>5, <2>9, <2>10 DEF ViewsInv
<1>4. ASSUME SweepRun  PROVE ViewsInv'
  <2> DEFINE k == Cardinality(swept)
  <2>1. k < Len(saved) /\ swept' = swept \cup {k + 1} /\ UNCHANGED <<saved, opened, view>>
    BY <1>4 DEF SweepRun
  <2>2. swept' = 1..(k + 1) /\ Cardinality(1..(k + 1)) = k + 1
    <3>1. k \in Nat /\ swept = 1..k
      BY <1>1
    <3> HIDE DEF k
    <3>2. (1..k) \cup {k + 1} = 1..(k + 1)
      BY <3>1
    <3> QED BY <2>1, <3>1, <3>2, PositionsAre
  <2>3. ViewOf(view, opened, Chosen(opened), old)'
    BY <1>2, <2>1 DEF ViewOf, Chosen
  <2>4. old \in SUBSET swept'
    BY <1>2, <2>1
  <2>5. k \in Nat /\ Len(saved) \in Nat
    BY <1>1
  <2> HIDE DEF k
  <2>6. Cardinality(swept') = k + 1 /\ k + 1 \in Nat /\ k + 1 <= Len(saved')
    <3>1. Cardinality(swept') = k + 1
      BY <2>2
    <3>2. Len(saved') = Len(saved) /\ k + 1 <= Len(saved)
      BY <2>1, <2>5
    <3> QED BY <2>5, <3>1, <3>2
  <2> QED BY <1>1, <2>1, <2>2, <2>3, <2>4, <2>6 DEF ViewsInv
<1>5. ASSUME NEW ids \in Selections, Restore(ids)  PROVE ViewsInv'
  <2>1. /\ ids # <<>> /\ opened' = ids /\ saved' = saved /\ swept' = swept
        /\ view' = IF Len(ids) = 1 THEN RestoredOne(saved[ids[1]], ids[1] \in swept)
                   ELSE Merged(Chosen(ids), [i \in DOMAIN ids |-> ids[i] \in swept])
    BY <1>5 DEF Restore
  <2>2. /\ ids \in Seq(DOMAIN saved) /\ Len(ids) \in Nat
        /\ \A i, j \in DOMAIN ids : ids[i] = ids[j] => i = j
    BY <1>1, SelectedAre
  <2>3. Len(ids) = 1 \/ Len(ids) > 1
    <3> DEFINE n == Len(ids)
    <3>1. n \in Nat \ {0}
      BY <2>1, <2>2, EmptySeq
    <3> HIDE DEF n
    <3>2. n = 1 \/ n > 1
      BY <3>1
    <3> QED BY <3>2 DEF n
  <2>4. Chosen(opened)' = Chosen(ids)
    BY <2>1 DEF Chosen
  <2>5. ViewOf(view, opened, Chosen(opened), swept)'
    <3>1. CASE Len(ids) = 1
      BY <2>1, <3>1 DEF ViewOf
    <3>2. CASE Len(ids) > 1
      <4>1. view' = Merged(Chosen(ids), Gone(ids, swept))
        <5>1. Len(ids) # 1
          BY <2>2, <3>2
        <5>2. view' = Merged(Chosen(ids), [j \in DOMAIN ids |-> ids[j] \in swept])
          BY <2>1, <5>1
        <5> QED BY <5>2 DEF Gone
      <4>2. Gone(ids, swept)' = Gone(ids, swept)
        BY <2>1 DEF Gone
      <4> QED BY <2>1, <2>4, <3>2, <4>1 DEF ViewOf
    <3> QED BY <2>3, <3>1, <3>2
  <2> QED BY <1>1, <2>1, <2>2, <2>5 DEF ViewsInv
<1>6. ASSUME NEW i \in DOMAIN saved, OpenDashboard(i)  PROVE ViewsInv'
  <2>1. opened' = <<i>> /\ view' = DashboardState(saved[i], Public) /\ saved' = saved /\ swept' = swept
    BY <1>6 DEF OpenDashboard
  <2>2. opened' \in Seq(DOMAIN saved) /\ Len(opened') = 1 /\ opened'[1] = i /\ DOMAIN opened' = {1}
    BY <2>1
  <2>3. ViewOf(view, opened, Chosen(opened), swept)'
    BY <2>1, <2>2 DEF ViewOf
  <2> QED BY <1>1, <2>1, <2>2, <2>3 DEF ViewsInv
<1>7. CASE UNCHANGED batchVars
  <2>1. saved' = saved /\ swept' = swept /\ opened' = opened /\ view' = view
    BY <1>7 DEF batchVars
  <2>2. ViewOf(view, opened, Chosen(opened), old)'
    BY <1>2, <2>1 DEF ViewOf, Chosen
  <2> QED BY <1>1, <1>2, <2>1, <2>2 DEF ViewsInv
<1> QED BY <1>3, <1>4, <1>5, <1>6, <1>7 DEF Next, BatchNext

(* For any captures, limits and order of steps: what is on display was     *)
(* made of the analyses opened, which are still those that were saved      *)
(* (cases_tab.py, state.py).                                               *)
THEOREM ViewsInvariant == Spec => []ViewsInv
BY ViewsBegin, ViewsStep, PTL DEF Spec

(* For any captures and limits, a batch that is opened shows of its        *)
(* captures what they have in common, the strongest, every malware and     *)
(* every report, and no gap that is none (batch.py, cases_tab.py,          *)
(* visibility.py).                                                         *)
THEOREM BatchAlwaysHonest == Spec => []BatchHonest
<1>1. ViewsInv => BatchHonest
  BY PartsAreHonest
<1> QED BY <1>1, ViewsInvariant, PTL

-----------------------------------------------------------------------------
(* What one analysis shows on the dashboard (web/state.py)                 *)

(* Sums of sums.                                                           *)
LEMMA SumsAdd ==
  ASSUME NEW n \in Nat, NEW x, NEW y, NEW z, Len(x) = n, Len(y) = n, Len(z) = n,
         \A i \in 1..n : x[i] \in Nat /\ y[i] \in Nat /\ z[i] = x[i] + y[i]
  PROVE  Total(z) = Total(x) + Total(y)
<1> DEFINE h == [i \in 0..n |-> Sums(x)[i] + Sums(y)[i]]
<1>1. \A i \in 0..n : Sums(x)[i] \in Nat /\ Sums(y)[i] \in Nat
  BY SumsNat
<1>2. h[0] = 0
  BY SumsAre
<1>3. ASSUME NEW i \in 1..n  PROVE h[i] = h[i - 1] + z[i]
  <2>1. i - 1 \in 0..n /\ i \in 0..n
    OBVIOUS
  <2>2. Sums(x)[i] = Sums(x)[i - 1] + x[i] /\ Sums(y)[i] = Sums(y)[i - 1] + y[i]
    BY SumsAre
  <2>3. x[i] \in Nat /\ y[i] \in Nat /\ Sums(x)[i - 1] \in Nat /\ Sums(y)[i - 1] \in Nat
    BY <1>1, <2>1
  <2> QED BY <2>1, <2>2, <2>3
<1>4. h[n] = Total(x) + Total(y)
  BY SumsAre
<1> HIDE DEF h
<1>5. Total(z) = h[n]
  BY <1>2, <1>3, TotalBy
<1> QED BY <1>4, <1>5

(* A sum with at most one term                                             *)
LEMMA OneTerm ==
  ASSUME NEW m \in Nat, NEW ns, Len(ns) = m, NEW j \in 1..m, ns[j] \in Nat,
         \A k \in 1..m : k # j => ns[k] = 0
  PROVE  Total(ns) = ns[j]
<1> DEFINE h == [i \in 0..m |-> IF i < j THEN 0 ELSE ns[j]]
<1>2. h[0] = 0 /\ h[m] = ns[j]
  OBVIOUS
<1>3. ASSUME NEW i \in 1..m  PROVE h[i] = h[i - 1] + ns[i]
  <2>1. i - 1 \in 0..m /\ i \in 0..m
    OBVIOUS
  <2>2. CASE i = j
    BY <2>1, <2>2
  <2>3. CASE i # j
    <3>1. ns[i] = 0
      BY <2>3
    <3>2. i < j <=> i - 1 < j
      BY <2>3
    <3>3. h[i] = h[i - 1] /\ h[i] \in Nat
      BY <2>1, <3>2
    <3> QED BY <3>1, <3>3
  <2> QED BY <2>2, <2>3
<1> HIDE DEF h
<1>4. Total(ns) = h[m]
  BY <1>2, <1>3, TotalBy
<1> QED BY <1>2, <1>4

(* A sum of nothing but zeros                                              *)
LEMMA ZeroTerms ==
  ASSUME NEW m \in Nat, NEW ns, Len(ns) = m, \A k \in 1..m : ns[k] = 0
  PROVE  Total(ns) = 0
<1> DEFINE h == [i \in 0..m |-> 0]
<1>2. h[0] = 0 /\ h[m] = 0 /\ \A i \in 1..m : h[i] = h[i - 1] + ns[i]
  OBVIOUS
<1> HIDE DEF h
<1>3. Total(ns) = h[m]
  BY <1>2, TotalBy
<1> QED BY <1>2, <1>3

(* Numbers w[i] that are added up in the row of their key: row k has the   *)
(* sum ts[k] of part[k].                                                   *)
Keyed(n, w, key, m, rows, part, ts) ==
  /\ n \in Nat /\ Len(w) = n /\ \A i \in 1..n : w[i] \in Nat
  /\ m \in Nat /\ \A k, l \in 1..m : rows[k] = rows[l] => k = l
  /\ \A i \in 1..n : w[i] = 0 \/ \E k \in 1..m : rows[k] = key[i]
  /\ \A k \in 1..m : /\ Len(part[k]) = n /\ \A i \in 1..n : part[k][i] = IF key[i] = rows[k] THEN w[i] ELSE 0
                     /\ ts[k] = Total(part[k])
  /\ Len(ts) = m

(* Numbers add up to a running sum.                                        *)
LEMMA RunningSum ==
  ASSUME NEW n \in Nat, NEW ns, Len(ns) = n, \A i \in 1..n : ns[i] \in Nat
  PROVE  /\ Sums(ns)[0] = 0 /\ Total(ns) = Sums(ns)[n] /\ Total(ns) \in Nat
         /\ \A i \in 1..n : Sums(ns)[i] = Sums(ns)[i - 1] + ns[i]
         /\ \A i \in 0..n : Sums(ns)[i] \in Nat
BY SumsAre, SumsNat

Numbers(ns, n) == n \in Nat /\ Len(ns) = n /\ \A i \in 1..n : ns[i] \in Nat

(* The same, of a sequence of numbers                                      *)
LEMMA NumbersSum ==
  ASSUME NEW n, NEW ns, Numbers(ns, n)
  PROVE  /\ Sums(ns)[0] = 0 /\ Total(ns) = Sums(ns)[n] /\ Total(ns) \in Nat
         /\ \A i \in 1..n : Sums(ns)[i] = Sums(ns)[i - 1] + ns[i]
         /\ \A i \in 0..n : Sums(ns)[i] \in Nat
BY RunningSum DEF Numbers

(* The rows add up to what the numbers do.                                 *)
LEMMA KeyedTotal ==
  ASSUME NEW n, NEW w, NEW key, NEW m, NEW rows, NEW part, NEW ts, Keyed(n, w, key, m, rows, part, ts)
  PROVE  Total(ts) = Total(w)
<1> DEFINE col(j) == [k \in 1..m |-> Sums(part[k])[j]]
           P == {j \in 0..n : Total(col(j)) = Sums(w)[j]}
<1>0. n \in Nat /\ m \in Nat /\ Len(w) = n /\ Len(ts) = m
  BY DEF Keyed
<1>a. \A i \in 1..n : w[i] \in Nat
  BY DEF Keyed
<1>b. /\ \A k, l \in 1..m : rows[k] = rows[l] => k = l
      /\ \A i \in 1..n : w[i] = 0 \/ \E k \in 1..m : rows[k] = key[i]
  BY DEF Keyed
<1>1. /\ Sums(w)[0] = 0 /\ Total(w) = Sums(w)[n] /\ Total(w) \in Nat
      /\ \A i \in 1..n : Sums(w)[i] = Sums(w)[i - 1] + w[i]
      /\ \A i \in 0..n : Sums(w)[i] \in Nat
  BY <1>0, <1>a, RunningSum, Zenon
<1>2. ASSUME NEW k \in 1..m
      PROVE  Len(part[k]) = n /\ ts[k] = Total(part[k])
             /\ \A i \in 1..n : part[k][i] = (IF key[i] = rows[k] THEN w[i] ELSE 0) /\ part[k][i] \in Nat
  <2>1. Len(part[k]) = n /\ ts[k] = Total(part[k]) /\ \A i \in 1..n : part[k][i] = (IF key[i] = rows[k] THEN w[i] ELSE 0)
    BY DEF Keyed
  <2> QED BY <1>0, <1>a, <2>1
<1>3. ASSUME NEW k \in 1..m
      PROVE  /\ Sums(part[k])[0] = 0 /\ Total(part[k]) = Sums(part[k])[n]
             /\ \A i \in 1..n : Sums(part[k])[i] = Sums(part[k])[i - 1] + part[k][i]
             /\ \A i \in 0..n : Sums(part[k])[i] \in Nat
  <2>1. Len(part[k]) = n /\ \A i \in 1..n : part[k][i] \in Nat
    BY <1>2
  <2>2. Numbers(part[k], n)
    BY <1>0, <2>1 DEF Numbers
  <2> QED BY <2>2, NumbersSum
<1>4. \A j \in 0..n : Len(col(j)) = m /\ col(j) = [k \in 1..m |-> col(j)[k]]
  BY <1>0, EachIs
<1>5. 0 \in P
  <2>1. \A k \in 1..m : col(0)[k] = 0
    BY <1>3
  <2>2. Len(col(0)) = m
    BY <1>0, <1>4
  <2> HIDE DEF col
  <2>3. Total(col(0)) = 0
    BY <1>0, <2>1, <2>2, ZeroTerms
  <2> QED BY <1>0, <1>1, <2>3
<1>6. ASSUME NEW j \in 0..(n - 1), j \in P  PROVE j + 1 \in P
  <2>1. j + 1 \in 1..n /\ (j + 1) - 1 = j /\ j + 1 \in 0..n /\ j \in 0..n
    BY <1>0
  <2> DEFINE c == [k \in 1..m |-> part[k][j + 1]]
  <2>2. c = [k \in 1..m |-> c[k]] /\ \A k \in 1..m : c[k] = (IF key[j + 1] = rows[k] THEN w[j + 1] ELSE 0) /\ c[k] \in Nat
    BY <1>2, <2>1
  <2>3. Len(c) = m
    BY <1>0, <2>2, EachIs
  <2>4. \A k \in 1..m : col(j)[k] \in Nat /\ col(j + 1)[k] = col(j)[k] + c[k]
    <3> TAKE k \in 1..m
    <3>1. col(j)[k] = Sums(part[k])[j] /\ col(j + 1)[k] = Sums(part[k])[j + 1] /\ c[k] = part[k][j + 1]
      OBVIOUS
    <3>2. Sums(part[k])[j] \in Nat /\ Sums(part[k])[j + 1] = Sums(part[k])[(j + 1) - 1] + part[k][j + 1]
      BY <1>3, <2>1
    <3> HIDE DEF col, c
    <3> QED BY <2>1, <3>1, <3>2
  <2> HIDE DEF c
  <2>5. Total(c) = w[j + 1]
    <3>2. CASE w[j + 1] = 0
      <4>1. \A k \in 1..m : c[k] = 0
        BY <2>2, <3>2
      <4> QED BY <1>0, <2>3, <3>2, <4>1, ZeroTerms
    <3>3. CASE w[j + 1] # 0
      <4>1. PICK k \in 1..m : rows[k] = key[j + 1]
        BY <1>b, <2>1, <3>3
      <4>2. \A l \in 1..m : l # k => rows[l] # key[j + 1]
        BY <1>b, <4>1
      <4>3. c[k] = w[j + 1] /\ c[k] \in Nat /\ \A l \in 1..m : l # k => c[l] = 0
        BY <1>a, <2>1, <2>2, <4>1, <4>2
      <4>4. Total(c) = c[k]
        BY <1>0, <2>3, <4>3, OneTerm
      <4> QED BY <4>3, <4>4
    <3> QED BY <3>2, <3>3
  <2>6. Len(col(j)) = m /\ Len(col(j + 1)) = m
    BY <1>4, <2>1
  <2> HIDE DEF col
  <2>7. Total(col(j + 1)) = Total(col(j)) + Total(c)
    BY <1>0, <2>2, <2>3, <2>4, <2>6, SumsAdd
  <2>8. Sums(w)[j + 1] = Sums(w)[j] + w[j + 1]
    BY <1>1, <2>1
  <2> QED BY <1>6, <2>1, <2>5, <2>7, <2>8
<1>7. n \in P
  <2> HIDE DEF P
  <2>1. \A i \in 0..n : i \in P
    BY <1>0, <1>5, <1>6, UpTo
  <2> QED BY <1>0, <2>1
<1>8. \A k \in 1..m : col(n)[k] = ts[k]
  BY <1>2, <1>3
<1>9. Total(col(n)) = Total(w)
  <2> HIDE DEF col
  <2> QED BY <1>1, <1>7
<1>10. Total(ts) = Total(col(n))
  <2> DEFINE h == [i \in 0..m |-> Sums(col(n))[i]]
  <2>1. Len(col(n)) = m /\ \A k \in 1..m : col(n)[k] = ts[k]
    BY <1>0, <1>4, <1>8
  <2> HIDE DEF col
  <2>2. h[0] = 0 /\ h[m] = Total(col(n)) /\ \A i \in 1..m : h[i] = h[i - 1] + ts[i]
    BY <1>0, <2>1, SumsAre
  <2> HIDE DEF h
  <2>3. Total(ts) = h[m]
    BY <1>0, <2>2, TotalBy
  <2> QED BY <2>2, <2>3
<1> QED BY <1>9, <1>10

(* How many there are, as a sum                                            *)
LEMMA CountTotal ==
  ASSUME NEW n \in Nat, NEW A, A \subseteq 1..n, NEW ns, Len(ns) = n, \A i \in 1..n : ns[i] = IF i \in A THEN 1 ELSE 0
  PROVE  Cardinality(A) = Total(ns)
<1> DEFINE h == [j \in 0..n |-> Cardinality(A \cap (1..j))]
<1>2. h[0] = 0
  <2>1. A \cap (1..0) = {}
    OBVIOUS
  <2> QED BY <2>1, FS_EmptySet
<1>3. ASSUME NEW i \in 1..n  PROVE h[i] = h[i - 1] + ns[i]
  <2>1. i - 1 \in 0..n /\ i \in 0..n
    OBVIOUS
  <2> DEFINE B == A \cap (1..(i - 1))
  <2>2. h[i - 1] = Cardinality(B) /\ h[i] = Cardinality(A \cap (1..i))
    BY <2>1
  <2>3. B \subseteq 1..n
    OBVIOUS
  <2>4. IsFiniteSet(B) /\ Cardinality(B) \in Nat
    <3> HIDE DEF B
    <3> QED BY <2>3, PositionsFinite
  <2>5. CASE i \in A
    <3>1. i \notin B
      OBVIOUS
    <3>2. A \cap (1..i) = B \cup {i}
      BY <2>5
    <3>3. Cardinality(B \cup {i}) = Cardinality(B) + 1
      <4> HIDE DEF B
      <4> QED BY <2>4, <3>1, FS_AddElement
    <3> QED BY <2>2, <2>5, <3>2, <3>3
  <2>6. CASE i \notin A
    <3>1. A \cap (1..i) = B
      BY <2>6
    <3>2. h[i] = h[i - 1]
      BY <2>2, <3>1
    <3>3. h[i - 1] \in Nat
      BY <2>2, <2>4
    <3>4. ns[i] = 0
      BY <2>6
    <3> HIDE DEF h, B
    <3> QED BY <3>2, <3>3, <3>4
  <2> QED BY <2>5, <2>6
<1>4. h[n] = Cardinality(A)
  <2>1. A \cap (1..n) = A
    OBVIOUS
  <2>2. n \in 0..n
    OBVIOUS
  <2> QED BY <2>1, <2>2
<1> HIDE DEF h
<1>5. Total(ns) = h[n]
  BY <1>2, <1>3, TotalBy
<1> QED BY <1>4, <1>5

(* Values that are each in one of the bins                                 *)
Binned(n, m, part, ns) ==
  /\ n \in Nat /\ m \in Nat /\ Len(ns) = m
  /\ \A i \in 1..n : part[i] \in 1..m
  /\ \A b \in 1..m : ns[b] = Cardinality({i \in 1..n : part[i] = b})

(* The bins hold as many as there are.                                     *)
LEMMA PartsCounted ==
  ASSUME NEW n, NEW m, NEW part, NEW ns, Binned(n, m, part, ns)
  PROVE  Total(ns) = n
<1>n. n \in Nat /\ m \in Nat /\ Len(ns) = m
  BY DEF Binned
<1>p. \A i \in 1..n : part[i] \in 1..m
  BY DEF Binned
<1>b. \A b \in 1..m : ns[b] = Cardinality({i \in 1..n : part[i] = b})
  BY DEF Binned
<1> DEFINE w == [i \in 1..n |-> 1]
           rows == [b \in 1..m |-> b]
           A(b) == {i \in 1..n : part[i] = b}
           parts == [b \in 1..m |-> [i \in 1..n |-> IF i \in A(b) THEN 1 ELSE 0]]
<1>1. \A i \in 1..n : w[i] \in Nat /\ w[i] = 1
  OBVIOUS
<1>2. \A b, c \in 1..m : rows[b] = rows[c] => b = c
  OBVIOUS
<1>3. \A i \in 1..n : w[i] = 0 \/ \E b \in 1..m : rows[b] = part[i]
  BY <1>p
<1>4. Len(w) = n
  BY <1>n, EachIs
<1>5. \A b \in 1..m : Len(parts[b]) = n /\ \A i \in 1..n : parts[b][i] = IF part[i] = rows[b] THEN w[i] ELSE 0
  <2> TAKE b \in 1..m
  <2>1. Len([i \in 1..n |-> IF i \in A(b) THEN 1 ELSE 0]) = n
    <3> DEFINE f == [i \in 1..n |-> IF i \in A(b) THEN 1 ELSE 0]
    <3>1. f = [i \in 1..n |-> f[i]]
      OBVIOUS
    <3> HIDE DEF f
    <3>2. Len(f) = n
      BY <1>n, <3>1, EachIs
    <3> QED BY <3>2 DEF f
  <2> QED BY <2>1
<1>6. \A b \in 1..m : ns[b] = Total(parts[b])
  <2> TAKE b \in 1..m
  <2>1. A(b) \subseteq 1..n /\ parts[b] = [i \in 1..n |-> IF i \in A(b) THEN 1 ELSE 0] /\ ns[b] = Cardinality(A(b))
    BY <1>b
  <2>2. Len(parts[b]) = n /\ \A i \in 1..n : parts[b][i] = IF i \in A(b) THEN 1 ELSE 0
    BY <1>5
  <2> HIDE DEF A, parts
  <2>3. Cardinality(A(b)) = Total(parts[b])
    BY <1>n, <2>1, <2>2, CountTotal
  <2> QED BY <2>1, <2>3
<1> HIDE DEF w, rows, A, parts
<1>7. Total(ns) = Total(w)
  <2>1. Keyed(n, w, part, m, rows, parts, ns)
    BY <1>n, <1>1, <1>2, <1>3, <1>4, <1>5, <1>6 DEF Keyed
  <2> QED BY <2>1, KeyedTotal
<1>8. Total(w) = n
  <2> DEFINE h == [i \in 0..n |-> i]
  <2>1. h[0] = 0 /\ h[n] = n /\ \A i \in 1..n : h[i] = h[i - 1] + w[i]
    BY <1>n, <1>1
  <2> HIDE DEF h
  <2>2. Total(w) = h[n]
    BY <1>n, <1>4, <2>1, TotalBy
  <2> QED BY <2>1, <2>2
<1> QED BY <1>7, <1>8

(* Different elements of a set in different ones of another: it is no      *)
(* larger.                                                                 *)
LEMMA NoMoreThan ==
  ASSUME NEW A, NEW B, IsFiniteSet(B), NEW f, \A a \in A : f[a] \in B, \A a, b \in A : f[a] = f[b] => a = b
  PROVE  IsFiniteSet(A) /\ Cardinality(A) <= Cardinality(B) /\ Cardinality(A) \in Nat /\ Cardinality(B) \in Nat
<1> DEFINE g == [a \in A |-> f[a]]
<1>1. g \in [A -> B] /\ \A a, b \in A : g[a] = g[b] => a = b
  OBVIOUS
<1> HIDE DEF g
<1>2. g \in Injection(A, B)
  BY <1>1 DEF Injection, IsInjective
<1>3. IsFiniteSet(A) /\ Cardinality(A) <= Cardinality(B)
  BY <1>2, FS_Injection
<1> QED BY <1>3, FS_CardinalityType

(* Where each picked entry stood                                           *)
PickedBy(ps, xs, at, L) ==
  /\ DOMAIN ps = 1..Cardinality(at) /\ Len(ps) = Cardinality(at) /\ IsSequence(ps) /\ Cardinality(at) \in Nat
  /\ \A k \in 1..Cardinality(at) : L[k] \in at /\ ps[k] = xs[L[k]]
  /\ \A i \in at : \E k \in 1..Cardinality(at) : L[k] = i
  /\ \A k, l \in 1..Cardinality(at) : (k < l <=> L[k] < L[l]) /\ (L[k] = L[l] => k = l)

(* Entries are picked in the order they stand in.                          *)
LEMMA PickedAre ==
  ASSUME NEW xs, NEW n \in Nat, NEW at, at \subseteq 1..n
  PROVE  \E L : PickedBy(Picked(xs, at), xs, at, L)
<1> DEFINE R == {p \in at \X at : p[1] < p[2]}
           L == Listing(at, LAMBDA i, j : i < j)
           P == [k \in DOMAIN L |-> xs[L[k]]]
           m == Cardinality(at)
<1>1. Listed(L, at, R) /\ IsSequence(Picked(xs, at)) /\ Len(Picked(xs, at)) = m
  BY PickedIs
<1>2. Picked(xs, at) = P
  BY DEF Picked
<1>3. m \in Nat
  BY PositionsFinite
<1> HIDE DEF L, m, R
<1>4. DOMAIN L = 1..m /\ Entries(L) = at /\ \A i, j \in 1..m : (i < j <=> <<L[i], L[j]>> \in R) /\ (L[i] = L[j] => i = j)
  BY <1>1 DEF Listed, m
<1>5. \A k \in 1..m : L[k] \in at
  BY <1>4 DEF Entries
<1>6. \A i, j \in 1..m : i < j <=> L[i] < L[j]
  BY <1>4, <1>5 DEF R
<1>7. \A i \in at : \E k \in 1..m : L[k] = i
  BY <1>4 DEF Entries
<1>8. DOMAIN P = 1..m /\ \A k \in 1..m : P[k] = xs[L[k]]
  BY <1>4
<1> HIDE DEF P
<1>9. PickedBy(Picked(xs, at), xs, at, L)
  BY <1>1, <1>2, <1>3, <1>4, <1>5, <1>6, <1>7, <1>8 DEF PickedBy, m
<1> QED BY <1>9

-----------------------------------------------------------------------------
(* The dashboard of one analysis.                                          *)
Named(fs) == \A f \in Entries(fs) : f.proto \in Entries(Alphabet)

Board(r) == AnalysisOK(r) /\ r.beacons = RankBeaconing(r.flows) /\ Named(r.flows) /\ FlowsOK(r.flows) /\ r.packets \in Nat

(* The dashboard shows an analysis that is saved.                          *)
LEMMA BoardIs ==
  ASSUME ViewsInv, OnBoard
  PROVE  Board(Shown) /\ view = DashboardState(Shown, Public)
<1>1. PICK old \in SUBSET swept : ViewOf(view, opened, Chosen(opened), old)
  BY DEF ViewsInv
<1>2. view # NoView /\ \A r, gone : view # RestoredOne(r, gone) /\ view # Merged(r, gone)
  BY DEF OnBoard, NoView, RestoredOne, Merged
<1>3. Len(opened) = 1 /\ view = DashboardState(saved[opened[1]], Public)
  BY <1>1, <1>2 DEF ViewOf
<1>4. opened[1] \in DOMAIN saved
  BY <1>3, FilesAre
<1>5. Shown \in Analyses
  BY <1>4 DEF ViewsInv, Shown
<1>6. PICK c \in Captures : Shown = Analysed(c)
  BY <1>5 DEF Analyses
<1>7. Shown.beacons = RankBeaconing(Shown.flows) /\ Shown.flows = c.flows
  BY <1>6 DEF Analysed
<1>8. Named(c.flows)
  BY NamesAssumption DEF Named
<1>9. AnalysisOK(Shown)
  BY <1>5, AnalysedIs
<1>10. FlowsOK(Shown.flows) /\ Shown.packets \in Nat
  BY <1>9 DEF AnalysisOK
<1> QED BY <1>3, <1>7, <1>8, <1>9, <1>10 DEF Shown, Board

(* A payload that is readable and has the sign of a rule is a match.       *)
LEMMA MatchedIs ==
  ASSUME NEW carved, IsSequence(carved), NEW files
  PROVE  YaraMatched(ScanCarved(carved, files)) > 0 <=>
           \E i \in DOMAIN carved : carved[i].readable /\ \E r \in Rules(files) : r.finds \in carved[i].signs
<1> DEFINE rules == Rules(files)
           found == [i \in DOMAIN carved |-> Tags(carved[i], rules)]
           scan == [kind        |-> "scanned",
                    matched     |-> CountIn(found, LAMBDA t : t # {}),
                    errors      |-> CountIn(carved, LAMBDA p : ~p.readable),
                    by_severity |-> [s \in Severities |-> CountIn(found, LAMBDA t : SeverityOf(t) = s)]]
           hit == {i \in DOMAIN carved : carved[i].readable /\ \E r \in rules : r.finds \in carved[i].signs}
<1>1. ScanCarved(carved, files) = IF carved = <<>> THEN NoYara
                                  ELSE IF rules = {} THEN [kind |-> "error", matched |-> 0] ELSE scan
  BY DEF ScanCarved
<1>2. YaraMatched(NoYara) = 0 /\ YaraMatched([kind |-> "error", matched |-> 0]) = 0
  BY DEF NoYara, YaraMatched
<1>3. YaraMatched(scan) = Cardinality({i \in DOMAIN found : found[i] # {}})
  BY DEF YaraMatched, CountIn
<1>4. {i \in DOMAIN found : found[i] # {}} = hit
  <2>1. \A i \in DOMAIN carved : Tags(carved[i], rules) # {} <=> i \in hit
    BY DEF Tags
  <2>2. DOMAIN found = DOMAIN carved /\ \A i \in DOMAIN carved : found[i] = Tags(carved[i], rules)
    OBVIOUS
  <2>3. hit \subseteq DOMAIN carved
    OBVIOUS
  <2> HIDE DEF found, hit, rules
  <2> QED BY <2>1, <2>2, <2>3
<1>5. IsFiniteSet(hit) /\ Cardinality(hit) \in Nat
  <2>1. hit \subseteq 1..Len(carved) /\ Len(carved) \in Nat
    BY SequenceIs
  <2> HIDE DEF hit
  <2> QED BY <2>1, PositionsFinite
<1>6. carved = <<>> \/ rules = {} => hit = {}
  OBVIOUS
<1> HIDE DEF scan, found, hit, rules
<1>7. Cardinality(hit) > 0 <=> hit # {}
  BY <1>5, FS_EmptySet
<1>8. YaraMatched(ScanCarved(carved, files)) > 0 <=> hit # {}
  <2>1. CASE carved = <<>>
    BY <1>1, <1>2, <1>6, <2>1
  <2>2. CASE carved # <<>> /\ rules = {}
    BY <1>1, <1>2, <1>6, <2>2
  <2>3. CASE carved # <<>> /\ rules # {}
    BY <1>1, <1>3, <1>4, <1>7, <2>3
  <2> QED BY <2>1, <2>2, <2>3
<1>9. hit # {} <=> \E i \in DOMAIN carved : carved[i].readable /\ \E r \in rules : r.finds \in carved[i].signs
  BY DEF hit
<1> QED BY <1>8, <1>9 DEF rules

(* A score is regular timing times factors of at most one.                 *)
LEMMA ScoreNeeds ==
  ASSUME NEW f, FlowTypeOK(f)
  PROVE  /\ Score(f) \in Nat
         /\ Score(f) >= 6000 => /\ f.regular >= 60 /\ f.dport \notin DOMAIN BENIGN_SERVICE_PORTS
                                /\ {f.src, f.dst} \cap INFRA_ALLOWLIST = {}
<1> DEFINE port  == IF f.dport \in DOMAIN BENIGN_SERVICE_PORTS THEN BENIGN_SERVICE_PORTS[f.dport] ELSE 100
           infra == IF {f.src, f.dst} \cap INFRA_ALLOWLIST # {} THEN 10 ELSE 100
           proto == IF f.proto \in BENIGN_PERIODIC_PROTOS THEN 15 ELSE 100
           bulk  == IF (/\ f.lens # <<>> /\ Len(f.times) > BulkSamples
                        /\ Total(f.lens) > BulkSize * Len(f.lens)) THEN 25 ELSE 100
           x == f.regular
<1>1. Score(f) = (((x * port * infra) \div 100) * proto * bulk) \div 10000
  BY DEF Score
<1>2. port \in {15, 20, 30, 100} /\ (f.dport \in DOMAIN BENIGN_SERVICE_PORTS => port \in {15, 20, 30})
  <2>1. \A p \in DOMAIN BENIGN_SERVICE_PORTS : BENIGN_SERVICE_PORTS[p] \in {15, 20, 30}
    BY DEF BENIGN_SERVICE_PORTS
  <2> QED BY <2>1
<1>3. infra \in {10, 100} /\ ({f.src, f.dst} \cap INFRA_ALLOWLIST # {} => infra = 10)
  OBVIOUS
<1>4. proto \in {15, 100} /\ bulk \in {25, 100}
  OBVIOUS
<1>5. x \in 0..100
  BY DEF FlowTypeOK
<1> HIDE DEF port, infra, proto, bulk, x
<1>6. /\ (x * port * infra) \div 100 \in Nat
      /\ (x < 60 \/ port \in {15, 20, 30} \/ infra = 10) => (x * port * infra) \div 100 < 6000
  <2>1. CASE infra = 10
    <3>1. port = 15 \/ port = 20 \/ port = 30 \/ port = 100
      BY <1>2
    <3> QED BY <1>5, <2>1, <3>1
  <2>2. CASE infra = 100
    <3>1. port = 15 \/ port = 20 \/ port = 30 \/ port = 100
      BY <1>2
    <3> QED BY <1>5, <2>2, <3>1
  <2> QED BY <1>3, <2>1, <2>2
<1>7. ASSUME NEW y \in Nat  PROVE /\ (y * proto * bulk) \div 10000 \in Nat /\ (y * proto * bulk) \div 10000 <= y
  <2>1. CASE proto = 15
    BY <1>4, <2>1
  <2>2. CASE proto = 100
    BY <1>4, <2>2
  <2> QED BY <1>4, <2>1, <2>2
<1>8. Score(f) \in Nat /\ Score(f) <= (x * port * infra) \div 100
  BY <1>1, <1>6, <1>7
<1> QED BY <1>2, <1>3, <1>5, <1>6, <1>8 DEF x

(* Flows that are as regular as a beacon, to no service or host known to   *)
(* be regular                                                              *)
RegularFlows(fs) ==
  {i \in DOMAIN fs : /\ fs[i].regular >= 60 /\ Len(fs[i].times) >= 4
                     /\ fs[i].dport \notin DOMAIN BENIGN_SERVICE_PORTS
                     /\ {fs[i].src, fs[i].dst} \intersect INFRA_ALLOWLIST = {}}

(* Behind each beacon there is a regular flow of its own.                  *)
LEMMA BeaconsAreFlows ==
  ASSUME NEW fs, FlowsOK(fs)
  PROVE  /\ CountIn(RankBeaconing(fs), IsBeacon) <= Cardinality(RegularFlows(fs))
         /\ CountIn(RankBeaconing(fs), IsBeacon) \in Nat /\ Cardinality(RegularFlows(fs)) \in Nat
<1> DEFINE n == Len(fs)
           at == {i \in DOMAIN fs : Len(fs[i].times) >= 4}
           timed == Picked(fs, at)
           m == Cardinality(at)
           cs == Candidates(fs)
           ys == ByScore(cs)
           bs == RankBeaconing(fs)
           hot == {k \in DOMAIN bs : bs[k].score >= 6000}
<1>1. n \in Nat /\ DOMAIN fs = 1..n /\ \A i \in 1..n : FlowTypeOK(fs[i])
  BY SequenceIs DEF FlowsOK, Entries
<1>2. at \subseteq 1..n
  BY <1>1
<1>3. PICK L : PickedBy(timed, fs, at, L)
  <2> HIDE DEF at, n
  <2> QED BY <1>1, <1>2, PickedAre
<1>4. /\ DOMAIN timed = 1..m /\ m \in Nat /\ \A k \in 1..m : L[k] \in at /\ timed[k] = fs[L[k]]
      /\ \A k, l \in 1..m : L[k] = L[l] => k = l
  <2> HIDE DEF at, timed
  <2> QED BY <1>3 DEF PickedBy
<1>5. cs = [i \in DOMAIN timed |-> [src |-> timed[i].src, dst |-> timed[i].dst, pkts |-> timed[i].count, score |-> Score(timed[i])]]
  BY DEF Candidates
<1> HIDE DEF timed, cs, n, m
<1>6. IsSequence(cs) /\ Len(cs) = m /\ DOMAIN cs = 1..m /\ \A k \in 1..m : cs[k].score = Score(fs[L[k]])
  BY <1>4, <1>5, EachIs
<1>7. \A k \in 1..m : L[k] \in 1..n /\ FlowTypeOK(fs[L[k]])
  BY <1>1, <1>2, <1>4
<1>8. \A k \in 1..m : cs[k].score \in Nat
  BY <1>6, <1>7, ScoreNeeds
<1>9. \A d \in Entries(cs) : d.score \in Int
  BY <1>6, <1>8 DEF Entries
<1>10. IsSequence(ys) /\ Len(ys) = m /\ Permuted(ys, cs)
  BY <1>6, <1>9, ByScoreIs
<1>11. PICK K : Permutes(K, ys, cs)
  BY <1>10 DEF Permuted
<1>12. (\A k \in 1..m : K[k] \in 1..m /\ ys[k] = cs[K[k]]) /\ \A k, l \in 1..m : K[k] = K[l] => k = l
  BY <1>6, <1>11 DEF Permutes
<1> HIDE DEF ys
<1>13. PICK t \in Nat : t <= m /\ DOMAIN bs = 1..t /\ \A i \in 1..t : bs[i] = ys[i]
  <2> DEFINE q == Lesser(TopBeacons, Len(ys))
  <2>1. TopBeacons \in Nat
    BY DetectionsAssumption
  <2>2. bs = FirstOf(ys, TopBeacons)
    BY DEF RankBeaconing, ys, cs
  <2>3. q \in Nat /\ DOMAIN bs = 1..q /\ \A i \in 1..q : bs[i] = ys[i]
    BY <1>10, <2>1, <2>2, FirstOfIs
  <2>4. q <= m
    BY <1>4, <1>10, <2>1 DEF Lesser
  <2> HIDE DEF q, bs
  <2> QED BY <2>3, <2>4
<1> HIDE DEF bs
<1> DEFINE f == [k \in hot |-> L[K[k]]]
<1>14. \A k \in hot : k \in 1..m /\ bs[k] = ys[k] /\ ys[k].score >= 6000
  BY <1>4, <1>13
<1>15. \A k \in hot : f[k] \in RegularFlows(fs)
  <2> TAKE k \in hot
  <2>1. k \in 1..m /\ ys[k].score >= 6000 /\ K[k] \in 1..m /\ ys[k] = cs[K[k]]
    BY <1>12, <1>14
  <2>2. L[K[k]] \in at /\ Score(fs[L[K[k]]]) >= 6000 /\ FlowTypeOK(fs[L[K[k]]])
    BY <1>4, <1>6, <1>7, <2>1
  <2> DEFINE i == L[K[k]]
  <2>3. f[k] = i
    OBVIOUS
  <2> HIDE DEF f, i
  <2>4. i \in at /\ Score(fs[i]) >= 6000 /\ FlowTypeOK(fs[i])
    BY <2>2 DEF i
  <2>5. /\ fs[i].regular >= 60 /\ fs[i].dport \notin DOMAIN BENIGN_SERVICE_PORTS
        /\ {fs[i].src, fs[i].dst} \cap INFRA_ALLOWLIST = {}
    BY <2>4, ScoreNeeds
  <2>6. i \in DOMAIN fs /\ Len(fs[i].times) >= 4
    BY <2>4
  <2> QED BY <2>3, <2>5, <2>6 DEF RegularFlows
<1>16. \A k, l \in hot : f[k] = f[l] => k = l
  <2> TAKE k \in hot, l \in hot
  <2>1. k \in 1..m /\ l \in 1..m
    BY <1>14
  <2>2. f[k] = L[K[k]] /\ f[l] = L[K[l]] /\ K[k] \in 1..m /\ K[l] \in 1..m
    BY <1>12, <2>1
  <2>3. L[K[k]] = L[K[l]] => K[k] = K[l]
    BY <1>4, <2>2
  <2>4. K[k] = K[l] => k = l
    BY <1>12, <2>1
  <2> HIDE DEF f, hot
  <2> QED BY <2>2, <2>3, <2>4
<1>17. IsFiniteSet(RegularFlows(fs))
  <2>1. RegularFlows(fs) \subseteq 1..n
    BY <1>1 DEF RegularFlows
  <2> QED BY <1>1, <2>1, PositionsFinite
<1> HIDE DEF f, hot
<1>18. Cardinality(hot) <= Cardinality(RegularFlows(fs)) /\ Cardinality(hot) \in Nat /\ Cardinality(RegularFlows(fs)) \in Nat
  BY <1>15, <1>16, <1>17, NoMoreThan
<1> QED BY <1>18 DEF CountIn, IsBeacon, hot, bs

(* The risk shown has its reason.                                          *)
LEMMA RiskIsFounded == ViewsInv => RiskHasReason
<1> SUFFICES ASSUME ViewsInv, OnBoard
             PROVE  /\ view.risk = "HIGH" <=>
                         \E i \in DOMAIN Shown.carved : /\ Shown.carved[i].readable
                                                       /\ \E r \in Shown.rules : r.finds \in Shown.carved[i].signs
                    /\ view.risk = "MEDIUM" => Cardinality(RegularFlows(Shown.flows)) >= 3
  BY DEF RiskHasReason, RegularFlows
<1>1. Board(Shown) /\ view = DashboardState(Shown, Public)
  BY BoardIs
<1>2. view.risk = RiskLevel(Shown)
  BY <1>1 DEF DashboardState
<1>3. Alerts(Shown) = 0
  BY DEF Alerts, IocSeverity
<1>4. PICK files : Shown.yara = ScanCarved(Shown.carved, files) /\ Shown.rules = Rules(files) /\ IsSequence(Shown.carved)
  BY <1>1 DEF Board, AnalysisOK
<1>5. YaraMatched(Shown.yara) > 0 <=>
        \E i \in DOMAIN Shown.carved : Shown.carved[i].readable /\ \E r \in Shown.rules : r.finds \in Shown.carved[i].signs
  BY <1>4, MatchedIs
<1>6. FlowsOK(Shown.flows) /\ Shown.beacons = RankBeaconing(Shown.flows)
  BY <1>1 DEF Board, AnalysisOK
<1>7. /\ CountIn(Shown.beacons, IsBeacon) <= Cardinality(RegularFlows(Shown.flows))
      /\ CountIn(Shown.beacons, IsBeacon) \in Nat /\ Cardinality(RegularFlows(Shown.flows)) \in Nat
  BY <1>6, BeaconsAreFlows
<1>9. view.risk = "HIGH" <=> YaraMatched(Shown.yara) > 0
  BY <1>2, <1>3 DEF RiskLevel
<1>10. view.risk = "MEDIUM" => CountIn(Shown.beacons, IsBeacon) >= 3
  BY <1>2, <1>3 DEF RiskLevel
<1> QED BY <1>5, <1>7, <1>9, <1>10

(* What is counted of a flow is a number.                                  *)
LEMMA StatsAre ==
  ASSUME NEW f, FlowTypeOK(f)
  PROVE  StatBytes(f) \in Nat /\ f.count \in Nat /\ Weight(f) \in Nat /\ Weight(f) >= 1
<1>1. f.lens \in Seq(Nat) /\ f.bytes \in Nat \cup {Missing} /\ f.count \in Nat
  BY DEF FlowTypeOK
<1>2. Len(f.lens) \in Nat /\ \A i \in 1..Len(f.lens) : f.lens[i] \in Nat
  BY <1>1
<1>3. Total(f.lens) \in Nat
  BY <1>2, RunningSum
<1> QED BY <1>1, <1>3 DEF StatBytes, Weight, Greater

(* Names have different places.                                            *)
LEMMA PlacesAre ==
  /\ \A a \in Entries(Alphabet) : Place(a) \in Nat
  /\ \A a, b \in Entries(Alphabet) : Place(a) = Place(b) => a = b
<1>1. DOMAIN Alphabet = 1..Len(Alphabet) /\ Len(Alphabet) \in Nat
  BY NamesAssumption, SequenceIs
<1>2. ASSUME NEW a \in Entries(Alphabet)  PROVE Place(a) \in DOMAIN Alphabet /\ Alphabet[Place(a)] = a
  <2>1. \E i \in DOMAIN Alphabet : Alphabet[i] = a
    BY DEF Entries
  <2> QED BY <2>1 DEF Place
<1>3. \A a \in Entries(Alphabet) : Place(a) \in Nat
  BY <1>1, <1>2
<1>4. \A a, b \in Entries(Alphabet) : Place(a) = Place(b) => a = b
  <2> TAKE a \in Entries(Alphabet), b \in Entries(Alphabet)
  <2>1. Alphabet[Place(a)] = a /\ Alphabet[Place(b)] = b
    BY <1>2
  <2> QED BY <2>1
<1> QED BY <1>3, <1>4

(* A list's elements by a number that falls, then by one that grows        *)
LEMMA FallingOrder ==
  ASSUME NEW S, NEW high, NEW low, \A x \in S : high[x] \in Int /\ low[x] \in Int,
         \A x, y \in S : low[x] = low[y] => x = y,
         NEW R, \A x, y \in S : <<x, y>> \in R <=> high[x] > high[y] \/ (high[x] = high[y] /\ low[x] < low[y])
  PROVE  StrictOrder(R, S)
<1>1. \A x \in S : <<x, x>> \notin R
  OBVIOUS
<1>2. ASSUME NEW x \in S, NEW y \in S, NEW z \in S, <<x, y>> \in R, <<y, z>> \in R  PROVE <<x, z>> \in R
  <2>1. /\ high[x] \in Int /\ low[x] \in Int /\ high[y] \in Int /\ low[y] \in Int /\ high[z] \in Int /\ low[z] \in Int
    OBVIOUS
  <2>2. high[x] > high[y] \/ (high[x] = high[y] /\ low[x] < low[y])
    BY <1>2
  <2>3. high[y] > high[z] \/ (high[y] = high[z] /\ low[y] < low[z])
    BY <1>2
  <2>4. high[x] > high[z] \/ (high[x] = high[z] /\ low[x] < low[z])
    BY <2>1, <2>2, <2>3
  <2> QED BY <2>4
<1>3. ASSUME NEW x \in S, NEW y \in S, x # y  PROVE <<x, y>> \in R \/ <<y, x>> \in R
  <2>1. /\ high[x] \in Int /\ low[x] \in Int /\ high[y] \in Int /\ low[y] \in Int
    OBVIOUS
  <2>2. low[x] # low[y]
    BY <1>3
  <2>3. \/ high[x] > high[y] \/ (high[x] = high[y] /\ low[x] < low[y])
        \/ high[y] > high[x] \/ (high[y] = high[x] /\ low[y] < low[x])
    BY <2>1, <2>2
  <2> QED BY <2>3
<1> QED BY <1>1, <1>2, <1>3 DEF StrictOrder

(* What a finite list has at its positions makes a finite set.             *)
LEMMA ImageFinite ==
  ASSUME NEW n \in Nat, NEW f, NEW T, T \subseteq {f[i] : i \in 1..n}
  PROVE  IsFiniteSet(T) /\ Cardinality(T) \in Nat
<1> DEFINE g == [i \in 1..n |-> f[i]]
           A == {f[i] : i \in 1..n}
<1>1. g \in Surjection(1..n, A)
  BY DEF Surjection
<1>2. IsFiniteSet(1..n)
  BY PositionsAre
<1> HIDE DEF g
<1> HIDE DEF A
<1>3. IsFiniteSet(A)
  BY <1>1, <1>2, FS_Surjection
<1>4. T \in SUBSET A
  BY DEF A
<1>5. IsFiniteSet(T)
  BY <1>3, <1>4, FS_Subset
<1> QED BY <1>5, FS_CardinalityType

ProtoBytes(fs, p) == Total([i \in DOMAIN fs |-> IF fs[i].proto = p THEN StatBytes(fs[i]) ELSE 0])
ProtoPackets(fs, p) == Total([i \in DOMAIN fs |-> IF fs[i].proto = p THEN fs[i].count ELSE 0])

(* The rows of the protocols: each protocol of a flow has one.             *)
LEMMA ProtocolRows ==
  ASSUME NEW fs, FlowsOK(fs), Named(fs)
  PROVE  \E rows : \E m \in Nat :
           /\ DOMAIN rows = 1..m /\ \A k, l \in 1..m : rows[k] = rows[l] => k = l
           /\ \A i \in DOMAIN fs : \E k \in 1..m : rows[k] = fs[i].proto
           /\ DOMAIN ProtocolDistribution(fs) = 1..m
           /\ \A k \in 1..m : /\ ProtocolDistribution(fs)[k].bytes = ProtoBytes(fs, rows[k])
                              /\ ProtocolDistribution(fs)[k].packets = ProtoPackets(fs, rows[k])
<1> DEFINE n == Len(fs)
           of(p)      == {i \in DOMAIN fs : fs[i].proto = p}
           bytes(p)   == Total([i \in DOMAIN fs |-> IF i \in of(p) THEN StatBytes(fs[i]) ELSE 0])
           packets(p) == Total([i \in DOMAIN fs |-> IF i \in of(p) THEN fs[i].count ELSE 0])
           S == {f.proto : f \in Entries(fs)}
           A == {<<Cardinality({y \in S : bytes(y) > bytes(x) \/ (bytes(y) = bytes(x) /\ Place(y) < Place(x))}) + 1, x>> : x \in S}
           L == [k \in 1..Cardinality(S) |-> (CHOOSE p \in A : p[1] = k)[2]]
           high == [x \in S |-> bytes(x)]
           low == [x \in S |-> Place(x)]
           R == {p \in S \X S : high[p[1]] > high[p[2]] \/ (high[p[1]] = high[p[2]] /\ low[p[1]] < low[p[2]])}
           B == {<<Rank(R, S, x), x>> : x \in S}
           m == Cardinality(S)
<1>1. n \in Nat /\ DOMAIN fs = 1..n /\ \A i \in 1..n : FlowTypeOK(fs[i]) /\ fs[i] \in Entries(fs)
  BY SequenceIs DEF FlowsOK, Entries
<1>2. ProtocolDistribution(fs) =
        [k \in DOMAIN L |-> [name |-> L[k], bytes |-> bytes(L[k]), packets |-> packets(L[k]), flows |-> Cardinality(of(L[k]))]]
  BY DEF ProtocolDistribution, Listing
<1>3. \A p : bytes(p) = ProtoBytes(fs, p) /\ packets(p) = ProtoPackets(fs, p)
  <2> TAKE p
  <2>1. [i \in DOMAIN fs |-> IF i \in of(p) THEN StatBytes(fs[i]) ELSE 0] = [i \in DOMAIN fs |-> IF fs[i].proto = p THEN StatBytes(fs[i]) ELSE 0]
    OBVIOUS
  <2>2. [i \in DOMAIN fs |-> IF i \in of(p) THEN fs[i].count ELSE 0] = [i \in DOMAIN fs |-> IF fs[i].proto = p THEN fs[i].count ELSE 0]
    OBVIOUS
  <2> HIDE DEF of
  <2> QED BY <2>1, <2>2 DEF ProtoBytes, ProtoPackets
<1>4. \A p : bytes(p) \in Nat
  <2> TAKE p
  <2> DEFINE ns == [i \in DOMAIN fs |-> IF fs[i].proto = p THEN StatBytes(fs[i]) ELSE 0]
  <2>1. Len(ns) = n
    BY <1>1, EachIs
  <2>2. \A i \in 1..n : ns[i] \in Nat
    BY <1>1, StatsAre
  <2> HIDE DEF ns
  <2>3. Total(ns) \in Nat
    BY <1>1, <2>1, <2>2, RunningSum
  <2> QED BY <1>3, <2>3 DEF ns, ProtoBytes
<1> HIDE DEF bytes, packets
<1>5. IsFiniteSet(S) /\ m \in Nat
  <2> DEFINE f == [i \in 1..n |-> fs[i].proto]
  <2>1. S \subseteq {f[i] : i \in 1..n}
    BY <1>1 DEF Entries
  <2> HIDE DEF f, S
  <2> QED BY <1>1, <2>1, ImageFinite
<1>6. S \subseteq Entries(Alphabet)
  BY DEF Named
<1>7. StrictOrder(R, S)
  <2>1. \A x \in S : high[x] \in Int /\ low[x] \in Int
    BY <1>4, <1>6, PlacesAre
  <2>2. \A x, y \in S : low[x] = low[y] => x = y
    BY <1>6, PlacesAre
  <2>3. \A x, y \in S : <<x, y>> \in R <=> high[x] > high[y] \/ (high[x] = high[y] /\ low[x] < low[y])
    OBVIOUS
  <2> HIDE DEF R, S, high, low
  <2> QED BY <2>1, <2>2, <2>3, FallingOrder
<1>8. A = B
  <2>1. \A x \in S : {y \in S : bytes(y) > bytes(x) \/ (bytes(y) = bytes(x) /\ Place(y) < Place(x))} = Below(R, S, x)
    BY DEF Below
  <2> HIDE DEF R, S
  <2> QED BY <2>1 DEF Rank
<1>9. L = [k \in 1..m |-> (CHOOSE p \in B : p[1] = k)[2]]
  <2> HIDE DEF A, B
  <2> QED BY <1>8
<1> HIDE DEF L, R, A
<1>10. Listed(L, S, R)
  <2> HIDE DEF S
  <2> QED BY <1>5, <1>7, <1>9, ListingIs
<1> HIDE DEF m, of
<1>11. DOMAIN L = 1..m /\ Entries(L) = S /\ \A k, l \in 1..m : L[k] = L[l] => k = l
  BY <1>10 DEF Listed, m
<1>12. \A i \in DOMAIN fs : \E k \in 1..m : L[k] = fs[i].proto
  <2>1. \A i \in DOMAIN fs : fs[i].proto \in S
    BY <1>1
  <2>2. \A x \in S : \E k \in 1..m : L[k] = x
    BY <1>11 DEF Entries
  <2> HIDE DEF S
  <2> QED BY <2>1, <2>2
<1>13. /\ DOMAIN ProtocolDistribution(fs) = 1..m
       /\ \A k \in 1..m : /\ ProtocolDistribution(fs)[k].bytes = ProtoBytes(fs, L[k])
                          /\ ProtocolDistribution(fs)[k].packets = ProtoPackets(fs, L[k])
  BY <1>2, <1>3, <1>11
<1> HIDE DEF S
<1> QED BY <1>5, <1>11, <1>12, <1>13

(* The rows count what the flows do.                                       *)
LEMMA RowsCountAll ==
  ASSUME NEW fs, FlowsOK(fs), Named(fs)
  PROVE  LET rows == ProtocolDistribution(fs)
         IN  /\ Total([k \in DOMAIN rows |-> rows[k].packets]) = Total(Packets(fs))
             /\ Total([k \in DOMAIN rows |-> rows[k].bytes]) = Total([i \in DOMAIN fs |-> StatBytes(fs[i])])
<1> DEFINE n == Len(fs)
           d == ProtocolDistribution(fs)
<1>1. n \in Nat /\ DOMAIN fs = 1..n /\ \A i \in 1..n : FlowTypeOK(fs[i])
  BY SequenceIs DEF FlowsOK, Entries
<1>2. PICK rows : \E m \in Nat :
           /\ DOMAIN rows = 1..m /\ \A k, l \in 1..m : rows[k] = rows[l] => k = l
           /\ \A i \in DOMAIN fs : \E k \in 1..m : rows[k] = fs[i].proto
           /\ DOMAIN d = 1..m
           /\ \A k \in 1..m : d[k].bytes = ProtoBytes(fs, rows[k]) /\ d[k].packets = ProtoPackets(fs, rows[k])
  BY ProtocolRows
<1> HIDE DEF d, n
<1>3. PICK m \in Nat :
           /\ \A k, l \in 1..m : rows[k] = rows[l] => k = l
           /\ \A i \in DOMAIN fs : \E k \in 1..m : rows[k] = fs[i].proto
           /\ DOMAIN d = 1..m
           /\ \A k \in 1..m : d[k].bytes = ProtoBytes(fs, rows[k]) /\ d[k].packets = ProtoPackets(fs, rows[k])
  BY <1>2
<1> DEFINE key == [i \in 1..n |-> fs[i].proto]
<1>4. \A i \in 1..n : \E k \in 1..m : rows[k] = key[i]
  BY <1>1, <1>3
<1>5. ASSUME NEW w, Len(w) = n, \A i \in 1..n : w[i] \in Nat,
             NEW ts, Len(ts) = m, \A k \in 1..m : ts[k] = Total([i \in 1..n |-> IF fs[i].proto = rows[k] THEN w[i] ELSE 0])
      PROVE  Total(ts) = Total(w)
  <2> DEFINE part == [k \in 1..m |-> [i \in 1..n |-> IF fs[i].proto = rows[k] THEN w[i] ELSE 0]]
  <2>1. \A k \in 1..m : /\ Len(part[k]) = n /\ \A i \in 1..n : part[k][i] = IF key[i] = rows[k] THEN w[i] ELSE 0
                        /\ ts[k] = Total(part[k])
    <3> TAKE k \in 1..m
    <3> DEFINE p == [i \in 1..n |-> IF fs[i].proto = rows[k] THEN w[i] ELSE 0]
    <3>1. part[k] = p /\ p = [i \in 1..n |-> p[i]] /\ \A i \in 1..n : p[i] = IF key[i] = rows[k] THEN w[i] ELSE 0
      OBVIOUS
    <3>2. ts[k] = Total(p)
      BY <1>5
    <3> HIDE DEF p, part, key
    <3>3. Len(p) = n
      BY <1>1, <3>1, EachIs
    <3> QED BY <3>1, <3>2, <3>3
  <2> HIDE DEF key, part
  <2>2. Keyed(n, w, key, m, rows, part, ts)
    BY <1>1, <1>3, <1>4, <1>5, <2>1 DEF Keyed
  <2> QED BY <2>2, KeyedTotal
<1> HIDE DEF key
<1>6. Total([k \in DOMAIN d |-> d[k].packets]) = Total(Packets(fs))
  <2> DEFINE w == Packets(fs)
             ts == [k \in DOMAIN d |-> d[k].packets]
  <2>1. w = [i \in 1..n |-> w[i]] /\ \A i \in 1..n : w[i] = fs[i].count /\ w[i] \in Nat
    BY <1>1, StatsAre DEF Packets
  <2>2. ts = [k \in 1..m |-> ts[k]] /\ \A k \in 1..m : ts[k] = Total([i \in 1..n |-> IF fs[i].proto = rows[k] THEN fs[i].count ELSE 0])
    BY <1>1, <1>3 DEF ProtoPackets
  <2>3. \A k \in 1..m : [i \in 1..n |-> IF fs[i].proto = rows[k] THEN fs[i].count ELSE 0] = [i \in 1..n |-> IF fs[i].proto = rows[k] THEN w[i] ELSE 0]
    BY <2>1
  <2> HIDE DEF w, ts
  <2>4. Len(w) = n /\ Len(ts) = m
    BY <1>1, <1>3, <2>1, <2>2, EachIs
  <2>5. \A k \in 1..m : ts[k] = Total([i \in 1..n |-> IF fs[i].proto = rows[k] THEN w[i] ELSE 0])
    BY <2>2, <2>3
  <2>6. Total(ts) = Total(w)
    BY <1>5, <2>1, <2>4, <2>5
  <2> QED BY <2>6 DEF ts, w
<1>7. Total([k \in DOMAIN d |-> d[k].bytes]) = Total([i \in DOMAIN fs |-> StatBytes(fs[i])])
  <2> DEFINE w == [i \in DOMAIN fs |-> StatBytes(fs[i])]
             ts == [k \in DOMAIN d |-> d[k].bytes]
  <2>1. w = [i \in 1..n |-> w[i]] /\ \A i \in 1..n : w[i] = StatBytes(fs[i]) /\ w[i] \in Nat
    BY <1>1, StatsAre
  <2>2. ts = [k \in 1..m |-> ts[k]] /\ \A k \in 1..m : ts[k] = Total([i \in 1..n |-> IF fs[i].proto = rows[k] THEN StatBytes(fs[i]) ELSE 0])
    BY <1>1, <1>3 DEF ProtoBytes
  <2>3. \A k \in 1..m : [i \in 1..n |-> IF fs[i].proto = rows[k] THEN StatBytes(fs[i]) ELSE 0] = [i \in 1..n |-> IF fs[i].proto = rows[k] THEN w[i] ELSE 0]
    BY <2>1
  <2> HIDE DEF w, ts
  <2>4. Len(w) = n /\ Len(ts) = m
    BY <1>1, <1>3, <2>1, <2>2, EachIs
  <2>5. \A k \in 1..m : ts[k] = Total([i \in 1..n |-> IF fs[i].proto = rows[k] THEN w[i] ELSE 0])
    BY <2>2, <2>3
  <2>6. Total(ts) = Total(w)
    BY <1>5, <2>1, <2>4, <2>5
  <2> QED BY <2>6 DEF ts, w
<1> QED BY <1>6, <1>7 DEF d

(* So what is called complete is.                                          *)
LEMMA CompleteIsAll == ViewsInv => CompleteMeansAll
<1> SUFFICES ASSUME ViewsInv, OnBoard  PROVE CompleteMeansAll
  BY DEF CompleteMeansAll
<1> DEFINE r == Shown
<1>1. Board(r) /\ view = DashboardState(r, Public)
  BY BoardIs
<1>2. /\ view.protocols = ProtocolDistribution(r.flows) /\ view.summary = CaptureSummary(r)
      /\ view.replay = TrafficReplay(r)
  BY <1>1 DEF DashboardState
<1>3. FlowsOK(r.flows) /\ Named(r.flows)
  BY <1>1 DEF Board
<1> DEFINE rows == view.protocols
<1>4. /\ Total([n \in DOMAIN rows |-> rows[n].packets]) = Total(Packets(r.flows))
      /\ Total([n \in DOMAIN rows |-> rows[n].bytes]) = Total([i \in DOMAIN r.flows |-> StatBytes(r.flows[i])])
  BY <1>2, <1>3, RowsCountAll
<1> HIDE DEF r
<1>5. view.summary.coverage = ByteCoverage(r) /\ view.summary.bytes = Total([i \in DOMAIN r.flows |-> StatBytes(r.flows[i])])
  BY <1>2 DEF CaptureSummary
<1>6. ByteCoverage(r) = "complete" => Total(Packets(r.flows)) = r.packets /\ \A f \in Entries(r.flows) : f.bytes # Missing
  BY DEF ByteCoverage
<1>7. view.replay.coverage = "complete" => Len(view.replay.events) = r.packets
  BY <1>2 DEF TrafficReplay
<1> QED BY <1>4, <1>5, <1>6, <1>7 DEF CompleteMeansAll, r

(* Two numbers more add to the sum.                                        *)
Longer(c, a, n) == Numbers(a, n) /\ Numbers(c, n + 2) /\ \A i \in 1..n : c[i] = a[i]

(* They add what they are.                                                 *)
LEMMA TwoMore ==
  ASSUME NEW n, NEW a, NEW c, Longer(c, a, n)
  PROVE  Total(c) = Total(a) + c[n + 1] + c[n + 2] /\ Total(a) \in Nat
<1> DEFINE P == {i \in 0..n : Sums(c)[i] = Sums(a)[i]}
<1>1. n \in Nat /\ Numbers(a, n) /\ Numbers(c, n + 2) /\ \A i \in 1..n : c[i] = a[i]
  BY DEF Longer, Numbers
<1>2. /\ Sums(c)[0] = 0 /\ Total(c) = Sums(c)[n + 2]
      /\ \A i \in 1..(n + 2) : Sums(c)[i] = Sums(c)[i - 1] + c[i]
      /\ \A i \in 0..(n + 2) : Sums(c)[i] \in Nat
  BY <1>1, NumbersSum
<1>3. /\ Sums(a)[0] = 0 /\ Total(a) = Sums(a)[n] /\ Total(a) \in Nat
      /\ \A i \in 1..n : Sums(a)[i] = Sums(a)[i - 1] + a[i]
  BY <1>1, NumbersSum
<1>4. 0 \in P
  BY <1>1, <1>2, <1>3
<1>5. ASSUME NEW i \in 0..(n - 1), i \in P  PROVE i + 1 \in P
  <2>1. i + 1 \in 1..n /\ i + 1 \in 1..(n + 2) /\ (i + 1) - 1 = i /\ i + 1 \in 0..n
    BY <1>1
  <2>2. Sums(c)[i + 1] = Sums(c)[i] + c[i + 1]
    BY <1>2, <2>1
  <2>3. Sums(a)[i + 1] = Sums(a)[i] + a[i + 1]
    BY <1>3, <2>1
  <2>4. c[i + 1] = a[i + 1]
    BY <1>1, <2>1
  <2> QED BY <1>5, <2>1, <2>2, <2>3, <2>4
<1>6. n \in P
  <2> HIDE DEF P
  <2>1. \A i \in 0..n : i \in P
    BY <1>1, <1>4, <1>5, UpTo
  <2> QED BY <1>1, <2>1
<1>7. Sums(c)[n] = Total(a)
  BY <1>3, <1>6
<1>8. Sums(c)[n + 1] = Sums(c)[n] + c[n + 1]
  <2>1. n + 1 \in 1..(n + 2) /\ (n + 1) - 1 = n
    BY <1>1
  <2> QED BY <1>2, <2>1
<1>9. Sums(c)[n + 2] = Sums(c)[n + 1] + c[n + 2]
  <2>1. n + 2 \in 1..(n + 2) /\ (n + 2) - 1 = n + 1
    BY <1>1
  <2> QED BY <1>2, <2>1
<1> QED BY <1>1, <1>2, <1>3, <1>7, <1>8, <1>9

(* What flows into a node and out of it                                    *)
Into(links, n) == Total([i \in DOMAIN links |-> IF links[i].target = n THEN links[i].value ELSE 0])
OutOf(links, n) == Total([i \in DOMAIN links |-> IF links[i].source = n THEN links[i].value ELSE 0])

(* An edge adds as much to both sides of its service.                      *)
LEMMA LinksAdd ==
  ASSUME NEW links, IsSequence(links), \A l \in Entries(links) : l.value \in Nat,
         NEW e, e.value \in Nat, NEW name,
         Into(links, Node("service", name)) = OutOf(links, Node("service", name))
  PROVE  Into(links \o Links(e), Node("service", name)) = OutOf(links \o Links(e), Node("service", name))
<1> DEFINE node == Node("service", name)
           more == links \o Links(e)
           n == Len(links)
           a == [i \in DOMAIN links |-> IF links[i].target = node THEN links[i].value ELSE 0]
           b == [i \in DOMAIN links |-> IF links[i].source = node THEN links[i].value ELSE 0]
           c == [i \in DOMAIN more |-> IF more[i].target = node THEN more[i].value ELSE 0]
           d == [i \in DOMAIN more |-> IF more[i].source = node THEN more[i].value ELSE 0]
           v == IF Node("service", e.ends[2]) = node THEN e.value ELSE 0
<1>1. n \in Nat /\ DOMAIN links = 1..n /\ links \in Seq(Entries(links)) /\ \A i \in 1..n : links[i].value \in Nat
  BY SequenceIs DEF Entries
<1>2. /\ Len(Links(e)) = 2 /\ Links(e) \in Seq(Entries(Links(e)))
      /\ Links(e)[1].source = Node("source", e.ends[1]) /\ Links(e)[1].target = Node("service", e.ends[2]) /\ Links(e)[1].value = e.value
      /\ Links(e)[2].source = Node("service", e.ends[2]) /\ Links(e)[2].target = Node("destination", e.ends[3]) /\ Links(e)[2].value = e.value
  BY DEF Links, Entries
<1>3. DOMAIN more = 1..(n + 2) /\ (\A i \in 1..n : more[i] = links[i]) /\ more[n + 1] = Links(e)[1] /\ more[n + 2] = Links(e)[2]
  <2> DEFINE ys == Links(e)
             S == Entries(links) \cup Entries(ys)
  <2> HIDE DEF ys
  <2>1. Len(ys) = 2 /\ ys \in Seq(Entries(ys))
    BY <1>2 DEF ys
  <2>s. links \in Seq(S) /\ ys \in Seq(S)
    BY <1>1, <2>1
  <2> HIDE DEF S
  <2>c. /\ links \o ys \in Seq(S) /\ Len(links \o ys) = Len(links) + Len(ys)
        /\ \A i \in 1..(Len(links) + Len(ys)) : (links \o ys)[i] = IF i <= Len(links) THEN links[i] ELSE ys[i - Len(links)]
    BY <2>s, ConcatProperties
  <2>2. \A i \in 1..(n + 2) : (links \o ys)[i] = IF i <= Len(links) THEN links[i] ELSE ys[i - Len(links)]
    BY <2>c, <2>1
  <2>3. DOMAIN (links \o ys) = 1..(n + 2)
    BY <2>c, <2>1, LenProperties
  <2>4. (n + 1) - n = 1 /\ (n + 2) - n = 2 /\ n + 1 \in 1..(n + 2) /\ n + 2 \in 1..(n + 2) /\ ~(n + 1 <= n) /\ ~(n + 2 <= n)
    BY <1>1
  <2>5. \A i \in 1..n : i \in 1..(n + 2) /\ i <= n
    BY <1>1
  <2>6. \A i \in 1..n : (links \o ys)[i] = links[i]
    BY <2>2, <2>5
  <2>7. (links \o ys)[n + 1] = ys[1] /\ (links \o ys)[n + 2] = ys[2]
    BY <2>2, <2>4
  <2> QED BY <2>3, <2>6, <2>7 DEF ys
<1>4. Node("destination", e.ends[3]) # node /\ Node("source", e.ends[1]) # node
  BY DEF Node
<1> HIDE DEF more, node
<1>5. /\ \A i \in 1..n : a[i] \in Nat /\ b[i] \in Nat /\ c[i] = a[i] /\ d[i] = b[i]
      /\ c[n + 1] = v /\ c[n + 2] = 0 /\ d[n + 1] = 0 /\ d[n + 2] = v /\ v \in Nat
  <2>1. \A i \in 1..n : i \in DOMAIN more /\ i \in DOMAIN links
    BY <1>1, <1>3
  <2>2. n + 1 \in DOMAIN more /\ n + 2 \in DOMAIN more
    BY <1>1, <1>3
  <2>3. \A i \in 1..n : a[i] \in Nat /\ b[i] \in Nat /\ c[i] = a[i] /\ d[i] = b[i]
    BY <1>1, <1>3, <2>1
  <2>4. c[n + 1] = v /\ d[n + 1] = 0
    BY <1>2, <1>3, <1>4, <2>2
  <2>5. c[n + 2] = 0 /\ d[n + 2] = v
    BY <1>2, <1>3, <1>4, <2>2
  <2> QED BY <2>3, <2>4, <2>5
<1>6. Len(a) = n /\ Len(b) = n /\ Len(c) = n + 2 /\ Len(d) = n + 2
  <2>1. n + 2 \in Nat
    BY <1>1
  <2>2. Len(a) = n /\ Len(b) = n
    BY <1>1, EachIs
  <2>3. Len(c) = n + 2 /\ Len(d) = n + 2
    BY <1>3, <2>1, EachIs
  <2> QED BY <2>2, <2>3
<1>7. Total(a) = Total(b)
  BY DEF Into, OutOf, node
<1> HIDE DEF a, b, c, d, v, n
<1>a. /\ Numbers(a, n) /\ Numbers(b, n) /\ Numbers(c, n + 2) /\ Numbers(d, n + 2)
      /\ \A i \in 1..n : c[i] = a[i] /\ d[i] = b[i]
  <2>1. \A i \in 1..(n + 2) : i \in 1..n \/ i = n + 1 \/ i = n + 2
    BY <1>1
  <2>2. \A i \in 1..(n + 2) : c[i] \in Nat /\ d[i] \in Nat
    BY <1>5, <2>1
  <2>3. n \in Nat /\ n + 2 \in Nat
    BY <1>1
  <2> QED BY <1>5, <1>6, <2>2, <2>3 DEF Numbers
<1>8. Total(c) = Total(a) + v + 0 /\ Total(a) \in Nat
  <2>1. Longer(c, a, n)
    BY <1>a DEF Longer
  <2> QED BY <1>5, <2>1, TwoMore
<1>9. Total(d) = Total(b) + 0 + v
  <2>1. Longer(d, b, n)
    BY <1>a DEF Longer
  <2> QED BY <1>5, <2>1, TwoMore
<1>10. Total(c) = Total(d)
  BY <1>5, <1>7, <1>8, <1>9
<1> QED BY <1>10 DEF Into, OutOf, c, d, more, node

(* Edges have numbers for their weights.                                   *)
LEMMA EdgesAre ==
  ASSUME NEW fs, IsSequence(fs), \A f \in Entries(fs) : FlowTypeOK(f)
  PROVE  /\ IsSequence(BusiestEdges(fs)) /\ Len(BusiestEdges(fs)) \in Nat
         /\ \A i \in DOMAIN BusiestEdges(fs) : BusiestEdges(fs)[i].value \in Nat
<1> DEFINE n == Len(fs)
           total(e)     == Total([i \in DOMAIN fs |-> IF Edge(fs[i]) = e THEN Weight(fs[i]) ELSE 0])
           first(e)     == Lowest({i \in DOMAIN fs : Edge(fs[i]) = e})
           S            == {Edge(f) : f \in Entries(fs)}
           placed       == {<<Cardinality({y \in S : total(y) > total(x) \/ (total(y) = total(x) /\ first(y) < first(x))}) + 1, x>> : x \in S}
           L            == [k \in 1..Cardinality(S) |-> (CHOOSE p \in placed : p[1] = k)[2]]
           top          == FirstOf(L, EdgeLimit)
           es           == [k \in DOMAIN top |-> [ends |-> top[k], value |-> total(top[k])]]
<1>1. BusiestEdges(fs) = es
  BY DEF BusiestEdges, Listing
<1>2. n \in Nat /\ DOMAIN fs = 1..n /\ \A i \in 1..n : FlowTypeOK(fs[i])
  BY SequenceIs DEF Entries
<1>3. \A e : total(e) \in Nat
  <2> TAKE e
  <2> DEFINE ns == [i \in DOMAIN fs |-> IF Edge(fs[i]) = e THEN Weight(fs[i]) ELSE 0]
  <2>1. Len(ns) = n
    BY <1>2, EachIs
  <2>2. \A i \in 1..n : ns[i] \in Nat
    BY <1>2, StatsAre
  <2> HIDE DEF ns
  <2>3. Total(ns) \in Nat
    BY <1>2, <2>1, <2>2, RunningSum
  <2> QED BY <2>3 DEF ns
<1> HIDE DEF total, first, placed
<1>4. IsFiniteSet(S) /\ Cardinality(S) \in Nat
  <2> DEFINE g == [i \in 1..n |-> Edge(fs[i])]
  <2>1. S \subseteq {g[i] : i \in 1..n}
    BY <1>2 DEF Entries
  <2> HIDE DEF g, S
  <2> QED BY <1>2, <2>1, ImageFinite
<1> HIDE DEF S
<1>5. IsSequence(L)
  BY <1>4, EachIs
<1>6. IsSequence(top) /\ Len(top) \in Nat /\ DOMAIN top = 1..Len(top)
  <2> HIDE DEF L
  <2>1. EdgeLimit \in Nat
    BY DashboardAssumption
  <2> QED BY <1>5, <2>1, FirstOfIs, SequenceIs
<1> HIDE DEF top
<1>7. IsSequence(es) /\ Len(es) \in Nat /\ DOMAIN es = DOMAIN top
  BY <1>6, EachIs
<1>8. \A i \in DOMAIN es : es[i].value \in Nat
  BY <1>3
<1> QED BY <1>1, <1>7, <1>8

(* Links of edges one after the other                                      *)
LEMMA SankeyIs ==
  ASSUME NEW es, IsSequence(es), \A i \in DOMAIN es : es[i].value \in Nat
  PROVE  LET links == Joined([n \in DOMAIN es |-> Links(es[n])])
         IN  /\ \A name : Into(links, Node("service", name)) = OutOf(links, Node("service", name))
             /\ \A l \in Entries(links) : \E name : l.target[1] = "service" => l.target = Node("service", name)
<1> DEFINE m == Len(es)
           ls == [n \in DOMAIN es |-> Links(es[n])]
<1>1. m \in Nat /\ DOMAIN es = 1..m
  BY SequenceIs
<1>2. Len(ls) = m /\ \A i \in 1..m : ls[i] = Links(es[i])
  BY <1>1, EachIs
<1>3. \A i \in 1..m : IsSequence(ls[i]) /\ \A l \in Entries(ls[i]) :
        /\ l.value \in Nat
        /\ \E name : l.target[1] = "service" => l.target = Node("service", name)
  <2> TAKE i \in 1..m
  <2> DEFINE x == Links(es[i])
  <2>1. ls[i] = x /\ es[i].value \in Nat
    BY <1>1, <1>2
  <2>2. IsSequence(x) /\ Entries(x) = {x[1], x[2]}
    BY DEF Links, IsSequence, Entries
  <2>3. /\ x[1].target = Node("service", es[i].ends[2]) /\ x[1].value = es[i].value
        /\ x[1].target[1] = "service"
        /\ x[2].target[1] = "destination" /\ x[2].value = es[i].value
    BY DEF Links, Node
  <2> HIDE DEF x, ls
  <2> QED BY <2>1, <2>2, <2>3
<1> HIDE DEF ls
<1>4. /\ \A i \in 0..m : IsSequence(Joins(ls)[i]) /\ Entries(Joins(ls)[i]) = Within(ls, i)
      /\ IsSequence(Joined(ls)) /\ Entries(Joined(ls)) = UNION {Entries(ls[j]) : j \in 1..m}
  BY <1>1, <1>2, <1>3, JoinedIs
<1>5. /\ Joins(ls)[0] = <<>> /\ (\A i \in 1..m : Joins(ls)[i] = Joins(ls)[i - 1] \o ls[i])
      /\ Joined(ls) = Joins(ls)[m]
  BY <1>1, <1>2, JoinsAre
<1>6. ASSUME NEW name  PROVE Into(Joined(ls), Node("service", name)) = OutOf(Joined(ls), Node("service", name))
  <2> DEFINE node == Node("service", name)
             P == {i \in 0..m : Into(Joins(ls)[i], node) = OutOf(Joins(ls)[i], node)}
  <2>1. 0 \in P
    <3>1. [i \in DOMAIN <<>> |-> IF <<>>[i].target = node THEN <<>>[i].value ELSE 0] =
          [i \in DOMAIN <<>> |-> IF <<>>[i].source = node THEN <<>>[i].value ELSE 0]
      OBVIOUS
    <3>2. Into(<<>>, node) = OutOf(<<>>, node)
      BY <3>1 DEF Into, OutOf
    <3> HIDE DEF node
    <3> QED BY <1>1, <1>5, <3>2
  <2>2. ASSUME NEW i \in 0..(m - 1), i \in P  PROVE i + 1 \in P
    <3>1. i + 1 \in 1..m /\ (i + 1) - 1 = i /\ i \in 0..m /\ i + 1 \in 0..m
      BY <1>1
    <3> DEFINE js == Joins(ls)[i]
    <3>2. Joins(ls)[i + 1] = js \o Links(es[i + 1])
      BY <1>2, <1>5, <3>1
    <3>3. IsSequence(js) /\ Entries(js) = Within(ls, i)
      BY <1>4, <3>1
    <3>4. \A l \in Entries(js) : l.value \in Nat
      <4>1. \A l \in Within(ls, i) : \E j \in 1..m : l \in Entries(ls[j])
        BY <1>1, <3>1 DEF Within
      <4> QED BY <1>3, <3>3, <4>1
    <3>5. es[i + 1].value \in Nat
      BY <1>1, <3>1
    <3>6. Into(js, Node("service", name)) = OutOf(js, Node("service", name))
      BY <2>2
    <3> HIDE DEF js
    <3>7. Into(js \o Links(es[i + 1]), Node("service", name)) = OutOf(js \o Links(es[i + 1]), Node("service", name))
      BY <3>3, <3>4, <3>5, <3>6, LinksAdd
    <3> QED BY <3>1, <3>2, <3>7
  <2>3. m \in P
    <3> HIDE DEF P
    <3>1. \A i \in 0..m : i \in P
      BY <1>1, <2>1, <2>2, UpTo
    <3> QED BY <1>1, <3>1
  <2> QED BY <1>5, <2>3
<1> DEFINE links == Joined(ls)
<1>7. \A l \in Entries(links) : \E j \in 1..m : l \in Entries(ls[j])
  BY <1>4
<1>8. links = Joined([n \in DOMAIN es |-> Links(es[n])])
  BY DEF ls
<1> HIDE DEF links
<1>9. \A l \in Entries(links) : \E name : l.target[1] = "service" => l.target = Node("service", name)
  BY <1>3, <1>7
<1>10. \A name : Into(links, Node("service", name)) = OutOf(links, Node("service", name))
  BY <1>6 DEF links
<1> QED BY <1>8, <1>9, <1>10

(* The Sankey chart keeps what flows.                                      *)
LEMMA SankeyIsBalanced == ViewsInv => SankeyBalanced
<1> SUFFICES ASSUME ViewsInv, OnBoard
             PROVE  \A l \in Entries(view.sankey) : l.target[1] = "service" => Into(view.sankey, l.target) = OutOf(view.sankey, l.target)
  BY DEF SankeyBalanced, Into, OutOf
<1>1. Board(Shown) /\ view = DashboardState(Shown, Public)
  BY BoardIs
<1>2. view.sankey = Sankey(Shown.flows)
  BY <1>1 DEF DashboardState
<1> DEFINE fs == Shown.flows
           at == {i \in DOMAIN fs : fs[i].src # NoName /\ fs[i].dst # NoName}
           ps == Picked(fs, at)
           es == BusiestEdges(ps)
<1>3. FlowsOK(fs)
  BY <1>1 DEF Board
<1>4. IsSequence(ps) /\ \A f \in Entries(ps) : FlowTypeOK(f)
  <2>1. at \subseteq 1..Len(fs) /\ Len(fs) \in Nat /\ \A i \in at : FlowTypeOK(fs[i])
    BY <1>3, SequenceIs DEF FlowsOK, Entries
  <2> HIDE DEF at, fs
  <2>2. IsSequence(ps) /\ Entries(ps) = {fs[i] : i \in at}
    BY <2>1, PickedIs
  <2> HIDE DEF ps
  <2> QED BY <2>1, <2>2
<1>5. view.sankey = Joined([n \in DOMAIN es |-> Links(es[n])])
  BY <1>2 DEF Sankey
<1> HIDE DEF ps
<1>6. IsSequence(es) /\ \A i \in DOMAIN es : es[i].value \in Nat
  BY <1>4, EdgesAre
<1> HIDE DEF es
<1>7. /\ \A name : Into(view.sankey, Node("service", name)) = OutOf(view.sankey, Node("service", name))
      /\ \A l \in Entries(view.sankey) : \E name : l.target[1] = "service" => l.target = Node("service", name)
  BY <1>5, <1>6, SankeyIs
<1> QED BY <1>7

(* What division by a positive number gives                                *)
LEMMA DivIs ==
  ASSUME NEW x \in Nat, NEW s \in Nat \ {0}
  PROVE  x \div s \in Nat /\ s * (x \div s) <= x /\ (x >= s => x \div s >= 1) /\ x < s * (x \div s) + s
OBVIOUS

(* Products grow with their factors.                                       *)
LEMMA TimesGrow ==
  ASSUME NEW a \in Nat, NEW b \in Nat, NEW w \in Nat, a <= b
  PROVE  a * w \in Nat /\ a * w <= b * w
<1>1. PICK d \in Nat : b = a + d
  <2>1. b - a \in Nat /\ b = a + (b - a)
    OBVIOUS
  <2> QED BY <2>1
<1>2. b * w = a * w + d * w
  BY <1>1
<1>3. a * w \in Nat /\ d * w \in Nat
  OBVIOUS
<1> QED BY <1>2, <1>3

(* The bar of a value                                                      *)
LEMMA BarIs ==
  ASSUME NEW low \in Nat, NEW high \in Nat, low < high, NEW v \in Nat, low <= v, NEW buckets \in Nat \ {0}
  PROVE  /\ Bar(v, low, high, buckets) \in 0..(buckets - 1)
         /\ Bar(v, low, high, buckets) * (high - low) <= (v - low) * buckets
<1> DEFINE x == (v - low) * buckets
           s == high - low
           q == x \div s
           b == Bar(v, low, high, buckets)
<1>1. v - low \in Nat /\ s \in Nat \ {0}
  OBVIOUS
<1>2. x \in Nat
  BY <1>1
<1>3. b = Lesser(buckets - 1, q)
  BY DEF Bar
<1> HIDE DEF x, s, b
<1>4. q \in Nat /\ s * q <= x
  BY <1>1, <1>2, DivIs
<1> HIDE DEF q
<1>5. b \in 0..(buckets - 1) /\ b <= q
  BY <1>3, <1>4 DEF Lesser
<1>6. b * s <= q * s
  <2>1. b \in Nat /\ s \in Nat
    BY <1>1, <1>5
  <2> QED BY <1>4, <1>5, <2>1, TimesGrow
<1>7. q * s = s * q /\ b * s \in Int /\ q * s \in Int
  BY <1>1, <1>4, <1>5
<1>8. b * s <= x
  BY <1>2, <1>4, <1>6, <1>7
<1> QED BY <1>5, <1>8 DEF x, s, b

(* A histogram has a bar for each value.                                   *)
LEMMA HistogramIs ==
  ASSUME NEW xs, IsSequence(xs), Entries(xs) \subseteq Nat, NEW m \in Nat \ {0}
  PROVE  Total(Histogram(xs, m)) = Len(xs)
<1> DEFINE n == Len(xs)
           low == Lowest(Entries(xs))
           high == Highest(Entries(xs))
           ns == [b \in 1..m |-> CountIn(xs, LAMBDA v : Bar(v, low, high, m) = b - 1)]
<1>1. n \in Nat /\ DOMAIN xs = 1..n /\ \A i \in 1..n : xs[i] \in Entries(xs) /\ xs[i] \in Nat
  BY SequenceIs DEF Entries
<1>2. Histogram(xs, m) = IF xs = <<>> THEN <<>> ELSE IF high <= low THEN <<Len(xs)>> ELSE ns
  BY DEF Histogram
<1>3. CASE xs = <<>>
  <2>1. Len(<<>>) = 0 /\ \A k \in 1..0 : <<>>[k] = 0
    OBVIOUS
  <2>2. Total(<<>>) = 0
    BY <2>1, ZeroTerms
  <2> QED BY <1>2, <1>3, <2>1, <2>2
<1>4. CASE xs # <<>> /\ high <= low
  <2>1. Len(<<n>>) = 1 /\ <<n>>[1] = n /\ 1 \in 1..1 /\ \A k \in 1..1 : k # 1 => <<n>>[k] = 0
    OBVIOUS
  <2> DEFINE one == <<n>>
  <2> HIDE DEF one
  <2>3. Len(one) = 1 /\ one[1] \in Nat /\ one[1] = n /\ 1 \in 1..1 /\ \A k \in 1..1 : k # 1 => one[k] = 0
    BY <1>1, <2>1 DEF one
  <2>2. Total(one) = one[1]
    BY <2>3, OneTerm
  <2> QED BY <1>2, <1>4, <2>2, <2>3 DEF one
<1>5. CASE xs # <<>> /\ ~(high <= low)
  <2>1. IsFiniteSet(Entries(xs)) /\ Entries(xs) # {} /\ Entries(xs) \subseteq Int
    <3>1. n # 0
      BY <1>1, <1>5
    <3>2. 1 \in 1..n
      BY <1>1, <3>1
    <3> QED BY <1>1, <3>2, EntriesFinite
  <2>2. low \in Nat /\ high \in Nat /\ \A v \in Entries(xs) : low <= v
    BY <2>1, ExtremesAre
  <2> HIDE DEF low, high
  <2>3. low < high
    BY <1>5, <2>2
  <2> DEFINE part == [i \in 1..n |-> Bar(xs[i], low, high, m) + 1]
  <2>4. \A i \in 1..n : part[i] \in 1..m /\ part[i] - 1 = Bar(xs[i], low, high, m)
    <3> TAKE i \in 1..n
    <3>1. xs[i] \in Nat /\ low <= xs[i]
      BY <1>1, <2>2
    <3>2. Bar(xs[i], low, high, m) \in 0..(m - 1)
      BY <2>2, <2>3, <3>1, BarIs
    <3> QED BY <3>2
  <2>5. Len(ns) = m
    BY EachIs
  <2>6. \A b \in 1..m : ns[b] = Cardinality({i \in 1..n : part[i] = b})
    <3> TAKE b \in 1..m
    <3>1. ns[b] = Cardinality({i \in 1..n : Bar(xs[i], low, high, m) = b - 1})
      BY <1>1 DEF CountIn
    <3>2. \A i \in 1..n : Bar(xs[i], low, high, m) = b - 1 <=> part[i] = b
      <4> TAKE i \in 1..n
      <4> DEFINE p == part[i]
                 q == Bar(xs[i], low, high, m)
      <4>1. p \in 1..m /\ p - 1 = q
        BY <2>4
      <4> HIDE DEF p, q
      <4>2. q = b - 1 <=> p = b
        BY <4>1
      <4> QED BY <4>2 DEF p, q
    <3> HIDE DEF ns, part
    <3>3. {i \in 1..n : Bar(xs[i], low, high, m) = b - 1} = {i \in 1..n : part[i] = b}
      BY <3>2
    <3> QED BY <3>1, <3>3
  <2> HIDE DEF ns, part
  <2>7. Total(ns) = n
    <3>1. m \in Nat /\ n \in Nat /\ \A i \in 1..n : part[i] \in 1..m
      BY <1>1, <2>4
    <3> HIDE DEF n
    <3>2. Binned(n, m, part, ns)
      BY <2>5, <2>6, <3>1, Zenon DEF Binned
    <3> QED BY <3>2, PartsCounted
  <2> QED BY <1>2, <1>5, <2>7
<1> QED BY <1>3, <1>4, <1>5

(* A sequence of elements of a set                                         *)
LEMMA SequenceOf ==
  ASSUME NEW T, NEW xs \in Seq(T)
  PROVE  IsSequence(xs) /\ Entries(xs) \subseteq T
<1>1. Len(xs) \in Nat /\ DOMAIN xs = 1..Len(xs) /\ \A i \in 1..Len(xs) : xs[i] \in T
  OBVIOUS
<1>2. xs = [i \in 1..Len(xs) |-> xs[i]]
  OBVIOUS
<1>3. IsSequence(xs)
  BY <1>1, <1>2, EachIs
<1> QED BY <1>1, <1>3 DEF Entries

(* Positions that hold values of a set, one list after the other           *)
LEMMA LengthsJoined ==
  ASSUME NEW n \in Nat, NEW ls, Len(ls) = n, \A i \in 1..n : IsSequence(ls[i])
  PROVE  Len(Joined(ls)) = Total([i \in 1..n |-> Len(ls[i])])
<1> DEFINE T == UNION {Entries(ls[i]) : i \in 1..n}
           J == Joined(ls)
<1>1. IsSequence(J) /\ Entries(J) = T
  BY JoinedIs
<1> HIDE DEF J
<1>2. ASSUME NEW xs, IsSequence(xs), Entries(xs) \subseteq T  PROVE Cardinality(Hits(xs, T)) = Len(xs)
  <2>1. Hits(xs, T) = 1..Len(xs) /\ Len(xs) \in Nat
    BY <1>2, SequenceIs DEF Hits, Entries
  <2> QED BY <2>1, PositionsAre
<1>3. Cardinality(Hits(J, T)) = Len(J)
  BY <1>1, <1>2
<1>4. \A i \in 1..n : Cardinality(Hits(ls[i], T)) = Len(ls[i])
  <2>1. \A i \in 1..n : Entries(ls[i]) \subseteq T
    OBVIOUS
  <2> HIDE DEF T
  <2> QED BY <1>2, <2>1
<1>5. Cardinality(Hits(J, T)) = Total([i \in 1..n |-> Cardinality(Hits(ls[i], T))])
  BY HitsJoined DEF J
<1>6. [i \in 1..n |-> Cardinality(Hits(ls[i], T))] = [i \in 1..n |-> Len(ls[i])]
  <2> HIDE DEF T
  <2> QED BY <1>4
<1> QED BY <1>3, <1>5, <1>6 DEF J

(* The bar of a value is the one whose part of the whole it is in.         *)
LEMMA BarIsWhere ==
  ASSUME NEW low \in Nat, NEW high \in Nat, low < high, NEW v \in Nat, low <= v, NEW n \in Nat \ {0}, NEW b \in 1..n
  PROVE  Bar(v, low, high, n) = b - 1 <=>
           /\ (b - 1) * (high - low) <= (v - low) * n
           /\ b < n => (v - low) * n < b * (high - low)
<1> DEFINE x == (v - low) * n
           s == high - low
           q == x \div s
           bar == Bar(v, low, high, n)
<1>1. v - low \in Nat /\ s \in Nat \ {0}
  OBVIOUS
<1>2. x \in Nat
  BY <1>1
<1>3. bar = Lesser(n - 1, q)
  BY DEF Bar
<1> HIDE DEF x, s, bar
<1>4. q \in Nat /\ s * q <= x /\ x < s * q + s
  BY <1>1, <1>2, DivIs
<1> HIDE DEF q
<1>5. \A m \in Nat : (m <= q => m * s <= q * s) /\ (q + 1 <= m => (q + 1) * s <= m * s) /\ m * s \in Nat
  <2> TAKE m \in Nat
  <2>1. s \in Nat /\ q + 1 \in Nat
    BY <1>1, <1>4
  <2> QED BY <1>4, <2>1, TimesGrow
<1>6. q * s = s * q /\ (q + 1) * s = s * q + s /\ q * s \in Nat /\ s * q \in Nat
  BY <1>1, <1>4
<1>7. b - 1 \in Nat /\ b \in Nat
  OBVIOUS
<1> DEFINE low1 == (b - 1) * s
           high1 == b * s
<1>8. low1 \in Nat /\ high1 \in Nat
  BY <1>5, <1>7
<1>9. /\ b - 1 <= q => low1 <= x
      /\ q + 1 <= b - 1 => x < low1
      /\ b <= q => high1 <= x
      /\ q + 1 <= b => x < high1
  <2>1. (b - 1 <= q => low1 <= q * s) /\ (q + 1 <= b - 1 => (q + 1) * s <= low1)
    BY <1>5, <1>7
  <2>2. (b <= q => high1 <= q * s) /\ (q + 1 <= b => (q + 1) * s <= high1)
    BY <1>5, <1>7
  <2> HIDE DEF low1, high1
  <2> QED BY <1>1, <1>2, <1>4, <1>6, <1>8, <2>1, <2>2
<1> HIDE DEF low1, high1
<1>10. bar = b - 1 <=> low1 <= x /\ (b < n => x < high1)
  BY <1>2, <1>3, <1>4, <1>8, <1>9 DEF Lesser
<1> QED BY <1>10 DEF x, s, bar, low1, high1

(* A heat map is as warm as the times are many.                            *)
LEMMA HeatmapIs ==
  ASSUME NEW xs, IsSequence(xs), Entries(xs) \subseteq Nat
  PROVE  LET cells   == DOMAIN Heatmap(xs)
             heat(b) == Cardinality(Hits(xs, TimesOfCell(Entries(xs), b)))
         IN  /\ Total([b \in cells |-> heat(b)]) = Len(xs)
             /\ Entries(xs) # {} =>
                  \E p \in cells : \A b \in cells :
                    /\ heat(b) <= heat(p)
                    /\ (Heatmap(xs)[b] - 1) * heat(p) < 5 * heat(b)
                    /\ 5 * heat(b) <= Heatmap(xs)[b] * heat(p)
<1> DEFINE n == Len(xs)
           all == Entries(xs)
           low == Lowest(all)
           top == Highest(all)
           high == Greater(low + 1, top)
           in == [b \in 1..HeatBuckets |-> CountIn(xs, LAMBDA u : HeatCell(u, low, high) = b - 1)]
           peak == Highest(Entries(in))
           map == [b \in 1..HeatBuckets |-> IF peak = 0 THEN 0 ELSE (in[b] * 5 + peak - 1) \div peak]
           heat(b) == Cardinality(Hits(xs, TimesOfCell(all, b)))
<1>1. n \in Nat /\ DOMAIN xs = 1..n /\ \A i \in 1..n : xs[i] \in all /\ xs[i] \in Nat
  BY SequenceIs DEF Entries
<1>2. CASE xs = <<>>
  <2>1. n = 0 /\ all = {} /\ DOMAIN Heatmap(xs) = {}
    BY <1>2 DEF Entries, Heatmap
  <2>2. [b \in DOMAIN Heatmap(xs) |-> heat(b)] = <<>>
    BY <2>1
  <2>3. Total(<<>>) = 0
    <3>1. Len(<<>>) = 0 /\ \A k \in 1..0 : <<>>[k] = 0
      OBVIOUS
    <3> QED BY <3>1, ZeroTerms
  <2> QED BY <2>1, <2>2, <2>3
<1>3. CASE xs # <<>>
  <2>1. Heatmap(xs) = map
    BY <1>3 DEF Heatmap
  <2>2. all # {} /\ n # 0
    BY <1>1, <1>3, SequenceIs DEF Entries, IsSequence
  <2>3. low \in Nat /\ top \in Nat /\ low <= top /\ \A t \in all : t \in Nat /\ low <= t
    <3>1. IsFiniteSet(all) /\ all # {} /\ all \subseteq Int
      BY <2>2, EntriesFinite
    <3> QED BY <3>1, ExtremesAre
  <2> HIDE DEF low, top
  <2>4. high \in Nat /\ low < high /\ high - low = Greater(1, top - low)
    BY <2>3 DEF Greater
  <2> HIDE DEF high
  <2>5. HeatBuckets \in Nat \ {0}
    BY DashboardAssumption
  <2>6. \A b \in 1..HeatBuckets : TimesOfCell(all, b) = {t \in all : HeatCell(t, low, high) = b - 1}
    <3> TAKE b \in 1..HeatBuckets
    <3>1. TimesOfCell(all, b) = {t \in all : /\ (b - 1) * (high - low) <= (t - low) * HeatBuckets
                                             /\ b < HeatBuckets => (t - low) * HeatBuckets < b * (high - low)}
      BY <2>4 DEF TimesOfCell, low, top
    <3>2. \A t \in all : HeatCell(t, low, high) = b - 1 <=>
            /\ (b - 1) * (high - low) <= (t - low) * HeatBuckets
            /\ b < HeatBuckets => (t - low) * HeatBuckets < b * (high - low)
      BY <2>3, <2>4, <2>5, BarIsWhere DEF HeatCell
    <3> QED BY <3>1, <3>2
  <2>7. \A b \in 1..HeatBuckets : in[b] = heat(b) /\ heat(b) \in Nat
    <3> TAKE b \in 1..HeatBuckets
    <3>1. in[b] = Cardinality({i \in 1..n : HeatCell(xs[i], low, high) = b - 1})
      BY <1>1 DEF CountIn
    <3>2. Hits(xs, TimesOfCell(all, b)) = {i \in 1..n : HeatCell(xs[i], low, high) = b - 1}
      BY <1>1, <2>6 DEF Hits
    <3>3. Hits(xs, TimesOfCell(all, b)) \subseteq 1..n
      BY <1>1 DEF Hits
    <3>4. heat(b) \in Nat
      BY <1>1, <3>3, PositionsFinite
    <3> QED BY <3>1, <3>2, <3>4
  <2>8. DOMAIN map = 1..HeatBuckets /\ \A b \in 1..HeatBuckets : map[b] = IF peak = 0 THEN 0 ELSE (in[b] * 5 + peak - 1) \div peak
    OBVIOUS
  <2>9. DOMAIN in = 1..HeatBuckets /\ IsSequence(in) /\ Len(in) = HeatBuckets
    BY <2>5, EachIs
  <2> DEFINE part == [i \in 1..n |-> HeatCell(xs[i], low, high) + 1]
  <2>10. \A i \in 1..n : part[i] \in 1..HeatBuckets /\ part[i] - 1 = HeatCell(xs[i], low, high)
    <3> TAKE i \in 1..n
    <3>1. HeatCell(xs[i], low, high) \in 0..(HeatBuckets - 1)
      BY <1>1, <2>3, <2>4, <2>5, BarIs DEF HeatCell
    <3> QED BY <2>5, <3>1
  <2>11. \A b \in 1..HeatBuckets : in[b] = Cardinality({i \in 1..n : part[i] = b})
    <3> TAKE b \in 1..HeatBuckets
    <3>1. in[b] = Cardinality({i \in 1..n : HeatCell(xs[i], low, high) = b - 1})
      BY <1>1 DEF CountIn
    <3>2. \A i \in 1..n : HeatCell(xs[i], low, high) = b - 1 <=> part[i] = b
      <4> TAKE i \in 1..n
      <4> DEFINE p == part[i]
                 q == HeatCell(xs[i], low, high)
      <4>1. p \in 1..HeatBuckets /\ p - 1 = q
        BY <2>10
      <4> HIDE DEF p, q
      <4>2. q = b - 1 <=> p = b
        BY <4>1
      <4> QED BY <4>2 DEF p, q
    <3> HIDE DEF in, part
    <3>3. {i \in 1..n : HeatCell(xs[i], low, high) = b - 1} = {i \in 1..n : part[i] = b}
      BY <3>2
    <3> QED BY <3>1, <3>3
  <2> HIDE DEF in, part, map, heat
  <2>12. Total(in) = n
    <3>1. HeatBuckets \in Nat /\ n \in Nat /\ \A i \in 1..n : part[i] \in 1..HeatBuckets
      BY <1>1, <2>5, <2>10
    <3> HIDE DEF n
    <3>2. Binned(n, HeatBuckets, part, in)
      BY <2>9, <2>11, <3>1, Zenon DEF Binned
    <3> QED BY <3>2, PartsCounted
  <2>13. [b \in DOMAIN map |-> heat(b)] = in
    <3>1. [b \in 1..HeatBuckets |-> heat(b)] = [b \in 1..HeatBuckets |-> in[b]]
      BY <2>7
    <3> QED BY <2>8, <2>9, <3>1 DEF in
  <2>14. PICK p \in 1..HeatBuckets : in[p] = peak /\ \A b \in 1..HeatBuckets : in[b] <= peak
    <3>1. 1 \in 1..HeatBuckets /\ Entries(in) \subseteq Nat /\ \A b \in 1..HeatBuckets : in[b] \in Entries(in)
      BY <2>5, <2>7, <2>9 DEF Entries
    <3>2. IsFiniteSet(Entries(in)) /\ Entries(in) # {} /\ Entries(in) \subseteq Int
      BY <2>9, <3>1, EntriesFinite
    <3>3. peak \in Entries(in) /\ \A x \in Entries(in) : x <= peak
      BY <3>2, ExtremesAre
    <3>4. \E p \in 1..HeatBuckets : in[p] = peak
      BY <2>9, <3>3 DEF Entries
    <3> QED BY <3>1, <3>3, <3>4
  <2> HIDE DEF peak
  <2>15. peak \in Nat \ {0}
    <3>1. 1 \in 1..n
      BY <1>1, <2>2
    <3>2. part[1] \in 1..HeatBuckets
      BY <2>10, <3>1
    <3> DEFINE A == {i \in 1..n : part[i] = part[1]}
    <3>3. A \subseteq 1..n /\ A # {}
      BY <3>1
    <3> HIDE DEF A
    <3>4. IsFiniteSet(A) /\ Cardinality(A) \in Nat /\ Cardinality(A) # 0
      BY <1>1, <3>3, PositionsFinite, FS_EmptySet
    <3>5. in[part[1]] = Cardinality(A)
      BY <2>11, <3>2 DEF A
    <3>6. in[part[1]] <= peak
      BY <2>14, <3>2
    <3>7. peak \in Nat
      BY <2>7, <2>14
    <3> QED BY <3>4, <3>5, <3>6, <3>7
  <2>16. \A b \in 1..HeatBuckets : /\ (map[b] - 1) * peak < 5 * in[b]
                                    /\ 5 * in[b] <= map[b] * peak
    <3> TAKE b \in 1..HeatBuckets
    <3> DEFINE x == in[b] * 5 + peak - 1
               q == x \div peak
    <3>1. in[b] \in Nat
      BY <2>7
    <3>2. x \in Nat
      BY <2>15, <3>1
    <3>3. map[b] = q
      BY <2>8, <2>15
    <3> DEFINE y == in[b]
    <3>4. x = y * 5 + peak - 1 /\ y \in Nat
      BY <3>1
    <3> HIDE DEF x, y
    <3>5. q \in Nat /\ peak * q <= x /\ x < peak * q + peak
      BY <2>15, <3>2, DivIs
    <3> HIDE DEF q
    <3>6. (q - 1) * peak = peak * q - peak /\ q * peak = peak * q /\ peak * q \in Nat
      BY <2>15, <3>5
    <3>7. (q - 1) * peak < 5 * y /\ 5 * y <= q * peak
      BY <2>15, <3>2, <3>4, <3>5, <3>6
    <3> QED BY <3>3, <3>7 DEF y
  <2>17. \A b \in 1..HeatBuckets : /\ heat(b) <= heat(p)
                                    /\ (map[b] - 1) * heat(p) < 5 * heat(b)
                                    /\ 5 * heat(b) <= map[b] * heat(p)
    BY <2>7, <2>14, <2>16
  <2> QED BY <2>1, <2>8, <2>12, <2>13, <2>17 DEF heat
<1> QED BY <1>2, <1>3

(* The charts of a board count every sample.                               *)
LEMMA ChartsCount == ViewsInv => ChartsCountAll
<1> SUFFICES ASSUME ViewsInv, OnBoard  PROVE ChartsCountAll
  BY DEF ChartsCountAll
<1> DEFINE fs == Shown.flows
           n == Len(fs)
           lens == [i \in DOMAIN fs |-> fs[i].lens]
           times == [i \in DOMAIN fs |-> fs[i].times]
<1>1. Board(Shown) /\ view = DashboardState(Shown, Public)
  BY BoardIs
<1>2. view.sizes = Histogram(Joined(lens), SizeBuckets) /\ view.heatmap = Heatmap(Joined(times))
  BY <1>1 DEF DashboardState
<1>3. n \in Nat /\ DOMAIN fs = 1..n /\ \A i \in 1..n : FlowTypeOK(fs[i])
  BY <1>1, SequenceIs DEF Board, FlowsOK, Entries
<1>4. \A i \in 1..n : /\ IsSequence(lens[i]) /\ Entries(lens[i]) \subseteq Nat /\ lens[i] = fs[i].lens
                       /\ IsSequence(times[i]) /\ Entries(times[i]) \subseteq Nat /\ times[i] = fs[i].times
  <2> TAKE i \in 1..n
  <2>1. lens[i] \in Seq(Nat) /\ times[i] \in Seq(Nat \ {0}) /\ lens[i] = fs[i].lens /\ times[i] = fs[i].times
    BY <1>3 DEF FlowTypeOK
  <2> HIDE DEF lens, times
  <2>2. times[i] \in Seq(Nat)
    BY <2>1
  <2> QED BY <2>1, <2>2, SequenceOf
<1>5. Len(lens) = n /\ Len(times) = n
  BY <1>3, EachIs
<1>6. Total(view.sizes) = Total([i \in DOMAIN fs |-> Len(fs[i].lens)])
  <2>1. [i \in 1..n |-> Len(lens[i])] = [i \in DOMAIN fs |-> Len(fs[i].lens)]
    BY <1>3
  <2> HIDE DEF lens, fs, n
  <2>2. IsSequence(Joined(lens)) /\ Entries(Joined(lens)) \subseteq Nat
    BY <1>3, <1>4, <1>5, JoinedIs
  <2>3. Len(Joined(lens)) = Total([i \in 1..n |-> Len(lens[i])])
    BY <1>3, <1>4, <1>5, LengthsJoined
  <2>4. SizeBuckets \in Nat \ {0}
    BY DashboardAssumption
  <2>5. Total(Histogram(Joined(lens), SizeBuckets)) = Len(Joined(lens))
    BY <2>2, <2>4, HistogramIs
  <2> QED BY <1>2, <2>1, <2>3, <2>5
<1> DEFINE all == UNION {Entries(f.times) : f \in Entries(fs)}
<1>7. IsSequence(Joined(times)) /\ Entries(Joined(times)) = all /\ all \subseteq Nat
  <2>1. UNION {Entries(times[i]) : i \in 1..n} = all
    <3>1. Entries(fs) = {fs[i] : i \in 1..n} /\ \A i \in 1..n : times[i] = fs[i].times
      BY <1>3 DEF Entries
    <3> HIDE DEF fs, times, n
    <3> QED BY <3>1
  <2> HIDE DEF times, fs, n, all
  <2>2. IsSequence(Joined(times)) /\ Entries(Joined(times)) = UNION {Entries(times[i]) : i \in 1..n}
    BY <1>3, <1>4, <1>5, JoinedIs
  <2> QED BY <1>4, <2>1, <2>2
<1>8. \A T : SamplesAt(fs, T) = Cardinality(Hits(Joined(times), T))
  <2> TAKE T
  <2>1. \A i \in 1..n : {j \in DOMAIN fs[i].times : fs[i].times[j] \in T} = Hits(times[i], T)
    BY <1>3 DEF Hits
  <2>2. [i \in DOMAIN fs |-> Cardinality({j \in DOMAIN fs[i].times : fs[i].times[j] \in T})] =
        [i \in 1..n |-> Cardinality(Hits(times[i], T))]
    BY <1>3, <2>1
  <2> HIDE DEF times, fs, n
  <2>3. Cardinality(Hits(Joined(times), T)) = Total([i \in 1..n |-> Cardinality(Hits(times[i], T))])
    BY <1>3, <1>4, <1>5, HitsJoined
  <2> QED BY <2>2, <2>3 DEF SamplesAt
<1>9. Len(Joined(times)) = Total([i \in DOMAIN fs |-> Len(fs[i].times)])
  <2>1. [i \in 1..n |-> Len(times[i])] = [i \in DOMAIN fs |-> Len(fs[i].times)]
    BY <1>3
  <2> HIDE DEF times, fs, n
  <2>2. Len(Joined(times)) = Total([i \in 1..n |-> Len(times[i])])
    BY <1>3, <1>4, <1>5, LengthsJoined
  <2> QED BY <2>1, <2>2
<1> HIDE DEF times, lens
<1> DEFINE cells == DOMAIN view.heatmap
           heat(b) == SamplesAt(fs, TimesOfCell(all, b))
<1>10. /\ Total([b \in cells |-> heat(b)]) = Len(Joined(times))
       /\ all # {} => \E p \in cells : \A b \in cells : /\ heat(b) <= heat(p)
                                                        /\ (view.heatmap[b] - 1) * heat(p) < 5 * heat(b)
                                                        /\ 5 * heat(b) <= view.heatmap[b] * heat(p)
  <2> DEFINE X == Joined(times)
  <2>1. IsSequence(X) /\ Entries(X) \subseteq Nat /\ Entries(X) = all
    BY <1>7
  <2>2. view.heatmap = Heatmap(X)
    BY <1>2
  <2>3. \A b : heat(b) = Cardinality(Hits(X, TimesOfCell(Entries(X), b)))
    BY <1>8, <2>1
  <2> HIDE DEF X, heat, all
  <2>4. [b \in cells |-> heat(b)] = [b \in DOMAIN Heatmap(X) |-> Cardinality(Hits(X, TimesOfCell(Entries(X), b)))]
    BY <2>2, <2>3
  <2>5. /\ Total([b \in DOMAIN Heatmap(X) |-> Cardinality(Hits(X, TimesOfCell(Entries(X), b)))]) = Len(X)
        /\ Entries(X) # {} =>
             \E p \in DOMAIN Heatmap(X) : \A b \in DOMAIN Heatmap(X) :
               /\ Cardinality(Hits(X, TimesOfCell(Entries(X), b))) <= Cardinality(Hits(X, TimesOfCell(Entries(X), p)))
               /\ (Heatmap(X)[b] - 1) * Cardinality(Hits(X, TimesOfCell(Entries(X), p)))
                    < 5 * Cardinality(Hits(X, TimesOfCell(Entries(X), b)))
               /\ 5 * Cardinality(Hits(X, TimesOfCell(Entries(X), b)))
                    <= Heatmap(X)[b] * Cardinality(Hits(X, TimesOfCell(Entries(X), p)))
    BY <2>1, HeatmapIs
  <2> QED BY <2>1, <2>2, <2>3, <2>4, <2>5 DEF X
<1> QED BY <1>6, <1>9, <1>10 DEF ChartsCountAll

(* Packets of an address, the flow it is first seen in, and its place      *)
Busy(fs, ip) == Total([i \in DOMAIN fs |-> Incident(fs[i], ip) * Weight(fs[i])])
SeenIn(fs, ip) == Lowest({i \in DOMAIN fs : ip \in {fs[i].src, fs[i].dst}})
FirstAt(fs, ip) == 2 * SeenIn(fs, ip) + (IF fs[SeenIn(fs, ip)].src = ip THEN 0 ELSE 1)
Addresses(fs) == UNION {{f.src, f.dst} : f \in Entries(fs)}

(* Packets of an address are a number, and a flow of others adds none.     *)
LEMMA BusyIs ==
  ASSUME NEW fs, FlowsOK(fs), NEW ip
  PROVE  /\ Busy(fs, ip) \in Nat
         /\ \A i \in DOMAIN fs : /\ Incident(fs[i], ip) * Weight(fs[i]) \in Nat
                                 /\ ip \notin {fs[i].src, fs[i].dst} => Incident(fs[i], ip) * Weight(fs[i]) = 0
<1> DEFINE n == Len(fs)
           ns == [i \in DOMAIN fs |-> Incident(fs[i], ip) * Weight(fs[i])]
<1>1. n \in Nat /\ DOMAIN fs = 1..n /\ \A i \in 1..n : FlowTypeOK(fs[i])
  BY SequenceIs DEF FlowsOK, Entries
<1>2. ASSUME NEW i \in 1..n  PROVE /\ Incident(fs[i], ip) * Weight(fs[i]) \in Nat
                                   /\ ip \notin {fs[i].src, fs[i].dst} => Incident(fs[i], ip) * Weight(fs[i]) = 0
  <2>1. Weight(fs[i]) \in Nat
    BY <1>1, StatsAre
  <2>2. Incident(fs[i], ip) \in {0, 1, 2} /\ (ip \notin {fs[i].src, fs[i].dst} => Incident(fs[i], ip) = 0)
    BY DEF Incident
  <2> QED BY <2>1, <2>2
<1>3. Len(ns) = n /\ \A i \in 1..n : ns[i] \in Nat
  BY <1>1, <1>2, EachIs
<1> HIDE DEF ns, n
<1>4. Total(ns) \in Nat
  BY <1>1, <1>3, RunningSum
<1> QED BY <1>1, <1>2, <1>4 DEF Busy, ns

(* Addresses are first seen at different places.                           *)
LEMMA FirstAtIs ==
  ASSUME NEW fs, FlowsOK(fs)
  PROVE  /\ \A a \in Addresses(fs) : FirstAt(fs, a) \in Int
         /\ \A a, b \in Addresses(fs) : FirstAt(fs, a) = FirstAt(fs, b) => a = b
<1> DEFINE n == Len(fs)
<1>1. n \in Nat /\ DOMAIN fs = 1..n
  BY SequenceIs DEF FlowsOK
<1>2. ASSUME NEW a \in Addresses(fs)
      PROVE  SeenIn(fs, a) \in 1..n /\ a \in {fs[SeenIn(fs, a)].src, fs[SeenIn(fs, a)].dst}
  <2> DEFINE T == {i \in DOMAIN fs : a \in {fs[i].src, fs[i].dst}}
  <2>1. T \subseteq 1..n /\ T # {}
    BY <1>1 DEF Addresses, Entries
  <2>2. IsFiniteSet(T) /\ T \subseteq Int
    <3>1. T \subseteq Int
      BY <2>1
    <3> HIDE DEF T
    <3> QED BY <1>1, <2>1, <3>1, PositionsFinite
  <2> HIDE DEF T
  <2>3. Lowest(T) \in T
    BY <2>1, <2>2, ExtremesAre
  <2> QED BY <2>1, <2>3 DEF SeenIn, T
<1>3. \A a \in Addresses(fs) : FirstAt(fs, a) \in Int
  BY <1>2 DEF FirstAt
<1>4. ASSUME NEW a \in Addresses(fs), NEW b \in Addresses(fs), FirstAt(fs, a) = FirstAt(fs, b)  PROVE a = b
  <2> DEFINE s == SeenIn(fs, a)
             t == SeenIn(fs, b)
  <2>1. s \in Int /\ t \in Int /\ a \in {fs[s].src, fs[s].dst} /\ b \in {fs[t].src, fs[t].dst}
    BY <1>2
  <2>2. 2 * s + (IF fs[s].src = a THEN 0 ELSE 1) = 2 * t + (IF fs[t].src = b THEN 0 ELSE 1)
    BY <1>4 DEF FirstAt
  <2> HIDE DEF s, t
  <2>3. s = t /\ (fs[s].src = a <=> fs[t].src = b)
    BY <2>1, <2>2
  <2> QED BY <2>1, <2>3
<1> QED BY <1>3, <1>4

MapOrder(fs, S) ==
  {p \in S \X S : \/ Busy(fs, p[1]) > Busy(fs, p[2])
                  \/ Busy(fs, p[1]) = Busy(fs, p[2]) /\ FirstAt(fs, p[1]) < FirstAt(fs, p[2])}

MapRow(fs, ip) == [ip |-> ip, packets |-> Busy(fs, ip), slices |-> Slices(fs, ip)]

(* The map draws addresses by falling packets.                             *)
LEMMA MapRows ==
  ASSUME NEW fs, FlowsOK(fs), NEW public
  PROVE  \E L : /\ Listed(L, Addresses(fs) \intersect public, MapOrder(fs, Addresses(fs) \intersect public))
                /\ MapFlows(fs, public) = [k \in DOMAIN Drawn(L) |-> MapRow(fs, Drawn(L)[k])]
<1> DEFINE n == Len(fs)
           S == Addresses(fs) \intersect public
           packets(ip)  == Total([i \in DOMAIN fs |-> Incident(fs[i], ip) * Weight(fs[i])])
           seen(ip)     == Lowest({i \in DOMAIN fs : ip \in {fs[i].src, fs[i].dst}})
           at(ip)       == 2 * seen(ip) + (IF fs[seen(ip)].src = ip THEN 0 ELSE 1)
           A == {<<Cardinality({y \in S : packets(y) > packets(x) \/ (packets(y) = packets(x) /\ at(y) < at(x))}) + 1, x>> : x \in S}
           L == [k \in 1..Cardinality(S) |-> (CHOOSE p \in A : p[1] = k)[2]]
           R == MapOrder(fs, S)
           B == {<<Rank(R, S, x), x>> : x \in S}
           high == [x \in S |-> Busy(fs, x)]
           low == [x \in S |-> FirstAt(fs, x)]
<1>1. n \in Nat /\ DOMAIN fs = 1..n
  BY SequenceIs DEF FlowsOK
<1>2. S = Addresses(fs) \intersect public
  OBVIOUS
<1>3. MapFlows(fs, public) = [k \in DOMAIN Drawn(L) |-> [ip |-> Drawn(L)[k], packets |-> packets(Drawn(L)[k]), slices |-> Slices(fs, Drawn(L)[k])]]
  BY DEF MapFlows, Listing, Addresses
<1>4. \A ip : packets(ip) = Busy(fs, ip) /\ at(ip) = FirstAt(fs, ip)
  BY DEF Busy, FirstAt, SeenIn
<1> HIDE DEF packets, seen, at
<1>5. IsFiniteSet(S) /\ Cardinality(S) \in Nat
  <2> DEFINE all == {{f.src, f.dst} : f \in Entries(fs)}
  <2>1. IsFiniteSet(all)
    <3> DEFINE g == [i \in 1..n |-> {fs[i].src, fs[i].dst}]
    <3>1. all \subseteq {g[i] : i \in 1..n}
      BY <1>1 DEF Entries
    <3> HIDE DEF g, all
    <3> QED BY <1>1, <3>1, ImageFinite
  <2>2. \A T \in all : IsFiniteSet(T)
    <3>1. \A a, b : IsFiniteSet({a, b})
      <4> TAKE a, b
      <4>1. IsFiniteSet({a}) /\ {a} \cup {b} = {a, b}
        BY FS_Singleton
      <4> QED BY <4>1, FS_AddElement
    <3> QED BY <3>1
  <2> HIDE DEF all
  <2>3. IsFiniteSet(UNION all)
    BY <2>1, <2>2, FS_UNION
  <2>4. S \in SUBSET (UNION all)
    BY DEF all, Addresses
  <2> HIDE DEF S
  <2>5. IsFiniteSet(S)
    BY <2>3, <2>4, FS_Subset
  <2> QED BY <2>5, FS_CardinalityType
<1> HIDE DEF S
<1>6. StrictOrder(R, S)
  <2>1. \A x \in S : high[x] \in Int /\ low[x] \in Int
    BY <1>2, BusyIs, FirstAtIs
  <2>2. \A x, y \in S : low[x] = low[y] => x = y
    BY <1>2, FirstAtIs
  <2>3. \A x, y \in S : <<x, y>> \in R <=> high[x] > high[y] \/ (high[x] = high[y] /\ low[x] < low[y])
    BY DEF MapOrder
  <2> HIDE DEF R, high, low
  <2> QED BY <2>1, <2>2, <2>3, FallingOrder
<1>7. A = B
  <2>1. \A x \in S : {y \in S : packets(y) > packets(x) \/ (packets(y) = packets(x) /\ at(y) < at(x))} = Below(R, S, x)
    BY <1>4 DEF Below, MapOrder
  <2> HIDE DEF R
  <2> QED BY <2>1 DEF Rank
<1>8. L = [k \in 1..Cardinality(S) |-> (CHOOSE p \in B : p[1] = k)[2]]
  <2> HIDE DEF A, B
  <2> QED BY <1>7
<1> HIDE DEF L, R, A
<1>9. Listed(L, S, R)
  BY <1>5, <1>6, <1>8, ListingIs
<1>10. MapFlows(fs, public) = [k \in DOMAIN Drawn(L) |-> MapRow(fs, Drawn(L)[k])]
  BY <1>3, <1>4 DEF MapRow
<1> QED BY <1>2, <1>9, <1>10 DEF R

(* What is drawn of a list: of those that are located, the first.          *)
FirstDrawn(ds, S, R) ==
  LET D == {ds[k] : k \in DOMAIN ds}
  IN  /\ DOMAIN ds = 1..Len(ds) /\ Len(ds) \in Nat
      /\ Len(ds) = Lesser(MapLimit, Cardinality(S \cap Located))
      /\ D \subseteq S \cap Located /\ Cardinality(D) = Len(ds)
      /\ \A a \in D, b \in (S \cap Located) \ D : <<a, b>> \in R

(* What is drawn are the first of the located addresses.                   *)
LEMMA DrawnIs ==
  ASSUME NEW S, NEW R, NEW L, Listed(L, S, R), Cardinality(S) \in Nat
  PROVE  FirstDrawn(Drawn(L), S, R)
<1> DEFINE m == Cardinality(S)
           at == {i \in DOMAIN L : L[i] \in Located}
           ps == Picked(L, at)
           c == Cardinality(at)
           q == Lesser(MapLimit, c)
           ds == Drawn(L)
           D == {ds[k] : k \in DOMAIN ds}
<1>1. m \in Nat /\ DOMAIN L = 1..m /\ Entries(L) = S
      /\ \A i, j \in 1..m : (i < j <=> <<L[i], L[j]>> \in R) /\ (L[i] = L[j] => i = j)
  BY DEF Listed
<1>2. at \subseteq 1..m
  BY <1>1
<1>3. PICK K : PickedBy(ps, L, at, K)
  <2> HIDE DEF at, m
  <2> QED BY <1>1, <1>2, PickedAre
<1>4. ds = FirstOf(ps, MapLimit)
  BY DEF Drawn
<1> HIDE DEF ps, ds, m
<1>5. /\ DOMAIN ps = 1..c /\ Len(ps) = c /\ IsSequence(ps) /\ c \in Nat
      /\ \A k \in 1..c : K[k] \in at /\ ps[k] = L[K[k]]
      /\ \A i \in at : \E k \in 1..c : K[k] = i
      /\ \A k, l \in 1..c : (k < l <=> K[k] < K[l]) /\ (K[k] = K[l] => k = l)
  <2> HIDE DEF at
  <2> QED BY <1>3 DEF PickedBy
<1>6. \A k \in 1..c : K[k] \in 1..m /\ L[K[k]] \in Located
  BY <1>5, <1>2
<1>7. \A k, l \in 1..c : ps[k] = ps[l] => k = l
  <2> HIDE DEF at, c
  <2> TAKE k \in 1..c, l \in 1..c
  <2>1. K[k] \in 1..m /\ K[l] \in 1..m /\ ps[k] = L[K[k]] /\ ps[l] = L[K[l]]
    BY <1>5, <1>6
  <2>2. L[K[k]] = L[K[l]] => K[k] = K[l]
    BY <1>1, <2>1
  <2> QED BY <1>5, <2>1, <2>2
<1>8. {ps[k] : k \in DOMAIN ps} = S \cap Located
  <2>1. ASSUME NEW k \in 1..c  PROVE ps[k] \in S \cap Located
    <3>1. K[k] \in DOMAIN L /\ L[K[k]] \in Located /\ ps[k] = L[K[k]]
      BY <1>1, <1>5, <1>6
    <3>2. L[K[k]] \in S
      BY <1>1, <3>1 DEF Entries
    <3> QED BY <3>1, <3>2
  <2>2. ASSUME NEW x \in S \cap Located  PROVE \E k \in 1..c : ps[k] = x
    <3>1. PICK i \in DOMAIN L : L[i] = x
      BY <1>1 DEF Entries
    <3>2. i \in at
      BY <3>1
    <3>3. PICK k \in 1..c : K[k] = i
      BY <1>5, <3>2
    <3> QED BY <1>5, <3>1, <3>3
  <2> HIDE DEF c
  <2>3. DOMAIN ps = 1..c
    BY <1>5
  <2> QED BY <2>1, <2>2, <2>3
<1>9. c = Cardinality(S \cap Located)
  <2> HIDE DEF c
  <2>1. Cardinality({ps[k] : k \in DOMAIN ps}) = c
    BY <1>5, <1>7, PrefixCounted
  <2> QED BY <1>8, <2>1
<1> HIDE DEF c
<1>10. MapLimit \in Nat
  BY DashboardAssumption
<1>11. Len(ds) = q /\ q \in Nat /\ DOMAIN ds = 1..q /\ \A k \in 1..q : ds[k] = ps[k]
  <2>1. /\ Len(FirstOf(ps, MapLimit)) = Lesser(MapLimit, Len(ps)) /\ Lesser(MapLimit, Len(ps)) \in Nat
        /\ DOMAIN FirstOf(ps, MapLimit) = 1..Lesser(MapLimit, Len(ps))
        /\ \A i \in 1..Lesser(MapLimit, Len(ps)) : FirstOf(ps, MapLimit)[i] = ps[i]
    <3>1. IsSequence(ps)
      BY <1>5
    <3> QED BY <1>10, <3>1, FirstOfIs
  <2>2. q = Lesser(MapLimit, Len(ps))
    BY <1>5
  <2> HIDE DEF q
  <2> QED BY <1>4, <2>1, <2>2
<1>12. q <= c
  BY <1>5, <1>10 DEF Lesser
<1>q. q = Lesser(MapLimit, Cardinality(S \cap Located))
  BY <1>9
<1> HIDE DEF q
<1>13. \A k \in 1..q : k \in 1..c
  BY <1>5, <1>11, <1>12
<1>14. D \subseteq S \cap Located
  BY <1>5, <1>8, <1>11, <1>13
<1>15. Cardinality(D) = q
  <2>1. \A i, j \in 1..q : ps[i] = ps[j] => i = j
    BY <1>7, <1>13
  <2> QED BY <1>11, <2>1, PrefixCounted
<1>16. ASSUME NEW a \in D, NEW b \in (S \cap Located) \ D  PROVE <<a, b>> \in R
  <2>1. PICK k \in 1..q : a = ps[k]
    BY <1>11
  <2>2. PICK l \in 1..c : b = ps[l]
    BY <1>5, <1>8
  <2>3. l \notin 1..q
    BY <1>11, <2>2
  <2>4. k < l /\ k \in 1..c
    BY <1>5, <1>11, <1>13, <2>3
  <2>5. K[k] < K[l] /\ K[k] \in 1..m /\ K[l] \in 1..m /\ a = L[K[k]] /\ b = L[K[l]]
    BY <1>5, <1>6, <2>1, <2>2, <2>4
  <2> QED BY <1>1, <2>5
<1> QED BY <1>q, <1>11, <1>14, <1>15, <1>16 DEF ds, FirstDrawn

(* The slices of an address hold its packets, when each flow has a time.   *)
LEMMA SlicesCount ==
  ASSUME NEW fs, FlowsOK(fs), Named(fs), \A f \in Entries(fs) : TimeLabel(f) # Missing, NEW ip
  PROVE  Total([k \in DOMAIN Slices(fs, ip) |-> Slices(fs, ip)[k].packets]) = Busy(fs, ip)
<1> DEFINE n == Len(fs)
           S == {Slot(f) : f \in {f \in Entries(fs) : ip \in {f.src, f.dst} /\ TimeLabel(f) # Missing}}
           A == {<<Cardinality({y \in S : Place(y[1]) < Place(x[1]) \/ (y[1] = x[1] /\ y[2] < x[2])}) + 1, x>> : x \in S}
           L == [k \in 1..Cardinality(S) |-> (CHOOSE p \in A : p[1] = k)[2]]
           R == {p \in S \X S : Place(p[1][1]) < Place(p[2][1]) \/ (p[1][1] = p[2][1] /\ p[1][2] < p[2][2])}
           B == {<<Rank(R, S, x), x>> : x \in S}
           m == Cardinality(S)
           sum(s) == Total([i \in DOMAIN fs |-> IF Slot(fs[i]) = s THEN Incident(fs[i], ip) * Weight(fs[i]) ELSE 0])
<1>1. n \in Nat /\ DOMAIN fs = 1..n /\ \A i \in 1..n : FlowTypeOK(fs[i]) /\ fs[i] \in Entries(fs)
  BY SequenceIs DEF FlowsOK, Entries
<1>2. Slices(fs, ip) = [k \in DOMAIN L |-> [slot |-> L[k], packets |-> sum(L[k])]]
  BY DEF Slices, Listing
<1> HIDE DEF n, sum
<1>3. IsFiniteSet(S) /\ m \in Nat
  <2> DEFINE g == [i \in 1..n |-> Slot(fs[i])]
  <2>1. S \subseteq {g[i] : i \in 1..n}
    BY <1>1 DEF Entries
  <2> HIDE DEF g, S
  <2> QED BY <1>1, <2>1, ImageFinite
<1>4. ASSUME NEW x \in S  PROVE x[1] \in Entries(Alphabet) /\ Place(x[1]) \in Int /\ x[2] \in Int /\ x = <<x[1], x[2]>>
  <2>1. PICK f \in Entries(fs) : x = Slot(f)
    OBVIOUS
  <2>2. FlowTypeOK(f) /\ f.proto \in Entries(Alphabet)
    BY DEF FlowsOK, Named
  <2>3. TimeLabel(f) \in Int
    <3>1. f.times # <<>> => f.times[1] \in Nat
      BY <2>2 DEF FlowTypeOK
    <3>2. f.first \in Nat \cup {Missing} /\ Missing \in Int
      <4>1. {f.first, f.last} \subseteq Nat \ {0} \/ {f.first, f.last} = {Missing}
        BY <2>2 DEF FlowTypeOK
      <4>2. f.first \in {f.first, f.last}
        OBVIOUS
      <4>3. f.first \in Nat \/ f.first = Missing
        BY <4>1, <4>2
      <4> QED BY <4>3 DEF Missing
    <3> DEFINE t == IF f.first > 0 THEN f.first ELSE IF f.times = <<>> THEN Missing ELSE f.times[1]
    <3>3. t \in Int
      BY <3>1, <3>2
    <3>4. TimeLabel(f) = IF t = Missing THEN Missing ELSE (t \div 60) % 1440
      BY DEF TimeLabel
    <3> HIDE DEF t
    <3>5. (t \div 60) % 1440 \in Int
      BY <3>3
    <3> QED BY <3>2, <3>4, <3>5
  <2>4. x = <<f.proto, TimeLabel(f)>>
    BY <2>1 DEF Slot
  <2> QED BY <2>2, <2>3, <2>4, PlacesAre
<1>5. StrictOrder(R, S)
  <2>1. \A x, y \in S : <<x, y>> \in R <=> Place(x[1]) < Place(y[1]) \/ (x[1] = y[1] /\ x[2] < y[2])
    OBVIOUS
  <2> HIDE DEF R, S
  <2>2. \A x \in S : <<x, x>> \notin R
    BY <1>4, <2>1
  <2>3. ASSUME NEW x \in S, NEW y \in S, NEW z \in S, <<x, y>> \in R, <<y, z>> \in R  PROVE <<x, z>> \in R
    <3>1. /\ Place(x[1]) \in Int /\ x[2] \in Int /\ Place(y[1]) \in Int /\ y[2] \in Int
          /\ Place(z[1]) \in Int /\ z[2] \in Int
      BY <1>4
    <3>2. Place(x[1]) < Place(y[1]) \/ (x[1] = y[1] /\ x[2] < y[2])
      BY <2>1, <2>3
    <3>3. Place(y[1]) < Place(z[1]) \/ (y[1] = z[1] /\ y[2] < z[2])
      BY <2>1, <2>3
    <3>4. Place(x[1]) < Place(z[1]) \/ (x[1] = z[1] /\ x[2] < z[2])
      BY <3>1, <3>2, <3>3
    <3> QED BY <2>1, <3>4
  <2>4. ASSUME NEW x \in S, NEW y \in S, x # y  PROVE <<x, y>> \in R \/ <<y, x>> \in R
    <3>1. x[1] # y[1] \/ x[2] # y[2]
      BY <1>4, <2>4
    <3>2. x[1] # y[1] => Place(x[1]) # Place(y[1])
      BY <1>4, PlacesAre
    <3>3. Place(x[1]) \in Int /\ x[2] \in Int /\ Place(y[1]) \in Int /\ y[2] \in Int
      BY <1>4
    <3> QED BY <2>1, <3>1, <3>2, <3>3
  <2> QED BY <2>2, <2>3, <2>4 DEF StrictOrder
<1>6. A = B
  <2>1. \A x \in S : {y \in S : Place(y[1]) < Place(x[1]) \/ (y[1] = x[1] /\ y[2] < x[2])} = Below(R, S, x)
    BY DEF Below
  <2> HIDE DEF R, S
  <2> QED BY <2>1 DEF Rank
<1>7. L = [k \in 1..m |-> (CHOOSE p \in B : p[1] = k)[2]]
  <2> HIDE DEF A, B
  <2> QED BY <1>6
<1> HIDE DEF L, R, A
<1>8. Listed(L, S, R)
  <2> HIDE DEF S
  <2> QED BY <1>3, <1>5, <1>7, ListingIs
<1> HIDE DEF m
<1>9. DOMAIN L = 1..m /\ Entries(L) = S /\ \A k, l \in 1..m : L[k] = L[l] => k = l
  BY <1>8 DEF Listed, m
<1> DEFINE w == [i \in DOMAIN fs |-> Incident(fs[i], ip) * Weight(fs[i])]
           key == [i \in 1..n |-> Slot(fs[i])]
           part == [k \in 1..m |-> [i \in DOMAIN fs |-> IF Slot(fs[i]) = L[k] THEN Incident(fs[i], ip) * Weight(fs[i]) ELSE 0]]
           ts == [k \in DOMAIN Slices(fs, ip) |-> Slices(fs, ip)[k].packets]
<1>10. Len(w) = n /\ \A i \in 1..n : w[i] \in Nat /\ w[i] = Incident(fs[i], ip) * Weight(fs[i])
  BY <1>1, BusyIs, EachIs
<1>11. \A i \in 1..n : w[i] = 0 \/ \E k \in 1..m : L[k] = key[i]
  <2> TAKE i \in 1..n
  <2>1. CASE ip \notin {fs[i].src, fs[i].dst}
    BY <1>1, <1>10, <2>1, BusyIs
  <2>2. CASE ip \in {fs[i].src, fs[i].dst}
    <3>1. Slot(fs[i]) \in S
      BY <1>1, <2>2
    <3>2. key[i] = Slot(fs[i])
      OBVIOUS
    <3> HIDE DEF S, key
    <3>3. \E k \in DOMAIN L : L[k] = Slot(fs[i])
      BY <1>9, <3>1 DEF Entries
    <3> QED BY <1>9, <3>2, <3>3
  <2> QED BY <2>1, <2>2
<1>12. Len(ts) = m /\ \A k \in 1..m : ts[k] = sum(L[k])
  <2>1. DOMAIN Slices(fs, ip) = 1..m /\ \A k \in 1..m : Slices(fs, ip)[k].packets = sum(L[k])
    BY <1>2, <1>9
  <2>2. ts = [k \in 1..m |-> ts[k]] /\ \A k \in 1..m : ts[k] = sum(L[k])
    BY <2>1
  <2> HIDE DEF ts
  <2> QED BY <1>3, <2>2, EachIs DEF m
<1>13. \A k \in 1..m : /\ Len(part[k]) = n /\ ts[k] = Total(part[k])
                       /\ \A i \in 1..n : part[k][i] = IF key[i] = L[k] THEN w[i] ELSE 0
  <2> TAKE k \in 1..m
  <2> DEFINE p == [i \in DOMAIN fs |-> IF Slot(fs[i]) = L[k] THEN Incident(fs[i], ip) * Weight(fs[i]) ELSE 0]
  <2>1. part[k] = p /\ p = [i \in 1..n |-> p[i]] /\ \A i \in 1..n : p[i] = IF key[i] = L[k] THEN w[i] ELSE 0
    BY <1>1
  <2>2. ts[k] = Total(p)
    BY <1>12 DEF sum
  <2> HIDE DEF p, part, key, w, ts
  <2>3. Len(p) = n
    BY <1>1, <2>1, EachIs
  <2> QED BY <2>1, <2>2, <2>3
<1>14. m \in Nat
  BY <1>3 DEF m
<1> HIDE DEF w, key, part, ts, S
<1>15. Keyed(n, w, key, m, L, part, ts)
  BY <1>1, <1>9, <1>10, <1>11, <1>12, <1>13, <1>14 DEF Keyed
<1>16. Total(ts) = Total(w)
  BY <1>15, KeyedTotal
<1> QED BY <1>16 DEF ts, w, Busy

(* The map shows the busiest addresses.                                    *)
LEMMA MapShowsBusiest == ViewsInv => BusiestOnMap
<1> SUFFICES ASSUME ViewsInv, OnBoard  PROVE BusiestOnMap
  BY DEF BusiestOnMap
<1> DEFINE fs == Shown.flows
           S == Addresses(fs) \intersect Public
           R == MapOrder(fs, S)
           drawn == {row.ip : row \in Entries(view.map)}
<1>1. Board(Shown) /\ view = DashboardState(Shown, Public)
  BY BoardIs
<1>2. view.map = MapFlows(fs, Public) /\ FlowsOK(fs) /\ Named(fs)
  BY <1>1 DEF DashboardState, Board
<1> HIDE DEF fs
<1>3. PICK L : Listed(L, S, R) /\ view.map = [k \in DOMAIN Drawn(L) |-> MapRow(fs, Drawn(L)[k])]
  BY <1>2, MapRows
<1>4. Cardinality(S) \in Nat
  <2>1. Len(L) = Cardinality(S) /\ IsSequence(L)
    BY <1>3 DEF Listed
  <2> HIDE DEF S
  <2> QED BY <2>1, SequenceIs
<1> DEFINE ds == Drawn(L)
           D == {ds[k] : k \in DOMAIN ds}
<1>5. /\ Len(ds) = Lesser(MapLimit, Cardinality(S \cap Located))
      /\ D \subseteq S \cap Located /\ Cardinality(D) = Len(ds)
      /\ \A a \in D, b \in (S \cap Located) \ D : <<a, b>> \in R
  <2> HIDE DEF S, R, ds
  <2>1. FirstDrawn(ds, S, R)
    BY <1>3, <1>4, DrawnIs DEF ds
  <2> QED BY <2>1 DEF FirstDrawn
<1> HIDE DEF ds
<1>6. DOMAIN view.map = DOMAIN ds /\ \A k \in DOMAIN ds : view.map[k] = MapRow(fs, ds[k])
  BY <1>3 DEF ds
<1>7. \A row \in Entries(view.map) : \E k \in DOMAIN ds : row = MapRow(fs, ds[k])
  BY <1>6 DEF Entries
<1>8. drawn = D
  <2>1. \A k \in DOMAIN ds : MapRow(fs, ds[k]).ip = ds[k]
    BY DEF MapRow
  <2>2. \A k \in DOMAIN ds : MapRow(fs, ds[k]) \in Entries(view.map)
    BY <1>6 DEF Entries
  <2> QED BY <1>7, <2>1, <2>2
<1>9. S \cap Located = Addresses(fs) \intersect Located
  BY DashboardAssumption
<1>10. \A a \in drawn, b \in (Addresses(fs) \intersect Located) \ drawn : Busy(fs, a) >= Busy(fs, b)
  <2> TAKE a \in drawn, b \in (Addresses(fs) \intersect Located) \ drawn
  <2>1. <<a, b>> \in R
    BY <1>5, <1>8, <1>9
  <2>2. Busy(fs, a) \in Nat /\ Busy(fs, b) \in Nat
    BY <1>2, BusyIs
  <2>3. Busy(fs, a) > Busy(fs, b) \/ Busy(fs, a) = Busy(fs, b)
    BY <2>1 DEF MapOrder
  <2> QED BY <2>2, <2>3
<1>11. Cardinality(drawn) = Lesser(MapLimit, Cardinality(Addresses(fs) \intersect Located))
  BY <1>5, <1>8, <1>9
<1>12. \A row \in Entries(view.map) :
         (\A f \in Entries(fs) : TimeLabel(f) # Missing) =>
            Total([k \in DOMAIN row.slices |-> row.slices[k].packets]) = row.packets
  <2> TAKE row \in Entries(view.map)
  <2>1. PICK k \in DOMAIN ds : row = MapRow(fs, ds[k])
    BY <1>7
  <2>2. row.slices = Slices(fs, ds[k]) /\ row.packets = Busy(fs, ds[k])
    BY <2>1 DEF MapRow
  <2> QED BY <1>2, <2>2, SlicesCount
<1> QED BY <1>10, <1>11, <1>12 DEF BusiestOnMap, Busy, Addresses, fs

(* Positions as they are added                                             *)
Fills(S, at) == CHOOSE g : g = [k \in 0..Len(at) |-> IF k = 0 THEN S ELSE AddedTo(g[k - 1], at[k])]

(* The chosen function adds positions, one after the other.                *)
LEMMA FillsAre ==
  ASSUME NEW S, NEW at, Len(at) \in Nat
  PROVE  /\ Fills(S, at)[0] = S
         /\ \A k \in 1..Len(at) : Fills(S, at)[k] = AddedTo(Fills(S, at)[k - 1], at[k])
         /\ Filled(S, at) = Fills(S, at)[Len(at)]
<1> DEFINE n == Len(at)
           IsFill(g, j) == g = [k \in 0..j |-> IF k = 0 THEN S ELSE AddedTo(g[k - 1], at[k])]
           P == {j \in 0..n : \E g : IsFill(g, j)}
<1>1. 0 \in P
  <2>1. IsFill([i \in 0..0 |-> S], 0)
    OBVIOUS
  <2>2. \E g : IsFill(g, 0)
    BY <2>1
  <2> HIDE DEF IsFill
  <2> QED BY <2>2
<1>2. ASSUME NEW j \in 0..(n - 1), j \in P  PROVE j + 1 \in P
  <2>1. PICK g : IsFill(g, j)
    BY <1>2
  <2> DEFINE h == [i \in 0..(j + 1) |-> IF i = 0 THEN S ELSE AddedTo(g[i - 1], at[i])]
  <2>a. g = [k \in 0..j |-> IF k = 0 THEN S ELSE AddedTo(g[k - 1], at[k])]
    BY <2>1
  <2>2. \A i \in 0..j : h[i] = g[i]
    BY <2>a
  <2>3. \A i \in 0..(j + 1) : i # 0 => i - 1 \in 0..j
    OBVIOUS
  <2>4. \A i \in 0..(j + 1) : h[i] = IF i = 0 THEN S ELSE AddedTo(h[i - 1], at[i])
    BY <2>2, <2>3
  <2>5. h = [i \in 0..(j + 1) |-> h[i]]
    OBVIOUS
  <2> HIDE DEF h
  <2>6. h = [i \in 0..(j + 1) |-> IF i = 0 THEN S ELSE AddedTo(h[i - 1], at[i])]
    BY <2>4, <2>5
  <2>7. IsFill(h, j + 1)
    BY <2>6
  <2> HIDE DEF IsFill
  <2> QED BY <2>7
<1>3. n \in P
  <2> HIDE DEF P
  <2>1. \A i \in 0..(n - 1) : i \in P => i + 1 \in P
    BY <1>2
  <2>2. \A i \in 0..n : i \in P
    BY <1>1, <2>1, UpTo
  <2> QED BY <2>2
<1>4. IsFill(Fills(S, at), n)
  BY <1>3 DEF Fills
<1>5. Filled(S, at) = Fills(S, at)[n]
  BY DEF Filled, Fills
<1>6. \A i \in 0..n : Fills(S, at)[i] = IF i = 0 THEN S ELSE AddedTo(Fills(S, at)[i - 1], at[i])
  <2>1. Fills(S, at) = [k \in 0..n |-> IF k = 0 THEN S ELSE AddedTo(Fills(S, at)[k - 1], at[k])]
    BY <1>4
  <2> HIDE DEF n
  <2> QED BY <2>1
<1> QED BY <1>5, <1>6

(* What has been added, up to one of the positions                         *)
LEMMA FilledIs ==
  ASSUME NEW S, IsFiniteSet(S), Cardinality(S) <= MAX_EVENTS, NEW at, Len(at) \in Nat
  PROVE  /\ IsFiniteSet(Filled(S, at)) /\ Cardinality(Filled(S, at)) <= MAX_EVENTS /\ Cardinality(Filled(S, at)) \in Nat
         /\ S \subseteq Filled(S, at) /\ Filled(S, at) \subseteq S \cup {at[k] : k \in 1..Len(at)}
         /\ Cardinality(Filled(S, at)) = MAX_EVENTS \/ {at[k] : k \in 1..Len(at)} \subseteq Filled(S, at)
<1> DEFINE n == Len(at)
           F == Fills(S, at)
           Good(T, k) == /\ IsFiniteSet(T) /\ Cardinality(T) <= MAX_EVENTS /\ Cardinality(T) \in Nat
                         /\ S \subseteq T /\ T \subseteq S \cup {at[i] : i \in 1..k}
                         /\ Cardinality(T) = MAX_EVENTS \/ {at[i] : i \in 1..k} \subseteq T
           P == {k \in 0..n : Good(F[k], k)}
<1>0. MAX_EVENTS \in Nat
  BY DashboardAssumption
<1>1. 0 \in P
  <2>1. F[0] = S
    BY FillsAre
  <2>2. Cardinality(S) \in Nat
    BY FS_CardinalityType
  <2>3. {at[i] : i \in 1..0} = {}
    OBVIOUS
  <2> HIDE DEF F
  <2>4. Good(F[0], 0)
    BY <2>1, <2>2, <2>3
  <2> HIDE DEF Good
  <2> QED BY <2>4
<1>2. ASSUME NEW k \in 0..(n - 1), k \in P  PROVE k + 1 \in P
  <2> DEFINE T == F[k]
             x == at[k + 1]
             U == F[k + 1]
             E == {at[i] : i \in 1..k}
             E2 == {at[i] : i \in 1..(k + 1)}
  <2>1. k + 1 \in 1..n /\ (k + 1) - 1 = k /\ k + 1 \in 0..n
    OBVIOUS
  <2>2. U = AddedTo(T, x)
    BY <2>1, FillsAre
  <2>3. Good(T, k)
    BY <1>2
  <2>4. E2 = E \cup {x}
    <3>1. \A i \in 1..(k + 1) : i \in 1..k \/ i = k + 1
      BY <2>1
    <3>2. \A i \in 1..k : i \in 1..(k + 1)
      BY <2>1
    <3>3. k + 1 \in 1..(k + 1)
      BY <2>1
    <3> QED BY <3>1, <3>2, <3>3
  <2>5. /\ IsFiniteSet(T) /\ Cardinality(T) <= MAX_EVENTS /\ Cardinality(T) \in Nat
        /\ S \subseteq T /\ T \subseteq S \cup E /\ (Cardinality(T) = MAX_EVENTS \/ E \subseteq T)
    BY <2>3
  <2> HIDE DEF F, T, U, x, E
  <2>6. CASE Cardinality(T) >= MAX_EVENTS
    <3>1. U = T
      BY <2>2, <2>6 DEF AddedTo
    <3>2. Cardinality(T) = MAX_EVENTS
      BY <1>0, <2>5, <2>6
    <3> HIDE DEF E2
    <3> QED BY <1>0, <2>1, <2>4, <2>5, <3>1, <3>2 DEF E2, U
  <2>7. CASE ~(Cardinality(T) >= MAX_EVENTS)
    <3>1. U = T \cup {x}
      BY <2>2, <2>7 DEF AddedTo
    <3>2. /\ IsFiniteSet(T \cup {x})
          /\ Cardinality(T \cup {x}) = IF x \in T THEN Cardinality(T) ELSE Cardinality(T) + 1
      BY <2>5, FS_AddElement
    <3>3. IsFiniteSet(U) /\ Cardinality(U) <= MAX_EVENTS /\ Cardinality(U) \in Nat
      BY <1>0, <2>5, <2>7, <3>1, <3>2
    <3>4. E \subseteq T
      BY <1>0, <2>5, <2>7
    <3>5. S \subseteq U /\ U \subseteq S \cup E2 /\ E2 \subseteq U
      BY <2>4, <2>5, <3>1, <3>4
    <3> QED BY <2>1, <3>3, <3>5 DEF U
  <2> QED BY <2>6, <2>7
<1>3. n \in P
  <2> HIDE DEF P
  <2>1. \A k \in 0..n : k \in P
    BY <1>1, <1>2, UpTo
  <2> QED BY <2>1
<1>4. Good(F[n], n)
  BY <1>3
<1>5. Filled(S, at) = F[n]
  BY FillsAre
<1> QED BY <1>4, <1>5

(* Quotients of products                                                   *)
LEMMA WholeQuotient ==
  ASSUME NEW s \in Nat \ {0}, NEW m \in Nat, NEW x \in Nat, x <= s * m
  PROVE  x \div s \in Nat /\ x \div s <= m /\ (x = s * m => x \div s = m)
<1> DEFINE q == x \div s
<1>1. q \in Nat /\ s * q <= x /\ x < s * q + s
  BY DivIs
<1> HIDE DEF q
<1>2. q <= m
  <2> SUFFICES ASSUME ~(q <= m)  PROVE FALSE
    OBVIOUS
  <2>1. m + 1 \in Nat /\ m + 1 <= q
    BY <1>1
  <2>2. (m + 1) * s <= q * s
    BY <1>1, <2>1, TimesGrow
  <2>3. (m + 1) * s = s * m + s /\ q * s = s * q /\ s * m \in Nat /\ s * q \in Nat
    BY <1>1
  <2> QED BY <1>1, <2>2, <2>3
<1>3. ASSUME x = s * m  PROVE q = m
  <2> SUFFICES ASSUME ~(m <= q)  PROVE FALSE
    BY <1>1, <1>2
  <2>1. q + 1 \in Nat /\ q + 1 <= m
    BY <1>1
  <2>2. (q + 1) * s <= m * s
    BY <2>1, TimesGrow
  <2>3. (q + 1) * s = s * q + s /\ m * s = s * m /\ s * m \in Nat /\ s * q \in Nat
    BY <1>1
  <2> QED BY <1>1, <1>3, <2>2, <2>3
<1> QED BY <1>1, <1>2, <1>3 DEF q

(* Every slice has one representative, the first its first and any other   *)
(* its last.                                                               *)
LEMMA RepresentativesAre ==
  ASSUME NEW n \in Nat \ {0}, NEW slice, slice = [i \in 1..n |-> slice[i]],
         \A i \in 1..n : slice[i] \in 0..(MAX_EVENTS - 1)
  PROVE  /\ Representatives(slice) \subseteq 1..n
         /\ IsFiniteSet(Representatives(slice)) /\ Cardinality(Representatives(slice)) <= MAX_EVENTS
         /\ slice[1] = 0 => 1 \in Representatives(slice)
         /\ slice[n] # 0 => n \in Representatives(slice)
<1> DEFINE S(i) == {k \in DOMAIN slice : slice[k] = slice[i]}
           rep(i) == IF slice[i] = 0 THEN Lowest({k \in DOMAIN slice : slice[k] = 0}) ELSE Highest(S(i))
           T == Representatives(slice)
<1>0. MAX_EVENTS \in Nat /\ MAX_EVENTS >= 2
  BY DashboardAssumption
<1>1. DOMAIN slice = 1..n /\ T = {rep(i) : i \in 1..n}
  BY DEF Representatives
<1>2. ASSUME NEW i \in 1..n
      PROVE  /\ rep(i) \in 1..n /\ slice[rep(i)] = slice[i]
             /\ \A k \in 1..n : slice[k] = slice[i] => IF slice[i] = 0 THEN rep(i) <= k ELSE k <= rep(i)
  <2>1. S(i) \subseteq 1..n /\ S(i) # {} /\ S(i) \subseteq Int
    BY <1>1
  <2>2. rep(i) = IF slice[i] = 0 THEN Lowest(S(i)) ELSE Highest(S(i))
    OBVIOUS
  <2> HIDE DEF S, rep
  <2>3. IsFiniteSet(S(i))
    BY <2>1, PositionsFinite
  <2>4. /\ Lowest(S(i)) \in S(i) /\ \A x \in S(i) : Lowest(S(i)) <= x
        /\ Highest(S(i)) \in S(i) /\ \A x \in S(i) : x <= Highest(S(i))
    BY <2>1, <2>3, ExtremesAre
  <2>5. rep(i) \in S(i) /\ \A x \in S(i) : IF slice[i] = 0 THEN rep(i) <= x ELSE x <= rep(i)
    BY <2>2, <2>4
  <2>6. S(i) = {k \in 1..n : slice[k] = slice[i]}
    BY <1>1 DEF S
  <2> QED BY <2>5, <2>6
<1> HIDE DEF rep, S, T
<1>3. T \subseteq 1..n
  BY <1>1, <1>2
<1>4. ASSUME NEW i \in 1..n, NEW j \in 1..n, slice[rep(i)] = slice[rep(j)]  PROVE rep(i) = rep(j)
  <2>1. slice[i] = slice[j] /\ rep(i) \in 1..n /\ rep(j) \in 1..n /\ slice[rep(i)] = slice[i] /\ slice[rep(j)] = slice[i]
    BY <1>2, <1>4
  <2>2. IF slice[i] = 0 THEN rep(i) <= rep(j) ELSE rep(j) <= rep(i)
    BY <1>2, <2>1
  <2>3. IF slice[i] = 0 THEN rep(j) <= rep(i) ELSE rep(i) <= rep(j)
    BY <1>2, <2>1
  <2> QED BY <2>1, <2>2, <2>3
<1>5. IsFiniteSet(T) /\ Cardinality(T) <= MAX_EVENTS
  <2> DEFINE f == [p \in T |-> slice[p] + 1]
             B == 1..MAX_EVENTS
  <2>1. \A p \in T : f[p] \in B /\ slice[p] \in Int
    BY <1>0, <1>3
  <2>2. \A p, q \in T : f[p] = f[q] => p = q
    <3> SUFFICES ASSUME NEW p \in T, NEW q \in T, f[p] = f[q]  PROVE p = q
      OBVIOUS
    <3>1. slice[p] = slice[q]
      <4>1. slice[p] \in Int /\ slice[q] \in Int
        BY <2>1
      <4>2. slice[p] + 1 = slice[q] + 1
        OBVIOUS
      <4> QED BY <4>1, <4>2
    <3>2. PICK i \in 1..n : p = rep(i)
      BY <1>1
    <3>3. PICK j \in 1..n : q = rep(j)
      BY <1>1
    <3> QED BY <1>4, <3>1, <3>2, <3>3
  <2>3. IsFiniteSet(B) /\ Cardinality(B) = MAX_EVENTS
    BY <1>0, PositionsAre
  <2> HIDE DEF f, B
  <2>4. IsFiniteSet(T) /\ Cardinality(T) <= Cardinality(B)
    BY <2>1, <2>2, <2>3, NoMoreThan
  <2> QED BY <2>3, <2>4
<1>6. 1 \in 1..n /\ n \in 1..n
  OBVIOUS
<1>7. slice[1] = 0 => 1 \in T
  <2> HAVE slice[1] = 0
  <2>1. rep(1) \in 1..n /\ rep(1) <= 1 /\ rep(1) \in T
    BY <1>1, <1>2, <1>6
  <2>2. rep(1) = 1
    BY <2>1
  <2> QED BY <2>1, <2>2
<1>8. slice[n] # 0 => n \in T
  <2> HAVE slice[n] # 0
  <2>1. rep(n) \in 1..n /\ n <= rep(n) /\ rep(n) \in T
    BY <1>1, <1>2, <1>6
  <2>2. rep(n) = n
    BY <2>1
  <2> QED BY <2>1, <2>2
<1> QED BY <1>3, <1>5, <1>7, <1>8 DEF T

(* Events in the order of their times                                      *)
InTime(events) ==
  /\ IsSequence(events) /\ \A i \in DOMAIN events : events[i][1] \in Nat
  /\ \A i, j \in DOMAIN events : i < j => events[i][1] <= events[j][1]

(* Of more events than there may be, as many as may are selected, and the  *)
(* first and the last are.                                                 *)
LEMMA EventsSelected ==
  ASSUME NEW events, InTime(events), Len(events) > MAX_EVENTS
  PROVE  /\ Selected(events) \subseteq 1..Len(events) /\ Cardinality(Selected(events)) = MAX_EVENTS
         /\ {1, Len(events)} \subseteq Selected(events)
<1> DEFINE n == Len(events)
           M == MAX_EVENTS
           first == events[1][1]
           span == events[n][1] - first
           slice == [i \in 1..n |-> IF span = 0 THEN 0
                                    ELSE Lesser(M - 1, ((events[i][1] - first) * M) \div span)]
           even == [k \in 1..M |-> ((k - 1) * (n - 1)) \div (M - 1) + 1]
           id == [k \in 1..n |-> k]
           reps == Representatives(slice)
           F == Filled(reps, even)
           G == Filled(F, id)
<1>1. n \in Nat /\ DOMAIN events = 1..n
  BY SequenceIs DEF InTime
<1>0. M \in Nat /\ M >= 2 /\ n > M
  BY DashboardAssumption
<1>2. Selected(events) = G
  BY DEF Selected
<1> HIDE DEF n, M
<1>3. n \in Nat \ {0} /\ 1 \in 1..n /\ n \in 1..n
  BY <1>0, <1>1
<1>4. /\ first \in Nat /\ span \in Nat
      /\ \A i \in 1..n : events[i][1] - first \in Nat /\ events[i][1] - first <= span
  <2>1. \A i \in 1..n : events[i][1] \in Nat
    BY <1>1 DEF InTime
  <2>2. \A i, j \in 1..n : i < j => events[i][1] <= events[j][1]
    BY <1>1 DEF InTime
  <2>3. \A i \in 1..n : 1 < i \/ i = 1
    OBVIOUS
  <2>4. \A i \in 1..n : i < n \/ i = n
    BY <1>1
  <2>5. \A i \in 1..n : events[1][1] <= events[i][1] /\ events[i][1] <= events[n][1]
    <3> TAKE i \in 1..n
    <3>1. events[i][1] \in Nat /\ events[1][1] \in Nat /\ events[n][1] \in Nat
      BY <1>3, <2>1
    <3>2. events[1][1] <= events[i][1]
      BY <1>3, <2>2, <2>3, <3>1
    <3>3. events[i][1] <= events[n][1]
      BY <1>3, <2>2, <2>4, <3>1
    <3> QED BY <3>2, <3>3
  <2> QED BY <1>3, <2>1, <2>5
<1>5. \A i \in 1..n : /\ slice[i] = IF span = 0 THEN 0 ELSE Lesser(M - 1, ((events[i][1] - first) * M) \div span)
                      /\ slice[i] \in 0..(M - 1)
                      /\ span # 0 => (slice[1] = 0 /\ slice[n] = M - 1)
  <2> HIDE DEF first, span
  <2>1. \A i \in 1..n : slice[i] = IF span = 0 THEN 0 ELSE Lesser(M - 1, ((events[i][1] - first) * M) \div span)
    OBVIOUS
  <2> HIDE DEF slice
  <2>2. ASSUME NEW i \in 1..n, span # 0
        PROVE  slice[i] \in 0..(M - 1) /\ (events[i][1] - first = 0 => slice[i] = 0)
               /\ (events[i][1] - first = span => slice[i] = M - 1)
    <3> DEFINE d == events[i][1] - first
               q == (d * M) \div span
    <3>1. d \in Nat /\ d <= span /\ span \in Nat \ {0}
      BY <1>4, <2>2
    <3>a. slice[i] = Lesser(M - 1, q)
      BY <2>1, <2>2
    <3> HIDE DEF d
    <3>2. d * M \in Nat /\ d * M <= span * M
      BY <1>0, <3>1, TimesGrow
    <3>3. q \in Nat /\ q <= M /\ (d * M = span * M => q = M)
      BY <1>0, <3>1, <3>2, WholeQuotient
    <3>4. d = 0 => q = 0
      <4> HAVE d = 0
      <4>1. d * M = 0 /\ d * M <= span * 0
        BY <1>0, <3>1
      <4>2. q <= 0
        <5>1. 0 \in Nat
          OBVIOUS
        <5> QED BY <3>1, <3>2, <4>1, <5>1, WholeQuotient
      <4> QED BY <3>3, <4>2
    <3> HIDE DEF q
    <3>5. slice[i] \in 0..(M - 1) /\ (q = 0 => slice[i] = 0) /\ (q = M => slice[i] = M - 1)
      BY <1>0, <3>a, <3>3 DEF Lesser
    <3> QED BY <3>3, <3>4, <3>5 DEF d
  <2>3. span = 0 => \A i \in 1..n : slice[i] \in 0..(M - 1)
    BY <1>0, <2>1
  <2>4. events[1][1] - first = 0 /\ events[n][1] - first = span
    BY <1>3, <1>4 DEF first, span
  <2>5. span # 0 => slice[1] = 0 /\ slice[n] = M - 1
    BY <1>3, <2>2, <2>4
  <2> QED BY <2>1, <2>2, <2>3, <2>5
<1>6. slice = [i \in 1..n |-> slice[i]]
  OBVIOUS
<1>7. Len(even) = M /\ (\A k \in 1..M : even[k] \in 1..n) /\ even[1] = 1 /\ even[M] = n
  <2>1. M - 1 \in Nat \ {0} /\ n - 1 \in Nat
    BY <1>0, <1>1
  <2>2. ASSUME NEW k \in 1..M
        PROVE  even[k] \in 1..n /\ (k = 1 => even[k] = 1) /\ (k = M => even[k] = n)
    <3> DEFINE x == (k - 1) * (n - 1)
               q == x \div (M - 1)
    <3>a. even[k] = q + 1
      OBVIOUS
    <3> HIDE DEF even
    <3>1. k - 1 \in Nat /\ k - 1 <= M - 1
      BY <1>0
    <3>2. x \in Nat /\ x <= (M - 1) * (n - 1)
      BY <2>1, <3>1, TimesGrow
    <3>3. k = M => x = (M - 1) * (n - 1)
      OBVIOUS
    <3>4. k = 1 => x = 0
      BY <2>1
    <3> HIDE DEF x
    <3>5. q \in Nat /\ q <= n - 1 /\ (x = (M - 1) * (n - 1) => q = n - 1)
      BY <2>1, <3>2, WholeQuotient
    <3>6. x = 0 => q = 0
      <4> HAVE x = 0
      <4>1. x <= (M - 1) * 0 /\ 0 \in Nat
        BY <2>1
      <4>2. q <= 0
        <5>1. M - 1 \in Nat \ {0} /\ x \in Nat
          BY <2>1, <3>2
        <5> QED BY <4>1, <5>1, WholeQuotient
      <4> QED BY <3>5, <4>2
    <3> HIDE DEF q
    <3> QED BY <1>1, <3>a, <3>3, <3>4, <3>5, <3>6
  <2>3. Len(even) = M
    BY <1>0, EachIs
  <2>4. 1 \in 1..M /\ M \in 1..M
    BY <1>0
  <2> HIDE DEF even
  <2> QED BY <2>2, <2>3, <2>4
<1>8. Len(id) = n /\ \A k \in 1..n : id[k] = k
  BY <1>1, EachIs
<1> HIDE DEF slice, even, id, reps, F, G
<1>9. /\ reps \subseteq 1..n /\ IsFiniteSet(reps) /\ Cardinality(reps) <= M
      /\ (slice[1] = 0 => 1 \in reps) /\ (slice[n] # 0 => n \in reps)
  <2>1. \A i \in 1..n : slice[i] \in 0..(MAX_EVENTS - 1)
    BY <1>5 DEF M
  <2> QED BY <1>3, <1>6, <2>1, RepresentativesAre DEF reps, M
<1>10. /\ IsFiniteSet(F) /\ Cardinality(F) <= M /\ Cardinality(F) \in Nat
       /\ reps \subseteq F /\ F \subseteq reps \cup {even[k] : k \in 1..M}
       /\ Cardinality(F) = M \/ {even[k] : k \in 1..M} \subseteq F
  <2>1. Len(even) \in Nat /\ Cardinality(reps) <= MAX_EVENTS
    BY <1>0, <1>7, <1>9 DEF M
  <2>2. /\ IsFiniteSet(F) /\ Cardinality(F) <= MAX_EVENTS /\ Cardinality(F) \in Nat
        /\ reps \subseteq F /\ F \subseteq reps \cup {even[k] : k \in 1..Len(even)}
        /\ Cardinality(F) = MAX_EVENTS \/ {even[k] : k \in 1..Len(even)} \subseteq F
    BY <1>9, <2>1, FilledIs DEF F
  <2> QED BY <1>7, <2>2 DEF M
<1>11. F \subseteq 1..n
  BY <1>7, <1>9, <1>10
<1>12. /\ IsFiniteSet(G) /\ Cardinality(G) <= M /\ Cardinality(G) \in Nat
       /\ F \subseteq G /\ G \subseteq 1..n
       /\ Cardinality(G) = M \/ 1..n \subseteq G
  <2>1. Len(id) \in Nat /\ Cardinality(F) <= MAX_EVENTS
    BY <1>1, <1>8, <1>10 DEF M
  <2>2. /\ IsFiniteSet(G) /\ Cardinality(G) <= MAX_EVENTS /\ Cardinality(G) \in Nat
        /\ F \subseteq G /\ G \subseteq F \cup {id[k] : k \in 1..Len(id)}
        /\ Cardinality(G) = MAX_EVENTS \/ {id[k] : k \in 1..Len(id)} \subseteq G
    BY <1>10, <2>1, FilledIs DEF G
  <2>3. {id[k] : k \in 1..Len(id)} = 1..n
    BY <1>8
  <2> QED BY <1>11, <2>2, <2>3 DEF M
<1>13. Cardinality(G) = M
  <2> SUFFICES ASSUME 1..n \subseteq G  PROVE FALSE
    BY <1>12
  <2>1. G = 1..n
    BY <1>12
  <2>2. Cardinality(G) = n
    BY <1>1, <2>1, PositionsAre
  <2> QED BY <1>0, <1>1, <1>12, <2>2
<1>14. 1 \in F /\ n \in F
  <2>1. CASE span # 0
    <3>1. slice[1] = 0 /\ slice[n] # 0
      BY <1>0, <1>3, <1>5, <2>1
    <3> QED BY <1>9, <1>10, <3>1
  <2>2. CASE span = 0
    <3> DEFINE E == {even[k] : k \in 1..M}
    <3>1. \A i \in 1..n : slice[i] = 0
      BY <1>5, <2>2
    <3>2. 1 \in reps
      BY <1>3, <1>9, <3>1
    <3>3. reps \subseteq {1}
      <4> DEFINE low == Lowest({k \in DOMAIN slice : slice[k] = 0})
      <4>1. DOMAIN slice = 1..n
        BY <1>6
      <4>2. reps = {low : i \in 1..n}
        BY <3>1, <4>1 DEF reps, Representatives
      <4> QED BY <3>2, <4>2
    <3>4. 1 \in E /\ n \in E
      <4>1. 1 \in 1..M /\ M \in 1..M
        BY <1>0
      <4> QED BY <1>7, <4>1
    <3>5. F \subseteq E
      BY <1>10, <3>3, <3>4
    <3>6. IsFiniteSet(E) /\ Cardinality(E) <= M
      <4> DEFINE g == [k \in 1..M |-> even[k]]
      <4>1. g \in Surjection(1..M, E)
        BY DEF Surjection
      <4>2. IsFiniteSet(1..M) /\ Cardinality(1..M) = M
        BY <1>0, PositionsAre
      <4> HIDE DEF g, E
      <4> QED BY <4>1, <4>2, FS_Surjection
    <3>7. CASE Cardinality(F) = M
      <4> HIDE DEF E
      <4>1. Cardinality(F) <= Cardinality(E) /\ (Cardinality(E) = Cardinality(F) => E = F)
        BY <3>5, <3>6, FS_Subset
      <4>2. Cardinality(E) \in Nat
        BY <3>6, FS_CardinalityType
      <4>3. E = F
        BY <1>0, <3>6, <3>7, <4>1, <4>2
      <4> QED BY <3>4, <4>3
    <3>8. CASE E \subseteq F
      BY <3>4, <3>8
    <3> QED BY <1>10, <3>7, <3>8
  <2> QED BY <2>1, <2>2
<1> QED BY <1>2, <1>12, <1>13, <1>14 DEF n, M

(* The samples of the flows: their times, with a number for each.          *)
Samples(fs) == UNION {{<<fs[i].times[j], i, j>> : j \in DOMAIN fs[i].times} : i \in DOMAIN fs}
Sooner(x, y) ==
  \/ x[1] < y[1]
  \/ x[1] = y[1] /\ (x[2] < y[2] \/ (x[2] = y[2] /\ x[3] < y[3]))
SampleOrder(S) == {p \in S \X S : Sooner(p[1], p[2])}

(* Samples are listed in the order of their times, each once.              *)
LEMMA SampledIs ==
  ASSUME NEW fs, FlowsOK(fs)
  PROVE  Listed(Sampled(fs), Samples(fs), SampleOrder(Samples(fs))) /\ InTime(Sampled(fs))
<1> DEFINE n == Len(fs)
           S == Samples(fs)
           R == SampleOrder(S)
           A == {<<Cardinality({y \in S : y[1] < x[1] \/ (y[1] = x[1] /\ (y[2] < x[2] \/ (y[2] = x[2] /\ y[3] < x[3])))}) + 1, x>> : x \in S}
           B == {<<Rank(R, S, x), x>> : x \in S}
           L == [k \in 1..Cardinality(S) |-> (CHOOSE p \in A : p[1] = k)[2]]
<1>1. n \in Nat /\ DOMAIN fs = 1..n /\ \A i \in 1..n : FlowTypeOK(fs[i])
  BY SequenceIs DEF FlowsOK, Entries
<1>2. ASSUME NEW i \in 1..n
      PROVE  Len(fs[i].times) \in Nat /\ DOMAIN fs[i].times = 1..Len(fs[i].times)
             /\ \A j \in 1..Len(fs[i].times) : fs[i].times[j] \in Nat
  <2>1. fs[i].times \in Seq(Nat \ {0})
    BY <1>1 DEF FlowTypeOK
  <2> DEFINE ts == fs[i].times
  <2> HIDE DEF ts
  <2>2. ts \in Seq(Nat \ {0})
    BY <2>1 DEF ts
  <2>3. Len(ts) \in Nat /\ DOMAIN ts = 1..Len(ts) /\ \A j \in 1..Len(ts) : ts[j] \in Nat
    BY <2>2
  <2> QED BY <2>3 DEF ts
<1>3. Sampled(fs) = L
  BY DEF Sampled, Listing, Samples
<1>4. ASSUME NEW x \in S  PROVE x[1] \in Nat /\ x[2] \in Int /\ x[3] \in Int /\ x = <<x[1], x[2], x[3]>>
  <2>1. PICK i \in 1..n : \E j \in DOMAIN fs[i].times : x = <<fs[i].times[j], i, j>>
    BY <1>1 DEF Samples
  <2>2. PICK j \in 1..Len(fs[i].times) : x = <<fs[i].times[j], i, j>>
    BY <1>2, <2>1
  <2>3. fs[i].times[j] \in Nat /\ i \in Int /\ j \in Int
    BY <1>2
  <2> QED BY <2>2, <2>3
<1>5. IsFiniteSet(S) /\ Cardinality(S) \in Nat
  <2> DEFINE of(i) == {<<fs[i].times[j], i, j>> : j \in DOMAIN fs[i].times}
             all == {of(i) : i \in 1..n}
  <2>1. ASSUME NEW i \in 1..n  PROVE IsFiniteSet(of(i))
    <3> DEFINE g == [j \in 1..Len(fs[i].times) |-> <<fs[i].times[j], i, j>>]
               m == Len(fs[i].times)
    <3>1. m \in Nat /\ of(i) \subseteq {g[j] : j \in 1..m}
      BY <1>2
    <3> HIDE DEF g, m, of
    <3> QED BY <3>1, ImageFinite
  <2>2. S = UNION all
    BY <1>1 DEF Samples
  <2> HIDE DEF of, S
  <2>3. IsFiniteSet(all)
    <3> DEFINE g == [i \in 1..n |-> of(i)]
    <3>1. all \subseteq {g[i] : i \in 1..n}
      OBVIOUS
    <3> HIDE DEF g, all
    <3> QED BY <1>1, <3>1, ImageFinite
  <2>4. \A T \in all : IsFiniteSet(T)
    BY <2>1
  <2> HIDE DEF all
  <2>5. IsFiniteSet(S)
    BY <2>2, <2>3, <2>4, FS_UNION
  <2> QED BY <2>5, FS_CardinalityType
<1> HIDE DEF S
<1>6. \A x, y \in S : <<x, y>> \in R <=> Sooner(x, y)
  BY DEF SampleOrder
<1>7. A = B
  <2>1. \A x \in S : {y \in S : y[1] < x[1] \/ (y[1] = x[1] /\ (y[2] < x[2] \/ (y[2] = x[2] /\ y[3] < x[3])))} = Below(R, S, x)
    <3>1. \A x \in S : {y \in S : Sooner(y, x)} = Below(R, S, x)
      BY <1>6 DEF Below
    <3> HIDE DEF R
    <3> QED BY <3>1 DEF Sooner
  <2> HIDE DEF R
  <2> QED BY <2>1 DEF Rank
<1>8. L = [k \in 1..Cardinality(S) |-> (CHOOSE p \in B : p[1] = k)[2]]
  <2> HIDE DEF A, B
  <2> QED BY <1>7
<1> HIDE DEF R, A
<1>9. StrictOrder(R, S)
  <2>2. \A x \in S : <<x, x>> \notin R
    <3>1. \A x \in S : ~Sooner(x, x)
      BY <1>4 DEF Sooner
    <3> QED BY <1>6, <3>1
  <2>3. ASSUME NEW x \in S, NEW y \in S, NEW z \in S, <<x, y>> \in R, <<y, z>> \in R  PROVE <<x, z>> \in R
    <3>1. /\ x[1] \in Int /\ x[2] \in Int /\ x[3] \in Int /\ y[1] \in Int /\ y[2] \in Int /\ y[3] \in Int
          /\ z[1] \in Int /\ z[2] \in Int /\ z[3] \in Int
      BY <1>4
    <3>2. x[1] < y[1] \/ (x[1] = y[1] /\ (x[2] < y[2] \/ (x[2] = y[2] /\ x[3] < y[3])))
      <4>1. Sooner(x, y)
        BY <1>6, <2>3
      <4> QED BY <4>1 DEF Sooner
    <3>3. y[1] < z[1] \/ (y[1] = z[1] /\ (y[2] < z[2] \/ (y[2] = z[2] /\ y[3] < z[3])))
      <4>1. Sooner(y, z)
        BY <1>6, <2>3
      <4> QED BY <4>1 DEF Sooner
    <3>4. x[1] < z[1] \/ (x[1] = z[1] /\ (x[2] < z[2] \/ (x[2] = z[2] /\ x[3] < z[3])))
      BY <3>1, <3>2, <3>3
    <3>5. Sooner(x, z)
      BY <3>4 DEF Sooner
    <3> QED BY <1>6, <3>5
  <2>4. ASSUME NEW x \in S, NEW y \in S, x # y  PROVE <<x, y>> \in R \/ <<y, x>> \in R
    <3>1. /\ x[1] \in Int /\ x[2] \in Int /\ x[3] \in Int /\ y[1] \in Int /\ y[2] \in Int /\ y[3] \in Int
      BY <1>4
    <3>2. x[1] # y[1] \/ x[2] # y[2] \/ x[3] # y[3]
      BY <1>4, <2>4
    <3>3. \/ x[1] < y[1] \/ (x[1] = y[1] /\ (x[2] < y[2] \/ (x[2] = y[2] /\ x[3] < y[3])))
          \/ y[1] < x[1] \/ (y[1] = x[1] /\ (y[2] < x[2] \/ (y[2] = x[2] /\ y[3] < x[3])))
      BY <3>1, <3>2
    <3>4. Sooner(x, y) \/ Sooner(y, x)
      BY <3>3 DEF Sooner
    <3> QED BY <1>6, <3>4
  <2> QED BY <2>2, <2>3, <2>4 DEF StrictOrder
<1> HIDE DEF L
<1>10. Listed(L, S, R)
  BY <1>5, <1>8, <1>9, ListingIs
<1>11. InTime(L)
  <2>1. /\ IsSequence(L) /\ Entries(L) = S
        /\ \A i, j \in DOMAIN L : i < j <=> <<L[i], L[j]>> \in R
    BY <1>10 DEF Listed
  <2>2. \A i \in DOMAIN L : L[i] \in S
    BY <2>1 DEF Entries
  <2>3. \A i \in DOMAIN L : L[i][1] \in Nat
    BY <1>4, <2>2
  <2>4. \A i, j \in DOMAIN L : i < j => L[i][1] <= L[j][1]
    <3> SUFFICES ASSUME NEW i \in DOMAIN L, NEW j \in DOMAIN L, i < j  PROVE L[i][1] <= L[j][1]
      OBVIOUS
    <3>1. L[i][1] < L[j][1] \/ L[i][1] = L[j][1]
      <4>1. Sooner(L[i], L[j])
        BY <1>6, <2>1, <2>2
      <4> QED BY <4>1 DEF Sooner
    <3> QED BY <2>3, <3>1
  <2> QED BY <2>1, <2>3, <2>4 DEF InTime
<1> QED BY <1>3, <1>10, <1>11 DEF S, R

(* The replay keeps the ends of the capture, and the order.                *)
LEMMA ReplayIsInOrder == ViewsInv => ReplayKeepsEnds
<1> SUFFICES ASSUME ViewsInv, OnBoard  PROVE ReplayKeepsEnds
  BY DEF ReplayKeepsEnds
<1> DEFINE fs == Shown.flows
           all == Sampled(fs)
           n == Len(all)
           kept == Selected(all)
           ev == view.replay.events
           M == MAX_EVENTS
           S == Samples(fs)
           R == SampleOrder(S)
<1>0. M \in Nat /\ M >= 2
  BY DashboardAssumption
<1>1. Board(Shown) /\ view = DashboardState(Shown, Public)
  BY BoardIs
<1>2. view.replay = TrafficReplay(Shown)
  BY <1>1 DEF DashboardState
<1>3. ev = IF n > M THEN Picked(all, kept) ELSE all
  BY <1>2 DEF TrafficReplay
<1>4. Listed(all, S, R) /\ InTime(all)
  BY <1>1, SampledIs DEF Board
<1> HIDE DEF fs, all, ev, M, S, R
<1>5. /\ n \in Nat /\ DOMAIN all = 1..n /\ Entries(all) = S /\ n = Cardinality(S) /\ IsSequence(all)
      /\ \A i, j \in 1..n : all[i] = all[j] => i = j
  <2>1. /\ DOMAIN all = 1..Cardinality(S) /\ Len(all) = Cardinality(S) /\ IsSequence(all) /\ Entries(all) = S
        /\ \A i, j \in DOMAIN all : all[i] = all[j] => i = j
    BY <1>4 DEF Listed
  <2>2. Len(all) \in Nat
    BY <2>1, SequenceIs
  <2> QED BY <2>1, <2>2
<1>6. \A i, j \in 1..n : i < j => all[i][1] <= all[j][1]
  BY <1>4, <1>5 DEF InTime
<1> HIDE DEF n, kept
<1>7. CASE ~(n > M)
  <2>1. ev = all /\ Lesser(M, n) = n
    BY <1>0, <1>3, <1>5, <1>7 DEF Lesser
  <2>2. /\ Len(ev) = Lesser(M, n) /\ Cardinality(Entries(ev)) = Len(ev)
        /\ \A i, j \in DOMAIN ev : i < j => ev[i][1] <= ev[j][1]
        /\ ev[1] = all[1] /\ ev[Len(ev)] = all[n]
    BY <1>5, <1>6, <2>1 DEF n
  <2> QED BY <2>2 DEF ReplayKeepsEnds, ev, all, n, fs, M
<1>8. CASE n > M
  <2>1. kept \subseteq 1..n /\ Cardinality(kept) = M /\ 1 \in kept /\ n \in kept
    BY <1>4, <1>8, EventsSelected DEF n, M, kept
  <2>2. PICK K : PickedBy(Picked(all, kept), all, kept, K)
    BY <1>5, <2>1, PickedAre
  <2>3. /\ DOMAIN ev = 1..M /\ Len(ev) = M
        /\ \A k \in 1..M : K[k] \in kept /\ ev[k] = all[K[k]]
        /\ \A i \in kept : \E k \in 1..M : K[k] = i
        /\ \A k, l \in 1..M : (k < l <=> K[k] < K[l]) /\ (K[k] = K[l] => k = l)
    BY <1>3, <1>8, <2>1, <2>2 DEF PickedBy
  <2>4. \A k \in 1..M : K[k] \in 1..n
    BY <2>1, <2>3
  <2>5. Len(ev) = Lesser(M, n)
    BY <1>0, <1>5, <1>8, <2>3 DEF Lesser
  <2>6. \A k, l \in 1..M : ev[k] = ev[l] => k = l
    <3> SUFFICES ASSUME NEW k \in 1..M, NEW l \in 1..M, ev[k] = ev[l]  PROVE k = l
      OBVIOUS
    <3>1. all[K[k]] = all[K[l]] /\ K[k] \in 1..n /\ K[l] \in 1..n
      BY <2>3, <2>4
    <3>2. K[k] = K[l]
      BY <1>5, <3>1
    <3> QED BY <2>3, <3>2
  <2>7. Cardinality(Entries(ev)) = M
    <3>1. Cardinality({ev[i] : i \in DOMAIN ev}) = M
      BY <1>0, <2>3, <2>6, PrefixCounted
    <3> QED BY <3>1 DEF Entries
  <2>8. \A i, j \in DOMAIN ev : i < j => ev[i][1] <= ev[j][1]
    <3> SUFFICES ASSUME NEW i \in 1..M, NEW j \in 1..M, i < j  PROVE ev[i][1] <= ev[j][1]
      BY <2>3
    <3>1. K[i] < K[j] /\ K[i] \in 1..n /\ K[j] \in 1..n /\ ev[i] = all[K[i]] /\ ev[j] = all[K[j]]
      BY <2>3, <2>4
    <3> QED BY <1>6, <3>1
  <2>9. ev[1] = all[1]
    <3>1. PICK k \in 1..M : K[k] = 1
      BY <2>1, <2>3
    <3>2. 1 \in 1..M
      BY <1>0
    <3>3. ~(1 < k)
      <4>1. K[1] \in 1..n
        BY <2>4, <3>2
      <4>2. ~(K[1] < 1)
        BY <4>1
      <4> QED BY <2>3, <3>1, <3>2, <4>2
    <3>4. k = 1
      BY <3>3
    <3> QED BY <2>3, <3>1, <3>2, <3>4
  <2>10. ev[Len(ev)] = all[n]
    <3>1. PICK k \in 1..M : K[k] = n
      BY <2>1, <2>3
    <3>2. M \in 1..M
      BY <1>0
    <3>3. ~(k < M)
      <4>1. K[M] \in 1..n
        BY <2>4, <3>2
      <4>2. ~(n < K[M])
        BY <1>5, <4>1
      <4> QED BY <2>3, <3>1, <3>2, <4>2
    <3>4. k = M
      BY <1>0, <3>3
    <3> QED BY <2>3, <3>1, <3>2, <3>4
  <2> QED BY <2>3, <2>5, <2>7, <2>8, <2>9, <2>10 DEF ReplayKeepsEnds, ev, all, n, fs, M
<1> QED BY <1>7, <1>8

-----------------------------------------------------------------------------
(* All that the dashboard tells.                                           *)
LEMMA BoardIsHonest == ViewsInv => DashboardHonest
BY ReplayIsInOrder, CompleteIsAll, SankeyIsBalanced, MapShowsBusiest, ChartsCount, RiskIsFounded DEF DashboardHonest

(* Whatever analyses are saved, what the dashboard shows of one agrees     *)
(* with its flows: the replay keeps the ends of the capture, what is       *)
(* called complete is, the Sankey chart keeps what flows, the map shows    *)
(* the busiest addresses, every sampled length is in its bar and every     *)
(* sampled time in its cell, and a risk has its reason (web/state.py).     *)
THEOREM DashboardAlwaysHonest == Spec => []DashboardHonest
<1>1. ViewsInv => DashboardHonest
  BY BoardIsHonest
<1> QED BY <1>1, ViewsInvariant, PTL
=============================================================================
