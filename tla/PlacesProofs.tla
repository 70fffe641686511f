----------------------------- MODULE PlacesProofs -----------------------------
(***************************************************************************)
(* What filtering a sequence and inserting into it preserve.  Everything   *)
(* is by counting: the k-th place is the one with k - 1 before it.         *)
(***************************************************************************)
EXTENDS Places, Functions, FiniteSetTheorems, TLAPS

USE SMTT(30), ZenonT(30)

(* Finitely many places. *)
Finite(S) == S \in SUBSET Nat /\ IsFiniteSet(S)

LEMMA FinitePart ==
  ASSUME NEW S, Finite(S), NEW T \in SUBSET S
  PROVE  Finite(T) /\ Cardinality(T) \in Nat /\ Cardinality(T) <= Cardinality(S)
BY Zenon, FS_Subset, FS_CardinalityType DEF Finite

LEMMA FiniteUpTo ==
  ASSUME NEW n \in Nat
  PROVE  Finite(1 .. n) /\ Cardinality(1 .. n) = n
<1>1. IsFiniteSet(1 .. n) /\ Cardinality(1 .. n) = IF 1 > n THEN 0 ELSE n - 1 + 1
  BY FS_Interval
<1> QED
  BY <1>1 DEF Finite

(* How many places are before one of them. *)
LEMMA Rank ==
  ASSUME NEW S, Finite(S), NEW i \in S
  PROVE  Cardinality(Before(S, i)) \in 0 .. Cardinality(S) - 1
<1>1. Before(S, i) \in SUBSET S /\ i \notin Before(S, i)
  BY DEF Finite, Before
<1>2. Cardinality(Before(S, i)) # Cardinality(S)
  BY <1>1, FS_Subset DEF Finite
<1>3. Cardinality(S) \in Nat
  BY FS_CardinalityType DEF Finite
<1> QED
  BY <1>1, <1>2, <1>3, FinitePart

LEMMA RankGrows ==
  ASSUME NEW S, Finite(S), NEW i \in S, NEW j \in S, i < j
  PROVE  Cardinality(Before(S, i)) < Cardinality(Before(S, j))
<1>1. Before(S, i) \in SUBSET Before(S, j) /\ i \in Before(S, j) /\ i \notin Before(S, i)
  <2>1. (\A m \in S : m < i => m < j) /\ ~(i < i)
    BY DEF Finite
  <2> QED
    BY Zenon, <2>1 DEF Before
<1>2. Before(S, j) \in SUBSET S
  BY DEF Before
<1>3. Finite(Before(S, j)) /\ Cardinality(Before(S, j)) \in Nat
  BY <1>2, FinitePart
<1>4. Cardinality(Before(S, i)) \in Nat /\ Cardinality(Before(S, i)) <= Cardinality(Before(S, j))
  BY <1>1, <1>3, FinitePart
<1>5. Cardinality(Before(S, i)) # Cardinality(Before(S, j))
  BY <1>1, <1>3, FS_Subset DEF Finite
<1> QED
  BY <1>3, <1>4, <1>5

(* There is a k-th place: the ranks are an injection into 0 .. |S| - 1,    *)
(* hence onto it.                                                          *)
LEMMA NthOf ==
  ASSUME NEW S, Finite(S), NEW k \in 1 .. Cardinality(S)
  PROVE  Nth(S, k) \in S /\ Cardinality(Before(S, Nth(S, k))) = k - 1
<1> DEFINE c == Cardinality(S)
           rank == [i \in S |-> Cardinality(Before(S, i))]
<1>1. c \in Nat
  BY FS_CardinalityType DEF Finite
<1>2. rank \in [S -> 0 .. c - 1]
  BY Rank
<1>3. \A i, j \in S : rank[i] = rank[j] => i = j
  <2> SUFFICES ASSUME NEW i \in S, NEW j \in S, i < j PROVE rank[i] # rank[j]
    BY DEF Finite
  <2>1. rank[i] < rank[j] /\ rank[i] \in 0 .. c - 1 /\ rank[j] \in 0 .. c - 1
    BY <1>2, RankGrows
  <2> QED
    BY <2>1
<1>4. rank \in Injection(S, 0 .. c - 1)
  BY ZenonT(30), <1>2, <1>3 DEF Injection, IsInjective
<1>5. IsFiniteSet(0 .. c - 1) /\ Cardinality(0 .. c - 1) = c
  <2> HIDE DEF c
  <2>1. PICK d \in Int : d = c - 1
    BY <1>1
  <2>2. IsFiniteSet(0 .. d) /\ Cardinality(0 .. d) = IF 0 > d THEN 0 ELSE d - 0 + 1
    BY FS_Interval
  <2> QED
    BY <1>1, <2>1, <2>2
<1>6. rank \in Surjection(S, 0 .. c - 1)
  BY <1>4, <1>5, FS_Injection
<1>7. k - 1 \in 0 .. c - 1
  BY <1>1
<1>8. \E i \in S : Cardinality(Before(S, i)) = k - 1
  BY Zenon, <1>6, <1>7 DEF Surjection
<1> QED
  BY <1>8 DEF Nth

(* And only one. *)
LEMMA NthIs ==
  ASSUME NEW S, Finite(S), NEW i \in S, NEW k \in 1 .. Cardinality(S),
         Cardinality(Before(S, i)) = k - 1
  PROVE  Nth(S, k) = i
<1>1. Nth(S, k) \in S /\ Cardinality(Before(S, Nth(S, k))) = k - 1
  BY NthOf
<1>2. PICK j \in S : j = Nth(S, k)
  BY <1>1
<1>3. ~(i < j) /\ ~(j < i)
  BY <1>1, <1>2, RankGrows
<1> QED
  BY <1>2, <1>3 DEF Finite

(* Counting up goes through the places in order. *)
LEMMA NthGrows ==
  ASSUME NEW S, Finite(S), NEW k \in 1 .. Cardinality(S), NEW l \in 1 .. Cardinality(S), k < l
  PROVE  Nth(S, k) < Nth(S, l)
<1>1. PICK i \in S : i = Nth(S, k) /\ Cardinality(Before(S, i)) = k - 1
  BY NthOf
<1>2. PICK j \in S : j = Nth(S, l) /\ Cardinality(Before(S, j)) = l - 1
  BY NthOf
<1>3. ~(j < i) /\ i # j
  BY <1>1, <1>2, RankGrows
<1> QED
  BY <1>1, <1>2, <1>3 DEF Finite

(* and leaves none out. *)
LEMMA NthOnto ==
  ASSUME NEW S, Finite(S), NEW i \in S
  PROVE  \E k \in 1 .. Cardinality(S) : Nth(S, k) = i
<1>1. Cardinality(S) \in Nat
  BY FS_CardinalityType DEF Finite
<1>2. PICK k \in 1 .. Cardinality(S) : Cardinality(Before(S, i)) = k - 1
  <2>1. PICK d \in 0 .. Cardinality(S) - 1 : d = Cardinality(Before(S, i))
    BY Rank
  <2>2. d + 1 \in 1 .. Cardinality(S) /\ d = (d + 1) - 1
    BY <1>1
  <2> QED
    BY <2>1, <2>2
<1> QED
  BY <1>2, NthIs

-----------------------------------------------------------------------------
(* Places moved by a function that keeps their order. *)
Monotone(h, S) == h \in [S -> Nat] /\ \A i, j \in S : i < j => h[i] < h[j]

LEMMA MovedCount ==
  ASSUME NEW S, Finite(S), NEW h, Monotone(h, S), NEW T \in SUBSET S,
         NEW M, M = {h[i] : i \in T}
  PROVE  Finite(M) /\ Cardinality(M) = Cardinality(T)
<1> DEFINE g == [i \in T |-> h[i]]
<1>1. Finite(T)
  BY FinitePart
<1>2. M \in SUBSET Nat
  BY DEF Monotone
<1>3. \A i, j \in T : h[i] = h[j] => i = j
  <2> SUFFICES ASSUME NEW i \in T, NEW j \in T, i < j PROVE h[i] # h[j]
    BY <1>1 DEF Finite
  <2>1. h[i] < h[j] /\ h[i] \in Nat /\ h[j] \in Nat
    BY DEF Monotone
  <2> QED
    BY <2>1
<1>4. g \in [T -> M] /\ (\A i, j \in T : g[i] = g[j] => i = j) /\ \A m \in M : \E i \in T : g[i] = m
  BY Zenon, <1>3
<1>5. g \in Bijection(T, M)
  <2> HIDE DEF g
  <2> QED
    BY ZenonT(30), <1>4 DEF Bijection, Injection, Surjection, IsInjective
<1>6. IsFiniteSet(M) /\ Cardinality(M) = Cardinality(T)
  <2> HIDE DEF g
  <2> QED
    BY <1>1, <1>5, FS_Bijection DEF Finite, ExistsBijection
<1> QED
  BY <1>2, <1>6 DEF Finite

LEMMA MovedAll ==
  ASSUME NEW S, Finite(S), NEW h, Monotone(h, S), NEW M, M = {h[i] : i \in S}
  PROVE  Finite(M) /\ Cardinality(M) = Cardinality(S)
BY MovedCount

(* What is kept does not depend on where it was, only on the order. *)
LEMMA KeepMoved ==
  ASSUME NEW S, Finite(S), NEW h, Monotone(h, S), NEW M, M = {h[i] : i \in S},
         NEW s, NEW t, \A i \in S : t[h[i]] = s[i]
  PROVE  Keep(t, M) = Keep(s, S) /\ Finite(M) /\ Cardinality(M) = Cardinality(S)
<1>1. Finite(M) /\ Cardinality(M) = Cardinality(S)
  BY MovedAll
<1>2. ASSUME NEW k \in 1 .. Cardinality(S) PROVE t[Nth(M, k)] = s[Nth(S, k)]
  <2>1. PICK i \in S : i = Nth(S, k) /\ Cardinality(Before(S, i)) = k - 1
    BY NthOf
  <2>2. Before(S, i) \in SUBSET S /\ h[i] \in M
    BY DEF Before
  <2>3. Before(M, h[i]) = {h[j] : j \in Before(S, i)}
    <3>1. ASSUME NEW j \in S PROVE h[j] < h[i] <=> j < i
      BY DEF Monotone, Finite
    <3> QED
      BY <3>1 DEF Before
  <2>4. Cardinality(Before(M, h[i])) = k - 1
    BY <2>1, <2>2, <2>3, MovedCount
  <2>5. Nth(M, k) = h[i]
    BY <1>1, <2>2, <2>4, NthIs
  <2> QED
    BY <2>1, <2>5
<1> QED
  BY <1>1, <1>2 DEF Keep

(* Keeping some of what was kept is keeping those in the first place. *)
Kept(S, T) == {k \in 1 .. Cardinality(S) : Nth(S, k) \in T}

LEMMA KeepKept ==
  ASSUME NEW S, Finite(S), NEW T \in SUBSET S, NEW s
  PROVE  /\ Keep(Keep(s, S), Kept(S, T)) = Keep(s, T)
         /\ Cardinality(Kept(S, T)) = Cardinality(T)
<1> DEFINE B == Kept(S, T)
           h == [k \in B |-> Nth(S, k)]
<1>1. Cardinality(S) \in Nat
  BY FS_CardinalityType DEF Finite
<1>2. B \in SUBSET (1 .. Cardinality(S))
  BY DEF Kept
<1>3. Finite(B)
  BY <1>1, <1>2, FiniteUpTo, FinitePart
<1>4. Monotone(h, B)
  <2>1. \A k \in B : Nth(S, k) \in Nat
    BY Zenon DEF Kept, Finite
  <2>2. \A k, l \in B : k < l => Nth(S, k) < Nth(S, l)
    BY <1>2, NthGrows
  <2> QED
    BY <2>1, <2>2 DEF Monotone
<1>5. T = {h[k] : k \in B}
  <2>1. \A i \in T : \E k \in B : h[k] = i
    BY NthOnto DEF Kept
  <2>2. \A k \in B : h[k] \in T
    BY DEF Kept
  <2> QED
    BY <2>1, <2>2
<1>6. \A k \in B : s[h[k]] = Keep(s, S)[k]
  BY <1>2 DEF Keep
<1> HIDE DEF B, h
<1> QED
  BY <1>3, <1>4, <1>5, <1>6, KeepMoved DEF B

(* The elements kept. *)
LEMMA KeepIs ==
  ASSUME NEW X, NEW s \in Seq(X), NEW S \in SUBSET DOMAIN s
  PROVE  /\ Finite(S)
         /\ Keep(s, S) \in Seq(X) /\ Len(Keep(s, S)) = Cardinality(S)
         /\ Cardinality(S) \in 0 .. Len(s)
         /\ Range(Keep(s, S)) = {s[i] : i \in S}
<1>1. Len(s) \in Nat /\ DOMAIN s = 1 .. Len(s) /\ \A i \in S : s[i] \in X
  OBVIOUS
<1>2. Finite(S) /\ Cardinality(S) \in 0 .. Len(s)
  BY <1>1, FiniteUpTo, FinitePart
<1>3. \A k \in 1 .. Cardinality(S) : Nth(S, k) \in S
  BY <1>2, NthOf
<1>4. Keep(s, S) = [k \in 1 .. Cardinality(S) |-> s[Nth(S, k)]]
  BY DEF Keep
<1>5. Keep(s, S) \in Seq(X) /\ Len(Keep(s, S)) = Cardinality(S)
  BY <1>1, <1>2, <1>3, <1>4
<1>6. \A i \in S : \E k \in 1 .. Cardinality(S) : Nth(S, k) = i
  BY <1>2, NthOnto
<1>7. Range(Keep(s, S)) = {s[i] : i \in S}
  BY <1>3, <1>4, <1>6 DEF Range
<1> QED
  BY <1>2, <1>5, <1>7

(* Different places of what is kept come from different places. *)
LEMMA KeepDistinct ==
  ASSUME NEW X, NEW s \in Seq(X), NEW S \in SUBSET DOMAIN s,
         NEW k \in DOMAIN Keep(s, S), NEW l \in DOMAIN Keep(s, S), k # l
  PROVE  \E i, j \in S : i # j /\ Keep(s, S)[k] = s[i] /\ Keep(s, S)[l] = s[j]
<1>1. Finite(S) /\ Cardinality(S) \in Nat
  BY KeepIs
<1>2. k \in 1 .. Cardinality(S) /\ l \in 1 .. Cardinality(S)
  BY DEF Keep
<1>3. Nth(S, k) \in S /\ Nth(S, l) \in S
  BY <1>1, <1>2, NthOf
<1>4. Nth(S, k) # Nth(S, l)
  <2>1. PICK i \in S, j \in S : i = Nth(S, k) /\ j = Nth(S, l)
    BY <1>3
  <2>2. i < j \/ j < i
    BY <1>1, <1>2, <2>1, NthGrows
  <2> QED
    BY <1>1, <2>1, <2>2 DEF Finite
<1> QED
  BY <1>2, <1>3, <1>4 DEF Keep

-----------------------------------------------------------------------------
(* The places of what is not in M. *)
Others(s, M) == {i \in DOMAIN s : s[i] \notin M}

(* Leaving out elements of M leaves the others as they are, *)
LEMMA KeepOthers ==
  ASSUME NEW X, NEW s \in Seq(X), NEW S \in SUBSET DOMAIN s, NEW M,
         \A i \in DOMAIN s \ S : s[i] \in M
  PROVE  Keep(Keep(s, S), Others(Keep(s, S), M)) = Keep(s, Others(s, M))
<1>1. Finite(S) /\ Others(s, M) \in SUBSET S
  BY KeepIs DEF Others
<1>2. Others(Keep(s, S), M) = Kept(S, Others(s, M))
  BY <1>1, NthOf DEF Others, Keep, Kept
<1> QED
  BY <1>1, <1>2, KeepKept

(* and nothing is there more often than before. *)
LEMMA KeepCount ==
  ASSUME NEW X, NEW s \in Seq(X), NEW S \in SUBSET DOMAIN s, NEW x
  PROVE  Cardinality(PlacesOf(Keep(s, S), x)) <= Cardinality(PlacesOf(s, x))
<1> DEFINE T == PlacesOf(s, x) \cap S
<1>1. Finite(S) /\ T \in SUBSET S
  BY KeepIs
<1>2. PlacesOf(Keep(s, S), x) = Kept(S, T)
  BY <1>1, NthOf DEF PlacesOf, Keep, Kept
<1>3. Cardinality(PlacesOf(Keep(s, S), x)) = Cardinality(T)
  BY <1>1, <1>2, KeepKept
<1>4. PlacesOf(s, x) \in SUBSET DOMAIN s
  BY DEF PlacesOf
<1>5. Finite(PlacesOf(s, x)) /\ T \in SUBSET PlacesOf(s, x)
  BY <1>4, KeepIs
<1> HIDE DEF T
<1> QED
  BY <1>3, <1>5, FinitePart

(* Spread puts the i-th element at 2 * i, and a new one behind it at 2 * i + 1. *)
SpreadOut(s, P, x) ==
  /\ \A i \in DOMAIN s : 2 * i \in Slots(Len(s), P) /\ Spread(s, P, x)[2 * i] = s[i]
  /\ \A i \in P : 2 * i + 1 \in Slots(Len(s), P) /\ Spread(s, P, x)[2 * i + 1] = x

LEMMA SlotsAre ==
  ASSUME NEW X, NEW s \in Seq(X), NEW P \in SUBSET (0 .. Len(s)), NEW x
  PROVE  /\ Finite(Slots(Len(s), P))
         /\ SpreadOut(s, P, x)
         /\ \A k \in Slots(Len(s), P) :
              (\E i \in DOMAIN s : k = 2 * i) \/ (\E i \in P : k = 2 * i + 1)
<1>1. PICK n \in Nat : n = Len(s) /\ DOMAIN s = 1 .. n
  OBVIOUS
<1>2. \A k \in Slots(n, P) : (\E i \in 1 .. n : k = 2 * i) \/ (\E i \in P : k = 2 * i + 1)
  BY DEF Slots
<1>3. \A k \in Slots(n, P) : k \in Nat /\ k <= 2 * n + 1
  BY <1>1, <1>2
<1>4. Finite(Slots(n, P))
  <2>1. PICK b \in Nat : b = 2 * n + 1
    OBVIOUS
  <2> QED
    BY Zenon, <1>3, <2>1, FS_BoundedSetOfNaturals DEF Finite
<1>5. \A i \in 1 .. n : 2 * i \in Slots(n, P)
  BY DEF Slots
<1>6. \A i \in P : 2 * i + 1 \in Slots(n, P)
  BY DEF Slots
<1>7. \A i \in 1 .. n : (2 * i) % 2 = 0 /\ (2 * i) \div 2 = i
  OBVIOUS
<1>8. \A i \in P : (2 * i + 1) % 2 # 0
  BY <1>1
<1>9. \A i \in 1 .. n : Spread(s, P, x)[2 * i] = s[i]
  BY <1>1, <1>5, <1>7 DEF Spread
<1>10. \A i \in P : Spread(s, P, x)[2 * i + 1] = x
  BY <1>1, <1>6, <1>8 DEF Spread
<1> QED
  BY <1>1, <1>2, <1>4, <1>5, <1>6, <1>9, <1>10 DEF SpreadOut

(* What is at the places of a sequence with something inserted. *)
LEMMA InsertAt ==
  ASSUME NEW X, NEW s \in Seq(X), NEW P \in SUBSET (0 .. Len(s)), NEW x
  PROVE  LET S == Slots(Len(s), P)
         IN /\ DOMAIN Insert(s, P, x) = 1 .. Cardinality(S)
            /\ \A k \in 1 .. Cardinality(S) :
                 Nth(S, k) \in S /\ Insert(s, P, x)[k] = Spread(s, P, x)[Nth(S, k)]
BY SlotsAre, NthOf DEF Insert, Keep

(* The slots of the elements at A, and of the new ones behind P. *)
Even(A) == {2 * i : i \in A}
Odd(P) == {2 * i + 1 : i \in P}

(* Doubling keeps the order. *)
LEMMA Doubled ==
  ASSUME NEW X, NEW s \in Seq(X), NEW P \in SUBSET (0 .. Len(s)), NEW x, NEW A \in SUBSET DOMAIN s
  PROVE  /\ Even(A) \in SUBSET Slots(Len(s), P)
         /\ Keep(Spread(s, P, x), Even(A)) = Keep(s, A)
         /\ Cardinality(Even(A)) = Cardinality(A)
<1> DEFINE T == Even(A)
           h == [i \in A |-> 2 * i]
<1>0. SpreadOut(s, P, x)
  BY Zenon, SlotsAre
<1>1. Finite(A) /\ T \in SUBSET Slots(Len(s), P)
  BY <1>0, KeepIs, SlotsAre DEF SpreadOut, Even
<1>2. Monotone(h, A) /\ T = {h[i] : i \in A}
  BY <1>1 DEF Monotone, Finite, Even
<1>3. ASSUME NEW i \in A PROVE Spread(s, P, x)[h[i]] = s[i]
  <2>1. h[i] = 2 * i /\ i \in DOMAIN s
    OBVIOUS
  <2>2. \A j \in DOMAIN s : Spread(s, P, x)[2 * j] = s[j]
    BY <1>0 DEF SpreadOut
  <2> QED
    BY Zenon, <2>1, <2>2
<1>4. Keep(Spread(s, P, x), T) = Keep(s, A) /\ Cardinality(T) = Cardinality(A)
  <2> HIDE DEF T, h
  <2> QED
    BY <1>1, <1>2, <1>3, KeepMoved
<1> QED
  BY <1>1, <1>4

LEMMA OddEven ==
  ASSUME NEW X, NEW s \in Seq(X), NEW P \in SUBSET (0 .. Len(s)), NEW A \in SUBSET DOMAIN s,
         NEW i \in P
  PROVE  2 * i + 1 \notin Even(A)
BY DEF Even

(* Inserting an element of M leaves the others as they are, *)
LEMMA InsertOthers ==
  ASSUME NEW X, NEW s \in Seq(X), NEW P \in SUBSET (0 .. Len(s)), NEW M, NEW x \in M
  PROVE  Keep(Insert(s, P, x), Others(Insert(s, P, x), M)) = Keep(s, Others(s, M))
<1> DEFINE S == Slots(Len(s), P)
           A == Others(s, M)
           T == Even(A)
           r == Insert(s, P, x)
<1>0. SpreadOut(s, P, x)
  BY Zenon, SlotsAre
<1>a. \A j \in S : (\E i \in DOMAIN s : j = 2 * i) \/ (\E i \in P : j = 2 * i + 1)
  BY Zenon, SlotsAre
<1>1. A \in SUBSET DOMAIN s
  BY DEF Others
<1>2. T \in SUBSET S /\ Keep(Spread(s, P, x), T) = Keep(s, A)
  BY <1>1, Doubled
<1>3. Finite(S)
  BY SlotsAre
<1>4. ASSUME NEW k \in 1 .. Cardinality(S) PROVE r[k] \notin M <=> Nth(S, k) \in T
  <2>1. Nth(S, k) \in S /\ r[k] = Spread(s, P, x)[Nth(S, k)]
    BY InsertAt
  <2>2. CASE \E i \in DOMAIN s : Nth(S, k) = 2 * i
    BY <1>0, <2>1, <2>2 DEF Others, SpreadOut, Even
  <2>3. CASE \E i \in P : Nth(S, k) = 2 * i + 1
    BY <1>0, <1>1, <2>1, <2>3, OddEven DEF SpreadOut
  <2>4. (\E i \in DOMAIN s : Nth(S, k) = 2 * i) \/ (\E i \in P : Nth(S, k) = 2 * i + 1)
    BY Zenon, <1>a, <2>1
  <2> QED
    BY Zenon, <2>2, <2>3, <2>4
<1>5. Others(r, M) = Kept(S, T)
  <2>1. DOMAIN r = 1 .. Cardinality(S)
    BY InsertAt
  <2> HIDE DEF S, T, r
  <2> QED
    BY <1>4, <2>1 DEF Others, Kept
<1> HIDE DEF S, A, T, r
<1> QED
  BY <1>2, <1>3, <1>5, KeepKept DEF Insert, r, S, A

(* another element is there as often as before, *)
LEMMA InsertCount ==
  ASSUME NEW X, NEW s \in Seq(X), NEW P \in SUBSET (0 .. Len(s)), NEW x, NEW y, x # y
  PROVE  Cardinality(PlacesOf(Insert(s, P, x), y)) = Cardinality(PlacesOf(s, y))
<1> DEFINE S == Slots(Len(s), P)
           A == PlacesOf(s, y)
           T == Even(A)
           r == Insert(s, P, x)
<1>0. SpreadOut(s, P, x)
  BY Zenon, SlotsAre
<1>a. \A j \in S : (\E i \in DOMAIN s : j = 2 * i) \/ (\E i \in P : j = 2 * i + 1)
  BY Zenon, SlotsAre
<1>1. A \in SUBSET DOMAIN s
  BY DEF PlacesOf
<1>2. T \in SUBSET S /\ Cardinality(T) = Cardinality(A)
  BY Zenon, <1>1, Doubled
<1>3. Finite(S)
  BY SlotsAre
<1>4. ASSUME NEW k \in 1 .. Cardinality(S) PROVE r[k] = y <=> Nth(S, k) \in T
  <2>1. Nth(S, k) \in S /\ r[k] = Spread(s, P, x)[Nth(S, k)]
    BY InsertAt
  <2>2. CASE \E i \in DOMAIN s : Nth(S, k) = 2 * i
    BY <1>0, <2>1, <2>2 DEF PlacesOf, SpreadOut, Even
  <2>3. CASE \E i \in P : Nth(S, k) = 2 * i + 1
    BY <1>0, <1>1, <2>1, <2>3, OddEven DEF SpreadOut
  <2>4. (\E i \in DOMAIN s : Nth(S, k) = 2 * i) \/ (\E i \in P : Nth(S, k) = 2 * i + 1)
    BY Zenon, <1>a, <2>1
  <2> QED
    BY Zenon, <2>2, <2>3, <2>4
<1>5. PlacesOf(r, y) = Kept(S, T)
  <2>1. DOMAIN r = 1 .. Cardinality(S)
    BY InsertAt
  <2> HIDE DEF S, T, r
  <2> QED
    BY <1>4, <2>1 DEF PlacesOf, Kept
<1> HIDE DEF S, A, T, r
<1> QED
  BY <1>2, <1>3, <1>5, KeepKept DEF r, A

(* There are as many odd places as places after which something is inserted, *)
LEMMA OddCount ==
  ASSUME NEW P, Finite(P)
  PROVE  Cardinality(Odd(P)) = Cardinality(P)
<1> DEFINE h == [i \in P |-> 2 * i + 1]
<1>1. Monotone(h, P)
  BY DEF Monotone, Finite
<1>2. Odd(P) = {h[i] : i \in P}
  BY DEF Odd
<1> HIDE DEF h
<1> QED
  BY <1>1, <1>2, MovedAll

(* and a new one once for each place. *)
LEMMA InsertNew ==
  ASSUME NEW X, NEW s \in Seq(X), NEW P \in SUBSET (0 .. Len(s)), NEW x, PlacesOf(s, x) = {}
  PROVE  Cardinality(PlacesOf(Insert(s, P, x), x)) = Cardinality(P)
<1> DEFINE S == Slots(Len(s), P)
           T == Odd(P)
           r == Insert(s, P, x)
<1>0. SpreadOut(s, P, x)
  BY Zenon, SlotsAre
<1>a. \A j \in S : (\E i \in DOMAIN s : j = 2 * i) \/ (\E i \in P : j = 2 * i + 1)
  BY Zenon, SlotsAre
<1>1. PICK n \in Nat : n = Len(s)
  OBVIOUS
<1>2. Finite(P)
  <2>1. \A i \in P : i \in Nat /\ i <= n
    BY <1>1
  <2> QED
    BY Zenon, <2>1, FS_BoundedSetOfNaturals DEF Finite
<1>3. Cardinality(T) = Cardinality(P)
  BY <1>2, OddCount
<1>4. T \in SUBSET S /\ Finite(S)
  BY <1>0, SlotsAre DEF SpreadOut, Odd
<1>5. ASSUME NEW k \in 1 .. Cardinality(S) PROVE r[k] = x <=> Nth(S, k) \in T
  <2>1. Nth(S, k) \in S /\ r[k] = Spread(s, P, x)[Nth(S, k)]
    BY InsertAt
  <2>2. CASE \E i \in DOMAIN s : Nth(S, k) = 2 * i
    <3>1. PICK i \in DOMAIN s : Nth(S, k) = 2 * i
      BY <2>2
    <3>2. r[k] # x
      BY <1>0, <2>1, <3>1 DEF PlacesOf, SpreadOut
    <3>3. 2 * i \notin T
      BY <1>2 DEF Finite, Odd
    <3> QED
      BY <3>1, <3>2, <3>3
  <2>3. CASE \E i \in P : Nth(S, k) = 2 * i + 1
    BY <1>0, <2>1, <2>3 DEF SpreadOut, Odd
  <2>4. (\E i \in DOMAIN s : Nth(S, k) = 2 * i) \/ (\E i \in P : Nth(S, k) = 2 * i + 1)
    BY Zenon, <1>a, <2>1
  <2> QED
    BY Zenon, <2>2, <2>3, <2>4
<1>6. PlacesOf(r, x) = Kept(S, T)
  <2>1. DOMAIN r = 1 .. Cardinality(S)
    BY InsertAt
  <2> HIDE DEF S, T, r
  <2> QED
    BY <1>5, <2>1 DEF PlacesOf, Kept
<1> HIDE DEF S, T, r
<1> QED
  BY <1>3, <1>4, <1>6, KeepKept DEF r

(* The elements of a sequence with something inserted. *)
LEMMA InsertIs ==
  ASSUME NEW X, NEW s \in Seq(X), NEW P \in SUBSET (0 .. Len(s)), NEW x \in X
  PROVE  /\ Insert(s, P, x) \in Seq(X)
         /\ Range(s) \subseteq Range(Insert(s, P, x))
         /\ Range(Insert(s, P, x)) \subseteq Range(s) \cup {x}
         /\ P # {} => x \in Range(Insert(s, P, x))
<1> DEFINE S == Slots(Len(s), P)
           r == Insert(s, P, x)
<1>0. SpreadOut(s, P, x)
  BY Zenon, SlotsAre
<1>1. Finite(S) /\ Cardinality(S) \in Nat
  BY SlotsAre, FS_CardinalityType DEF Finite
<1>2. /\ DOMAIN r = 1 .. Cardinality(S)
      /\ \A k \in 1 .. Cardinality(S) : Nth(S, k) \in S /\ r[k] = Spread(s, P, x)[Nth(S, k)]
  BY InsertAt
<1>3. ASSUME NEW k \in 1 .. Cardinality(S) PROVE r[k] \in Range(s) \cup {x}
  BY <1>0, <1>2, SlotsAre DEF Range, SpreadOut
<1>4. Range(s) \subseteq X
  BY DEF Range
<1>5. r \in Seq(X)
  <2>1. r = [k \in 1 .. Cardinality(S) |-> r[k]]
    BY DEF Insert, Keep
  <2>2. \A k \in 1 .. Cardinality(S) : r[k] \in X
    BY <1>3, <1>4
  <2> HIDE DEF r, S
  <2> QED
    BY <1>1, <2>1, <2>2
<1>6. ASSUME NEW i \in S PROVE Spread(s, P, x)[i] \in Range(r)
  <2>1. PICK k \in 1 .. Cardinality(S) : Nth(S, k) = i
    BY <1>1, NthOnto
  <2> QED
    BY <1>2, <2>1 DEF Range
<1>7. Range(s) \subseteq Range(r) /\ (P # {} => x \in Range(r))
  <2>1. ASSUME NEW i \in DOMAIN s PROVE s[i] \in Range(r)
    <3>1. \A j \in DOMAIN s : 2 * j \in S /\ Spread(s, P, x)[2 * j] = s[j]
      BY <1>0 DEF SpreadOut
    <3> QED
      BY Zenon, <1>6, <3>1
  <2>2. ASSUME NEW i \in P PROVE x \in Range(r)
    <3>1. \A j \in P : 2 * j + 1 \in S /\ Spread(s, P, x)[2 * j + 1] = x
      BY <1>0 DEF SpreadOut
    <3> QED
      BY Zenon, <1>6, <3>1
  <2>3. \A y \in Range(s) : \E i \in DOMAIN s : y = s[i]
    BY DEF Range
  <2> QED
    BY Zenon, <2>1, <2>2, <2>3
<1>8. Range(r) \subseteq Range(s) \cup {x}
  BY <1>2, <1>3 DEF Range
<1> QED
  BY <1>5, <1>7, <1>8

=============================================================================
