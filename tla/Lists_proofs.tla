---------------------------- MODULE Lists_proofs ----------------------------
(***************************************************************************)
(* For every number of nodes, lists and allocators and every set of        *)
(* values, ds::List and the doubly linked list of MCLists keep their nodes *)
(* and implement the sequences that their callers see.                     *)
(***************************************************************************)
EXTENDS MCLists, SequenceTheorems, FiniteSetTheorems, FunctionTheorems, NaturalsInduction,
        WellFoundedInduction, TLAPS

allVars == <<list, ringVars, doublyVars>>

(* Each list, alone: a step of the other leaves its variables. *)
LEMMA Alone ==
  /\ ListsInit => ring!Init /\ doubly!Init
  /\ [ListsNext]_allVars => [ring!Next]_ringVars /\ [doubly!Next]_doublyVars
BY DEF ListsInit, ListsNext, allVars
-----------------------------------------------------------------------------
(* Induction over the naturals, for sets. *)

LEMMA SetInduction ==
  ASSUME NEW T \in SUBSET Nat, 0 \in T, \A n \in T : n + 1 \in T
  PROVE  T = Nat
<1> DEFINE M == Nat \ T
           R == {ss \in Nat \X Nat : ss[1] < ss[2]}
<1>1. SUFFICES ASSUME M # {} PROVE FALSE
  OBVIOUS
<1>2. IsWellFoundedOn(R, Nat)
  BY NatLessThanWellFounded DEF OpToRel
<1>3. M \subseteq Nat
  OBVIOUS
<1>4. \A x, y \in Nat : x < y => <<x, y>> \in R
  OBVIOUS
<1> HIDE DEF M, R
<1>5. PICK x \in M : \A y \in M : ~ (<<y, x>> \in R)
  BY <1>1, <1>2, <1>3, WFMin
<1>6. x # 0 /\ x \in Nat
  BY <1>3, <1>5 DEF M
<1>7. x - 1 \in Nat /\ x - 1 < x
  BY <1>6
<1>8. x - 1 \in T
  BY <1>4, <1>5, <1>6, <1>7 DEF M
<1>. QED BY <1>5, <1>6, <1>8, x - 1 + 1 = x DEF M

LEMMA UpTo ==
  ASSUME NEW n \in Nat
  PROVE  IsFiniteSet(1..n) /\ Cardinality(1..n) = n
<1>1. 1 \in Int /\ n \in Int
  OBVIOUS
<1>2. IsFiniteSet(1..n) /\ Cardinality(1..n) = IF 1 > n THEN 0 ELSE n - 1 + 1
  BY <1>1, FS_Interval, Zenon
<1>. QED BY <1>2

-----------------------------------------------------------------------------
(* Insertion of n behind the first k elements, and removal of the k-th. *)

With(s, k, n) == [i \in 1..(Len(s) + 1) |-> IF i <= k THEN s[i] ELSE IF i = k + 1 THEN n ELSE s[i - 1]]

Without(s, k) == [i \in 1..(Len(s) - 1) |-> IF i < k THEN s[i] ELSE s[i + 1]]

LEMMA WithIs ==
  ASSUME NEW S, NEW s \in Seq(S), NEW k \in 0..Len(s), NEW n \in S
  PROVE  /\ With(s, k, n) \in Seq(S) /\ Len(With(s, k, n)) = Len(s) + 1
         /\ \A i \in 1..k : With(s, k, n)[i] = s[i]
         /\ With(s, k, n)[k + 1] = n
         /\ \A i \in (k + 1)..Len(s) : With(s, k, n)[i + 1] = s[i]
<1>1. Len(s) \in Nat /\ k \in Nat /\ k <= Len(s)
  OBVIOUS
<1>2. \A i \in 1..(Len(s) + 1) : (IF i <= k THEN s[i] ELSE IF i = k + 1 THEN n ELSE s[i - 1]) \in S
  BY <1>1
<1>3. With(s, k, n) \in Seq(S) /\ Len(With(s, k, n)) = Len(s) + 1
  BY <1>1, <1>2 DEF With
<1>4. \A i \in 1..(Len(s) + 1) : With(s, k, n)[i] = IF i <= k THEN s[i] ELSE IF i = k + 1 THEN n ELSE s[i - 1]
  BY DEF With
<1>5. \A i \in 1..k : With(s, k, n)[i] = s[i]
  BY <1>1, <1>4
<1>6. With(s, k, n)[k + 1] = n
  BY <1>1, <1>4
<1>7. ASSUME NEW i \in (k + 1)..Len(s) PROVE With(s, k, n)[i + 1] = s[i]
  <2>1. i + 1 \in 1..(Len(s) + 1) /\ ~ (i + 1 <= k) /\ i + 1 # k + 1 /\ (i + 1) - 1 = i
    BY <1>1
  <2>. QED BY <1>4, <2>1
<1>. QED BY <1>3, <1>5, <1>6, <1>7

LEMMA WithoutIs ==
  ASSUME NEW S, NEW s \in Seq(S), NEW k \in 1..Len(s)
  PROVE  /\ Without(s, k) \in Seq(S) /\ Len(Without(s, k)) = Len(s) - 1
         /\ \A i \in 1..(k - 1) : Without(s, k)[i] = s[i]
         /\ \A i \in k..(Len(s) - 1) : Without(s, k)[i] = s[i + 1]
<1>1. Len(s) \in Nat /\ k \in Nat /\ k <= Len(s) /\ Len(s) - 1 \in Nat
  OBVIOUS
<1>2. \A i \in 1..(Len(s) - 1) : (IF i < k THEN s[i] ELSE s[i + 1]) \in S
  BY <1>1
<1>3. Without(s, k) \in Seq(S) /\ Len(Without(s, k)) = Len(s) - 1
  BY <1>1, <1>2 DEF Without
<1>4. \A i \in 1..(Len(s) - 1) : Without(s, k)[i] = IF i < k THEN s[i] ELSE s[i + 1]
  BY DEF Without
<1>5. \A i \in 1..(k - 1) : Without(s, k)[i] = s[i]
  BY <1>1, <1>4
<1>6. \A i \in k..(Len(s) - 1) : Without(s, k)[i] = s[i + 1]
  BY <1>1, <1>4
<1>. QED BY <1>3, <1>5, <1>6

LEMMA Joined ==
  ASSUME NEW S, NEW x \in Seq(S), NEW y \in Seq(S)
  PROVE  /\ x \o y \in Seq(S) /\ Len(x \o y) = Len(x) + Len(y)
         /\ \A i \in 1..Len(x) : (x \o y)[i] = x[i]
         /\ \A i \in 1..Len(y) : (x \o y)[Len(x) + i] = y[i]
<1>1. /\ x \o y \in Seq(S) /\ Len(x \o y) = Len(x) + Len(y) /\ Len(x) \in Nat /\ Len(y) \in Nat
      /\ \A i \in 1..(Len(x) + Len(y)) : (x \o y)[i] = IF i <= Len(x) THEN x[i] ELSE y[i - Len(x)]
  BY ConcatProperties
<1>2. \A i \in 1..Len(x) : (x \o y)[i] = x[i]
  BY <1>1
<1>3. ASSUME NEW i \in 1..Len(y) PROVE (x \o y)[Len(x) + i] = y[i]
  <2>1. Len(x) + i \in 1..(Len(x) + Len(y)) /\ ~ (Len(x) + i <= Len(x)) /\ (Len(x) + i) - Len(x) = i
    BY <1>1
  <2>. QED BY <1>1, <2>1
<1>. QED BY <1>1, <1>2, <1>3

(* The same, cut and joined. *)
LEMMA WithJoins ==
  ASSUME NEW S, NEW s \in Seq(S), NEW k \in 0..Len(s), NEW n \in S
  PROVE  SubSeq(s, 1, k) \o <<n>> \o SubSeq(s, k + 1, Len(s)) = With(s, k, n)
<1>21. PICK x : x = SubSeq(s, 1, k)
  OBVIOUS
<1>22. PICK y : y = SubSeq(s, k + 1, Len(s))
  OBVIOUS
<1>23. PICK z : z = <<n>>
  OBVIOUS
<1>24. PICK w : w = x \o z
  OBVIOUS
<1>25. PICK r : r = w \o y
  OBVIOUS
<1>26. PICK t : t = With(s, k, n)
  OBVIOUS
<1>27. PICK m : m = Len(s) - k
  OBVIOUS
<1>1. Len(s) \in Nat /\ k \in Nat /\ k + 1 \in Nat /\ m \in Nat /\ Len(s) = k + m /\ 1 \in Nat
  BY <1>27
<1>2. x \in Seq(S) /\ Len(x) = k /\ \A i \in 1..k : x[i] = s[i]
  BY <1>1, <1>21
<1>3. y \in Seq(S) /\ Len(y) = m /\ \A i \in 1..m : y[i] = s[k + i]
  BY <1>1, <1>22
<1>4. z \in Seq(S) /\ Len(z) = 1 /\ z[1] = n
  BY <1>23
<1>5. w \in Seq(S) /\ Len(w) = k + 1 /\ (\A i \in 1..k : w[i] = x[i]) /\ \A i \in 1..1 : w[k + i] = z[i]
  <2>1. x \in Seq(S) /\ z \in Seq(S) /\ Len(x) = k /\ Len(z) = 1 /\ k \in Nat /\ 1 \in Nat
    BY <1>1, <1>2, <1>4
  <2>2. /\ x \o z \in Seq(S) /\ Len(x \o z) = k + 1
        /\ \A i \in 1..k : (x \o z)[i] = x[i]
        /\ \A i \in 1..1 : (x \o z)[k + i] = z[i]
    <3>1. x \o z \in Seq(S) /\ Len(x \o z) = k + 1
      <4>1. x \o z \in Seq(S) /\ Len(x \o z) = Len(x) + Len(z)
        BY <2>1, Joined
      <4>. QED BY <2>1, <4>1
    <3>2. \A i \in 1..k : (x \o z)[i] = x[i]
      BY ONLY <2>1, Joined
    <3>3. \A i \in 1..1 : (x \o z)[k + i] = z[i]
      <4>0. x \in Seq(S) /\ z \in Seq(S)
        BY ONLY <2>1
      <4>1. \A i \in 1..Len(z) : (x \o z)[Len(x) + i] = z[i]
        BY ONLY <4>0, Joined
      <4>. QED BY ONLY <2>1, <4>1
    <3>. QED BY <3>1, <3>2, <3>3
  <2>. QED BY <1>24, <2>2
<1>6. /\ r \in Seq(S) /\ Len(r) = k + 1 + m
      /\ \A i \in 1..(k + 1) : r[i] = w[i]
      /\ \A i \in 1..m : r[k + 1 + i] = y[i]
  <2>1. w \in Seq(S) /\ y \in Seq(S) /\ Len(w) = k + 1 /\ Len(y) = m /\ k + 1 \in Nat /\ m \in Nat
    BY <1>1, <1>3, <1>5
  <2>2. /\ w \o y \in Seq(S) /\ Len(w \o y) = k + 1 + m
        /\ \A i \in 1..(k + 1) : (w \o y)[i] = w[i]
        /\ \A i \in 1..m : (w \o y)[k + 1 + i] = y[i]
    <3>1. w \o y \in Seq(S) /\ Len(w \o y) = k + 1 + m
      <4>1. w \o y \in Seq(S) /\ Len(w \o y) = Len(w) + Len(y)
        BY <2>1, Joined
      <4>. QED BY <2>1, <4>1
    <3>2. \A i \in 1..(k + 1) : (w \o y)[i] = w[i]
      BY ONLY <2>1, Joined
    <3>3. \A i \in 1..m : (w \o y)[k + 1 + i] = y[i]
      <4>0. w \in Seq(S) /\ y \in Seq(S)
        BY ONLY <2>1
      <4>1. \A i \in 1..Len(y) : (w \o y)[Len(w) + i] = y[i]
        BY ONLY <4>0, Joined
      <4>. QED BY ONLY <2>1, <4>1
    <3>. QED BY <3>1, <3>2, <3>3
  <2>. QED BY <1>25, <2>2
<1>7. /\ t \in Seq(S) /\ Len(t) = k + m + 1
      /\ \A i \in 1..k : t[i] = s[i]
      /\ t[k + 1] = n
      /\ \A i \in (k + 1)..(k + m) : t[i + 1] = s[i]
  <2>1. /\ With(s, k, n) \in Seq(S) /\ Len(With(s, k, n)) = Len(s) + 1
        /\ \A i \in 1..k : With(s, k, n)[i] = s[i]
        /\ With(s, k, n)[k + 1] = n
        /\ \A i \in (k + 1)..Len(s) : With(s, k, n)[i + 1] = s[i]
    <3>1. With(s, k, n) \in Seq(S) /\ Len(With(s, k, n)) = Len(s) + 1
      BY WithIs
    <3>2. \A i \in 1..k : With(s, k, n)[i] = s[i]
      BY WithIs
    <3>3. With(s, k, n)[k + 1] = n
      BY WithIs
    <3>4. \A i \in (k + 1)..Len(s) : With(s, k, n)[i + 1] = s[i]
      BY WithIs
    <3>. QED BY <3>1, <3>2, <3>3, <3>4
  <2>. QED BY <1>1, <1>26, <2>1
<1>8. ASSUME NEW i \in 1..(k + m + 1) PROVE r[i] = t[i]
  <2>1. CASE i \in 1..k
    <3>1. r[i] = w[i]
      BY <1>1, <1>6, <2>1
    <3>. QED BY <1>2, <1>5, <1>7, <2>1, <3>1
  <2>2. CASE i = k + 1
    <3>1. r[i] = w[k + 1] /\ w[k + 1] = z[1]
      BY <1>1, <1>5, <1>6, <2>2
    <3>. QED BY <1>4, <1>7, <2>2, <3>1
  <2>3. CASE i > k + 1
    <3>9. PICK j : j = i - (k + 1)
      OBVIOUS
    <3>1. j \in 1..m /\ i = k + 1 + j /\ k + j \in (k + 1)..(k + m) /\ (k + j) + 1 = i
      BY <1>1, <2>3, <3>9
    <3>2. r[i] = y[j] /\ y[j] = s[k + j]
      BY <1>3, <1>6, <3>1
    <3>3. t[(k + j) + 1] = s[k + j]
      BY <1>7, <3>1
    <3>. QED BY <3>1, <3>2, <3>3
  <2>. QED BY <1>1, <2>1, <2>2, <2>3
<1>9. Len(r) = Len(t) /\ Len(r) = k + m + 1
  BY <1>1, <1>6, <1>7
<1>10. r = t
  BY <1>6, <1>7, <1>8, <1>9, SeqEqual
<1>. QED BY <1>10, <1>21, <1>22, <1>23, <1>24, <1>25, <1>26

LEMMA WithoutJoins ==
  ASSUME NEW S, NEW s \in Seq(S), NEW k \in 1..Len(s)
  PROVE  SubSeq(s, 1, k - 1) \o SubSeq(s, k + 1, Len(s)) = Without(s, k)
<1>21. PICK x : x = SubSeq(s, 1, k - 1)
  OBVIOUS
<1>22. PICK y : y = SubSeq(s, k + 1, Len(s))
  OBVIOUS
<1>23. PICK r : r = x \o y
  OBVIOUS
<1>24. PICK t : t = Without(s, k)
  OBVIOUS
<1>25. PICK m : m = Len(s) - k
  OBVIOUS
<1>1. Len(s) \in Nat /\ k \in Nat /\ k - 1 \in Nat /\ m \in Nat /\ Len(s) = k + m
  BY <1>25
<1>2. x \in Seq(S) /\ Len(x) = k - 1 /\ \A i \in 1..(k - 1) : x[i] = s[i]
  BY <1>1, <1>21
<1>3. y \in Seq(S) /\ Len(y) = m /\ \A i \in 1..m : y[i] = s[k + i]
  BY <1>1, <1>22
<1>4. /\ r \in Seq(S) /\ Len(r) = k - 1 + m
      /\ \A i \in 1..(k - 1) : r[i] = x[i]
      /\ \A i \in 1..m : r[k - 1 + i] = y[i]
  <2>1. x \in Seq(S) /\ y \in Seq(S) /\ Len(x) = k - 1 /\ Len(y) = m /\ k - 1 \in Nat /\ m \in Nat
    BY <1>1, <1>2, <1>3
  <2>2. /\ x \o y \in Seq(S) /\ Len(x \o y) = k - 1 + m
        /\ \A i \in 1..(k - 1) : (x \o y)[i] = x[i]
        /\ \A i \in 1..m : (x \o y)[k - 1 + i] = y[i]
    <3>1. x \o y \in Seq(S) /\ Len(x \o y) = k - 1 + m
      BY <2>1, Joined
    <3>2. \A i \in 1..(k - 1) : (x \o y)[i] = x[i]
      BY ONLY <2>1, Joined
    <3>3. \A i \in 1..m : (x \o y)[k - 1 + i] = y[i]
      <4>0. x \in Seq(S) /\ y \in Seq(S)
        BY ONLY <2>1
      <4>1. \A i \in 1..Len(y) : (x \o y)[Len(x) + i] = y[i]
        BY ONLY <4>0, Joined
      <4>. QED BY ONLY <2>1, <4>1
    <3>. QED BY <3>1, <3>2, <3>3
  <2>. QED BY <1>23, <2>2
<1>5. /\ t \in Seq(S) /\ Len(t) = k + m - 1
      /\ \A i \in 1..(k - 1) : t[i] = s[i]
      /\ \A i \in k..(k + m - 1) : t[i] = s[i + 1]
  <2>1. /\ Without(s, k) \in Seq(S) /\ Len(Without(s, k)) = Len(s) - 1
        /\ \A i \in 1..(k - 1) : Without(s, k)[i] = s[i]
        /\ \A i \in k..(Len(s) - 1) : Without(s, k)[i] = s[i + 1]
    <3>1. Without(s, k) \in Seq(S) /\ Len(Without(s, k)) = Len(s) - 1
      BY WithoutIs
    <3>2. \A i \in 1..(k - 1) : Without(s, k)[i] = s[i]
      BY WithoutIs
    <3>3. \A i \in k..(Len(s) - 1) : Without(s, k)[i] = s[i + 1]
      BY WithoutIs
    <3>. QED BY <3>1, <3>2, <3>3
  <2>. QED BY <1>1, <1>24, <2>1
<1>6. ASSUME NEW i \in 1..(k + m - 1) PROVE r[i] = t[i]
  <2>1. CASE i \in 1..(k - 1)
    BY <1>2, <1>4, <1>5, <2>1
  <2>2. CASE i >= k
    <3>9. PICK j : j = i - (k - 1)
      OBVIOUS
    <3>1. j \in 1..m /\ i = k - 1 + j /\ i \in k..(k + m - 1) /\ k + j = i + 1
      BY <1>1, <2>2, <3>9
    <3>2. r[i] = y[j] /\ y[j] = s[k + j]
      BY <1>3, <1>4, <3>1
    <3>3. t[i] = s[i + 1]
      BY <1>5, <3>1
    <3>. QED BY <3>1, <3>2, <3>3
  <2>. QED BY <1>1, <2>1, <2>2
<1>7. Len(r) = Len(t) /\ Len(r) = k + m - 1
  BY <1>1, <1>4, <1>5
<1>8. r = t
  BY <1>4, <1>5, <1>6, <1>7, SeqEqual
<1>. QED BY <1>8, <1>21, <1>22, <1>23, <1>24

-----------------------------------------------------------------------------
(* The doubly linked list. *)

DoublyTypes ==
  /\ val \in [ListNodes -> Items \cup {None}]
  /\ next \in [ListNodes -> ListNodes \cup {None}]
  /\ prev \in [ListNodes -> ListNodes \cup {None}]

(* M is the nodes from head to tail. *)
Listed(M) ==
  /\ M \in Seq(ListNodes) /\ sz = Len(M)
  /\ \A i, j \in 1..Len(M) : M[i] = M[j] => i = j
  /\ \A n \in ListNodes : val[n] # None <=> \E i \in 1..Len(M) : n = M[i]
  /\ head = (IF Len(M) = 0 THEN None ELSE M[1])
  /\ tail = (IF Len(M) = 0 THEN None ELSE M[Len(M)])
  /\ \A i \in 1..Len(M) : /\ next[M[i]] = (IF i = Len(M) THEN None ELSE M[i + 1])
                          /\ prev[M[i]] = (IF i = 1 THEN None ELSE M[i - 1])
  /\ \A n \in ListNodes : val[n] = None => next[n] = None /\ prev[n] = None

DoublyInv == DoublyTypes /\ \E M \in Seq(ListNodes) : Listed(M)

LEMMA NoneIsNoNode ==
  /\ None \notin ListNodes /\ None \notin Items /\ None \notin Seq(Items)
  /\ IsFiniteSet(ListNodes)
<1>1. Seq(Items) \subseteq Seq(Items \cup {Taken})
  OBVIOUS
<1>. QED BY <1>1, MCListsAssumption DEF MCListsAssumption

(* The nodes along a link are the sequence that the link runs through. *)
LEMMA AlongIs ==
  ASSUME NEW link \in [ListNodes -> ListNodes \cup {None}], NEW n, NEW M \in Seq(ListNodes),
         \A i, j \in 1..Len(M) : M[i] = M[j] => i = j,
         n = (IF Len(M) = 0 THEN None ELSE M[1]),
         \A i \in 1..Len(M) : link[M[i]] = (IF i = Len(M) THEN None ELSE M[i + 1])
  PROVE  doubly!Along(link, n) = M
<1>. PICK N : N = doubly!Cardinality(ListNodes)
  OBVIOUS
<1>1. N \in Nat /\ Len(M) \in Nat /\ Len(M) <= N
  <2>1. doubly!Cardinality(ListNodes) = Cardinality(ListNodes)
    BY DEF doubly!Cardinality, Cardinality
  <2>2. M \in Injection(1..Len(M), ListNodes)
    BY DEF Injection, IsInjective
  <2>3. Len(M) \in Nat /\ Cardinality(1..Len(M)) = Len(M) /\ IsFiniteSet(1..Len(M))
    <3>1. Len(M) \in Nat
      OBVIOUS
    <3>. QED BY <3>1, UpTo
  <2>4. Cardinality(1..Len(M)) <= Cardinality(ListNodes)
    BY <2>2, <2>3, FS_Injection, NoneIsNoNode DEF ExistsInjection
  <2>5. Cardinality(ListNodes) \in Nat
    BY NoneIsNoNode, FS_CardinalityType
  <2>. QED BY <2>1, <2>3, <2>4, <2>5
<1>. DEFINE at[i \in 1..N] == IF i = 1 THEN n ELSE IF at[i - 1] = None THEN None ELSE link[at[i - 1]]
            w == [i \in 1..N |-> IF i <= Len(M) THEN M[i] ELSE None]
<1>2. w = [i \in 1..N |-> IF i = 1 THEN n ELSE IF w[i - 1] = None THEN None ELSE link[w[i - 1]]]
  <2>1. ASSUME NEW i \in 1..N
        PROVE  w[i] = IF i = 1 THEN n ELSE IF w[i - 1] = None THEN None ELSE link[w[i - 1]]
    <3>1. CASE i = 1
      BY <1>1, <3>1
    <3>2. CASE i # 1
      <4>1. i - 1 \in 1..N /\ (i - 1) + 1 = i
        BY <1>1, <3>2
      <4>2. CASE i - 1 <= Len(M)
        <5>1. i - 1 \in 1..Len(M) /\ w[i - 1] = M[i - 1] /\ M[i - 1] \in ListNodes
          BY <1>1, <4>1, <4>2
        <5>2. link[M[i - 1]] = (IF i - 1 = Len(M) THEN None ELSE M[i])
          BY <4>1, <5>1
        <5>3. w[i] = (IF i - 1 = Len(M) THEN None ELSE M[i])
          BY <1>1, <4>1, <4>2
        <5>. QED BY <3>2, <5>1, <5>2, <5>3, NoneIsNoNode
      <4>3. CASE ~ (i - 1 <= Len(M))
        BY <1>1, <3>2, <4>1, <4>3
      <4>. QED BY <4>2, <4>3
    <3>. QED BY <3>1, <3>2
  <2>. QED BY <2>1
<1>3. at = [i \in 1..N |-> IF i = 1 THEN n ELSE IF at[i - 1] = None THEN None ELSE link[at[i - 1]]]
  <2>. HIDE DEF w
  <2>1. \E f : f = [i \in 1..N |-> IF i = 1 THEN n ELSE IF f[i - 1] = None THEN None ELSE link[f[i - 1]]]
    BY <1>2
  <2>. QED BY <2>1, Zenon
<1>. HIDE DEF at
<1>4. \A i \in 1..N : at[i] = w[i]
  <2>. DEFINE T == {k \in Nat : k \in 1..N => at[k] = w[k]}
  <2>1. 0 \in T
    OBVIOUS
  <2>2. ASSUME NEW k \in T PROVE k + 1 \in T
    <3>1. CASE k + 1 \in 1..N /\ k # 0
      <4>1. k \in 1..N /\ (k + 1) - 1 = k /\ k + 1 # 1
        BY <1>1, <3>1
      <4>2. at[k + 1] = (IF at[k] = None THEN None ELSE link[at[k]])
        BY <1>3, <3>1, <4>1
      <4>3. w[k + 1] = (IF w[k] = None THEN None ELSE link[w[k]])
        <5>. HIDE DEF w
        <5>. QED BY <1>2, <3>1, <4>1
      <4>. QED BY <2>2, <4>1, <4>2, <4>3
    <3>2. CASE k = 0 /\ 1 \in 1..N
      <4>. HIDE DEF w
      <4>. QED BY <1>2, <1>3, <3>2
    <3>3. CASE k + 1 \notin 1..N
      BY <3>3
    <3>. QED BY <3>1, <3>2, <3>3
  <2>. HIDE DEF T
  <2>3. T = Nat
    <3>1. T \in SUBSET Nat
      BY DEF T
    <3>. QED BY <2>1, <2>2, <3>1, SetInduction
  <2>. SUFFICES ASSUME NEW k \in 1..N PROVE at[k] = w[k]
    OBVIOUS
  <2>4. k \in T
    BY <1>1, <2>3
  <2>. QED BY <2>4 DEF T
<1>5. {j \in 1..N : at[j] # None} = 1..Len(M)
  <2>1. \A i \in 1..Len(M) : i \in 1..N /\ M[i] # None
    BY <1>1, NoneIsNoNode
  <2>2. \A i \in 1..N : i <= Len(M) <=> i \in 1..Len(M)
    BY <1>1
  <2>. QED BY <1>1, <1>4, <2>1, <2>2
<1>6. doubly!Along(link, n) = [i \in {j \in 1..N : at[j] # None} |-> at[i]]
  BY DEF doubly!Along, at
<1>7. \A i \in 1..Len(M) : at[i] = M[i]
  BY <1>1, <1>4
<1>. QED BY <1>5, <1>6, <1>7

Backwards(M) == [i \in 1..Len(M) |-> M[Len(M) - i + 1]]

LEMMA BothWays ==
  ASSUME DoublyTypes, NEW M, Listed(M)
  PROVE  doubly!Forward = M /\ doubly!Backward = Backwards(M)
<1>1. M \in Seq(ListNodes) /\ Len(M) \in Nat
  BY DEF Listed
<1>2. doubly!Along(next, head) = M
  <2>1. next \in [ListNodes -> ListNodes \cup {None}]
    BY DEF DoublyTypes
  <2>2. \A i, j \in 1..Len(M) : M[i] = M[j] => i = j
    BY DEF Listed
  <2>3. head = (IF Len(M) = 0 THEN None ELSE M[1])
    BY DEF Listed
  <2>4. \A i \in 1..Len(M) : next[M[i]] = (IF i = Len(M) THEN None ELSE M[i + 1])
    BY DEF Listed
  <2>. QED BY <1>1, <2>1, <2>2, <2>3, <2>4, AlongIs
<1>. PICK B : B = Backwards(M)
  OBVIOUS
<1>3. B \in Seq(ListNodes) /\ Len(B) = Len(M) /\ \A i \in 1..Len(M) : B[i] = M[Len(M) - i + 1]
  BY <1>1 DEF Backwards
<1>4. \A i \in 1..Len(M) : Len(M) - i + 1 \in 1..Len(M)
  BY <1>1
<1>5. \A i, j \in 1..Len(B) : B[i] = B[j] => i = j
  <2>. SUFFICES ASSUME NEW i \in 1..Len(M), NEW j \in 1..Len(M), B[i] = B[j] PROVE i = j
    BY <1>3
  <2>1. Len(M) - i + 1 \in 1..Len(M) /\ Len(M) - j + 1 \in 1..Len(M) /\ M[Len(M) - i + 1] = M[Len(M) - j + 1]
    BY <1>3, <1>4
  <2>2. Len(M) - i + 1 = Len(M) - j + 1
    BY <2>1, Zenon DEF Listed
  <2>. QED BY <1>1, <2>2
<1>6. tail = (IF Len(B) = 0 THEN None ELSE B[1])
  BY <1>1, <1>3 DEF Listed
<1>7. \A i \in 1..Len(B) : prev[B[i]] = (IF i = Len(B) THEN None ELSE B[i + 1])
  <2>. SUFFICES ASSUME NEW i \in 1..Len(M) PROVE prev[B[i]] = (IF i = Len(M) THEN None ELSE B[i + 1])
    BY <1>3
  <2>. PICK j : j = Len(M) - i + 1
    OBVIOUS
  <2>1. j \in 1..Len(M) /\ B[i] = M[j] /\ (j = 1 <=> i = Len(M))
    BY <1>1, <1>3
  <2>2. prev[M[j]] = (IF j = 1 THEN None ELSE M[j - 1])
    BY <2>1 DEF Listed
  <2>3. i # Len(M) => B[i + 1] = M[j - 1]
    <3>1. i # Len(M) => i + 1 \in 1..Len(M) /\ Len(M) - (i + 1) + 1 = j - 1
      BY <1>1
    <3>. QED BY <1>3, <3>1
  <2>. QED BY <2>1, <2>2, <2>3
<1>8. doubly!Along(prev, tail) = B
  <2>1. prev \in [ListNodes -> ListNodes \cup {None}]
    BY DEF DoublyTypes
  <2>2. B \in Seq(ListNodes)
    BY <1>3
  <2>. QED BY <1>5, <1>6, <1>7, <2>1, <2>2, AlongIs
<1>. QED BY <1>2, <1>8 DEF doubly!Forward, doubly!Backward

LEMMA DoublyLinked == DoublyInv => doubly!NodesLinked
<1>. SUFFICES ASSUME DoublyInv PROVE doubly!NodesLinked
  OBVIOUS
<1>1. PICK M \in Seq(ListNodes) : Listed(M)
  BY DEF DoublyInv
<1>2. doubly!Forward = M /\ doubly!Backward = Backwards(M)
  BY <1>1, BothWays DEF DoublyInv
<1>3. doubly!Reverse(M) = Backwards(M)
  BY DEF doubly!Reverse, Backwards
<1>4. doubly!ToSet(M) = doubly!Allocated
  BY <1>1 DEF doubly!ToSet, doubly!Allocated, Listed
<1>. QED BY <1>1, <1>2, <1>3, <1>4 DEF doubly!NodesLinked, Listed

-----------------------------------------------------------------------------
(* Each step of the doubly linked list. *)

ValuesOf(M) == [i \in 1..Len(M) |-> val[M[i]]]

LEMMA ListedWith ==
  ASSUME DoublyTypes, NEW M, Listed(M), NEW k \in 0..Len(M), NEW n \in ListNodes, val[n] = None, NEW v \in Items,
         val' = [val EXCEPT ![n] = v], sz' = sz + 1,
         head' = (IF k = 0 THEN n ELSE head), tail' = (IF k = Len(M) THEN n ELSE tail),
         next' \in [ListNodes -> ListNodes \cup {None}], prev' \in [ListNodes -> ListNodes \cup {None}],
         \A x \in ListNodes : next'[x] = (IF x = n THEN IF k = Len(M) THEN None ELSE M[k + 1]
                                          ELSE IF k # 0 /\ x = M[k] THEN n ELSE next[x]),
         \A x \in ListNodes : prev'[x] = (IF x = n THEN IF k = 0 THEN None ELSE M[k]
                                          ELSE IF k # Len(M) /\ x = M[k + 1] THEN n ELSE prev[x])
  PROVE  DoublyTypes' /\ Listed(With(M, k, n))' /\ ValuesOf(With(M, k, n))' = With(ValuesOf(M), k, v)
<1>1. /\ M \in Seq(ListNodes) /\ Len(M) \in Nat /\ k \in Nat /\ k <= Len(M) /\ sz = Len(M)
      /\ \A i, j \in 1..Len(M) : M[i] = M[j] => i = j
      /\ \A i \in 1..Len(M) : M[i] \in ListNodes /\ M[i] # n
  BY DEF Listed
<1>2. PICK W : W = With(M, k, n)
  OBVIOUS
<1>3. W \in Seq(ListNodes) /\ Len(W) = Len(M) + 1
  BY <1>1, <1>2, WithIs
<1>4. \A i \in 1..(Len(M) + 1) : W[i] = IF i <= k THEN M[i] ELSE IF i = k + 1 THEN n ELSE M[i - 1]
  BY <1>2 DEF With
<1>5. DoublyTypes'
  BY DEF DoublyTypes
<1>6. ASSUME NEW i \in 1..Len(W)
      PROVE  \/ i <= k /\ i \in 1..Len(M) /\ W[i] = M[i]
             \/ i = k + 1 /\ W[i] = n
             \/ i > k + 1 /\ i - 1 \in 1..Len(M) /\ W[i] = M[i - 1]
  BY <1>1, <1>3, <1>4
<1>7. \A i, j \in 1..Len(W) : W[i] = W[j] => i = j
  <2>. SUFFICES ASSUME NEW i \in 1..Len(W), NEW j \in 1..Len(W), W[i] = W[j] PROVE i = j
    OBVIOUS
  <2>1. i \in Int /\ j \in Int /\ k \in Int
    BY <1>1
  <2>. QED BY <1>1, <1>6, <2>1
<1>8. \A x \in ListNodes : val'[x] # None <=> \E i \in 1..Len(W) : x = W[i]
  <2>1. \A x \in ListNodes : val'[x] # None <=> x = n \/ val[x] # None
    BY NoneIsNoNode DEF DoublyTypes
  <2>2. \A x \in ListNodes : val[x] # None <=> \E i \in 1..Len(M) : x = M[i]
    BY DEF Listed
  <2>3. \A i \in 1..Len(M) : \E j \in 1..Len(W) : W[j] = M[i]
    <3>. SUFFICES ASSUME NEW i \in 1..Len(M) PROVE \E j \in 1..Len(W) : W[j] = M[i]
      OBVIOUS
    <3>1. CASE i <= k
      BY <1>1, <1>3, <1>4, <3>1
    <3>2. CASE i > k
      <4>1. i + 1 \in 1..Len(W) /\ ~ (i + 1 <= k) /\ i + 1 # k + 1 /\ (i + 1) - 1 = i
        BY <1>1, <1>3, <3>2
      <4>2. W[i + 1] = M[i]
        BY <1>3, <1>4, <4>1
      <4>. QED BY <4>1, <4>2
    <3>. QED BY <1>1, <3>1, <3>2
  <2>4. k + 1 \in 1..Len(W) /\ W[k + 1] = n
    BY <1>1, <1>3, <1>4
  <2>5. \A i \in 1..Len(W) : W[i] = n \/ \E j \in 1..Len(M) : W[i] = M[j]
    BY <1>6
  <2>6. ASSUME NEW x \in ListNodes, val'[x] # None PROVE \E i \in 1..Len(W) : x = W[i]
    <3>1. CASE x = n
      BY <2>4, <3>1
    <3>2. CASE x # n
      <4>1. PICK i \in 1..Len(M) : x = M[i]
        BY <2>1, <2>2, <2>6, <3>2
      <4>. QED BY <2>3, <4>1
    <3>. QED BY <3>1, <3>2
  <2>7. ASSUME NEW i \in 1..Len(W) PROVE val'[W[i]] # None
    <3>1. W[i] \in ListNodes
      BY <1>3
    <3>. QED BY <2>1, <2>2, <2>5, <3>1
  <2>. QED BY <2>6, <2>7
<1>9. head' = (IF Len(W) = 0 THEN None ELSE W[1]) /\ tail' = (IF Len(W) = 0 THEN None ELSE W[Len(W)])
  <2>1. head' = W[1]
    <3>1. CASE k = 0
      BY <1>1, <1>4, <3>1
    <3>2. CASE k # 0
      BY <1>1, <1>4, <3>2 DEF Listed
    <3>. QED BY <3>1, <3>2
  <2>2. tail' = W[Len(W)]
    <3>1. CASE k = Len(M)
      BY <1>1, <1>3, <1>4, <3>1
    <3>2. CASE k # Len(M)
      <4>1. Len(M) + 1 \in 1..(Len(M) + 1) /\ ~ (Len(M) + 1 <= k) /\ Len(M) + 1 # k + 1 /\ (Len(M) + 1) - 1 = Len(M)
        BY <1>1, <3>2
      <4>2. W[Len(W)] = M[Len(M)]
        BY <1>3, <1>4, <4>1
      <4>. QED BY <1>1, <3>2, <4>2 DEF Listed
    <3>. QED BY <3>1, <3>2
  <2>. QED BY <1>1, <1>3, <2>1, <2>2
<1>10. \A i \in 1..Len(M) : /\ next[M[i]] = (IF i = Len(M) THEN None ELSE M[i + 1])
                            /\ prev[M[i]] = (IF i = 1 THEN None ELSE M[i - 1])
  BY DEF Listed
<1>11. ASSUME NEW i \in 1..Len(W) PROVE next'[W[i]] = (IF i = Len(W) THEN None ELSE W[i + 1])
  <2>0. i # Len(W) => i + 1 \in 1..(Len(M) + 1) /\ (i + 1) - 1 = i
    BY <1>1, <1>3
  <2>1. CASE i <= k /\ i # k
    <3>1. i \in 1..Len(M) /\ W[i] = M[i] /\ k \in 1..Len(M) /\ i # Len(M) /\ i # Len(W) /\ i + 1 <= k
      BY <1>1, <1>3, <1>6, <2>1
    <3>2. next'[M[i]] = next[M[i]]
      BY <1>1, <3>1, <2>1
    <3>3. W[i + 1] = M[i + 1]
      BY <1>4, <2>0, <3>1
    <3>. QED BY <1>10, <3>1, <3>2, <3>3
  <2>2. CASE i = k
    <3>1. W[i] = M[k] /\ k \in 1..Len(M) /\ i # Len(W) /\ W[i + 1] = n
      BY <1>1, <1>3, <1>4, <2>0, <2>2
    <3>2. next'[M[k]] = n
      BY <1>1, <3>1
    <3>. QED BY <3>1, <3>2
  <2>3. CASE i = k + 1
    <3>1. W[i] = n
      BY <1>1, <1>6, <2>3
    <3>2. i = Len(W) <=> k = Len(M)
      BY <1>1, <1>3, <2>3
    <3>3. k # Len(M) => W[i + 1] = M[k + 1]
      BY <1>1, <1>4, <2>0, <2>3, <3>2
    <3>. QED BY <3>1, <3>2, <3>3
  <2>4. CASE i > k + 1
    <3>. PICK j : j = i - 1
      OBVIOUS
    <3>1. j \in 1..Len(M) /\ W[i] = M[j] /\ j # k /\ j + 1 = i /\ (i = Len(W) <=> j = Len(M)) /\ j \in Nat
      BY <1>1, <1>3, <1>6, <2>4
    <3>2. next'[M[j]] = next[M[j]]
      BY <1>1, <3>1
    <3>3. i # Len(W) => W[i + 1] = M[j + 1]
      <4>1. ~ (i + 1 <= k) /\ i + 1 # k + 1
        BY <1>1, <2>4
      <4>2. i # Len(W) => W[i + 1] = M[i]
        BY <1>4, <2>0, <4>1
      <4>. QED BY <3>1, <4>2
    <3>. QED BY <1>10, <3>1, <3>2, <3>3
  <2>. QED BY <1>1, <2>1, <2>2, <2>3, <2>4
<1>12. ASSUME NEW i \in 1..Len(W) PROVE prev'[W[i]] = (IF i = 1 THEN None ELSE W[i - 1])
  <2>0. i # 1 => i - 1 \in 1..(Len(M) + 1)
    BY <1>1, <1>3
  <2>1. CASE i <= k
    <3>1. i \in 1..Len(M) /\ W[i] = M[i] /\ (k # Len(M) => k + 1 \in 1..Len(M) /\ i # k + 1)
      BY <1>1, <1>6, <2>1
    <3>2. prev'[M[i]] = prev[M[i]]
      BY <1>1, <3>1
    <3>3. i # 1 => W[i - 1] = M[i - 1]
      BY <1>1, <1>4, <2>0, <2>1
    <3>. QED BY <1>10, <3>1, <3>2, <3>3
  <2>2. CASE i = k + 1
    <3>1. W[i] = n /\ (i = 1 <=> k = 0)
      BY <1>1, <1>6, <2>2
    <3>2. k # 0 => W[i - 1] = M[k]
      BY <1>1, <1>4, <2>0, <2>2
    <3>. QED BY <3>1, <3>2
  <2>3. CASE i = k + 2
    <3>1. k # Len(M) /\ k + 1 \in 1..Len(M) /\ W[i] = M[k + 1] /\ i # 1
      BY <1>1, <1>3, <1>4, <2>3
    <3>2. i - 1 = k + 1 /\ W[i - 1] = n
      BY <1>1, <1>4, <2>0, <2>3, <3>1
    <3>3. prev'[M[k + 1]] = n
      BY <1>1, <3>1
    <3>. QED BY <3>1, <3>2, <3>3
  <2>4. CASE i > k + 2
    <3>. PICK j : j = i - 1
      OBVIOUS
    <3>1. j \in 1..Len(M) /\ W[i] = M[j] /\ j # k + 1 /\ i # 1 /\ j # 1 /\ j - 1 = i - 2 /\ k # Len(M) /\ k + 1 \in 1..Len(M)
      BY <1>1, <1>3, <1>6, <2>4
    <3>2. prev'[M[j]] = prev[M[j]]
      BY <1>1, <3>1
    <3>3. W[i - 1] = M[j - 1]
      BY <1>1, <1>4, <2>0, <2>4, <3>1
    <3>. QED BY <1>10, <3>1, <3>2, <3>3
  <2>. QED BY <1>1, <2>1, <2>2, <2>3, <2>4
<1>13. \A x \in ListNodes : val'[x] = None => next'[x] = None /\ prev'[x] = None
  <2>. SUFFICES ASSUME NEW x \in ListNodes, val'[x] = None PROVE next'[x] = None /\ prev'[x] = None
    OBVIOUS
  <2>1. x # n /\ val[x] = None
    BY NoneIsNoNode DEF DoublyTypes
  <2>2. \A i \in 1..Len(M) : x # M[i]
    BY <2>1 DEF Listed
  <2>3. (k # 0 => k \in 1..Len(M)) /\ (k # Len(M) => k + 1 \in 1..Len(M))
    BY <1>1
  <2>. QED BY <2>1, <2>2, <2>3 DEF Listed
<1>14. Listed(W)'
  BY <1>1, <1>3, <1>7, <1>8, <1>9, <1>11, <1>12, <1>13 DEF Listed
<1>15. ValuesOf(W)' = With(ValuesOf(M), k, v)
  <2>1. \A i \in 1..(Len(M) + 1) : val'[W[i]] = IF i <= k THEN val[M[i]] ELSE IF i = k + 1 THEN v ELSE val[M[i - 1]]
    BY <1>1, <1>3, <1>6 DEF DoublyTypes
  <2>2. Len(ValuesOf(M)) = Len(M)
    BY <1>1 DEF ValuesOf
  <2>3. \A i \in 1..(Len(M) + 1) : i <= k => ValuesOf(M)[i] = val[M[i]]
    BY <1>1 DEF ValuesOf
  <2>4. \A i \in 1..(Len(M) + 1) : ~ (i <= k) /\ i # k + 1 => ValuesOf(M)[i - 1] = val[M[i - 1]]
    BY <1>1 DEF ValuesOf
  <2>5. With(ValuesOf(M), k, v) = [i \in 1..(Len(M) + 1) |-> val'[W[i]]]
    BY <2>1, <2>2, <2>3, <2>4 DEF With
  <2>. QED BY <1>3, <2>5 DEF ValuesOf
<1>. QED BY <1>2, <1>5, <1>14, <1>15

(* The k-th node of M, which is n, is taken out. *)
Unlinked(M, k, n) ==
  /\ n = M[k]
  /\ val' = [val EXCEPT ![n] = None] /\ sz' = sz - 1
  /\ head' = (IF k # 1 THEN head ELSE IF Len(M) = 1 THEN None ELSE M[2])
  /\ tail' = (IF k # Len(M) THEN tail ELSE IF Len(M) = 1 THEN None ELSE M[Len(M) - 1])
  /\ next' \in [ListNodes -> ListNodes \cup {None}] /\ prev' \in [ListNodes -> ListNodes \cup {None}]
  /\ \A x \in ListNodes : next'[x] = (IF x = n THEN None
                                      ELSE IF k # 1 /\ x = M[k - 1] THEN IF k = Len(M) THEN None ELSE M[k + 1]
                                      ELSE next[x])
  /\ \A x \in ListNodes : prev'[x] = (IF x = n THEN None
                                      ELSE IF k # Len(M) /\ x = M[k + 1] THEN IF k = 1 THEN None ELSE M[k - 1]
                                      ELSE prev[x])

LEMMA ListedWithout ==
  ASSUME DoublyTypes, NEW M, Listed(M), NEW k \in 1..Len(M), NEW n, Unlinked(M, k, n)
  PROVE  DoublyTypes' /\ Listed(Without(M, k))' /\ ValuesOf(Without(M, k))' = Without(ValuesOf(M), k)
<1>.  /\ n = M[k]
      /\ val' = [val EXCEPT ![n] = None] /\ sz' = sz - 1
      /\ head' = (IF k # 1 THEN head ELSE IF Len(M) = 1 THEN None ELSE M[2])
      /\ tail' = (IF k # Len(M) THEN tail ELSE IF Len(M) = 1 THEN None ELSE M[Len(M) - 1])
      /\ next' \in [ListNodes -> ListNodes \cup {None}] /\ prev' \in [ListNodes -> ListNodes \cup {None}]
      /\ \A x \in ListNodes : next'[x] = (IF x = n THEN None
                                          ELSE IF k # 1 /\ x = M[k - 1] THEN IF k = Len(M) THEN None ELSE M[k + 1]
                                          ELSE next[x])
      /\ \A x \in ListNodes : prev'[x] = (IF x = n THEN None
                                          ELSE IF k # Len(M) /\ x = M[k + 1] THEN IF k = 1 THEN None ELSE M[k - 1]
                                          ELSE prev[x])
  BY DEF Unlinked
<1>1. /\ M \in Seq(ListNodes) /\ Len(M) \in Nat /\ k \in Nat /\ k <= Len(M) /\ 1 <= k /\ sz = Len(M) /\ n \in ListNodes
      /\ \A i, j \in 1..Len(M) : M[i] = M[j] => i = j
      /\ \A i \in 1..Len(M) : M[i] \in ListNodes /\ (i # k => M[i] # n)
  BY DEF Listed
<1>2. PICK W : W = Without(M, k)
  OBVIOUS
<1>3. W \in Seq(ListNodes) /\ Len(W) = Len(M) - 1
  BY <1>1, <1>2, WithoutIs
<1>4. \A i \in 1..(Len(M) - 1) : W[i] = IF i < k THEN M[i] ELSE M[i + 1]
  BY <1>2 DEF Without
<1>5. DoublyTypes'
  BY DEF DoublyTypes
<1>6. ASSUME NEW i \in 1..Len(W)
      PROVE  \/ i < k /\ i \in 1..Len(M) /\ i # Len(M) /\ W[i] = M[i]
             \/ i >= k /\ i + 1 \in 1..Len(M) /\ i + 1 # 1 /\ W[i] = M[i + 1]
  BY <1>1, <1>3, <1>4
<1>7. \A i, j \in 1..Len(W) : W[i] = W[j] => i = j
  <2>. SUFFICES ASSUME NEW i \in 1..Len(W), NEW j \in 1..Len(W), W[i] = W[j] PROVE i = j
    OBVIOUS
  <2>1. i \in Int /\ j \in Int /\ k \in Int
    BY <1>1
  <2>. QED BY <1>1, <1>6, <2>1
<1>8. \A x \in ListNodes : val'[x] # None <=> \E i \in 1..Len(W) : x = W[i]
  <2>1. \A x \in ListNodes : val'[x] # None <=> x # n /\ val[x] # None
    BY NoneIsNoNode DEF DoublyTypes
  <2>2. \A x \in ListNodes : val[x] # None <=> \E i \in 1..Len(M) : x = M[i]
    BY DEF Listed
  <2>3. \A i \in 1..Len(M) : i # k => \E j \in 1..Len(W) : W[j] = M[i]
    <3>. SUFFICES ASSUME NEW i \in 1..Len(M), i # k PROVE \E j \in 1..Len(W) : W[j] = M[i]
      OBVIOUS
    <3>1. CASE i < k
      BY <1>1, <1>3, <1>4, <3>1
    <3>2. CASE i > k
      <4>1. i - 1 \in 1..Len(W) /\ ~ (i - 1 < k) /\ (i - 1) + 1 = i
        BY <1>1, <1>3, <3>2
      <4>2. W[i - 1] = M[i]
        BY <1>3, <1>4, <4>1
      <4>. QED BY <4>1, <4>2
    <3>. QED BY <1>1, <3>1, <3>2
  <2>4. ASSUME NEW x \in ListNodes, val'[x] # None PROVE \E i \in 1..Len(W) : x = W[i]
    <3>1. PICK i \in 1..Len(M) : x = M[i] /\ x # n
      BY <2>1, <2>2, <2>4
    <3>. QED BY <2>3, <3>1
  <2>5. ASSUME NEW i \in 1..Len(W) PROVE val'[W[i]] # None
    <3>1. PICK j \in 1..Len(M) : W[i] = M[j] /\ j # k
      BY <1>1, <1>6
    <3>. QED BY <1>1, <2>1, <2>2, <3>1
  <2>. QED BY <2>4, <2>5
<1>9. head' = (IF Len(W) = 0 THEN None ELSE W[1]) /\ tail' = (IF Len(W) = 0 THEN None ELSE W[Len(W)])
  <2>1. Len(W) # 0 => head' = W[1]
    <3>1. CASE k = 1
      BY <1>1, <1>3, <1>4, <3>1
    <3>2. CASE k # 1
      BY <1>1, <1>3, <1>4, <3>2 DEF Listed
    <3>. QED BY <3>1, <3>2
  <2>2. Len(W) # 0 => tail' = W[Len(W)]
    <3>1. CASE k = Len(M)
      BY <1>1, <1>3, <1>4, <3>1
    <3>2. CASE k # Len(M)
      <4>1. Len(W) # 0 => Len(M) - 1 \in 1..(Len(M) - 1) /\ ~ (Len(M) - 1 < k) /\ (Len(M) - 1) + 1 = Len(M)
        BY <1>1, <1>3, <3>2
      <4>2. Len(W) # 0 => W[Len(W)] = M[Len(M)]
        BY <1>3, <1>4, <4>1
      <4>. QED BY <1>1, <1>3, <3>2, <4>2 DEF Listed
    <3>. QED BY <3>1, <3>2
  <2>3. Len(W) = 0 => Len(M) = 1 /\ k = 1
    <3>1. Len(W) = 0 => Len(M) - 1 = 0
      BY <1>3
    <3>2. \A m, j \in Nat : m - 1 = 0 /\ j <= m /\ 1 <= j => m = 1 /\ j = 1
      OBVIOUS
    <3>. QED BY <1>1, <3>1, <3>2
  <2>. QED BY <1>1, <1>3, <2>1, <2>2, <2>3
<1>10. \A i \in 1..Len(M) : /\ next[M[i]] = (IF i = Len(M) THEN None ELSE M[i + 1])
                            /\ prev[M[i]] = (IF i = 1 THEN None ELSE M[i - 1])
  BY DEF Listed
<1>11. ASSUME NEW i \in 1..Len(W) PROVE next'[W[i]] = (IF i = Len(W) THEN None ELSE W[i + 1])
  <2>0. i # Len(W) => i + 1 \in 1..(Len(M) - 1)
    BY <1>1, <1>3
  <2>1. CASE i < k /\ i # k - 1
    <3>1. i \in 1..Len(M) /\ W[i] = M[i] /\ i # k /\ k - 1 \in 1..Len(M) /\ i # Len(M) /\ i # Len(W) /\ i + 1 < k
      BY <1>1, <1>3, <1>6, <2>1
    <3>2. next'[M[i]] = next[M[i]]
      BY <1>1, <3>1
    <3>3. W[i + 1] = M[i + 1]
      BY <1>4, <2>0, <3>1
    <3>. QED BY <1>10, <3>1, <3>2, <3>3
  <2>2. CASE i = k - 1
    <3>1. W[i] = M[k - 1] /\ k - 1 \in 1..Len(M) /\ k # 1 /\ (i = Len(W) <=> k = Len(M)) /\ k - 1 # k
      BY <1>1, <1>3, <1>6, <2>2
    <3>2. next'[M[k - 1]] = IF k = Len(M) THEN None ELSE M[k + 1]
      BY <1>1, <3>1
    <3>3. i # Len(W) => W[i + 1] = M[k + 1]
      BY <1>1, <1>4, <2>0, <2>2
    <3>. QED BY <3>1, <3>2, <3>3
  <2>3. CASE i >= k
    <3>. PICK j : j = i + 1
      OBVIOUS
    <3>1. j \in 1..Len(M) /\ W[i] = M[j] /\ j # k /\ (k # 1 => k - 1 \in 1..Len(M) /\ j # k - 1) /\ (i = Len(W) <=> j = Len(M))
      BY <1>1, <1>3, <1>6, <2>3
    <3>2. next'[M[j]] = next[M[j]]
      BY <1>1, <3>1
    <3>3. i # Len(W) => W[i + 1] = M[j + 1]
      BY <1>1, <1>4, <2>0, <2>3
    <3>. QED BY <1>10, <3>1, <3>2, <3>3
  <2>. QED BY <1>1, <2>1, <2>2, <2>3
<1>12. ASSUME NEW i \in 1..Len(W) PROVE prev'[W[i]] = (IF i = 1 THEN None ELSE W[i - 1])
  <2>0. i # 1 => i - 1 \in 1..(Len(M) - 1)
    BY <1>1, <1>3
  <2>1. CASE i < k
    <3>1. i \in 1..Len(M) /\ W[i] = M[i] /\ i # k /\ (k # Len(M) => k + 1 \in 1..Len(M) /\ i # k + 1)
      BY <1>1, <1>6, <2>1
    <3>2. prev'[M[i]] = prev[M[i]]
      BY <1>1, <3>1
    <3>3. i # 1 => W[i - 1] = M[i - 1]
      BY <1>1, <1>4, <2>0, <2>1
    <3>. QED BY <1>10, <3>1, <3>2, <3>3
  <2>2. CASE i = k
    <3>1. W[i] = M[k + 1] /\ k # Len(M) /\ k + 1 \in 1..Len(M) /\ k + 1 # k
      BY <1>1, <1>3, <1>6, <2>2
    <3>2. prev'[M[k + 1]] = IF k = 1 THEN None ELSE M[k - 1]
      BY <1>1, <3>1
    <3>3. i # 1 => W[i - 1] = M[k - 1]
      BY <1>1, <1>4, <2>0, <2>2
    <3>. QED BY <2>2, <3>1, <3>2, <3>3
  <2>3. CASE i > k
    <3>. PICK j : j = i + 1
      OBVIOUS
    <3>1. j \in 1..Len(M) /\ W[i] = M[j] /\ j # k /\ k # Len(M) /\ k + 1 \in 1..Len(M) /\ j # k + 1 /\ i # 1 /\ j # 1 /\ j - 1 = i
      BY <1>1, <1>3, <1>6, <2>3
    <3>2. prev'[M[j]] = prev[M[j]]
      BY <1>1, <3>1
    <3>3. W[i - 1] = M[i]
      <4>1. ~ (i - 1 < k) /\ (i - 1) + 1 = i
        BY <1>1, <2>3
      <4>. QED BY <1>4, <2>0, <3>1, <4>1
    <3>. QED BY <1>10, <3>1, <3>2, <3>3
  <2>. QED BY <1>1, <2>1, <2>2, <2>3
<1>13. \A x \in ListNodes : val'[x] = None => next'[x] = None /\ prev'[x] = None
  <2>. SUFFICES ASSUME NEW x \in ListNodes, val'[x] = None PROVE next'[x] = None /\ prev'[x] = None
    OBVIOUS
  <2>1. x = n \/ val[x] = None
    BY NoneIsNoNode DEF DoublyTypes
  <2>2. x # n => \A i \in 1..Len(M) : x # M[i]
    BY <2>1 DEF Listed
  <2>3. (k # 1 => k - 1 \in 1..Len(M)) /\ (k # Len(M) => k + 1 \in 1..Len(M))
    BY <1>1
  <2>. QED BY <2>1, <2>2, <2>3 DEF Listed
<1>14. Listed(W)'
  BY <1>1, <1>3, <1>7, <1>8, <1>9, <1>11, <1>12, <1>13 DEF Listed
<1>15. ValuesOf(W)' = Without(ValuesOf(M), k)
  <2>1. \A i \in 1..(Len(M) - 1) : val'[W[i]] = IF i < k THEN val[M[i]] ELSE val[M[i + 1]]
    BY <1>1, <1>3, <1>6 DEF DoublyTypes
  <2>2. Len(ValuesOf(M)) = Len(M)
    BY <1>1 DEF ValuesOf
  <2>3. \A i \in 1..(Len(M) - 1) : i < k => ValuesOf(M)[i] = val[M[i]]
    BY <1>1 DEF ValuesOf
  <2>4. \A i \in 1..(Len(M) - 1) : ~ (i < k) => ValuesOf(M)[i + 1] = val[M[i + 1]]
    BY <1>1 DEF ValuesOf
  <2>5. Without(ValuesOf(M), k) = [i \in 1..(Len(M) - 1) |-> val'[W[i]]]
    BY <2>1, <2>2, <2>3, <2>4 DEF Without
  <2>. QED BY <1>3, <2>5 DEF ValuesOf
<1>. QED BY <1>2, <1>5, <1>14, <1>15

-----------------------------------------------------------------------------
(* An insertion of v somewhere in M, and the removal of one node of M. *)

Inserted(M, v) ==
  /\ DoublyTypes'
  /\ \E W \in Seq(ListNodes), k \in 0..Len(M) : Listed(W)' /\ ValuesOf(W)' = With(ValuesOf(M), k, v)

Removed(M) ==
  /\ DoublyTypes'
  /\ \E W \in Seq(ListNodes), k \in 1..Len(M) : Listed(W)' /\ ValuesOf(W)' = Without(ValuesOf(M), k)

LEMMA NewNode ==
  ASSUME doubly!CanGrow, NEW v
  PROVE  doubly!New(v) \in ListNodes /\ val[doubly!New(v)] = None
<1>1. \E n \in ListNodes \ doubly!Allocated : TRUE
  BY DEF doubly!CanGrow, doubly!Allocated
<1>2. doubly!New(v) \in ListNodes \ doubly!Allocated
  BY <1>1 DEF doubly!New
<1>. QED BY <1>2 DEF doubly!Allocated

LEMMA PushFront ==
  ASSUME DoublyTypes, NEW M, Listed(M), NEW v \in Items, doubly!CanGrow, doubly!push_front(v)
  PROVE  Inserted(M, v)
<1>1. PICK n : n = doubly!New(v)
  OBVIOUS
<1>2. n \in ListNodes /\ val[n] = None
  BY <1>1, NewNode
<1>3. M \in Seq(ListNodes) /\ Len(M) \in Nat /\ 0 \in 0..Len(M) /\ sz = Len(M)
  BY DEF Listed
<1>9. PICK k \in 0..Len(M) : k = 0
  BY <1>3
<1>4. \A i \in 1..Len(M) : M[i] \in ListNodes /\ M[i] # n
  BY <1>2, <1>3 DEF Listed
<1>5. val' = [val EXCEPT ![n] = v] /\ sz' = sz + 1 /\ head' = n
  BY <1>1 DEF doubly!push_front
<1>6. CASE Len(M) = 0
  <2>1. tail' = n /\ next' = next /\ prev' = prev
    BY <1>1, <1>3, <1>6 DEF doubly!push_front, doubly!empty
  <2>2. next[n] = None /\ prev[n] = None
    BY <1>2 DEF Listed
  <2>3. next' \in [ListNodes -> ListNodes \cup {None}] /\ prev' \in [ListNodes -> ListNodes \cup {None}]
    BY <2>1 DEF DoublyTypes
  <2>4. /\ head' = (IF k = 0 THEN n ELSE head) /\ tail' = (IF k = Len(M) THEN n ELSE tail)
        /\ \A x \in ListNodes : next'[x] = (IF x = n THEN IF k = Len(M) THEN None ELSE M[k + 1]
                                             ELSE IF k # 0 /\ x = M[k] THEN n ELSE next[x])
        /\ \A x \in ListNodes : prev'[x] = (IF x = n THEN IF k = 0 THEN None ELSE M[k]
                                             ELSE IF k # Len(M) /\ x = M[k + 1] THEN n ELSE prev[x])
    BY <1>3, <1>5, <1>6, <1>9, <2>1, <2>2
  <2>5. DoublyTypes' /\ Listed(With(M, k, n))' /\ ValuesOf(With(M, k, n))' = With(ValuesOf(M), k, v)
    BY <1>2, <1>3, <1>5, <2>3, <2>4, ListedWith
  <2>. QED BY <1>2, <1>3, <2>5, WithIs DEF Inserted
<1>7. CASE Len(M) # 0
  <2>1. /\ next' = [next EXCEPT ![n] = head] /\ prev' = [prev EXCEPT ![head] = n] /\ tail' = tail
        /\ head = M[1] /\ 1 \in 1..Len(M)
    BY <1>1, <1>3, <1>7 DEF doubly!push_front, doubly!empty, Listed
  <2>2. prev[n] = None
    BY <1>2 DEF Listed
  <2>3. next' \in [ListNodes -> ListNodes \cup {None}] /\ prev' \in [ListNodes -> ListNodes \cup {None}]
    BY <1>2, <1>4, <2>1 DEF DoublyTypes
  <2>4. \A x \in ListNodes : next'[x] = (IF x = n THEN M[1] ELSE next[x])
    BY <2>1 DEF DoublyTypes
  <2>5. \A x \in ListNodes : prev'[x] = (IF x = n THEN None ELSE IF x = M[1] THEN n ELSE prev[x])
    BY <1>4, <2>1, <2>2 DEF DoublyTypes
  <2>6. /\ head' = (IF k = 0 THEN n ELSE head) /\ tail' = (IF k = Len(M) THEN n ELSE tail)
        /\ \A x \in ListNodes : next'[x] = (IF x = n THEN IF k = Len(M) THEN None ELSE M[k + 1]
                                             ELSE IF k # 0 /\ x = M[k] THEN n ELSE next[x])
        /\ \A x \in ListNodes : prev'[x] = (IF x = n THEN IF k = 0 THEN None ELSE M[k]
                                             ELSE IF k # Len(M) /\ x = M[k + 1] THEN n ELSE prev[x])
    BY <1>3, <1>5, <1>7, <1>9, <2>1, <2>4, <2>5
  <2>7. DoublyTypes' /\ Listed(With(M, k, n))' /\ ValuesOf(With(M, k, n))' = With(ValuesOf(M), k, v)
    BY <1>2, <1>3, <1>5, <2>3, <2>6, ListedWith
  <2>. QED BY <1>2, <1>3, <2>7, WithIs DEF Inserted
<1>. QED BY <1>6, <1>7

LEMMA PushBack ==
  ASSUME DoublyTypes, NEW M, Listed(M), NEW v \in Items, doubly!CanGrow, doubly!push_back(v)
  PROVE  Inserted(M, v)
<1>1. PICK n : n = doubly!New(v)
  OBVIOUS
<1>2. n \in ListNodes /\ val[n] = None
  BY <1>1, NewNode
<1>3. M \in Seq(ListNodes) /\ Len(M) \in Nat /\ Len(M) \in 0..Len(M) /\ sz = Len(M)
  BY DEF Listed
<1>9. PICK k \in 0..Len(M) : k = Len(M)
  BY <1>3
<1>4. \A i \in 1..Len(M) : M[i] \in ListNodes /\ M[i] # n
  BY <1>2, <1>3 DEF Listed
<1>5. val' = [val EXCEPT ![n] = v] /\ sz' = sz + 1 /\ tail' = n
  BY <1>1 DEF doubly!push_back
<1>6. CASE Len(M) = 0
  <2>1. head' = n /\ next' = next /\ prev' = prev
    BY <1>1, <1>3, <1>6 DEF doubly!push_back, doubly!empty
  <2>2. next[n] = None /\ prev[n] = None
    BY <1>2 DEF Listed
  <2>3. next' \in [ListNodes -> ListNodes \cup {None}] /\ prev' \in [ListNodes -> ListNodes \cup {None}]
    BY <2>1 DEF DoublyTypes
  <2>4. /\ head' = (IF k = 0 THEN n ELSE head) /\ tail' = (IF k = Len(M) THEN n ELSE tail)
        /\ \A x \in ListNodes : next'[x] = (IF x = n THEN IF k = Len(M) THEN None ELSE M[k + 1]
                                             ELSE IF k # 0 /\ x = M[k] THEN n ELSE next[x])
        /\ \A x \in ListNodes : prev'[x] = (IF x = n THEN IF k = 0 THEN None ELSE M[k]
                                             ELSE IF k # Len(M) /\ x = M[k + 1] THEN n ELSE prev[x])
    BY <1>3, <1>5, <1>6, <1>9, <2>1, <2>2
  <2>5. DoublyTypes' /\ Listed(With(M, k, n))' /\ ValuesOf(With(M, k, n))' = With(ValuesOf(M), k, v)
    BY <1>2, <1>3, <1>5, <2>3, <2>4, ListedWith
  <2>. QED BY <1>2, <1>3, <2>5, WithIs DEF Inserted
<1>7. CASE Len(M) # 0
  <2>1. /\ next' = [next EXCEPT ![tail] = n] /\ prev' = [prev EXCEPT ![n] = tail] /\ head' = head
        /\ tail = M[Len(M)] /\ Len(M) \in 1..Len(M)
    BY <1>1, <1>3, <1>7 DEF doubly!push_back, doubly!empty, Listed
  <2>2. next[n] = None
    BY <1>2 DEF Listed
  <2>3. next' \in [ListNodes -> ListNodes \cup {None}] /\ prev' \in [ListNodes -> ListNodes \cup {None}]
    BY <1>2, <1>4, <2>1 DEF DoublyTypes
  <2>4. \A x \in ListNodes : next'[x] = (IF x = n THEN None ELSE IF x = M[Len(M)] THEN n ELSE next[x])
    BY <1>4, <2>1, <2>2 DEF DoublyTypes
  <2>5. \A x \in ListNodes : prev'[x] = (IF x = n THEN M[Len(M)] ELSE prev[x])
    BY <2>1 DEF DoublyTypes
  <2>6. /\ head' = (IF k = 0 THEN n ELSE head) /\ tail' = (IF k = Len(M) THEN n ELSE tail)
        /\ \A x \in ListNodes : next'[x] = (IF x = n THEN IF k = Len(M) THEN None ELSE M[k + 1]
                                             ELSE IF k # 0 /\ x = M[k] THEN n ELSE next[x])
        /\ \A x \in ListNodes : prev'[x] = (IF x = n THEN IF k = 0 THEN None ELSE M[k]
                                             ELSE IF k # Len(M) /\ x = M[k + 1] THEN n ELSE prev[x])
    BY <1>3, <1>5, <1>7, <1>9, <2>1, <2>4, <2>5
  <2>7. DoublyTypes' /\ Listed(With(M, k, n))' /\ ValuesOf(With(M, k, n))' = With(ValuesOf(M), k, v)
    BY <1>2, <1>3, <1>5, <2>3, <2>6, ListedWith
  <2>. QED BY <1>2, <1>3, <2>7, WithIs DEF Inserted
<1>. QED BY <1>6, <1>7

LEMMA PutBetween ==
  ASSUME DoublyTypes, NEW M, Listed(M), NEW v \in Items, doubly!CanGrow, NEW k \in 1..(Len(M) - 1),
         doubly!Between(M[k], M[k + 1], v)
  PROVE  Inserted(M, v)
<1>1. PICK n : n = doubly!New(v)
  OBVIOUS
<1>2. n \in ListNodes /\ val[n] = None
  BY <1>1, NewNode
<1>3. M \in Seq(ListNodes) /\ Len(M) \in Nat /\ k \in 1..Len(M) /\ k + 1 \in 1..Len(M) /\ k \in 0..Len(M) /\ k # 0 /\ k # Len(M)
  BY DEF Listed
<1>4. \A i \in 1..Len(M) : M[i] \in ListNodes /\ M[i] # n
  BY <1>2, <1>3 DEF Listed
<1>5. /\ val' = [val EXCEPT ![n] = v] /\ sz' = sz + 1 /\ head' = head /\ tail' = tail
      /\ prev' = [prev EXCEPT ![n] = M[k], ![M[k + 1]] = n]
      /\ next' = [next EXCEPT ![n] = M[k + 1], ![M[k]] = n]
  BY <1>1 DEF doubly!Between
<1>6. next' \in [ListNodes -> ListNodes \cup {None}] /\ prev' \in [ListNodes -> ListNodes \cup {None}]
  BY <1>2, <1>3, <1>4, <1>5 DEF DoublyTypes
<1>7. \A x \in ListNodes : next'[x] = (IF x = n THEN M[k + 1] ELSE IF x = M[k] THEN n ELSE next[x])
  BY <1>2, <1>3, <1>4, <1>5 DEF DoublyTypes
<1>8. \A x \in ListNodes : prev'[x] = (IF x = n THEN M[k] ELSE IF x = M[k + 1] THEN n ELSE prev[x])
  BY <1>2, <1>3, <1>4, <1>5 DEF DoublyTypes
<1>9. DoublyTypes' /\ Listed(With(M, k, n))' /\ ValuesOf(With(M, k, n))' = With(ValuesOf(M), k, v)
  BY <1>2, <1>3, <1>5, <1>6, <1>7, <1>8, ListedWith
<1>. QED BY <1>2, <1>3, <1>9, WithIs DEF Inserted

LEMMA PopFront ==
  ASSUME DoublyTypes, NEW M, Listed(M), doubly!pop_front
  PROVE  Removed(M)
<1>1. M \in Seq(ListNodes) /\ Len(M) \in Nat /\ sz = Len(M) /\ Len(M) # 0 /\ 1 \in 1..Len(M) /\ Len(M) \in 1..Len(M)
  BY DEF Listed, doubly!pop_front, doubly!empty
<1>2. PICK k \in 1..Len(M) : k = 1
  BY <1>1
<1>3. PICK n : n = head
  OBVIOUS
<1>4. /\ n = M[k] /\ n \in ListNodes /\ head = M[1] /\ tail = M[Len(M)]
      /\ head = tail <=> Len(M) = 1
  BY <1>1, <1>2, <1>3 DEF Listed
<1>5. /\ val' = [val EXCEPT ![n] = None] /\ sz' = sz - 1 /\ next' = [next EXCEPT ![n] = None]
  BY <1>3 DEF doubly!pop_front, doubly!Deleted
<1>6. next[n] = (IF Len(M) = 1 THEN None ELSE M[2]) /\ prev[n] = None
  BY <1>1, <1>2, <1>4 DEF Listed
<1>7. \A x \in ListNodes : next'[x] = (IF x = n THEN None ELSE next[x])
  BY <1>5 DEF DoublyTypes
<1>8. next' \in [ListNodes -> ListNodes \cup {None}]
  BY <1>5 DEF DoublyTypes
<1>9. CASE Len(M) = 1
  <2>1. head' = None /\ tail' = None /\ prev' = prev
    BY <1>4, <1>9 DEF doubly!pop_front
  <2>2. /\ head' = (IF k # 1 THEN head ELSE IF Len(M) = 1 THEN None ELSE M[2])
        /\ tail' = (IF k # Len(M) THEN tail ELSE IF Len(M) = 1 THEN None ELSE M[Len(M) - 1])
        /\ prev' \in [ListNodes -> ListNodes \cup {None}]
    BY <1>2, <1>9, <2>1 DEF DoublyTypes
  <2>3. \A x \in ListNodes : next'[x] = (IF x = n THEN None
                                         ELSE IF k # 1 /\ x = M[k - 1] THEN IF k = Len(M) THEN None ELSE M[k + 1]
                                         ELSE next[x])
    BY <1>2, <1>7
  <2>4. \A x \in ListNodes : prev'[x] = (IF x = n THEN None
                                         ELSE IF k # Len(M) /\ x = M[k + 1] THEN IF k = 1 THEN None ELSE M[k - 1]
                                         ELSE prev[x])
    BY <1>2, <1>6, <1>9, <2>1
  <2>20. Unlinked(M, k, n)
    BY <1>4, <1>5, <1>8, <2>2, <2>3, <2>4 DEF Unlinked
  <2>5. DoublyTypes' /\ Listed(Without(M, k))' /\ ValuesOf(Without(M, k))' = Without(ValuesOf(M), k)
    BY <2>20, ListedWithout
  <2>. QED BY <1>1, <2>5, WithoutIs DEF Removed
<1>10. CASE Len(M) # 1
  <2>0. 2 \in 1..Len(M) /\ M[2] \in ListNodes /\ M[2] # n
    BY <1>1, <1>2, <1>4, <1>10 DEF Listed
  <2>1. head' = M[2] /\ tail' = tail /\ prev' = [prev EXCEPT ![M[2]] = None]
    BY <1>3, <1>4, <1>6, <1>10 DEF doubly!pop_front
  <2>2. /\ head' = (IF k # 1 THEN head ELSE IF Len(M) = 1 THEN None ELSE M[2])
        /\ tail' = (IF k # Len(M) THEN tail ELSE IF Len(M) = 1 THEN None ELSE M[Len(M) - 1])
        /\ prev' \in [ListNodes -> ListNodes \cup {None}]
    BY <1>2, <1>10, <2>1 DEF DoublyTypes
  <2>3. \A x \in ListNodes : next'[x] = (IF x = n THEN None
                                         ELSE IF k # 1 /\ x = M[k - 1] THEN IF k = Len(M) THEN None ELSE M[k + 1]
                                         ELSE next[x])
    BY <1>2, <1>7
  <2>4. \A x \in ListNodes : prev'[x] = (IF x = M[2] THEN None ELSE prev[x])
    BY <2>1 DEF DoublyTypes
  <2>5. \A x \in ListNodes : prev'[x] = (IF x = n THEN None
                                         ELSE IF k # Len(M) /\ x = M[k + 1] THEN IF k = 1 THEN None ELSE M[k - 1]
                                         ELSE prev[x])
    BY <1>1, <1>2, <1>6, <1>10, <2>0, <2>4
  <2>20. Unlinked(M, k, n)
    BY <1>4, <1>5, <1>8, <2>2, <2>3, <2>5 DEF Unlinked
  <2>6. DoublyTypes' /\ Listed(Without(M, k))' /\ ValuesOf(Without(M, k))' = Without(ValuesOf(M), k)
    BY <2>20, ListedWithout
  <2>. QED BY <1>1, <2>6, WithoutIs DEF Removed
<1>. QED BY <1>9, <1>10

LEMMA PopBack ==
  ASSUME DoublyTypes, NEW M, Listed(M), doubly!pop_back
  PROVE  Removed(M)
<1>1. M \in Seq(ListNodes) /\ Len(M) \in Nat /\ sz = Len(M) /\ Len(M) # 0 /\ 1 \in 1..Len(M) /\ Len(M) \in 1..Len(M)
  BY DEF Listed, doubly!pop_back, doubly!empty
<1>2. PICK k \in 1..Len(M) : k = Len(M)
  BY <1>1
<1>3. PICK n : n = tail
  OBVIOUS
<1>4. /\ n = M[k] /\ n \in ListNodes /\ head = M[1] /\ tail = M[Len(M)]
      /\ head = tail <=> Len(M) = 1
  BY <1>1, <1>2, <1>3 DEF Listed
<1>5. /\ val' = [val EXCEPT ![n] = None] /\ sz' = sz - 1 /\ prev' = [prev EXCEPT ![n] = None]
  BY <1>3 DEF doubly!pop_back, doubly!Deleted
<1>6. prev[n] = (IF Len(M) = 1 THEN None ELSE M[Len(M) - 1]) /\ next[n] = None
  BY <1>1, <1>2, <1>4 DEF Listed
<1>7. \A x \in ListNodes : prev'[x] = (IF x = n THEN None ELSE prev[x])
  BY <1>5 DEF DoublyTypes
<1>8. prev' \in [ListNodes -> ListNodes \cup {None}]
  BY <1>5 DEF DoublyTypes
<1>9. CASE Len(M) = 1
  <2>1. head' = None /\ tail' = None /\ next' = next
    BY <1>4, <1>9 DEF doubly!pop_back
  <2>2. /\ head' = (IF k # 1 THEN head ELSE IF Len(M) = 1 THEN None ELSE M[2])
        /\ tail' = (IF k # Len(M) THEN tail ELSE IF Len(M) = 1 THEN None ELSE M[Len(M) - 1])
        /\ next' \in [ListNodes -> ListNodes \cup {None}]
    BY <1>2, <1>9, <2>1 DEF DoublyTypes
  <2>3. \A x \in ListNodes : next'[x] = (IF x = n THEN None
                                         ELSE IF k # 1 /\ x = M[k - 1] THEN IF k = Len(M) THEN None ELSE M[k + 1]
                                         ELSE next[x])
    BY <1>2, <1>6, <1>9, <2>1
  <2>4. \A x \in ListNodes : prev'[x] = (IF x = n THEN None
                                         ELSE IF k # Len(M) /\ x = M[k + 1] THEN IF k = 1 THEN None ELSE M[k - 1]
                                         ELSE prev[x])
    BY <1>2, <1>7
  <2>20. Unlinked(M, k, n)
    BY <1>4, <1>5, <1>8, <2>2, <2>3, <2>4 DEF Unlinked
  <2>5. DoublyTypes' /\ Listed(Without(M, k))' /\ ValuesOf(Without(M, k))' = Without(ValuesOf(M), k)
    BY <2>20, ListedWithout
  <2>. QED BY <1>1, <2>5, WithoutIs DEF Removed
<1>10. CASE Len(M) # 1
  <2>0. k - 1 \in 1..Len(M) /\ M[k - 1] \in ListNodes /\ M[k - 1] # n /\ k - 1 = Len(M) - 1 /\ k # 1
    BY <1>1, <1>2, <1>4, <1>10 DEF Listed
  <2>1. tail' = M[k - 1] /\ head' = head /\ next' = [next EXCEPT ![M[k - 1]] = None]
    BY <1>3, <1>4, <1>6, <1>10, <2>0 DEF doubly!pop_back
  <2>2. /\ head' = (IF k # 1 THEN head ELSE IF Len(M) = 1 THEN None ELSE M[2])
        /\ tail' = (IF k # Len(M) THEN tail ELSE IF Len(M) = 1 THEN None ELSE M[Len(M) - 1])
        /\ next' \in [ListNodes -> ListNodes \cup {None}]
    BY <1>2, <1>10, <2>0, <2>1 DEF DoublyTypes
  <2>3. \A x \in ListNodes : next'[x] = (IF x = M[k - 1] THEN None ELSE next[x])
    BY <2>1 DEF DoublyTypes
  <2>4. \A x \in ListNodes : next'[x] = (IF x = n THEN None
                                         ELSE IF k # 1 /\ x = M[k - 1] THEN IF k = Len(M) THEN None ELSE M[k + 1]
                                         ELSE next[x])
    BY <1>2, <1>6, <2>0, <2>3
  <2>5. \A x \in ListNodes : prev'[x] = (IF x = n THEN None
                                         ELSE IF k # Len(M) /\ x = M[k + 1] THEN IF k = 1 THEN None ELSE M[k - 1]
                                         ELSE prev[x])
    BY <1>2, <1>7
  <2>20. Unlinked(M, k, n)
    BY <1>4, <1>5, <1>8, <2>2, <2>4, <2>5 DEF Unlinked
  <2>6. DoublyTypes' /\ Listed(Without(M, k))' /\ ValuesOf(Without(M, k))' = Without(ValuesOf(M), k)
    BY <2>20, ListedWithout
  <2>. QED BY <1>1, <2>6, WithoutIs DEF Removed
<1>. QED BY <1>9, <1>10

LEMMA EraseNode ==
  ASSUME DoublyTypes, NEW M, Listed(M), NEW n \in doubly!Allocated, doubly!erase(n)
  PROVE  Removed(M)
<1>1. CASE n = head /\ doubly!pop_front
  BY <1>1, PopFront
<1>2. CASE n # head /\ n = tail /\ doubly!pop_back
  BY <1>2, PopBack
<1>3. CASE /\ n \notin {head, tail} /\ doubly!Deleted(n)
           /\ next' = [next EXCEPT ![prev[n]] = next[n], ![n] = None]
           /\ prev' = [prev EXCEPT ![next[n]] = prev[n], ![n] = None]
           /\ UNCHANGED <<head, tail>>
  <2>1. PICK k \in 1..Len(M) : n = M[k]
    BY DEF Listed, doubly!Allocated
  <2>2. M \in Seq(ListNodes) /\ Len(M) \in Nat /\ n \in ListNodes
    BY DEF Listed, doubly!Allocated
  <2>3. k # 1 /\ k # Len(M)
    BY <1>3, <2>1, <2>2 DEF Listed
  <2>4. /\ k - 1 \in 1..Len(M) /\ k + 1 \in 1..Len(M)
        /\ M[k - 1] \in ListNodes /\ M[k + 1] \in ListNodes
    BY <2>2, <2>3
  <2>5. M[k - 1] # n /\ M[k + 1] # n
    BY <2>1, <2>2, <2>4 DEF Listed
  <2>6. prev[n] = M[k - 1] /\ next[n] = M[k + 1]
    BY <2>1, <2>3 DEF Listed
  <2>7. /\ val' = [val EXCEPT ![n] = None] /\ sz' = sz - 1 /\ head' = head /\ tail' = tail
        /\ next' = [next EXCEPT ![M[k - 1]] = M[k + 1], ![n] = None]
        /\ prev' = [prev EXCEPT ![M[k + 1]] = M[k - 1], ![n] = None]
    BY <1>3, <2>6 DEF doubly!Deleted
  <2>8. next' \in [ListNodes -> ListNodes \cup {None}] /\ prev' \in [ListNodes -> ListNodes \cup {None}]
    BY <2>4, <2>7 DEF DoublyTypes
  <2>9. \A x \in ListNodes : next'[x] = (IF x = n THEN None
                                         ELSE IF k # 1 /\ x = M[k - 1] THEN IF k = Len(M) THEN None ELSE M[k + 1]
                                         ELSE next[x])
    BY <2>3, <2>4, <2>7 DEF DoublyTypes
  <2>10. \A x \in ListNodes : prev'[x] = (IF x = n THEN None
                                          ELSE IF k # Len(M) /\ x = M[k + 1] THEN IF k = 1 THEN None ELSE M[k - 1]
                                          ELSE prev[x])
    BY <2>3, <2>4, <2>7 DEF DoublyTypes
  <2>11. /\ head' = (IF k # 1 THEN head ELSE IF Len(M) = 1 THEN None ELSE M[2])
         /\ tail' = (IF k # Len(M) THEN tail ELSE IF Len(M) = 1 THEN None ELSE M[Len(M) - 1])
    BY <2>3, <2>7
  <2>20. Unlinked(M, k, n)
    BY <2>1, <2>7, <2>8, <2>9, <2>10, <2>11 DEF Unlinked
  <2>12. DoublyTypes' /\ Listed(Without(M, k))' /\ ValuesOf(Without(M, k))' = Without(ValuesOf(M), k)
    BY <2>20, ListedWithout
  <2>. QED BY <2>2, <2>12, WithoutIs DEF Removed
<1>. QED BY <1>1, <1>2, <1>3 DEF doubly!erase

LEMMA InsertNode ==
  ASSUME DoublyTypes, NEW M, Listed(M), NEW v \in Items, doubly!CanGrow, NEW pos \in doubly!Allocated \union {None},
         doubly!insert_after(pos, v) \/ doubly!insert_before(pos, v)
  PROVE  Inserted(M, v)
<1>1. ASSUME doubly!push_front(v) \/ doubly!push_back(v) PROVE Inserted(M, v)
  BY <1>1, PushFront, PushBack
<1>2. ASSUME pos # None PROVE \E k \in 1..Len(M) : pos = M[k]
  BY <1>2 DEF Listed, doubly!Allocated
<1>3. M \in Seq(ListNodes) /\ Len(M) \in Nat
  BY DEF Listed
<1>4. CASE pos # None /\ pos # tail /\ doubly!Between(pos, next[pos], v)
  <2>1. PICK k \in 1..Len(M) : pos = M[k]
    BY <1>2, <1>4
  <2>2. k # Len(M)
    BY <1>4, <2>1 DEF Listed
  <2>3. k \in 1..(Len(M) - 1) /\ next[pos] = M[k + 1]
    BY <1>3, <2>1, <2>2 DEF Listed
  <2>. QED BY <1>4, <2>1, <2>3, PutBetween
<1>5. CASE pos # None /\ pos # head /\ doubly!Between(prev[pos], pos, v)
  <2>1. PICK k \in 1..Len(M) : pos = M[k]
    BY <1>2, <1>5
  <2>2. k # 1
    BY <1>5, <2>1 DEF Listed
  <2>3. PICK j \in 1..(Len(M) - 1) : j + 1 = k /\ k - 1 = j
    BY <1>3, <2>1, <2>2
  <2>4. prev[pos] = M[j] /\ pos = M[j + 1]
    BY <2>1, <2>2, <2>3 DEF Listed
  <2>. QED BY <1>5, <2>4, PutBetween
<1>. QED BY <1>1, <1>4, <1>5 DEF doubly!insert_after, doubly!insert_before

LEMMA ClearAll ==
  ASSUME DoublyTypes, NEW M, Listed(M), doubly!clear
  PROVE  DoublyTypes' /\ Listed(<<>>)' /\ ValuesOf(<<>>)' = <<>>
<1>1. doubly!Forward = M
  BY BothWays
<1>2. doubly!ToSet(M) = {n \in ListNodes : val[n] # None}
  BY DEF doubly!ToSet, Listed
<1>3. /\ val' = [n \in ListNodes |-> IF val[n] # None THEN None ELSE val[n]]
      /\ next' = [n \in ListNodes |-> IF val[n] # None THEN None ELSE next[n]]
      /\ prev' = [n \in ListNodes |-> IF val[n] # None THEN None ELSE prev[n]]
      /\ head' = None /\ tail' = None /\ sz' = 0
  BY <1>1, <1>2 DEF doubly!clear
<1>4. \A n \in ListNodes : val'[n] = None /\ next'[n] = None /\ prev'[n] = None
  BY <1>3 DEF Listed
<1>5. DoublyTypes'
  BY <1>3 DEF DoublyTypes
<1>6. <<>> \in Seq(ListNodes) /\ Len(<<>>) = 0 /\ 1..0 = {}
  OBVIOUS
<1>7. Listed(<<>>)'
  BY <1>3, <1>4, <1>6 DEF Listed
<1>8. ValuesOf(<<>>)' = <<>>
  BY <1>6 DEF ValuesOf
<1>. QED BY <1>5, <1>7, <1>8

-----------------------------------------------------------------------------
(* The doubly linked list as a sequence. *)

ListContent == [o \in {"list"} |-> [i \in DOMAIN doubly!Forward |-> val[doubly!Forward[i]]]]

LEMMA ListReads ==
  \A M : DoublyTypes /\ Listed(M) => /\ ListContent = [o \in {"list"} |-> ValuesOf(M)]
                                     /\ ValuesOf(M) \in Seq(Items)
<1>. SUFFICES ASSUME DoublyTypes, NEW M, Listed(M)
              PROVE  ListContent = [o \in {"list"} |-> ValuesOf(M)] /\ ValuesOf(M) \in Seq(Items)
  OBVIOUS
<1>1. doubly!Forward = M
  BY BothWays
<1>2. M \in Seq(ListNodes) /\ Len(M) \in Nat /\ DOMAIN M = 1..Len(M)
  BY DEF Listed
<1>3. \A i \in 1..Len(M) : val[M[i]] \in Items
  BY <1>2 DEF Listed, DoublyTypes
<1>. QED BY <1>1, <1>2, <1>3 DEF ListContent, ValuesOf

LEMMA ListReadsNext ==
  (\A M : DoublyTypes /\ Listed(M) => /\ ListContent = [o \in {"list"} |-> ValuesOf(M)]
                                      /\ ValuesOf(M) \in Seq(Items))'
BY ListReads, PTL

LEMMA DoublyInit == doubly!Init => DoublyInv /\ ListContent = [o \in {"list"} |-> <<>>]
<1>. SUFFICES ASSUME doubly!Init PROVE DoublyInv /\ ListContent = [o \in {"list"} |-> <<>>]
  OBVIOUS
<1>1. <<>> \in Seq(ListNodes) /\ Len(<<>>) = 0 /\ 1..0 = {}
  OBVIOUS
<1>2. DoublyTypes /\ Listed(<<>>)
  BY <1>1 DEF doubly!Init, DoublyTypes, Listed
<1>3. ValuesOf(<<>>) = <<>>
  BY <1>1 DEF ValuesOf
<1>. QED BY <1>1, <1>2, <1>3, ListReads DEF DoublyInv

LEMMA InsertedRefines ==
  ASSUME DoublyTypes, NEW M, Listed(M), NEW v \in Items, Inserted(M, v)
  PROVE  DoublyInv' /\ doubly!Objects!InsertItem("list")
<1>. PICK s : s = ValuesOf(M)
  OBVIOUS
<1>1. ListContent = [o \in {"list"} |-> s] /\ s \in Seq(Items)
  BY ListReads
<1>2. PICK W \in Seq(ListNodes), k \in 0..Len(M) : Listed(W)' /\ ValuesOf(W)' = With(s, k, v)
  BY DEF Inserted
<1>3. DoublyTypes'
  BY DEF Inserted
<1>4. ListContent' = [o \in {"list"} |-> With(s, k, v)]
  BY <1>2, <1>3, ListReadsNext
<1>5. Len(s) = Len(M) /\ Len(s) \in Nat
  BY DEF Listed, ValuesOf
<1>6. k \in 0..Len(s)
  BY <1>5
<1>7. SubSeq(s, 1, k) \o <<v>> \o SubSeq(s, k + 1, Len(s)) = With(s, k, v)
  BY <1>1, <1>6, WithJoins
<1>8. ListContent["list"] = s /\ s # None
  BY <1>1, NoneIsNoNode
<1>. PICK t : t = With(s, k, v)
  OBVIOUS
<1>9. ListContent' = [ListContent EXCEPT !["list"] = t]
  BY <1>1, <1>4
<1>10. doubly!Objects!Alive("list") /\ doubly!Objects!Becomes("list", t)
  BY <1>8, <1>9 DEF doubly!Objects!Alive, doubly!Objects!Becomes, ListContent
<1>11. /\ ListContent' = [ListContent EXCEPT !["list"] =
                           SubSeq(ListContent["list"], 1, k) \o <<v>> \o SubSeq(ListContent["list"], k + 1, Len(ListContent["list"]))]
       /\ k \in 0..Len(ListContent["list"])
  BY <1>6, <1>7, <1>8, <1>9
<1>12. \E j \in 0..Len(ListContent["list"]), x \in Items :
         ListContent' = [ListContent EXCEPT !["list"] =
                           SubSeq(ListContent["list"], 1, j) \o <<x>> \o SubSeq(ListContent["list"], j + 1, Len(ListContent["list"]))]
  BY <1>11, Zenon
<1>13. doubly!Objects!InsertItem("list")
  BY <1>10, <1>12 DEF doubly!Objects!InsertItem, doubly!Objects!Becomes, ListContent
<1>. QED BY <1>2, <1>3, <1>13 DEF DoublyInv

(* The elements i to j - 1 are taken out of a list that is not empty. *)
LEMMA RangeRemoved ==
  ASSUME NEW s \in Seq(Items), ListContent = [o \in {"list"} |-> s],
         NEW i \in 1..(Len(s) + 1), NEW j \in 1..(Len(s) + 1), i < j,
         NEW t, t = SubSeq(s, 1, i - 1) \o SubSeq(s, j, Len(s)), ListContent' = [o \in {"list"} |-> t]
  PROVE  doubly!Objects!RemoveRange("list")
<1>1. ListContent["list"] = s /\ s # None
  BY NoneIsNoNode
<1>2. ListContent' = [ListContent EXCEPT !["list"] = t]
  OBVIOUS
<1>3. doubly!Objects!Alive("list") /\ doubly!Objects!Becomes("list", t)
  BY <1>1, <1>2 DEF doubly!Objects!Alive, doubly!Objects!Becomes, ListContent
<1>4. /\ i < j /\ i \in 1..(Len(ListContent["list"]) + 1) /\ j \in 1..(Len(ListContent["list"]) + 1)
      /\ ListContent' = [ListContent EXCEPT !["list"] = SubSeq(ListContent["list"], 1, i - 1)
                                                         \o SubSeq(ListContent["list"], j, Len(ListContent["list"]))]
  BY <1>1, <1>2
<1>5. \E x, y \in 1..(Len(ListContent["list"]) + 1) :
        /\ x < y
        /\ ListContent' = [ListContent EXCEPT !["list"] = SubSeq(ListContent["list"], 1, x - 1)
                                                           \o SubSeq(ListContent["list"], y, Len(ListContent["list"]))]
  BY ONLY <1>4, ZenonT(60)
<1>. QED BY <1>3, <1>5 DEF doubly!Objects!RemoveRange, doubly!Objects!Becomes, ListContent

LEMMA RemovedRefines ==
  ASSUME DoublyTypes, NEW M, Listed(M), Removed(M)
  PROVE  DoublyInv' /\ doubly!Objects!RemoveRange("list")
<1>. PICK s : s = ValuesOf(M)
  OBVIOUS
<1>1. ListContent = [o \in {"list"} |-> s] /\ s \in Seq(Items)
  BY ListReads
<1>2. PICK W \in Seq(ListNodes), k \in 1..Len(M) : Listed(W)' /\ ValuesOf(W)' = Without(s, k)
  BY DEF Removed
<1>3. DoublyTypes'
  BY DEF Removed
<1>4. PICK t : t = Without(s, k)
  OBVIOUS
<1>5. ListContent' = [o \in {"list"} |-> t]
  BY <1>2, <1>3, <1>4, ListReadsNext
<1>6. Len(s) = Len(M) /\ Len(s) \in Nat
  BY DEF Listed, ValuesOf
<1>7. PICK j : j = k + 1
  OBVIOUS
<1>8. k \in 1..Len(s) /\ k \in 1..(Len(s) + 1) /\ j \in 1..(Len(s) + 1) /\ k < j
  BY <1>6, <1>7
<1>9. t = SubSeq(s, 1, k - 1) \o SubSeq(s, j, Len(s))
  BY <1>1, <1>4, <1>7, <1>8, WithoutJoins
<1>10. doubly!Objects!RemoveRange("list")
  BY <1>1, <1>5, <1>8, <1>9, RangeRemoved
<1>. QED BY <1>2, <1>3, <1>10 DEF DoublyInv

LEMMA ClearRefines ==
  ASSUME DoublyTypes, NEW M, Listed(M), doubly!clear
  PROVE  DoublyInv' /\ (doubly!Objects!RemoveRange("list") \/ ListContent' = ListContent)
<1>. PICK s : s = ValuesOf(M)
  OBVIOUS
<1>1. ListContent = [o \in {"list"} |-> s] /\ s \in Seq(Items) /\ Len(s) \in Nat
  BY ListReads
<1>2. DoublyTypes' /\ Listed(<<>>)' /\ ValuesOf(<<>>)' = <<>> /\ <<>> \in Seq(ListNodes)
  BY ClearAll
<1>3. ListContent' = [o \in {"list"} |-> <<>>]
  BY <1>2, ListReadsNext
<1>4. CASE Len(s) = 0
  <2>1. s = <<>>
    BY <1>1, <1>4
  <2>. QED BY <1>1, <1>2, <1>3, <2>1 DEF DoublyInv
<1>5. CASE Len(s) # 0
  <2>1. PICK j : j = Len(s) + 1
    OBVIOUS
  <2>2. 1 \in 1..(Len(s) + 1) /\ j \in 1..(Len(s) + 1) /\ 1 < j
    BY <1>1, <1>5, <2>1
  <2>3. SubSeq(s, 1, 1 - 1) \o SubSeq(s, j, Len(s)) = <<>>
    <3>1. SubSeq(s, 1, 0) = <<>> /\ SubSeq(s, Len(s) + 1, Len(s)) = <<>>
      BY <1>1
    <3>. QED BY <2>1, <3>1
  <2>4. doubly!Objects!RemoveRange("list")
    BY <1>1, <1>3, <2>2, <2>3, RangeRemoved
  <2>. QED BY <1>2, <2>4 DEF DoublyInv
<1>. QED BY <1>4, <1>5

LEMMA DoublyRefines ==
  DoublyInv /\ [doubly!Next]_doublyVars => DoublyInv' /\ [doubly!Objects!Next]_ListContent
<1>. SUFFICES ASSUME DoublyInv, [doubly!Next]_doublyVars
              PROVE  DoublyInv' /\ [doubly!Objects!Next]_ListContent
  OBVIOUS
<1>1. PICK M \in Seq(ListNodes) : DoublyTypes /\ Listed(M)
  BY DEF DoublyInv
<1>2. doubly!Objects!InsertItem("list") \/ doubly!Objects!RemoveRange("list") => doubly!Objects!Next
  BY DEF doubly!Objects!Next
<1>3. ASSUME NEW v \in Items, Inserted(M, v) PROVE DoublyInv' /\ [doubly!Objects!Next]_ListContent
  BY <1>1, <1>2, <1>3, InsertedRefines
<1>4. ASSUME Removed(M) PROVE DoublyInv' /\ [doubly!Objects!Next]_ListContent
  BY <1>1, <1>2, <1>4, RemovedRefines
<1>5. ASSUME NEW v \in Items, doubly!CanGrow, doubly!push_front(v) \/ doubly!push_back(v)
      PROVE  DoublyInv' /\ [doubly!Objects!Next]_ListContent
  BY <1>1, <1>3, <1>5, PushFront, PushBack
<1>6. ASSUME NEW v \in Items, doubly!CanGrow, NEW pos \in doubly!Allocated \union {None},
             doubly!insert_after(pos, v) \/ doubly!insert_before(pos, v)
      PROVE  DoublyInv' /\ [doubly!Objects!Next]_ListContent
  BY <1>1, <1>3, <1>6, InsertNode
<1>7. ASSUME doubly!pop_front \/ doubly!pop_back PROVE DoublyInv' /\ [doubly!Objects!Next]_ListContent
  BY <1>1, <1>4, <1>7, PopFront, PopBack
<1>8. ASSUME doubly!clear PROVE DoublyInv' /\ [doubly!Objects!Next]_ListContent
  BY <1>1, <1>2, <1>8, ClearRefines
<1>9. ASSUME NEW n \in doubly!Allocated, doubly!erase(n) PROVE DoublyInv' /\ [doubly!Objects!Next]_ListContent
  BY <1>1, <1>4, <1>9, EraseNode
<1>10. CASE UNCHANGED doublyVars
  <2>1. val' = val /\ prev' = prev /\ next' = next /\ head' = head /\ tail' = tail /\ sz' = sz
    BY <1>10 DEF doublyVars
  <2>2. DoublyInv'
    <3>1. DoublyTypes'
      BY <1>1, <2>1 DEF DoublyTypes
    <3>2. Listed(M)'
      BY <1>1, <2>1 DEF Listed
    <3>. QED BY <3>1, <3>2 DEF DoublyInv
  <2>3. ListContent' = ListContent
    BY <2>1 DEF ListContent, doubly!Forward, doubly!Along
  <2>. QED BY <2>2, <2>3
<1>. QED BY <1>5, <1>6, <1>7, <1>8, <1>9, <1>10 DEF doubly!Next

-----------------------------------------------------------------------------
(* ds::List.  A rigid heap h takes the place of the variable: the operations
   are functions of the heap, and cell' is what the last of them returns. *)

Places == ring!Sentinels \cup RingNodes

Heaps ==
  [next   : [Places -> Places],
   prev   : [Places -> Places],
   value  : [RingNodes -> Items \cup {Taken, None}],
   owner  : [RingNodes -> Allocators \cup {None}],
   size_  : [ring!Sentinels -> Int],
   alloc_ : [ring!Sentinels -> Allocators \cup {None}]]

LEMMA Addresses ==
  /\ ring!Sentinels \cap RingNodes = {} /\ IsFiniteSet(RingNodes) /\ Temp \notin Lists
  /\ None \notin Items /\ None # Taken /\ None \notin Allocators /\ None \notin Seq(Items \cup {Taken})
BY MCListsAssumption DEF MCListsAssumption, ring!Sentinels

(* A function that is defined by recursion on 0..n exists. *)
Iterated(H, h, n, F) == \E f \in [0..n -> H] : f[0] = h /\ \A i \in 1..n : f[i] = F[<<f[i - 1], i>>]

LEMMA RecursionExists ==
  ASSUME NEW H, NEW h \in H, NEW n \in Nat, NEW F \in [H \X (1..n) -> H]
  PROVE  Iterated(H, h, n, F)
<1>. DEFINE Upto(k, f) == f \in [0..k -> H] /\ f[0] = h /\ \A i \in 1..k : f[i] = F[<<f[i - 1], i>>]
            T == {k \in Nat : k <= n => \E f : Upto(k, f)}
<1>1. 0 \in T
  <2>1. Upto(0, [i \in 0..0 |-> h])
    OBVIOUS
  <2>. QED BY <2>1
<1>2. ASSUME NEW k \in T PROVE k + 1 \in T
  <2>1. SUFFICES ASSUME k + 1 <= n PROVE \E f : Upto(k + 1, f)
    OBVIOUS
  <2>2. PICK f : Upto(k, f)
    BY <2>1
  <2>3. k \in Nat /\ k \in 0..k /\ k + 1 \in 1..n
    BY <2>1
  <2>4. PICK x : x = F[<<f[k], k + 1>>]
    OBVIOUS
  <2>5. x \in H
    BY <2>2, <2>3, <2>4
  <2>6. PICK g : g = [i \in 0..(k + 1) |-> IF i = k + 1 THEN x ELSE f[i]]
    OBVIOUS
  <2>7. \A i \in 0..(k + 1) : i # k + 1 => i \in 0..k
    BY <2>3
  <2>8. g \in [0..(k + 1) -> H]
    BY <2>2, <2>5, <2>6, <2>7
  <2>9. \A i \in 0..k : g[i] = f[i]
    BY <2>3, <2>6
  <2>10. g[0] = h
    BY <2>2, <2>3, <2>9
  <2>11. ASSUME NEW i \in 1..(k + 1) PROVE g[i] = F[<<g[i - 1], i>>]
    <3>1. CASE i = k + 1
      <4>1. g[i] = x /\ i - 1 = k /\ g[k] = f[k]
        BY <2>3, <2>6, <2>9, <3>1
      <4>. QED BY <2>4, <3>1, <4>1
    <3>2. CASE i # k + 1
      <4>1. i \in 1..k /\ i \in 0..k /\ i - 1 \in 0..k
        BY <2>3, <3>2
      <4>. QED BY <2>2, <2>9, <4>1
    <3>. QED BY <3>1, <3>2
  <2>. QED BY <2>8, <2>10, <2>11
<1>3. n \in T
  <2>. HIDE DEF T
  <2>1. T \in SUBSET Nat
    BY DEF T
  <2>. QED BY <1>1, <1>2, <2>1, SetInduction
<1>. QED BY <1>3 DEF Iterated

(* g is what a step makes of h, field by field. *)
Resets(h, l, g) ==
  /\ g \in Heaps
  /\ g.next = [h.next EXCEPT ![l] = l] /\ g.prev = [h.prev EXCEPT ![l] = l]
  /\ g.value = h.value /\ g.owner = h.owner /\ g.size_ = h.size_ /\ g.alloc_ = h.alloc_

Destroys(h, n, g) ==
  /\ g \in Heaps
  /\ g.next = [h.next EXCEPT ![n] = n] /\ g.prev = [h.prev EXCEPT ![n] = n]
  /\ g.value = [h.value EXCEPT ![n] = None] /\ g.owner = [h.owner EXCEPT ![n] = None]
  /\ g.size_ = h.size_ /\ g.alloc_ = h.alloc_

Erases(h, l, n, g) ==
  /\ g \in Heaps
  /\ g.next = [h.next EXCEPT ![h.prev[n]] = h.next[n], ![n] = n]
  /\ g.prev = [h.prev EXCEPT ![h.next[n]] = h.prev[n], ![n] = n]
  /\ g.value = [h.value EXCEPT ![n] = None] /\ g.owner = [h.owner EXCEPT ![n] = None]
  /\ g.size_ = [h.size_ EXCEPT ![l] = @ - 1] /\ g.alloc_ = h.alloc_

Emplaces(h, l, pos, v, n, g) ==
  /\ g \in Heaps
  /\ g.next = [h.next EXCEPT ![n] = pos, ![h.prev[pos]] = n]
  /\ g.prev = [h.prev EXCEPT ![n] = h.prev[pos], ![pos] = n]
  /\ g.value = [h.value EXCEPT ![n] = v] /\ g.owner = [h.owner EXCEPT ![n] = h.alloc_[l]]
  /\ g.size_ = [h.size_ EXCEPT ![l] = @ + 1] /\ g.alloc_ = h.alloc_

LEMMA ResetFields ==
  ASSUME NEW h \in Heaps, NEW l \in ring!Sentinels
  PROVE  Resets(h, l, ring!reset_empty(h, l))
<1>1. l \in Places
  BY DEF Places
<1>. QED BY <1>1 DEF Resets, ring!reset_empty, Heaps

LEMMA DestroyFields ==
  ASSUME NEW h \in Heaps, NEW n \in RingNodes
  PROVE  Destroys(h, n, ring!destroy_node(h, n))
<1>1. n \in Places
  BY DEF Places
<1>. QED BY <1>1 DEF Destroys, ring!destroy_node, Heaps

LEMMA EraseFields ==
  ASSUME NEW h \in Heaps, NEW l \in ring!Sentinels, NEW n \in RingNodes
  PROVE  Erases(h, l, n, ring!erase(h, l, n))
<1>. PICK g : g = ring!erase(h, l, n)
  OBVIOUS
<1>1. n \in Places /\ h.prev[n] \in Places /\ h.next[n] \in Places
  BY DEF Places, Heaps
<1>2. PICK u : u = ring!unlink(h, n)
  OBVIOUS
<1>3. /\ u \in Heaps
      /\ u.next = [h.next EXCEPT ![h.prev[n]] = h.next[n]]
      /\ u.prev = [h.prev EXCEPT ![h.next[n]] = h.prev[n]]
      /\ u.value = h.value /\ u.owner = h.owner /\ u.size_ = h.size_ /\ u.alloc_ = h.alloc_
  BY <1>1, <1>2 DEF ring!unlink, Heaps
<1>4. PICK d : d = ring!destroy_node(u, n)
  OBVIOUS
<1>5. Destroys(u, n, d)
  BY <1>3, <1>4, DestroyFields
<1>6. g = [d EXCEPT !.size_[l] = @ - 1]
  BY <1>2, <1>4 DEF ring!erase
<1>7. /\ g \in Heaps /\ g.next = d.next /\ g.prev = d.prev /\ g.value = d.value /\ g.owner = d.owner
      /\ g.alloc_ = d.alloc_ /\ g.size_ = [d.size_ EXCEPT ![l] = @ - 1]
  BY <1>5, <1>6 DEF Destroys, Heaps
<1>. QED BY <1>3, <1>5, <1>7 DEF Destroys, Erases

LEMMA EmplaceFields ==
  ASSUME NEW h \in Heaps, NEW l \in ring!Sentinels, NEW pos \in Places, NEW v \in Items \cup {Taken},
         ring!Free(h) # {}
  PROVE  \E n \in ring!Free(h) : Emplaces(h, l, pos, v, n, ring!emplace(h, l, pos, v))
<1>. PICK g : g = ring!emplace(h, l, pos, v)
  OBVIOUS
<1>1. PICK n : n = CHOOSE f \in ring!Free(h) : TRUE
  OBVIOUS
<1>2. n \in ring!Free(h) /\ n \in RingNodes /\ n \in Places
  BY <1>1 DEF ring!Free, Places
<1>3. PICK c : c = ring!create_node(h, l, n, v)
  OBVIOUS
<1>4. /\ c \in Heaps /\ c.value = [h.value EXCEPT ![n] = v] /\ c.owner = [h.owner EXCEPT ![n] = h.alloc_[l]]
      /\ c.next = h.next /\ c.prev = h.prev /\ c.size_ = h.size_ /\ c.alloc_ = h.alloc_
  BY <1>2, <1>3 DEF ring!create_node, Heaps
<1>5. g = ring!link_before(c, l, pos, n) /\ h.prev[pos] \in Places
  BY <1>1, <1>3 DEF ring!emplace, Heaps
<1>6. /\ g \in Heaps
      /\ g.next = [c.next EXCEPT ![n] = pos, ![c.prev[pos]] = n]
      /\ g.prev = [c.prev EXCEPT ![n] = c.prev[pos], ![pos] = n]
      /\ g.value = c.value /\ g.owner = c.owner
      /\ g.size_ = [c.size_ EXCEPT ![l] = @ + 1] /\ g.alloc_ = c.alloc_
  <2>1. /\ c.next \in [Places -> Places] /\ c.prev \in [Places -> Places]
        /\ c.value \in [RingNodes -> Items \cup {Taken, None}] /\ c.owner \in [RingNodes -> Allocators \cup {None}]
        /\ c.size_ \in [ring!Sentinels -> Int] /\ c.alloc_ \in [ring!Sentinels -> Allocators \cup {None}]
        /\ c.prev[pos] \in Places
    BY <1>4 DEF Heaps
  <2>. PICK x : x = c.prev[pos]
    OBVIOUS
  <2>2. g = [c EXCEPT !.next[n] = pos, !.prev[n] = x, !.next[x] = n, !.prev[pos] = n, !.size_[l] = @ + 1]
    BY <1>5 DEF ring!link_before
  <2>3. g = [next   |-> [c.next EXCEPT ![n] = pos, ![x] = n],
             prev   |-> [c.prev EXCEPT ![n] = x, ![pos] = n],
             value  |-> c.value, owner |-> c.owner,
             size_  |-> [c.size_ EXCEPT ![l] = @ + 1],
             alloc_ |-> c.alloc_]
    BY <1>4, <2>2 DEF Heaps
  <2>4. g \in Heaps
    BY <1>2, <2>1, <2>3 DEF Heaps
  <2>. QED BY <2>3, <2>4
<1>. QED BY <1>2, <1>4, <1>6 DEF Emplaces

-----------------------------------------------------------------------------
(* The ring of the sentinel l and the nodes s. *)

At(l, s, i) == IF i \in 1..Len(s) THEN s[i] ELSE l

Linked(f, g, l, s) == \A i \in 0..Len(s) : f[At(l, s, i)] = At(l, s, i + 1) /\ g[At(l, s, i + 1)] = At(l, s, i)

Distinct(s) == \A i, j \in 1..Len(s) : s[i] = s[j] => i = j

LEMMA AtPlaces ==
  ASSUME NEW l \in ring!Sentinels, NEW s \in Seq(RingNodes)
  PROVE  \A i \in Int : At(l, s, i) \in Places
BY DEF At, Places

LEMMA AtDistinct ==
  ASSUME NEW l \in ring!Sentinels, NEW s \in Seq(RingNodes), Distinct(s)
  PROVE  /\ \A i, j \in 0..Len(s) : At(l, s, i) = At(l, s, j) => i = j
         /\ \A i, j \in 1..(Len(s) + 1) : At(l, s, i) = At(l, s, j) => i = j
<1>1. l \notin RingNodes /\ Len(s) \in Nat
  BY Addresses
<1>2. \A i \in 1..Len(s) : s[i] \in RingNodes
  OBVIOUS
<1>3. \A i, j \in 0..Len(s) : At(l, s, i) = At(l, s, j) => i = j
  BY <1>1, <1>2 DEF At, Distinct
<1>4. \A i, j \in 1..(Len(s) + 1) : At(l, s, i) = At(l, s, j) => i = j
  BY <1>1, <1>2 DEF At, Distinct
<1>. QED BY <1>3, <1>4

LEMMA AtWith ==
  ASSUME NEW l \in ring!Sentinels, NEW s \in Seq(RingNodes), NEW k \in 0..Len(s), NEW n \in RingNodes
  PROVE  /\ \A i \in 0..k : At(l, With(s, k, n), i) = At(l, s, i)
         /\ At(l, With(s, k, n), k + 1) = n
         /\ \A i \in (k + 1)..(Len(s) + 1) : At(l, With(s, k, n), i + 1) = At(l, s, i)
<1>. PICK t : t = With(s, k, n)
  OBVIOUS
<1>1. Len(t) = Len(s) + 1 /\ Len(s) \in Nat /\ k \in Nat /\ k <= Len(s)
  BY WithIs
<1>2. /\ \A i \in 1..k : t[i] = s[i]
      /\ t[k + 1] = n
      /\ \A i \in (k + 1)..Len(s) : t[i + 1] = s[i]
  <2>1. \A i \in 1..k : With(s, k, n)[i] = s[i]
    BY WithIs
  <2>2. With(s, k, n)[k + 1] = n
    BY WithIs
  <2>3. \A i \in (k + 1)..Len(s) : With(s, k, n)[i + 1] = s[i]
    BY WithIs
  <2>. QED BY <2>1, <2>2, <2>3
<1>3. \A i \in 0..k : At(l, t, i) = At(l, s, i)
  BY <1>1, <1>2 DEF At
<1>4. At(l, t, k + 1) = n
  BY <1>1, <1>2 DEF At
<1>5. \A i \in (k + 1)..(Len(s) + 1) : At(l, t, i + 1) = At(l, s, i)
  BY <1>1, <1>2 DEF At
<1>. QED BY <1>3, <1>4, <1>5

LEMMA AtWithout ==
  ASSUME NEW l \in ring!Sentinels, NEW s \in Seq(RingNodes), NEW k \in 1..Len(s)
  PROVE  /\ \A i \in 0..(k - 1) : At(l, Without(s, k), i) = At(l, s, i)
         /\ \A i \in k..Len(s) : At(l, Without(s, k), i) = At(l, s, i + 1)
<1>. PICK t : t = Without(s, k)
  OBVIOUS
<1>1. Len(t) = Len(s) - 1 /\ Len(s) \in Nat /\ k \in Nat /\ k <= Len(s) /\ k >= 1
  BY WithoutIs
<1>2. /\ \A i \in 1..(k - 1) : t[i] = s[i]
      /\ \A i \in k..(Len(s) - 1) : t[i] = s[i + 1]
  BY WithoutIs
<1>3. \A i \in 0..(k - 1) : At(l, t, i) = At(l, s, i)
  BY <1>1, <1>2 DEF At
<1>4. \A i \in k..Len(s) : At(l, t, i) = At(l, s, i + 1)
  BY <1>1, <1>2 DEF At
<1>. QED BY <1>3, <1>4

(* A node enters a ring, leaves it, or changes elsewhere. *)
LEMMA LinkIn ==
  ASSUME NEW f \in [Places -> Places], NEW g \in [Places -> Places], NEW l \in ring!Sentinels,
         NEW s \in Seq(RingNodes), Distinct(s), Linked(f, g, l, s), NEW k \in 0..Len(s), NEW n \in RingNodes,
         \A i \in 1..Len(s) : s[i] # n
  PROVE  Linked([f EXCEPT ![n] = At(l, s, k + 1), ![At(l, s, k)] = n],
                [g EXCEPT ![n] = At(l, s, k), ![At(l, s, k + 1)] = n], l, With(s, k, n))
<1>. PICK t : t = With(s, k, n)
  OBVIOUS
<1>. PICK p \in Places : p = At(l, s, k)
  BY AtPlaces
<1>. PICK q \in Places : q = At(l, s, k + 1)
  BY AtPlaces
<1>1. Len(s) \in Nat /\ k \in Nat /\ k <= Len(s) /\ Len(t) = Len(s) + 1
  BY WithIs
<1>2. n \in Places /\ \A i \in Int : At(l, s, i) # n /\ At(l, s, i) \in Places
  BY Addresses DEF Places, At
<1>3. PICK x : x = [f EXCEPT ![n] = q, ![p] = n]
  OBVIOUS
<1>4. PICK y : y = [g EXCEPT ![n] = p, ![q] = n]
  OBVIOUS
<1>5. /\ x[p] = n /\ x[n] = q /\ y[q] = n /\ y[n] = p
      /\ \A u \in Places : (u # p /\ u # n => x[u] = f[u]) /\ (u # q /\ u # n => y[u] = g[u])
  BY <1>1, <1>2, <1>3, <1>4
<1>6. /\ \A i \in 0..Len(s) : i # k => At(l, s, i) # p
      /\ \A i \in 1..(Len(s) + 1) : i # k + 1 => At(l, s, i) # q
  BY <1>1, AtDistinct
<1>7. /\ \A i \in 0..Len(s) : i # k => x[At(l, s, i)] = At(l, s, i + 1)
      /\ \A i \in 0..Len(s) : i # k => y[At(l, s, i + 1)] = At(l, s, i)
  <2>1. ASSUME NEW i \in 0..Len(s), i # k
        PROVE  x[At(l, s, i)] = At(l, s, i + 1) /\ y[At(l, s, i + 1)] = At(l, s, i)
    <3>1. At(l, s, i) # p /\ At(l, s, i) # n /\ At(l, s, i) \in Places
      BY <1>1, <1>2, <1>6, <2>1
    <3>2. At(l, s, i + 1) # q /\ At(l, s, i + 1) # n /\ At(l, s, i + 1) \in Places
      <4>1. i + 1 \in 1..(Len(s) + 1) /\ i + 1 # k + 1 /\ i + 1 \in Int
        BY <1>1, <2>1
      <4>. QED BY <1>2, <1>6, <4>1
    <3>3. f[At(l, s, i)] = At(l, s, i + 1) /\ g[At(l, s, i + 1)] = At(l, s, i)
      BY DEF Linked
    <3>. QED BY <1>5, <3>1, <3>2, <3>3
  <2>. QED BY <2>1
<1>8. /\ \A i \in 0..k : At(l, t, i) = At(l, s, i)
      /\ At(l, t, k + 1) = n
      /\ \A i \in (k + 1)..(Len(s) + 1) : At(l, t, i + 1) = At(l, s, i)
  BY AtWith
<1>9. ASSUME NEW i \in 0..Len(t) PROVE x[At(l, t, i)] = At(l, t, i + 1) /\ y[At(l, t, i + 1)] = At(l, t, i)
  <2>1. CASE i < k
    <3>1. i \in 0..k /\ i + 1 \in 0..k /\ i \in 0..Len(s) /\ i # k
      BY <1>1, <2>1
    <3>. QED BY <1>7, <1>8, <3>1
  <2>2. CASE i = k
    BY <1>1, <1>5, <1>8, <2>2
  <2>3. CASE i = k + 1
    <3>1. k + 1 \in (k + 1)..(Len(s) + 1)
      BY <1>1
    <3>2. At(l, t, i + 1) = q
      BY <1>8, <2>3, <3>1
    <3>. QED BY <1>5, <1>8, <2>3, <3>2
  <2>4. CASE i > k + 1
    <3>. PICK j : j = i - 1
      OBVIOUS
    <3>1. j \in (k + 1)..(Len(s) + 1) /\ j + 1 \in (k + 1)..(Len(s) + 1) /\ j \in 0..Len(s) /\ j # k /\ i = j + 1
      BY <1>1, <2>4
    <3>2. At(l, t, j + 1) = At(l, s, j) /\ At(l, t, (j + 1) + 1) = At(l, s, j + 1)
      BY <1>8, <3>1
    <3>. QED BY <1>7, <3>1, <3>2
  <2>. QED BY <1>1, <2>1, <2>2, <2>3, <2>4
<1>10. Linked(x, y, l, t)
  BY <1>9 DEF Linked
<1>. QED BY <1>3, <1>4, <1>10

LEMMA LinkOut ==
  ASSUME NEW f \in [Places -> Places], NEW g \in [Places -> Places], NEW l \in ring!Sentinels,
         NEW s \in Seq(RingNodes), Distinct(s), Linked(f, g, l, s), NEW k \in 1..Len(s)
  PROVE  Linked([f EXCEPT ![At(l, s, k - 1)] = At(l, s, k + 1), ![s[k]] = s[k]],
                [g EXCEPT ![At(l, s, k + 1)] = At(l, s, k - 1), ![s[k]] = s[k]], l, Without(s, k))
<1>. PICK t : t = Without(s, k)
  OBVIOUS
<1>. PICK n \in Places : n = s[k] /\ n = At(l, s, k)
  BY DEF At, Places
<1>. PICK p \in Places : p = At(l, s, k - 1)
  BY AtPlaces
<1>. PICK q \in Places : q = At(l, s, k + 1)
  BY AtPlaces
<1>1. Len(s) \in Nat /\ k \in Nat /\ k <= Len(s) /\ k >= 1 /\ Len(t) = Len(s) - 1
  BY WithoutIs
<1>2. \A i \in Int : At(l, s, i) \in Places
  BY AtPlaces
<1>3. PICK x : x = [f EXCEPT ![p] = q, ![n] = n]
  OBVIOUS
<1>4. PICK y : y = [g EXCEPT ![q] = p, ![n] = n]
  OBVIOUS
<1>5. /\ \A i \in 0..Len(s) : i # k - 1 => At(l, s, i) # p
      /\ \A i \in 0..Len(s) : i # k => At(l, s, i) # n
      /\ \A i \in 1..(Len(s) + 1) : i # k + 1 => At(l, s, i) # q
      /\ \A i \in 1..(Len(s) + 1) : i # k => At(l, s, i) # n
  <2>1. k - 1 \in 0..Len(s) /\ k \in 0..Len(s) /\ k + 1 \in 1..(Len(s) + 1) /\ k \in 1..(Len(s) + 1)
    BY <1>1
  <2>. QED BY <2>1, AtDistinct
<1>6. p # n /\ q # n
  <2>1. k - 1 \in 0..Len(s) /\ k - 1 # k /\ k + 1 \in 1..(Len(s) + 1) /\ k + 1 # k
    BY <1>1
  <2>. QED BY <1>5, <2>1
<1>7. /\ x[p] = q /\ y[q] = p
      /\ \A u \in Places : (u # p /\ u # n => x[u] = f[u]) /\ (u # q /\ u # n => y[u] = g[u])
  BY <1>3, <1>4, <1>6
<1>8. ASSUME NEW i \in 0..Len(s), i # k, i # k - 1
      PROVE  x[At(l, s, i)] = At(l, s, i + 1) /\ y[At(l, s, i + 1)] = At(l, s, i)
  <2>1. At(l, s, i) # p /\ At(l, s, i) # n /\ At(l, s, i) \in Places
    BY <1>1, <1>2, <1>5, <1>8
  <2>2. At(l, s, i + 1) # q /\ At(l, s, i + 1) # n /\ At(l, s, i + 1) \in Places
    <3>1. i + 1 \in 1..(Len(s) + 1) /\ i + 1 # k + 1 /\ i + 1 # k /\ i + 1 \in Int
      BY <1>1, <1>8
    <3>. QED BY <1>2, <1>5, <3>1
  <2>3. f[At(l, s, i)] = At(l, s, i + 1) /\ g[At(l, s, i + 1)] = At(l, s, i)
    BY DEF Linked
  <2>. QED BY <1>7, <2>1, <2>2, <2>3
<1>9. /\ \A i \in 0..(k - 1) : At(l, t, i) = At(l, s, i)
      /\ \A i \in k..Len(s) : At(l, t, i) = At(l, s, i + 1)
  BY AtWithout
<1>10. ASSUME NEW i \in 0..Len(t) PROVE x[At(l, t, i)] = At(l, t, i + 1) /\ y[At(l, t, i + 1)] = At(l, t, i)
  <2>1. CASE i < k - 1
    <3>1. i \in 0..(k - 1) /\ i + 1 \in 0..(k - 1) /\ i \in 0..Len(s) /\ i # k /\ i # k - 1
      BY <1>1, <2>1
    <3>. QED BY <1>8, <1>9, <3>1
  <2>2. CASE i = k - 1
    <3>1. i \in 0..(k - 1) /\ i + 1 = k /\ k \in k..Len(s)
      BY <1>1, <2>2
    <3>. QED BY <1>7, <1>9, <2>2, <3>1
  <2>3. CASE i >= k
    <3>. PICK j : j = i + 1
      OBVIOUS
    <3>1. i \in k..Len(s) /\ j \in k..Len(s) /\ j \in 0..Len(s) /\ j # k /\ j # k - 1
      BY <1>1, <2>3
    <3>2. At(l, t, i) = At(l, s, j) /\ At(l, t, j) = At(l, s, j + 1)
      BY <1>9, <3>1
    <3>. QED BY <1>8, <3>1, <3>2
  <2>. QED BY <1>1, <2>1, <2>2, <2>3
<1>11. Linked(x, y, l, t)
  BY <1>10 DEF Linked
<1>. QED BY <1>3, <1>4, <1>11

LEMMA LinkOther ==
  ASSUME NEW f, NEW g, NEW x, NEW y, NEW l \in ring!Sentinels, NEW s \in Seq(RingNodes), Linked(f, g, l, s),
         \A i \in 0..Len(s) : x[At(l, s, i)] = f[At(l, s, i)] /\ y[At(l, s, i)] = g[At(l, s, i)]
  PROVE  Linked(x, y, l, s)
<1>1. Len(s) \in Nat /\ At(l, s, Len(s) + 1) = At(l, s, 0)
  BY DEF At
<1>. SUFFICES ASSUME NEW i \in 0..Len(s)
              PROVE  x[At(l, s, i)] = At(l, s, i + 1) /\ y[At(l, s, i + 1)] = At(l, s, i)
  BY DEF Linked
<1>2. f[At(l, s, i)] = At(l, s, i + 1) /\ g[At(l, s, i + 1)] = At(l, s, i)
  BY DEF Linked
<1>3. y[At(l, s, i + 1)] = g[At(l, s, i + 1)]
  <2>1. CASE i = Len(s)
    <3>1. 0 \in 0..Len(s)
      BY <1>1
    <3>. QED BY <1>1, <2>1, <3>1
  <2>2. CASE i # Len(s)
    <3>1. i + 1 \in 0..Len(s)
      BY <1>1, <2>2
    <3>. QED BY <3>1
  <2>. QED BY <2>1, <2>2
<1>. QED BY <1>2, <1>3

-----------------------------------------------------------------------------
(* R[l] is the nodes of the list l, and C[l] what they store. *)

Sound(h, l, s, c) ==
  /\ Linked(h.next, h.prev, l, s)
  /\ h.size_[l] = Len(s) /\ Len(c) = Len(s)
  /\ \A i \in 1..Len(s) : h.value[s[i]] = c[i] /\ h.owner[s[i]] = h.alloc_[l]

Apart(R) ==
  \A l, o \in ring!Sentinels : \A i \in 1..Len(R[l]), j \in 1..Len(R[o]) : R[l][i] = R[o][j] => l = o /\ i = j

Reached(h, R) ==
  \A n \in RingNodes : h.owner[n] # None <=> \E l \in ring!Sentinels : \E i \in 1..Len(R[l]) : n = R[l][i]

Good(h, R, C) ==
  /\ h \in Heaps
  /\ R \in [ring!Sentinels -> Seq(RingNodes)]
  /\ C \in [ring!Sentinels -> Seq(Items \cup {Taken})]
  /\ Apart(R) /\ Reached(h, R)
  /\ \A l \in ring!Sentinels : Sound(h, l, R[l], C[l])

LEMMA RingTypes ==
  ASSUME NEW h, NEW R, NEW C, Good(h, R, C), NEW l \in ring!Sentinels
  PROVE  /\ h \in Heaps /\ R[l] \in Seq(RingNodes) /\ C[l] \in Seq(Items \cup {Taken})
         /\ Len(R[l]) \in Nat /\ Len(C[l]) = Len(R[l])
         /\ Distinct(R[l]) /\ Linked(h.next, h.prev, l, R[l])
         /\ \A i \in 1..Len(R[l]) : R[l][i] \in RingNodes /\ R[l][i] \notin ring!Free(h)
<1>1. R[l] \in Seq(RingNodes) /\ C[l] \in Seq(Items \cup {Taken}) /\ h \in Heaps
  BY DEF Good
<1>2. Len(R[l]) \in Nat /\ Len(C[l]) = Len(R[l]) /\ Linked(h.next, h.prev, l, R[l])
  BY <1>1 DEF Good, Sound
<1>3. Distinct(R[l])
  BY DEF Good, Apart, Distinct
<1>4. \A i \in 1..Len(R[l]) : R[l][i] \in RingNodes /\ R[l][i] \notin ring!Free(h)
  BY <1>1 DEF Good, Reached, ring!Free
<1>. QED BY <1>1, <1>2, <1>3, <1>4

(* The places of two lists are different. *)
LEMMA PlacesApart ==
  ASSUME NEW h, NEW R, NEW C, Good(h, R, C), NEW l \in ring!Sentinels, NEW o \in ring!Sentinels, l # o
  PROVE  \A i, j \in Int : At(l, R[l], i) # At(o, R[o], j)
<1>1. \A i \in 1..Len(R[l]), j \in 1..Len(R[o]) : R[l][i] # R[o][j]
  BY DEF Good, Apart
<1>2. /\ \A i \in 1..Len(R[l]) : R[l][i] \notin ring!Sentinels
      /\ \A i \in 1..Len(R[o]) : R[o][i] \notin ring!Sentinels
  BY RingTypes, Addresses
<1>. QED BY <1>1, <1>2 DEF At

(* A list of which a step changes nothing. *)
LEMMA SoundOther ==
  ASSUME NEW h, NEW R, NEW C, Good(h, R, C), NEW o \in ring!Sentinels, NEW g,
         \A i \in Int : /\ g.next[At(o, R[o], i)] = h.next[At(o, R[o], i)]
                        /\ g.prev[At(o, R[o], i)] = h.prev[At(o, R[o], i)],
         \A i \in 1..Len(R[o]) : /\ g.value[R[o][i]] = h.value[R[o][i]]
                                 /\ g.owner[R[o][i]] = h.owner[R[o][i]],
         g.size_[o] = h.size_[o], g.alloc_[o] = h.alloc_[o]
  PROVE  Sound(g, o, R[o], C[o])
<1>1. Sound(h, o, R[o], C[o]) /\ R[o] \in Seq(RingNodes)
  BY DEF Good
<1>2. Linked(g.next, g.prev, o, R[o])
  <2>1. Linked(h.next, h.prev, o, R[o])
    BY <1>1 DEF Sound
  <2>2. \A i \in 0..Len(R[o]) : /\ g.next[At(o, R[o], i)] = h.next[At(o, R[o], i)]
                                /\ g.prev[At(o, R[o], i)] = h.prev[At(o, R[o], i)]
    OBVIOUS
  <2>. QED BY <1>1, <2>1, <2>2, LinkOther
<1>. QED BY <1>1, <1>2 DEF Sound

(* One list changes, from what it was to the nodes t and the values c. *)
OnlyChanges(R, C, l, g, t, c) ==
  /\ g \in Heaps /\ t \in Seq(RingNodes) /\ c \in Seq(Items \cup {Taken})
  /\ Sound(g, l, t, c) /\ Distinct(t)
  /\ \A o \in ring!Sentinels : o # l =>
       /\ Sound(g, o, R[o], C[o])
       /\ \A i \in 1..Len(t), j \in 1..Len(R[o]) : t[i] # R[o][j]
  /\ \A n \in RingNodes : g.owner[n] # None <=>
       \/ \E i \in 1..Len(t) : n = t[i]
       \/ \E o \in ring!Sentinels : o # l /\ \E i \in 1..Len(R[o]) : n = R[o][i]

LEMMA OneChanges ==
  ASSUME NEW h, NEW R, NEW C, Good(h, R, C), NEW l \in ring!Sentinels, NEW g, NEW t, NEW c,
         OnlyChanges(R, C, l, g, t, c)
  PROVE  Good(g, [R EXCEPT ![l] = t], [C EXCEPT ![l] = c])
<1>. USE DEF OnlyChanges
<1>. PICK Q : Q = [R EXCEPT ![l] = t]
  OBVIOUS
<1>. PICK D : D = [C EXCEPT ![l] = c]
  OBVIOUS
<1>1. /\ Q \in [ring!Sentinels -> Seq(RingNodes)] /\ D \in [ring!Sentinels -> Seq(Items \cup {Taken})]
      /\ Q[l] = t /\ D[l] = c /\ \A o \in ring!Sentinels : o # l => Q[o] = R[o] /\ D[o] = C[o]
  BY DEF Good
<1>2. Apart(Q)
  <2>. SUFFICES ASSUME NEW p \in ring!Sentinels, NEW o \in ring!Sentinels,
                       NEW i \in 1..Len(Q[p]), NEW j \in 1..Len(Q[o]), Q[p][i] = Q[o][j]
                PROVE  p = o /\ i = j
    BY DEF Apart
  <2>1. CASE p = l /\ o = l
    BY <1>1, <2>1 DEF Distinct
  <2>2. CASE p = l /\ o # l
    BY <1>1, <2>2
  <2>3. CASE p # l /\ o = l
    BY <1>1, <2>3
  <2>4. CASE p # l /\ o # l
    BY <1>1, <2>4 DEF Good, Apart
  <2>. QED BY <2>1, <2>2, <2>3, <2>4
<1>3. \A o \in ring!Sentinels : Sound(g, o, Q[o], D[o])
  BY <1>1
<1>4. Reached(g, Q)
  <2>. SUFFICES ASSUME NEW n \in RingNodes
                PROVE  g.owner[n] # None <=> \E o \in ring!Sentinels : \E i \in 1..Len(Q[o]) : n = Q[o][i]
    BY DEF Reached
  <2>1. g.owner[n] # None => \E o \in ring!Sentinels : \E i \in 1..Len(Q[o]) : n = Q[o][i]
    BY <1>1
  <2>2. ASSUME NEW o \in ring!Sentinels, NEW i \in 1..Len(Q[o]), n = Q[o][i] PROVE g.owner[n] # None
    BY <1>1, <2>2
  <2>. QED BY <2>1, <2>2
<1>. QED BY <1>1, <1>2, <1>3, <1>4 DEF Good

Emplaced(h, R, C, l, k, v, g) ==
  \E n \in ring!Free(h) : /\ Good(g, [R EXCEPT ![l] = With(R[l], k, n)], [C EXCEPT ![l] = With(C[l], k, v)])
                          /\ g.alloc_ = h.alloc_ /\ ring!Free(g) = ring!Free(h) \ {n}

LEMMA EmplaceGood ==
  ASSUME NEW h, NEW R, NEW C, Good(h, R, C), NEW l \in ring!Sentinels, h.alloc_[l] \in Allocators,
         ring!Free(h) # {}, NEW k \in 0..Len(R[l]), NEW v \in Items \cup {Taken},
         NEW g, g = ring!emplace(h, l, At(l, R[l], k + 1), v)
  PROVE  Emplaced(h, R, C, l, k, v, g)
<1>. PICK s : s = R[l]
  OBVIOUS
<1>. PICK q : q = At(l, s, k + 1)
  OBVIOUS
<1>. PICK p : p = At(l, s, k)
  OBVIOUS
<1>1. /\ h \in Heaps /\ s \in Seq(RingNodes) /\ C[l] \in Seq(Items \cup {Taken})
      /\ Len(s) \in Nat /\ Len(C[l]) = Len(s) /\ Distinct(s) /\ Linked(h.next, h.prev, l, s)
      /\ \A i \in 1..Len(s) : s[i] \in RingNodes /\ s[i] \notin ring!Free(h)
      /\ k \in 0..Len(s) /\ k \in Nat /\ k <= Len(s)
  BY RingTypes
<1>2. q \in Places /\ p \in Places /\ h.prev[q] = p
  <2>1. k \in 0..Len(s) /\ k \in Int /\ k + 1 \in Int
    BY <1>1
  <2>. QED BY <1>1, <2>1, AtPlaces DEF Linked
<1>3. PICK n \in ring!Free(h) : Emplaces(h, l, q, v, n, g)
  BY <1>1, <1>2, EmplaceFields
<1>4. n \in RingNodes /\ h.owner[n] = None /\ \A i \in 1..Len(s) : s[i] # n
  BY <1>1, <1>3 DEF ring!Free
<1>5. /\ g \in Heaps
      /\ g.next = [h.next EXCEPT ![n] = q, ![p] = n]
      /\ g.prev = [h.prev EXCEPT ![n] = p, ![q] = n]
      /\ g.value = [h.value EXCEPT ![n] = v] /\ g.owner = [h.owner EXCEPT ![n] = h.alloc_[l]]
      /\ g.size_ = [h.size_ EXCEPT ![l] = @ + 1] /\ g.alloc_ = h.alloc_
  BY <1>2, <1>3 DEF Emplaces
<1>6. /\ h.next \in [Places -> Places] /\ h.prev \in [Places -> Places]
      /\ h.value \in [RingNodes -> Items \cup {Taken, None}] /\ h.owner \in [RingNodes -> Allocators \cup {None}]
      /\ h.size_ \in [ring!Sentinels -> Int]
  BY <1>1 DEF Heaps
<1>. PICK t : t = With(s, k, n)
  OBVIOUS
<1>. PICK c : c = With(C[l], k, v)
  OBVIOUS
<1>7. t \in Seq(RingNodes) /\ Len(t) = Len(s) + 1 /\ c \in Seq(Items \cup {Taken}) /\ Len(c) = Len(s) + 1
  <2>1. t \in Seq(RingNodes) /\ Len(t) = Len(s) + 1
    BY <1>1, <1>4, WithIs
  <2>2. c \in Seq(Items \cup {Taken}) /\ Len(c) = Len(C[l]) + 1
    <3>. PICK d \in Seq(Items \cup {Taken}) : d = C[l]
      BY <1>1
    <3>1. k \in 0..Len(d)
      BY <1>1
    <3>2. With(d, k, v) \in Seq(Items \cup {Taken})
      BY <3>1, WithIs, Zenon
    <3>3. Len(With(d, k, v)) = Len(d) + 1
      BY DEF With
    <3>. QED BY <3>2, <3>3
  <2>. QED BY <1>1, <2>1, <2>2
<1>8. /\ \A i \in 1..(Len(s) + 1) : t[i] = IF i <= k THEN s[i] ELSE IF i = k + 1 THEN n ELSE s[i - 1]
      /\ \A i \in 1..(Len(s) + 1) : c[i] = IF i <= k THEN C[l][i] ELSE IF i = k + 1 THEN v ELSE C[l][i - 1]
  BY <1>1 DEF With
<1>9. ASSUME NEW i \in 1..Len(t)
      PROVE  \/ i = k + 1 /\ t[i] = n /\ c[i] = v
             \/ i <= k /\ \E j \in 1..Len(s) : j = i /\ t[i] = s[j] /\ c[i] = C[l][j]
             \/ i > k + 1 /\ \E j \in 1..Len(s) : j = i - 1 /\ t[i] = s[j] /\ c[i] = C[l][j]
  BY <1>1, <1>7, <1>8
<1>10. Distinct(t)
  <2>. SUFFICES ASSUME NEW i \in 1..Len(t), NEW j \in 1..Len(t), t[i] = t[j] PROVE i = j
    BY DEF Distinct
  <2>1. \A x, y \in 1..Len(s) : s[x] = s[y] => x = y
    BY <1>1 DEF Distinct
  <2>2. i \in Int /\ j \in Int /\ k \in Int
    BY <1>1, <1>7
  <2>3. CASE i = k + 1
    BY <1>4, <1>9, <2>2, <2>3
  <2>4. CASE i <= k
    <3>1. t[i] = s[i] /\ i \in 1..Len(s)
      BY <1>9, <2>2, <2>4
    <3>2. CASE j = k + 1
      <4>1. t[j] = n
        BY <1>9, <2>2, <3>2
      <4>. QED BY <1>4, <3>1, <4>1
    <3>3. CASE j <= k
      <4>1. t[j] = s[j] /\ j \in 1..Len(s)
        BY <1>9, <2>2, <3>3
      <4>. QED BY <2>1, <3>1, <4>1
    <3>4. CASE j > k + 1
      <4>1. t[j] = s[j - 1] /\ j - 1 \in 1..Len(s)
        BY <1>9, <2>2, <3>4
      <4>2. i = j - 1
        BY <2>1, <3>1, <4>1
      <4>. QED BY <2>2, <2>4, <3>4, <4>2
    <3>. QED BY <2>2, <3>2, <3>3, <3>4
  <2>5. CASE i > k + 1
    <3>1. t[i] = s[i - 1] /\ i - 1 \in 1..Len(s)
      BY <1>9, <2>2, <2>5
    <3>2. CASE j = k + 1
      <4>1. t[j] = n
        BY <1>9, <2>2, <3>2
      <4>. QED BY <1>4, <3>1, <4>1
    <3>3. CASE j <= k
      <4>1. t[j] = s[j] /\ j \in 1..Len(s)
        BY <1>9, <2>2, <3>3
      <4>2. i - 1 = j
        BY <2>1, <3>1, <4>1
      <4>. QED BY <2>2, <2>5, <3>3, <4>2
    <3>4. CASE j > k + 1
      <4>1. t[j] = s[j - 1] /\ j - 1 \in 1..Len(s)
        BY <1>9, <2>2, <3>4
      <4>2. i - 1 = j - 1
        BY <2>1, <3>1, <4>1
      <4>. QED BY <2>2, <4>2
    <3>. QED BY <2>2, <3>2, <3>3, <3>4
  <2>. QED BY <2>2, <2>3, <2>4, <2>5
<1>11. Linked(g.next, g.prev, l, t)
  <2>1. k \in 0..Len(s)
    BY <1>1
  <2>2. Linked([h.next EXCEPT ![n] = At(l, s, k + 1), ![At(l, s, k)] = n],
               [h.prev EXCEPT ![n] = At(l, s, k), ![At(l, s, k + 1)] = n], l, With(s, k, n))
    BY <1>1, <1>4, <1>6, <2>1, LinkIn
  <2>. QED BY <1>5, <2>2
<1>12. Sound(g, l, t, c)
  <2>1. \A i \in 1..Len(s) : h.value[s[i]] = C[l][i] /\ h.owner[s[i]] = h.alloc_[l]
    BY DEF Good, Sound
  <2>2. g.size_[l] = Len(t)
    <3>1. h.size_[l] = Len(s)
      BY DEF Good, Sound
    <3>. QED BY <1>5, <1>6, <1>7, <3>1
  <2>3. ASSUME NEW i \in 1..Len(t) PROVE g.value[t[i]] = c[i] /\ g.owner[t[i]] = g.alloc_[l]
    <3>1. CASE t[i] = n /\ c[i] = v
      BY <1>4, <1>5, <1>6, <3>1
    <3>2. CASE \E j \in 1..Len(s) : t[i] = s[j] /\ c[i] = C[l][j]
      BY <1>1, <1>4, <1>5, <1>6, <2>1, <3>2
    <3>. QED BY <1>9, <3>1, <3>2
  <2>. QED BY <1>7, <1>11, <2>2, <2>3 DEF Sound
<1>13. ASSUME NEW o \in ring!Sentinels, o # l
       PROVE  /\ Sound(g, o, R[o], C[o])
              /\ \A i \in 1..Len(t), j \in 1..Len(R[o]) : t[i] # R[o][j]
  <2>1. \A i \in Int : At(o, R[o], i) # n /\ At(o, R[o], i) # p /\ At(o, R[o], i) # q
    <3>1. \A i, j \in Int : At(l, s, i) # At(o, R[o], j)
      BY <1>13, PlacesApart
    <3>2. \A j \in 1..Len(R[o]) : R[o][j] # n
      BY <1>3, RingTypes
    <3>3. \A i \in Int : At(o, R[o], i) # n
      BY <1>4, <3>2, Addresses DEF At
    <3>4. k \in Int /\ k + 1 \in Int
      OBVIOUS
    <3>. QED BY <3>1, <3>3, <3>4
  <2>2. \A i \in Int : At(o, R[o], i) \in Places
    BY RingTypes, AtPlaces
  <2>3. \A i \in Int : /\ g.next[At(o, R[o], i)] = h.next[At(o, R[o], i)]
                       /\ g.prev[At(o, R[o], i)] = h.prev[At(o, R[o], i)]
    BY <1>5, <1>6, <2>1, <2>2
  <2>4. \A j \in 1..Len(R[o]) : R[o][j] # n /\ R[o][j] \in RingNodes
    BY <1>3, RingTypes
  <2>5. \A j \in 1..Len(R[o]) : g.value[R[o][j]] = h.value[R[o][j]] /\ g.owner[R[o][j]] = h.owner[R[o][j]]
    BY <1>5, <1>6, <2>4
  <2>6. g.size_[o] = h.size_[o] /\ g.alloc_[o] = h.alloc_[o]
    BY <1>5, <1>6, <1>13
  <2>7. Sound(g, o, R[o], C[o])
    BY <2>3, <2>5, <2>6, SoundOther
  <2>8. \A i \in 1..Len(s), j \in 1..Len(R[o]) : s[i] # R[o][j]
    BY <1>13 DEF Good, Apart
  <2>9. \A i \in 1..Len(t), j \in 1..Len(R[o]) : t[i] # R[o][j]
    BY <1>9, <2>4, <2>8
  <2>. QED BY <2>7, <2>9
<1>14. ASSUME NEW x \in RingNodes
       PROVE  g.owner[x] # None <=> \/ \E i \in 1..Len(t) : x = t[i]
                                    \/ \E o \in ring!Sentinels : o # l /\ \E i \in 1..Len(R[o]) : x = R[o][i]
  <2>1. g.owner[x] # None <=> x = n \/ h.owner[x] # None
    BY <1>4, <1>5, <1>6, Addresses
  <2>2. h.owner[x] # None <=> \E o \in ring!Sentinels : \E i \in 1..Len(R[o]) : x = R[o][i]
    BY DEF Good, Reached
  <2>3. (\E i \in 1..Len(t) : x = t[i]) <=> x = n \/ \E i \in 1..Len(s) : x = s[i]
    <3>1. t[k + 1] = n /\ k + 1 \in 1..Len(t)
      BY <1>1, <1>7, <1>8
    <3>2. ASSUME NEW i \in 1..Len(s) PROVE \E j \in 1..Len(t) : t[j] = s[i]
      <4>1. CASE i <= k
        <5>1. i \in 1..Len(t) /\ i \in 1..(Len(s) + 1)
          BY <1>1, <1>7
        <5>. QED BY <1>8, <4>1, <5>1
      <4>2. CASE i > k
        <5>1. i + 1 \in 1..Len(t) /\ ~ (i + 1 <= k) /\ i + 1 # k + 1 /\ (i + 1) - 1 = i
          BY <1>1, <1>7, <4>2
        <5>. QED BY <1>7, <1>8, <5>1
      <4>. QED BY <1>1, <4>1, <4>2
    <3>3. ASSUME NEW i \in 1..Len(t) PROVE t[i] = n \/ \E j \in 1..Len(s) : t[i] = s[j]
      BY <1>9
    <3>4. ASSUME x = n \/ \E i \in 1..Len(s) : x = s[i] PROVE \E i \in 1..Len(t) : x = t[i]
      <4>1. CASE x = n
        BY <3>1, <4>1
      <4>2. CASE \E i \in 1..Len(s) : x = s[i]
        <5>. PICK i \in 1..Len(s) : x = s[i]
          BY <4>2
        <5>1. \E j \in 1..Len(t) : t[j] = s[i]
          BY <3>2
        <5>. QED BY <5>1
      <4>. QED BY <3>4, <4>1, <4>2
    <3>5. ASSUME NEW i \in 1..Len(t), x = t[i] PROVE x = n \/ \E j \in 1..Len(s) : x = s[j]
      BY <3>3, <3>5
    <3>. QED BY <3>4, <3>5
  <2>. QED BY <2>1, <2>2, <2>3
<1>15. Good(g, [R EXCEPT ![l] = t], [C EXCEPT ![l] = c])
  <2>1. \A o \in ring!Sentinels : o # l =>
           /\ Sound(g, o, R[o], C[o])
           /\ \A i \in 1..Len(t), j \in 1..Len(R[o]) : t[i] # R[o][j]
    BY <1>13
  <2>2. \A x \in RingNodes : g.owner[x] # None <=>
           \/ \E i \in 1..Len(t) : x = t[i]
           \/ \E o \in ring!Sentinels : o # l /\ \E i \in 1..Len(R[o]) : x = R[o][i]
    BY <1>14
  <2>3. OnlyChanges(R, C, l, g, t, c)
    BY <1>5, <1>7, <1>10, <1>12, <2>1, <2>2 DEF OnlyChanges
  <2>. QED BY <2>3, OneChanges
<1>16. ring!Free(g) = ring!Free(h) \ {n}
  BY <1>4, <1>5, <1>6, Addresses DEF ring!Free
<1>. QED BY <1>4, <1>5, <1>15, <1>16 DEF Emplaced
LEMMA EraseGood ==
  ASSUME NEW h, NEW R, NEW C, Good(h, R, C), NEW l \in ring!Sentinels, NEW k \in 1..Len(R[l]),
         NEW g, g = ring!erase(h, l, R[l][k])
  PROVE  /\ Good(g, [R EXCEPT ![l] = Without(R[l], k)], [C EXCEPT ![l] = Without(C[l], k)])
         /\ g.alloc_ = h.alloc_
<1>. PICK s : s = R[l]
  OBVIOUS
<1>. PICK n : n = s[k]
  OBVIOUS
<1>. PICK q : q = At(l, s, k + 1)
  OBVIOUS
<1>. PICK p : p = At(l, s, k - 1)
  OBVIOUS
<1>1. /\ h \in Heaps /\ s \in Seq(RingNodes) /\ C[l] \in Seq(Items \cup {Taken})
      /\ Len(s) \in Nat /\ Len(C[l]) = Len(s) /\ Distinct(s) /\ Linked(h.next, h.prev, l, s)
      /\ \A i \in 1..Len(s) : s[i] \in RingNodes
      /\ k \in 1..Len(s) /\ k \in Nat /\ k <= Len(s) /\ k >= 1
  BY RingTypes
<1>2. n \in RingNodes /\ n \in Places /\ n = At(l, s, k)
  BY <1>1 DEF Places, At
<1>3. q \in Places /\ p \in Places /\ h.next[n] = q /\ h.prev[n] = p
  <2>1. k \in 0..Len(s) /\ k - 1 \in 0..Len(s) /\ (k - 1) + 1 = k /\ k - 1 \in Int /\ k + 1 \in Int
    BY <1>1
  <2>. QED BY <1>1, <1>2, <2>1, AtPlaces DEF Linked
<1>4. Erases(h, l, n, g)
  BY <1>1, <1>2, EraseFields
<1>5. /\ g \in Heaps
      /\ g.next = [h.next EXCEPT ![p] = q, ![n] = n]
      /\ g.prev = [h.prev EXCEPT ![q] = p, ![n] = n]
      /\ g.value = [h.value EXCEPT ![n] = None] /\ g.owner = [h.owner EXCEPT ![n] = None]
      /\ g.size_ = [h.size_ EXCEPT ![l] = @ - 1] /\ g.alloc_ = h.alloc_
  BY <1>3, <1>4 DEF Erases
<1>6. /\ h.next \in [Places -> Places] /\ h.prev \in [Places -> Places]
      /\ h.value \in [RingNodes -> Items \cup {Taken, None}] /\ h.owner \in [RingNodes -> Allocators \cup {None}]
      /\ h.size_ \in [ring!Sentinels -> Int]
  BY <1>1 DEF Heaps
<1>. PICK t : t = Without(s, k)
  OBVIOUS
<1>. PICK c : c = Without(C[l], k)
  OBVIOUS
<1>7. t \in Seq(RingNodes) /\ Len(t) = Len(s) - 1 /\ c \in Seq(Items \cup {Taken}) /\ Len(c) = Len(s) - 1
  <2>1. t \in Seq(RingNodes) /\ Len(t) = Len(s) - 1
    BY <1>1, WithoutIs
  <2>2. c \in Seq(Items \cup {Taken}) /\ Len(c) = Len(C[l]) - 1
    <3>. PICK d \in Seq(Items \cup {Taken}) : d = C[l]
      BY <1>1
    <3>1. k \in 1..Len(d)
      BY <1>1
    <3>2. Without(d, k) \in Seq(Items \cup {Taken})
      BY <3>1, WithoutIs, Zenon
    <3>3. Len(Without(d, k)) = Len(d) - 1
      BY <1>1 DEF Without
    <3>. QED BY <3>2, <3>3
  <2>. QED BY <1>1, <2>1, <2>2
<1>8. /\ \A i \in 1..(Len(s) - 1) : t[i] = IF i < k THEN s[i] ELSE s[i + 1]
      /\ \A i \in 1..(Len(s) - 1) : c[i] = IF i < k THEN C[l][i] ELSE C[l][i + 1]
  BY <1>1 DEF Without
<1>9. ASSUME NEW i \in 1..Len(t)
      PROVE  \/ i < k /\ i \in 1..Len(s) /\ t[i] = s[i] /\ c[i] = C[l][i]
             \/ i >= k /\ i + 1 \in 1..Len(s) /\ t[i] = s[i + 1] /\ c[i] = C[l][i + 1]
  <2>1. i \in 1..(Len(s) - 1) /\ i \in 1..Len(s) /\ i + 1 \in 1..Len(s) /\ (i < k \/ i >= k)
    BY <1>1, <1>7
  <2>2. CASE i < k
    BY <1>8, <2>1, <2>2
  <2>3. CASE i >= k
    <3>1. ~ (i < k)
      BY <1>1, <2>1, <2>3
    <3>. QED BY <1>8, <2>1, <2>3, <3>1
  <2>. QED BY <2>1, <2>2, <2>3
<1>10. \A i, j \in 1..Len(s) : s[i] = s[j] => i = j
  BY <1>1 DEF Distinct
<1>11. ASSUME NEW i \in 1..Len(t) PROVE t[i] # n /\ \E j \in 1..Len(s) : t[i] = s[j] /\ c[i] = C[l][j]
  <2>1. i \in Int /\ k \in Int
    BY <1>1, <1>7
  <2>2. CASE i < k /\ i \in 1..Len(s) /\ t[i] = s[i] /\ c[i] = C[l][i]
    BY <1>1, <1>10, <2>1, <2>2
  <2>3. CASE i >= k /\ i + 1 \in 1..Len(s) /\ t[i] = s[i + 1] /\ c[i] = C[l][i + 1]
    <3>1. i + 1 # k
      BY <2>1, <2>3
    <3>. QED BY <1>1, <1>10, <2>3, <3>1
  <2>. QED BY <1>9, <2>2, <2>3
<1>12. Distinct(t)
  <2>. SUFFICES ASSUME NEW i \in 1..Len(t), NEW j \in 1..Len(t), t[i] = t[j] PROVE i = j
    BY DEF Distinct
  <2>1. i \in Int /\ j \in Int /\ k \in Int
    BY <1>1, <1>7
  <2>2. ASSUME NEW e \in 1..Len(t)
        PROVE  \E x \in 1..Len(s) : t[e] = s[x] /\ ((e < k /\ x = e) \/ (e >= k /\ x = e + 1))
    <3>1. CASE e < k /\ e \in 1..Len(s) /\ t[e] = s[e]
      BY <3>1
    <3>2. CASE e >= k /\ e + 1 \in 1..Len(s) /\ t[e] = s[e + 1]
      BY <3>2
    <3>. QED BY <1>9, <3>1, <3>2
  <2>3. PICK x \in 1..Len(s) : t[i] = s[x] /\ ((i < k /\ x = i) \/ (i >= k /\ x = i + 1))
    BY <2>2
  <2>4. PICK y \in 1..Len(s) : t[j] = s[y] /\ ((j < k /\ y = j) \/ (j >= k /\ y = j + 1))
    BY <2>2
  <2>5. x = y
    BY <1>10, <2>3, <2>4
  <2>. QED BY <2>1, <2>3, <2>4, <2>5
<1>13. Linked(g.next, g.prev, l, t)
  <2>1. k \in 1..Len(s)
    BY <1>1
  <2>2. Linked([h.next EXCEPT ![At(l, s, k - 1)] = At(l, s, k + 1), ![s[k]] = s[k]],
               [h.prev EXCEPT ![At(l, s, k + 1)] = At(l, s, k - 1), ![s[k]] = s[k]], l, Without(s, k))
    BY <1>1, <1>6, <2>1, LinkOut
  <2>. QED BY <1>5, <2>2
<1>14. Sound(g, l, t, c)
  <2>1. \A i \in 1..Len(s) : h.value[s[i]] = C[l][i] /\ h.owner[s[i]] = h.alloc_[l]
    BY DEF Good, Sound
  <2>2. g.size_[l] = Len(t)
    <3>1. h.size_[l] = Len(s)
      BY DEF Good, Sound
    <3>. QED BY <1>5, <1>6, <1>7, <3>1
  <2>3. ASSUME NEW i \in 1..Len(t) PROVE g.value[t[i]] = c[i] /\ g.owner[t[i]] = g.alloc_[l]
    <3>. PICK j \in 1..Len(s) : t[i] = s[j] /\ c[i] = C[l][j]
      BY <1>11
    <3>1. s[j] # n /\ s[j] \in RingNodes
      BY <1>1, <1>11
    <3>2. g.value[s[j]] = h.value[s[j]] /\ g.owner[s[j]] = h.owner[s[j]]
      BY <1>5, <1>6, <3>1
    <3>. QED BY <1>5, <2>1, <3>2
  <2>. QED BY <1>7, <1>13, <2>2, <2>3 DEF Sound
<1>15. ASSUME NEW o \in ring!Sentinels, o # l
       PROVE  /\ Sound(g, o, R[o], C[o])
              /\ \A i \in 1..Len(t), j \in 1..Len(R[o]) : t[i] # R[o][j]
  <2>1. \A i \in Int : At(o, R[o], i) # n /\ At(o, R[o], i) # p /\ At(o, R[o], i) # q
    <3>1. \A i, j \in Int : At(l, s, i) # At(o, R[o], j)
      BY <1>15, PlacesApart
    <3>2. k \in Int /\ k + 1 \in Int /\ k - 1 \in Int
      BY <1>1
    <3>. QED BY <1>2, <3>1, <3>2
  <2>2. \A i \in Int : At(o, R[o], i) \in Places
    BY RingTypes, AtPlaces
  <2>3. \A i \in Int : /\ g.next[At(o, R[o], i)] = h.next[At(o, R[o], i)]
                       /\ g.prev[At(o, R[o], i)] = h.prev[At(o, R[o], i)]
    BY <1>5, <1>6, <2>1, <2>2
  <2>4. \A j \in 1..Len(R[o]) : R[o][j] # n /\ R[o][j] \in RingNodes
    <3>1. \A i \in 1..Len(s), j \in 1..Len(R[o]) : s[i] # R[o][j]
      BY <1>15 DEF Good, Apart
    <3>. QED BY <1>1, <3>1, RingTypes
  <2>5. \A j \in 1..Len(R[o]) : g.value[R[o][j]] = h.value[R[o][j]] /\ g.owner[R[o][j]] = h.owner[R[o][j]]
    BY <1>5, <1>6, <2>4
  <2>6. g.size_[o] = h.size_[o] /\ g.alloc_[o] = h.alloc_[o]
    BY <1>5, <1>6, <1>15
  <2>7. Sound(g, o, R[o], C[o])
    BY <2>3, <2>5, <2>6, SoundOther
  <2>8. \A i \in 1..Len(s), j \in 1..Len(R[o]) : s[i] # R[o][j]
    BY <1>15 DEF Good, Apart
  <2>9. \A i \in 1..Len(t), j \in 1..Len(R[o]) : t[i] # R[o][j]
    BY <1>11, <2>8
  <2>. QED BY <2>7, <2>9
<1>16. ASSUME NEW x \in RingNodes
       PROVE  g.owner[x] # None <=> \/ \E i \in 1..Len(t) : x = t[i]
                                    \/ \E o \in ring!Sentinels : o # l /\ \E i \in 1..Len(R[o]) : x = R[o][i]
  <2>1. g.owner[x] # None <=> x # n /\ h.owner[x] # None
    BY <1>5, <1>6
  <2>2. h.owner[x] # None <=> \E o \in ring!Sentinels : \E i \in 1..Len(R[o]) : x = R[o][i]
    BY DEF Good, Reached
  <2>3. ASSUME NEW i \in 1..Len(s), i # k PROVE \E j \in 1..Len(t) : t[j] = s[i]
    <3>1. CASE i < k
      <4>1. i \in 1..Len(t) /\ i \in 1..(Len(s) - 1)
        BY <1>1, <1>7, <3>1
      <4>. QED BY <1>8, <3>1, <4>1
    <3>2. CASE i > k
      <4>1. i - 1 \in 1..Len(t) /\ i - 1 \in 1..(Len(s) - 1) /\ ~ (i - 1 < k) /\ (i - 1) + 1 = i
        BY <1>1, <1>7, <3>2
      <4>. QED BY <1>8, <4>1
    <3>. QED BY <1>1, <2>3, <3>1, <3>2
  <2>4. ASSUME g.owner[x] # None
        PROVE  \/ \E i \in 1..Len(t) : x = t[i]
               \/ \E o \in ring!Sentinels : o # l /\ \E i \in 1..Len(R[o]) : x = R[o][i]
    <3>. PICK o \in ring!Sentinels : \E i \in 1..Len(R[o]) : x = R[o][i]
      BY <2>1, <2>2, <2>4
    <3>1. CASE o = l
      <4>. PICK i \in 1..Len(s) : x = s[i]
        BY <3>1
      <4>1. i # k
        BY <2>1, <2>4
      <4>2. \E j \in 1..Len(t) : t[j] = s[i]
        BY <2>3, <4>1
      <4>. QED BY <4>2
    <3>. QED BY <3>1
  <2>5. ASSUME NEW i \in 1..Len(t), x = t[i] PROVE g.owner[x] # None
    <3>1. x # n /\ \E j \in 1..Len(s) : x = s[j]
      BY <1>11, <2>5
    <3>. QED BY <2>1, <2>2, <3>1
  <2>6. ASSUME NEW o \in ring!Sentinels, o # l, NEW i \in 1..Len(R[o]), x = R[o][i] PROVE g.owner[x] # None
    <3>1. x # n
      BY <1>1, <2>6 DEF Good, Apart
    <3>. QED BY <2>1, <2>2, <2>6, <3>1
  <2>. QED BY <2>4, <2>5, <2>6
<1>17. Good(g, [R EXCEPT ![l] = t], [C EXCEPT ![l] = c])
  <2>1. \A o \in ring!Sentinels : o # l =>
           /\ Sound(g, o, R[o], C[o])
           /\ \A i \in 1..Len(t), j \in 1..Len(R[o]) : t[i] # R[o][j]
    BY <1>15
  <2>2. \A x \in RingNodes : g.owner[x] # None <=>
           \/ \E i \in 1..Len(t) : x = t[i]
           \/ \E o \in ring!Sentinels : o # l /\ \E i \in 1..Len(R[o]) : x = R[o][i]
    BY <1>16
  <2>3. OnlyChanges(R, C, l, g, t, c)
    BY <1>5, <1>7, <1>12, <1>14, <2>1, <2>2 DEF OnlyChanges
  <2>. QED BY <2>3, OneChanges
<1>. QED BY <1>5, <1>17

(* A walk from the sentinel until it is back meets the nodes of the list. *)
LEMMA RingIs ==
  ASSUME NEW h, NEW R, NEW C, Good(h, R, C), NEW l \in ring!Sentinels
  PROVE  ring!Ring(h, l) = R[l] /\ ring!Contents(h, l) = C[l]
<1>. PICK s : s = R[l]
  OBVIOUS
<1>. PICK N : N = ring!Cardinality(RingNodes)
  OBVIOUS
<1>1. /\ h \in Heaps /\ s \in Seq(RingNodes) /\ C[l] \in Seq(Items \cup {Taken})
      /\ Len(s) \in Nat /\ Len(C[l]) = Len(s) /\ Distinct(s) /\ Linked(h.next, h.prev, l, s)
  BY RingTypes
<1>2. N \in Nat /\ Len(s) <= N
  <2>1. ring!Cardinality(RingNodes) = Cardinality(RingNodes)
    BY DEF ring!Cardinality, Cardinality
  <2>2. s \in Injection(1..Len(s), RingNodes)
    BY <1>1 DEF Injection, IsInjective, Distinct
  <2>3. Cardinality(1..Len(s)) = Len(s) /\ IsFiniteSet(1..Len(s))
    BY <1>1, UpTo
  <2>4. Cardinality(1..Len(s)) <= Cardinality(RingNodes)
    BY <2>2, <2>3, FS_Injection, Addresses DEF ExistsInjection
  <2>5. Cardinality(RingNodes) \in Nat
    BY Addresses, FS_CardinalityType
  <2>. QED BY <2>1, <2>3, <2>4, <2>5
<1>3. h.next \in [Places -> Places] /\ l \in Places
  BY <1>1 DEF Heaps, Places
<1>. DEFINE at[i \in 0..N] == IF i = 0 THEN l ELSE h.next[at[i - 1]]
<1>4. at[0] = l /\ \A i \in 1..N : at[i] = h.next[at[i - 1]]
  <2>10. PICK F : F = [p \in Places \X (1..N) |-> h.next[p[1]]]
    OBVIOUS
  <2>1. F \in [Places \X (1..N) -> Places]
    BY <1>3, <2>10
  <2>2. \A x \in Places, i \in 1..N : F[<<x, i>>] = h.next[x]
    BY <2>10
  <2>3. PICK f \in [0..N -> Places] : f[0] = l /\ \A i \in 1..N : f[i] = F[<<f[i - 1], i>>]
    <3>1. N \in Nat /\ l \in Places
      BY <1>2, <1>3
    <3>2. Iterated(Places, l, N, F)
      BY <2>1, <3>1, RecursionExists
    <3>. QED BY <3>2 DEF Iterated
  <2>4. \A i \in 1..N : i - 1 \in 0..N
    BY <1>2
  <2>5. \A i \in 1..N : f[i] = h.next[f[i - 1]]
    BY <2>2, <2>3, <2>4
  <2>6. \A i \in 0..N : i # 0 => i \in 1..N
    BY <1>2
  <2>7. f = [i \in 0..N |-> IF i = 0 THEN l ELSE h.next[f[i - 1]]]
    BY <2>3, <2>5, <2>6
  <2>8. at = [i \in 0..N |-> IF i = 0 THEN l ELSE h.next[at[i - 1]]]
    <3>1. \E e : e = [i \in 0..N |-> IF i = 0 THEN l ELSE h.next[e[i - 1]]]
      BY <2>7
    <3>. QED BY <3>1, Zenon
  <2>. HIDE DEF at
  <2>9. 0 \in 0..N /\ \A i \in 1..N : i \in 0..N /\ i # 0
    BY <1>2
  <2>. QED BY <2>8, <2>9
<1>. HIDE DEF at
<1>5. \A i \in 0..N : i <= Len(s) + 1 => at[i] = At(l, s, i)
  <2>. DEFINE T == {i \in Nat : i \in 0..N /\ i <= Len(s) + 1 => at[i] = At(l, s, i)}
  <2>1. 0 \in T
    BY <1>4 DEF At, T
  <2>. HIDE DEF T
  <2>2. ASSUME NEW i \in T PROVE i + 1 \in T
    <3>0. i \in Nat /\ (i \in 0..N /\ i <= Len(s) + 1 => at[i] = At(l, s, i))
      BY DEF T
    <3>1. SUFFICES ASSUME i + 1 \in 0..N, i + 1 <= Len(s) + 1 PROVE at[i + 1] = At(l, s, i + 1)
      BY <3>0 DEF T
    <3>2. i \in 0..Len(s) /\ i \in 0..N /\ i <= Len(s) + 1 /\ i + 1 \in 1..N /\ (i + 1) - 1 = i
      BY <1>1, <1>2, <3>0, <3>1
    <3>3. at[i] = At(l, s, i) /\ h.next[At(l, s, i)] = At(l, s, i + 1)
      BY <1>1, <3>0, <3>2 DEF Linked
    <3>4. at[i + 1] = h.next[at[i]]
      BY <1>4, <3>2
    <3>. QED BY <3>3, <3>4
  <2>3. T = Nat
    <3>1. T \in SUBSET Nat
      BY DEF T
    <3>. QED BY <2>1, <2>2, <3>1, SetInduction
  <2>. SUFFICES ASSUME NEW i \in 0..N, i <= Len(s) + 1 PROVE at[i] = At(l, s, i)
    OBVIOUS
  <2>4. i \in T
    BY <1>2, <2>3
  <2>. QED BY <2>4 DEF T
<1>6. \A i \in 1..Len(s) : at[i] = s[i] /\ at[i] # l
  <2>1. \A i \in 1..Len(s) : i \in 0..N /\ i <= Len(s) + 1 /\ s[i] \in RingNodes
    BY <1>1, <1>2
  <2>. QED BY <1>5, <2>1, Addresses DEF At
<1>7. Len(s) + 1 \in 0..N => at[Len(s) + 1] = l
  <2>1. Len(s) + 1 <= Len(s) + 1 /\ Len(s) + 1 \notin 1..Len(s)
    BY <1>1
  <2>. QED BY <1>5, <2>1 DEF At
<1>8. {j \in 1..N : l \notin {at[m] : m \in 1..j}} = 1..Len(s)
  <2>1. ASSUME NEW j \in 1..Len(s) PROVE j \in 1..N /\ l \notin {at[m] : m \in 1..j}
    <3>1. j \in 1..N /\ \A m \in 1..j : m \in 1..Len(s)
      BY <1>1, <1>2
    <3>. QED BY <1>6, <3>1
  <2>2. ASSUME NEW j \in 1..N, j \notin 1..Len(s) PROVE l \in {at[m] : m \in 1..j}
    <3>1. Len(s) + 1 \in 1..j /\ Len(s) + 1 \in 0..N
      BY <1>1, <1>2, <2>2
    <3>2. at[Len(s) + 1] = l
      BY <1>7, <3>1
    <3>. QED BY <3>1, <3>2
  <2>. QED BY <2>1, <2>2
<1>9. ring!Ring(h, l) = [i \in {j \in 1..N : l \notin {at[m] : m \in 1..j}} |-> at[i]]
  BY DEF ring!Ring, at
<1>10. ring!Ring(h, l) = s
  BY <1>1, <1>6, <1>8, <1>9
<1>11. ring!Contents(h, l) = [i \in 1..Len(s) |-> h.value[s[i]]]
  BY <1>1, <1>10 DEF ring!Contents
<1>12. \A i \in 1..Len(s) : h.value[s[i]] = C[l][i]
  BY DEF Good, Sound
<1>13. ring!Contents(h, l) = C[l]
  <2>. PICK d \in Seq(Items \cup {Taken}) : d = C[l]
    BY <1>1
  <2>. PICK e : e = [i \in 1..Len(s) |-> h.value[s[i]]]
    OBVIOUS
  <2>1. Len(d) = Len(s) /\ Len(e) = Len(d) /\ \A i \in 1..Len(e) : e[i] = d[i]
    BY <1>1, <1>12
  <2>2. e \in Seq(Items \cup {Taken})
    <3>1. \A i \in 1..Len(s) : h.value[s[i]] \in Items \cup {Taken}
      BY <1>1, <1>12
    <3>. QED BY <1>1, <3>1
  <2>3. Len(e) = Len(d)
    BY <2>1
  <2>4. \A i \in 1..Len(e) : e[i] = d[i]
    BY <2>1
  <2>5. e = d
    <3>. PICK S : S = Items \cup {Taken}
      OBVIOUS
    <3>1. d \in Seq(S)
      OBVIOUS
    <3>2. e \in Seq(S)
      BY <2>2
    <3>. QED BY ONLY <2>3, <2>4, <3>1, <3>2, SeqEqual
  <2>. QED BY <1>11, <2>5
<1>. QED BY <1>10, <1>13

-----------------------------------------------------------------------------
(* m elements leave s from the i-th on. *)

Cut(s, i, m) == [x \in 1..(Len(s) - m) |-> IF x < i THEN s[x] ELSE s[x + m]]

LEMMA CutIs ==
  ASSUME NEW S, NEW s \in Seq(S), NEW i \in 1..Len(s), NEW m \in 0..(Len(s) - i + 1)
  PROVE  /\ Cut(s, i, m) \in Seq(S) /\ Len(Cut(s, i, m)) = Len(s) - m
         /\ \A x \in 1..(Len(s) - m) : Cut(s, i, m)[x] = IF x < i THEN s[x] ELSE s[x + m]
<1>1. Len(s) \in Nat /\ i \in Nat /\ m \in Nat /\ Len(s) - m \in Nat /\ 1 <= i /\ i <= Len(s) /\ m <= Len(s) - i + 1
  OBVIOUS
<1>2. \A x \in 1..(Len(s) - m) : (IF x < i THEN s[x] ELSE s[x + m]) \in S
  <2>. SUFFICES ASSUME NEW x \in 1..(Len(s) - m) PROVE (IF x < i THEN s[x] ELSE s[x + m]) \in S
    OBVIOUS
  <2>1. x \in 1..Len(s) /\ x + m \in 1..Len(s)
    BY <1>1
  <2>. QED BY <2>1
<1>. QED BY <1>1, <1>2 DEF Cut

LEMMA CutNone ==
  ASSUME NEW S, NEW s \in Seq(S), NEW i \in 1..Len(s)
  PROVE  Cut(s, i, 0) = s
<1>1. 0 \in 0..(Len(s) - i + 1) /\ Len(s) \in Nat /\ Len(s) - 0 = Len(s)
  OBVIOUS
<1>2. PICK c : c = Cut(s, i, 0)
  OBVIOUS
<1>3. c \in Seq(S) /\ Len(c) = Len(s)
  BY <1>1, <1>2, CutIs
<1>4. \A x \in 1..Len(s) : c[x] = s[x]
  BY <1>1, <1>2 DEF Cut
<1>5. c = s
  BY <1>3, <1>4, SeqEqual
<1>. QED BY <1>2, <1>5

LEMMA CutOne ==
  ASSUME NEW S, NEW s \in Seq(S), NEW i \in 1..Len(s), NEW m \in 0..(Len(s) - i)
  PROVE  Without(Cut(s, i, m), i) = Cut(s, i, m + 1) /\ i \in 1..Len(Cut(s, i, m)) /\ Cut(s, i, m)[i] = s[i + m]
<1>1. /\ Len(s) \in Nat /\ i \in Nat /\ m \in Nat /\ m \in 0..(Len(s) - i + 1)
      /\ i \in 1..(Len(s) - m) /\ (Len(s) - m) - 1 = Len(s) - (m + 1)
  OBVIOUS
<1>2. /\ Len(Cut(s, i, m)) = Len(s) - m
      /\ \A x \in 1..(Len(s) - m) : Cut(s, i, m)[x] = IF x < i THEN s[x] ELSE s[x + m]
  BY <1>1 DEF Cut
<1>3. ASSUME NEW x \in 1..(Len(s) - (m + 1))
      PROVE  (IF x < i THEN Cut(s, i, m)[x] ELSE Cut(s, i, m)[x + 1]) = IF x < i THEN s[x] ELSE s[x + (m + 1)]
  <2>1. x \in 1..(Len(s) - m) /\ x + 1 \in 1..(Len(s) - m) /\ (x + 1) + m = x + (m + 1)
    BY <1>1
  <2>2. CASE x < i
    BY <1>2, <2>1, <2>2
  <2>3. CASE ~ (x < i)
    <3>1. ~ (x + 1 < i)
      BY <1>1, <2>1, <2>3
    <3>. QED BY <1>2, <2>1, <2>3, <3>1
  <2>. QED BY <2>2, <2>3
<1>4. Without(Cut(s, i, m), i) = [x \in 1..(Len(s) - (m + 1)) |-> IF x < i THEN s[x] ELSE s[x + (m + 1)]]
  BY <1>1, <1>2, <1>3 DEF Without
<1>5. Without(Cut(s, i, m), i) = Cut(s, i, m + 1)
  BY <1>4 DEF Cut
<1>6. Cut(s, i, m)[i] = s[i + m] /\ i \in 1..Len(Cut(s, i, m))
  BY <1>1, <1>2
<1>. QED BY <1>5, <1>6

LEMMA CutJoins ==
  ASSUME NEW S, NEW s \in Seq(S), NEW i \in 1..Len(s), NEW j \in i..Len(s)
  PROVE  Cut(s, i, j - i + 1) = SubSeq(s, 1, i - 1) \o SubSeq(s, j + 1, Len(s))
<1>1. PICK m : m = j - i + 1
  OBVIOUS
<1>2. PICK u : u = SubSeq(s, 1, i - 1)
  OBVIOUS
<1>3. PICK w : w = SubSeq(s, j + 1, Len(s))
  OBVIOUS
<1>4. PICK n : n = Len(s) - j
  OBVIOUS
<1>5. PICK r : r = u \o w
  OBVIOUS
<1>6. PICK c : c = Cut(s, i, m)
  OBVIOUS
<1>7. /\ Len(s) \in Nat /\ i \in Nat /\ j \in Nat /\ i >= 1 /\ i <= j /\ j <= Len(s) /\ i - 1 \in Nat /\ n \in Nat
      /\ m \in 0..(Len(s) - i + 1) /\ Len(s) - m = (i - 1) + n /\ j = i - 1 + m
  BY <1>1, <1>4
<1>8. u \in Seq(S) /\ Len(u) = i - 1 /\ \A x \in 1..(i - 1) : u[x] = s[x]
  BY <1>2, <1>7
<1>9. w \in Seq(S) /\ Len(w) = n /\ \A x \in 1..n : w[x] = s[j + x]
  BY <1>3, <1>4, <1>7
<1>10. r \in Seq(S) /\ Len(r) = (i - 1) + n /\ (\A x \in 1..(i - 1) : r[x] = u[x]) /\ \A x \in 1..n : r[(i - 1) + x] = w[x]
  <2>1. u \in Seq(S) /\ w \in Seq(S)
    BY <1>8, <1>9
  <2>2. u \o w \in Seq(S) /\ Len(u \o w) = Len(u) + Len(w)
    BY <2>1, Joined
  <2>3. \A x \in 1..Len(u) : (u \o w)[x] = u[x]
    BY <2>1, Joined
  <2>4. \A x \in 1..Len(w) : (u \o w)[Len(u) + x] = w[x]
    BY <2>1, Joined
  <2>. QED BY <1>5, <1>8, <1>9, <2>2, <2>3, <2>4
<1>11. c \in Seq(S) /\ Len(c) = (i - 1) + n
  BY <1>6, <1>7, CutIs
<1>12. \A x \in 1..((i - 1) + n) : c[x] = IF x < i THEN s[x] ELSE s[x + m]
  BY <1>6, <1>7 DEF Cut
<1>13. ASSUME NEW x \in 1..((i - 1) + n) PROVE c[x] = r[x]
  <2>1. CASE x < i
    <3>1. x \in 1..(i - 1)
      BY <1>7, <2>1
    <3>. QED BY <1>8, <1>10, <1>12, <2>1, <3>1
  <2>2. CASE ~ (x < i)
    <3>1. PICK y : y = x - (i - 1)
      OBVIOUS
    <3>2. y \in 1..n /\ (i - 1) + y = x /\ j + y = x + m
      BY <1>7, <2>2, <3>1
    <3>3. r[(i - 1) + y] = s[j + y]
      BY <1>9, <1>10, <3>2
    <3>. QED BY <1>12, <2>2, <3>2, <3>3
  <2>. QED BY <2>1, <2>2
<1>14. c = r
  BY <1>10, <1>11, <1>13, SeqEqual
<1>. QED BY <1>1, <1>2, <1>3, <1>5, <1>6, <1>14


-----------------------------------------------------------------------------
(* erase(first, last): the nodes leave one by one. *)
LEMMA EraseAllIs ==
  ASSUME NEW h \in Heaps, NEW l \in ring!Sentinels, NEW z \in Seq(RingNodes)
  PROVE  \E f : /\ f \in [0..Len(z) -> Heaps] /\ f[0] = h /\ f[Len(z)] = ring!EraseAll(h, l, z)
                /\ \A i \in 1..Len(z) : f[i] = ring!erase(f[i - 1], l, z[i])
<1>. PICK n : n = Len(z)
  OBVIOUS
<1>1. n \in Nat /\ \A i \in 1..n : z[i] \in RingNodes
  OBVIOUS
<1>. DEFINE after[i \in 0..n] == IF i = 0 THEN h ELSE ring!erase(after[i - 1], l, z[i])
<1>2. PICK F : F = [p \in Heaps \X (1..n) |-> ring!erase(p[1], l, z[p[2]])]
  OBVIOUS
<1>3. \A x \in Heaps, i \in 1..n : ring!erase(x, l, z[i]) \in Heaps
  BY <1>1, EraseFields DEF Erases
<1>4. F \in [Heaps \X (1..n) -> Heaps]
  BY <1>2, <1>3
<1>5. \A x \in Heaps, i \in 1..n : F[<<x, i>>] = ring!erase(x, l, z[i])
  BY <1>2
<1>6. PICK f \in [0..n -> Heaps] : f[0] = h /\ \A i \in 1..n : f[i] = F[<<f[i - 1], i>>]
  <2>1. Iterated(Heaps, h, n, F)
    BY <1>1, <1>4, RecursionExists
  <2>. QED BY <2>1 DEF Iterated
<1>7. \A i \in 1..n : i - 1 \in 0..n
  BY <1>1
<1>8. \A i \in 1..n : f[i] = ring!erase(f[i - 1], l, z[i])
  BY <1>5, <1>6, <1>7
<1>9. \A i \in 0..n : i # 0 => i \in 1..n
  BY <1>1
<1>10. f = [i \in 0..n |-> IF i = 0 THEN h ELSE ring!erase(f[i - 1], l, z[i])]
  BY <1>6, <1>8, <1>9
<1>11. after = [i \in 0..n |-> IF i = 0 THEN h ELSE ring!erase(after[i - 1], l, z[i])]
  <2>1. \E e : e = [i \in 0..n |-> IF i = 0 THEN h ELSE ring!erase(e[i - 1], l, z[i])]
    BY <1>10
  <2>. QED BY <2>1, Zenon
<1>12. ring!EraseAll(h, l, z) = after[n]
  BY DEF ring!EraseAll
<1>. HIDE DEF after
<1>13. after[0] = h /\ \A i \in 1..n : after[i] = ring!erase(after[i - 1], l, z[i])
  <2>1. 0 \in 0..n /\ \A i \in 1..n : i \in 0..n /\ i # 0
    BY <1>1
  <2>. QED BY <1>11, <2>1
<1>14. after \in [0..n -> Heaps]
  <2>. DEFINE T == {i \in Nat : i \in 0..n => after[i] \in Heaps}
  <2>1. 0 \in T
    BY <1>13 DEF T
  <2>. HIDE DEF T
  <2>2. ASSUME NEW i \in T PROVE i + 1 \in T
    <3>1. SUFFICES ASSUME i + 1 \in 0..n PROVE after[i + 1] \in Heaps
      BY DEF T
    <3>2. i \in 0..n /\ i + 1 \in 1..n /\ (i + 1) - 1 = i
      BY <1>1, <3>1 DEF T
    <3>3. after[i] \in Heaps
      BY <3>2 DEF T
    <3>4. after[i + 1] = ring!erase(after[i], l, z[i + 1])
      BY <1>13, <3>2
    <3>. QED BY <1>3, <3>2, <3>3, <3>4
  <2>3. T = Nat
    <3>1. T \in SUBSET Nat
      BY DEF T
    <3>. QED BY <2>1, <2>2, <3>1, SetInduction
  <2>4. \A i \in 0..n : after[i] \in Heaps
    BY <1>1, <2>3 DEF T
  <2>5. \E e : after = [i \in 0..n |-> e[i]]
    BY <1>11, <2>4
  <2>. QED BY <1>11, <2>4
<1>. QED BY <1>12, <1>13, <1>14

LEMMA EraseAllGood ==
  ASSUME NEW h, NEW R, NEW C, Good(h, R, C), NEW l \in ring!Sentinels, NEW i \in 1..Len(R[l]), NEW j \in i..Len(R[l]),
         NEW g, g = ring!EraseAll(h, l, SubSeq(R[l], i, j))
  PROVE  /\ Good(g, [R EXCEPT ![l] = Cut(R[l], i, j - i + 1)], [C EXCEPT ![l] = Cut(C[l], i, j - i + 1)])
         /\ g.alloc_ = h.alloc_
<1>1. PICK s : s = R[l]
  OBVIOUS
<1>2. PICK c : c = C[l]
  OBVIOUS
<1>3. PICK z : z = SubSeq(s, i, j)
  OBVIOUS
<1>4. PICK n : n = j - i + 1
  OBVIOUS
<1>5. PICK S : S = Items \cup {Taken}
  OBVIOUS
<1>6. /\ h \in Heaps /\ s \in Seq(RingNodes) /\ c \in Seq(S) /\ Len(s) \in Nat /\ Len(c) = Len(s)
      /\ \A x \in 1..Len(s) : s[x] \in RingNodes
  BY <1>1, <1>2, <1>5, RingTypes
<1>7. /\ i \in 1..Len(s) /\ j \in i..Len(s) /\ i \in Nat /\ j \in Nat /\ n \in Nat /\ n <= Len(s) - i + 1 /\ i >= 1 /\ j <= Len(s)
      /\ i \in 1..Len(c)
  BY <1>1, <1>4, <1>6
<1>8. z \in Seq(RingNodes) /\ Len(z) = n /\ \A x \in 1..n : z[x] = s[i + x - 1]
  BY <1>3, <1>4, <1>6, <1>7
<1>9. PICK f : /\ f \in [0..n -> Heaps] /\ f[0] = h /\ f[n] = g
               /\ \A x \in 1..n : f[x] = ring!erase(f[x - 1], l, z[x])
  <2>1. g = ring!EraseAll(h, l, z)
    BY <1>1, <1>3
  <2>2. \E f : /\ f \in [0..Len(z) -> Heaps] /\ f[0] = h /\ f[Len(z)] = ring!EraseAll(h, l, z)
               /\ \A x \in 1..Len(z) : f[x] = ring!erase(f[x - 1], l, z[x])
    BY ONLY <1>6, <1>8, l \in ring!Sentinels, EraseAllIs
  <2>. QED BY <1>8, <2>1, <2>2
<1>. DEFINE T == {m \in Nat : m <= n =>
                    /\ Good(f[m], [R EXCEPT ![l] = Cut(s, i, m)], [C EXCEPT ![l] = Cut(c, i, m)])
                    /\ f[m].alloc_ = h.alloc_}
<1>10. R \in [ring!Sentinels -> Seq(RingNodes)] /\ C \in [ring!Sentinels -> Seq(Items \cup {Taken})]
  BY DEF Good
<1>11. 0 \in T
  <2>1. Cut(s, i, 0) = s /\ Cut(c, i, 0) = c
    BY <1>6, <1>7, CutNone
  <2>2. [R EXCEPT ![l] = s] = R /\ [C EXCEPT ![l] = c] = C
    BY <1>1, <1>2, <1>10
  <2>. QED BY <1>9, <2>1, <2>2
<1>12. ASSUME NEW m \in T PROVE m + 1 \in T
  <2>1. SUFFICES ASSUME m + 1 <= n
                 PROVE  /\ Good(f[m + 1], [R EXCEPT ![l] = Cut(s, i, m + 1)], [C EXCEPT ![l] = Cut(c, i, m + 1)])
                        /\ f[m + 1].alloc_ = h.alloc_
    OBVIOUS
  <2>2. m \in Nat /\ m <= n /\ m \in 0..(Len(s) - i) /\ m \in 0..(Len(s) - i + 1) /\ m + 1 \in 1..n /\ (m + 1) - 1 = m
    BY <1>6, <1>7, <2>1
  <2>3. PICK Q : Q = [R EXCEPT ![l] = Cut(s, i, m)]
    OBVIOUS
  <2>4. PICK D : D = [C EXCEPT ![l] = Cut(c, i, m)]
    OBVIOUS
  <2>5. PICK k : k = f[m]
    OBVIOUS
  <2>6. Good(k, Q, D) /\ k.alloc_ = h.alloc_
    BY <2>2, <2>3, <2>4, <2>5
  <2>7. Q[l] = Cut(s, i, m) /\ D[l] = Cut(c, i, m)
    BY <1>10, <2>3, <2>4
  <2>8. Without(Q[l], i) = Cut(s, i, m + 1) /\ i \in 1..Len(Q[l]) /\ Q[l][i] = s[i + m]
    BY <1>6, <1>7, <2>2, <2>7, CutOne
  <2>9. Without(D[l], i) = Cut(c, i, m + 1)
    <3>1. m \in 0..(Len(c) - i)
      BY <1>6, <2>2
    <3>. QED BY <1>6, <1>7, <2>7, <3>1, CutOne
  <2>10. z[m + 1] = s[i + m]
    <3>1. i + (m + 1) - 1 = i + m
      BY <1>7, <2>2
    <3>. QED BY <1>8, <2>2, <3>1
  <2>11. f[m + 1] = ring!erase(k, l, Q[l][i])
    BY <1>9, <2>2, <2>5, <2>8, <2>10
  <2>12. /\ Good(f[m + 1], [Q EXCEPT ![l] = Without(Q[l], i)], [D EXCEPT ![l] = Without(D[l], i)])
         /\ f[m + 1].alloc_ = k.alloc_
    <3>. PICK d : d = f[m + 1]
      OBVIOUS
    <3>1. d = ring!erase(k, l, Q[l][i])
      BY <2>11
    <3>. QED BY <2>6, <2>8, <3>1, EraseGood
  <2>13. /\ [Q EXCEPT ![l] = Without(Q[l], i)] = [R EXCEPT ![l] = Cut(s, i, m + 1)]
         /\ [D EXCEPT ![l] = Without(D[l], i)] = [C EXCEPT ![l] = Cut(c, i, m + 1)]
    BY <1>10, <2>3, <2>4, <2>8, <2>9
  <2>. QED BY <2>6, <2>12, <2>13
<1>13. T = Nat
  <2>. HIDE DEF T
  <2>1. T \in SUBSET Nat
    BY DEF T
  <2>. QED BY <1>11, <1>12, <2>1, SetInduction
<1>14. /\ Good(f[n], [R EXCEPT ![l] = Cut(s, i, n)], [C EXCEPT ![l] = Cut(c, i, n)])
       /\ f[n].alloc_ = h.alloc_
  <2>. HIDE DEF T
  <2>1. n \in T /\ n <= n
    BY <1>7, <1>13
  <2>. QED BY <2>1 DEF T
<1>. QED BY <1>1, <1>2, <1>4, <1>9, <1>14

-----------------------------------------------------------------------------
(* push_back in a loop: as much of z is stored as there are nodes. *)
LEMMA PushOneFields ==
  ASSUME NEW h \in Heaps, NEW l \in ring!Sentinels, NEW v \in Items \cup {Taken}
  PROVE  ring!PushOne(h, l, v) \in Heaps
<1>1. l \in Places
  BY DEF Places
<1>2. CASE ring!Free(h) # {}
  <2>1. PICK n \in ring!Free(h) : Emplaces(h, l, l, v, n, ring!emplace(h, l, l, v))
    BY <1>1, <1>2, EmplaceFields
  <2>. QED BY <1>2, <2>1 DEF ring!PushOne, Emplaces
<1>. QED BY <1>2 DEF ring!PushOne

LEMMA PushAllIs ==
  ASSUME NEW h \in Heaps, NEW l \in ring!Sentinels, NEW z \in Seq(Items \cup {Taken})
  PROVE  \E f : /\ f \in [0..Len(z) -> Heaps] /\ f[0] = h /\ f[Len(z)] = ring!PushAll(h, l, z)
                /\ \A i \in 1..Len(z) : f[i] = ring!PushOne(f[i - 1], l, z[i])
<1>. PICK n : n = Len(z)
  OBVIOUS
<1>1. n \in Nat /\ \A i \in 1..n : z[i] \in Items \cup {Taken}
  OBVIOUS
<1>. DEFINE after[i \in 0..n] == IF i = 0 THEN h ELSE ring!PushOne(after[i - 1], l, z[i])
<1>2. PICK F : F = [p \in Heaps \X (1..n) |-> ring!PushOne(p[1], l, z[p[2]])]
  OBVIOUS
<1>3. \A x \in Heaps, i \in 1..n : ring!PushOne(x, l, z[i]) \in Heaps
  BY <1>1, PushOneFields
<1>4. F \in [Heaps \X (1..n) -> Heaps]
  BY <1>2, <1>3
<1>5. \A x \in Heaps, i \in 1..n : F[<<x, i>>] = ring!PushOne(x, l, z[i])
  BY <1>2
<1>6. PICK f \in [0..n -> Heaps] : f[0] = h /\ \A i \in 1..n : f[i] = F[<<f[i - 1], i>>]
  <2>1. Iterated(Heaps, h, n, F)
    BY <1>1, <1>4, RecursionExists
  <2>. QED BY <2>1 DEF Iterated
<1>7. \A i \in 1..n : i - 1 \in 0..n
  BY <1>1
<1>8. \A i \in 1..n : f[i] = ring!PushOne(f[i - 1], l, z[i])
  BY <1>5, <1>6, <1>7
<1>9. \A i \in 0..n : i # 0 => i \in 1..n
  BY <1>1
<1>10. f = [i \in 0..n |-> IF i = 0 THEN h ELSE ring!PushOne(f[i - 1], l, z[i])]
  BY <1>6, <1>8, <1>9
<1>11. after = [i \in 0..n |-> IF i = 0 THEN h ELSE ring!PushOne(after[i - 1], l, z[i])]
  <2>1. \E e : e = [i \in 0..n |-> IF i = 0 THEN h ELSE ring!PushOne(e[i - 1], l, z[i])]
    BY <1>10
  <2>. QED BY <2>1, Zenon
<1>12. ring!PushAll(h, l, z) = after[n]
  BY DEF ring!PushAll
<1>. HIDE DEF after
<1>13. after[0] = h /\ \A i \in 1..n : after[i] = ring!PushOne(after[i - 1], l, z[i])
  <2>1. 0 \in 0..n /\ \A i \in 1..n : i \in 0..n /\ i # 0
    BY <1>1
  <2>. QED BY <1>11, <2>1
<1>14. after \in [0..n -> Heaps]
  <2>. DEFINE T == {i \in Nat : i \in 0..n => after[i] \in Heaps}
  <2>1. 0 \in T
    BY <1>13 DEF T
  <2>. HIDE DEF T
  <2>2. ASSUME NEW i \in T PROVE i + 1 \in T
    <3>1. SUFFICES ASSUME i + 1 \in 0..n PROVE after[i + 1] \in Heaps
      BY DEF T
    <3>2. i \in 0..n /\ i + 1 \in 1..n /\ (i + 1) - 1 = i
      BY <1>1, <3>1 DEF T
    <3>3. after[i] \in Heaps
      BY <3>2 DEF T
    <3>4. after[i + 1] = ring!PushOne(after[i], l, z[i + 1])
      BY <1>13, <3>2
    <3>. QED BY <1>3, <3>2, <3>3, <3>4
  <2>3. T = Nat
    <3>1. T \in SUBSET Nat
      BY DEF T
    <3>. QED BY <2>1, <2>2, <3>1, SetInduction
  <2>4. \A i \in 0..n : after[i] \in Heaps
    BY <1>1, <2>3 DEF T
  <2>5. \E e : after = [i \in 0..n |-> e[i]]
    BY <1>11, <2>4
  <2>. QED BY <1>11, <2>4
<1>. QED BY <1>12, <1>13, <1>14

LEMMA SubSeqWith ==
  ASSUME NEW S, NEW z \in Seq(S), NEW m \in 0..(Len(z) - 1)
  PROVE  With(SubSeq(z, 1, m), m, z[m + 1]) = SubSeq(z, 1, m + 1)
<1>1. PICK u : u = SubSeq(z, 1, m)
  OBVIOUS
<1>2. PICK w : w = SubSeq(z, 1, m + 1)
  OBVIOUS
<1>3. PICK c : c = With(u, m, z[m + 1])
  OBVIOUS
<1>4. Len(z) \in Nat /\ m \in Nat /\ m + 1 <= Len(z) /\ z[m + 1] \in S
  OBVIOUS
<1>5. u \in Seq(S) /\ Len(u) = m /\ \A i \in 1..m : u[i] = z[i]
  BY <1>1, <1>4
<1>6. w \in Seq(S) /\ Len(w) = m + 1 /\ \A i \in 1..(m + 1) : w[i] = z[i]
  BY <1>2, <1>4
<1>7. Len(c) = m + 1 /\ c \in Seq(S)
  <2>1. m \in 0..Len(u)
    BY <1>4, <1>5
  <2>2. With(u, m, z[m + 1]) \in Seq(S)
    BY <1>4, <1>5, <2>1, WithIs, Zenon
  <2>3. Len(With(u, m, z[m + 1])) = Len(u) + 1
    BY <1>4, <1>5 DEF With
  <2>. QED BY <1>3, <1>5, <2>2, <2>3
<1>8. \A i \in 1..(m + 1) : c[i] = IF i <= m THEN u[i] ELSE z[m + 1]
  BY <1>3, <1>4, <1>5 DEF With
<1>9. ASSUME NEW i \in 1..(m + 1) PROVE c[i] = w[i]
  <2>1. i \in 1..m \/ (i = m + 1 /\ ~ (i <= m))
    BY <1>4
  <2>. QED BY <1>4, <1>5, <1>6, <1>8, <2>1
<1>10. c = w
  BY <1>6, <1>7, <1>9, SeqEqual
<1>. QED BY <1>1, <1>2, <1>3, <1>10

(* How many of the values z find a node. *)
Room(h) == Cardinality(ring!Free(h))

Least(m, n) == IF m <= n THEN m ELSE n

LEMMA FreeIsFinite ==
  ASSUME NEW h
  PROVE  IsFiniteSet(ring!Free(h)) /\ Room(h) \in Nat /\ (Room(h) = 0 <=> ring!Free(h) = {})
<1>1. ring!Free(h) \subseteq RingNodes
  BY DEF ring!Free
<1>. QED BY <1>1, Addresses, FS_Subset, FS_CardinalityType, FS_EmptySet DEF Room

Pushed(h, R, C, l, c, r, g) ==
  /\ g.alloc_ = h.alloc_ /\ Room(g) = r
  /\ \E Q : /\ Good(g, Q, [C EXCEPT ![l] = c])
            /\ \A o \in ring!Sentinels : o # l => Q[o] = R[o]

LEMMA PushOneGood ==
  ASSUME NEW h, NEW R, NEW C, Good(h, R, C), NEW l \in ring!Sentinels, h.alloc_[l] \in Allocators,
         ring!Free(h) # {}, NEW v \in Items \cup {Taken}
  PROVE  Pushed(h, R, C, l, With(C[l], Len(C[l]), v), Room(h) - 1, ring!PushOne(h, l, v))
<1>. PICK g : g = ring!PushOne(h, l, v)
  OBVIOUS
<1>. PICK k : k = Len(R[l])
  OBVIOUS
<1>1. k \in Nat /\ Len(C[l]) = k /\ k \in 0..Len(R[l])
  BY RingTypes
<1>2. At(l, R[l], k + 1) = l
  BY <1>1 DEF At
<1>3. g = ring!emplace(h, l, At(l, R[l], k + 1), v)
  BY <1>2 DEF ring!PushOne
<1>4. PICK n \in ring!Free(h) :
        /\ Good(g, [R EXCEPT ![l] = With(R[l], k, n)], [C EXCEPT ![l] = With(C[l], k, v)])
        /\ g.alloc_ = h.alloc_ /\ ring!Free(g) = ring!Free(h) \ {n}
  <2>1. Emplaced(h, R, C, l, k, v, g)
    BY <1>1, <1>3, EmplaceGood
  <2>. QED BY <2>1 DEF Emplaced
<1>5. Room(g) = Room(h) - 1
  BY <1>4, FreeIsFinite, FS_RemoveElement DEF Room
<1>6. \A o \in ring!Sentinels : o # l => [R EXCEPT ![l] = With(R[l], k, n)][o] = R[o]
  BY DEF Good
<1>. QED BY <1>1, <1>4, <1>5, <1>6 DEF Pushed

LEMMA PushAllGood ==
  ASSUME NEW h, NEW R, NEW C, Good(h, R, C), NEW l \in ring!Sentinels, h.alloc_[l] \in Allocators, C[l] = <<>>,
         NEW z \in Seq(Items \cup {Taken})
  PROVE  Pushed(h, R, C, l, SubSeq(z, 1, Least(Len(z), Room(h))), Room(h) - Least(Len(z), Room(h)), ring!PushAll(h, l, z))
<1>1. PICK N : N = Len(z)
  OBVIOUS
<1>2. PICK F : F = Room(h)
  OBVIOUS
<1>3. PICK S : S = Items \cup {Taken}
  OBVIOUS
<1>4. PICK e : e = [m \in Nat |-> SubSeq(z, 1, m)]
  OBVIOUS
<1>5. N \in Nat /\ F \in Nat /\ z \in Seq(S) /\ h \in Heaps /\ \A i \in 1..N : z[i] \in Items \cup {Taken}
  BY <1>1, <1>2, <1>3, FreeIsFinite DEF Good
<1>6. PICK f : /\ f \in [0..N -> Heaps] /\ f[0] = h /\ f[N] = ring!PushAll(h, l, z)
               /\ \A i \in 1..N : f[i] = ring!PushOne(f[i - 1], l, z[i])
  BY <1>1, <1>5, PushAllIs
<1>7. C \in [ring!Sentinels -> Seq(Items \cup {Taken})]
  BY DEF Good
<1>. DEFINE T == {m \in Nat : m <= N => Pushed(h, R, C, l, e[Least(m, F)], F - Least(m, F), f[m])}
<1>8. 0 \in T
  <2>1. Least(0, F) = 0 /\ F - 0 = F
    BY <1>5 DEF Least
  <2>2. e[0] = <<>>
    BY <1>4, <1>5
  <2>3. [C EXCEPT ![l] = <<>>] = C
    BY <1>7
  <2>4. Pushed(h, R, C, l, <<>>, F, h)
    BY <1>2, <2>3 DEF Pushed
  <2>. QED BY <1>6, <2>1, <2>2, <2>4
<1>9. ASSUME NEW m \in T PROVE m + 1 \in T
  <2>1. SUFFICES ASSUME m + 1 <= N PROVE Pushed(h, R, C, l, e[Least(m + 1, F)], F - Least(m + 1, F), f[m + 1])
    OBVIOUS
  <2>2. m \in Nat /\ m <= N /\ m \in 0..(N - 1) /\ m + 1 \in 1..N /\ (m + 1) - 1 = m
    BY <1>5, <2>1
  <2>3. PICK k : k = f[m]
    OBVIOUS
  <2>4. Pushed(h, R, C, l, e[Least(m, F)], F - Least(m, F), k)
    BY <2>2, <2>3
  <2>5. f[m + 1] = ring!PushOne(k, l, z[m + 1]) /\ z[m + 1] \in Items \cup {Taken}
    BY <1>5, <1>6, <2>2, <2>3
  <2>. HIDE DEF T
  <2>6. CASE m < F
    <3>1. Least(m, F) = m /\ Least(m + 1, F) = m + 1 /\ F - m # 0 /\ (F - m) - 1 = F - (m + 1)
      BY <1>5, <2>2, <2>6 DEF Least
    <3>2. PICK D : D = [C EXCEPT ![l] = e[m]]
      OBVIOUS
    <3>3. PICK Q : Good(k, Q, D) /\ \A o \in ring!Sentinels : o # l => Q[o] = R[o]
      BY <2>4, <3>1, <3>2 DEF Pushed
    <3>4. k.alloc_ = h.alloc_ /\ Room(k) = F - m /\ ring!Free(k) # {}
      BY <2>4, <3>1, FreeIsFinite DEF Pushed
    <3>5. D[l] = e[m] /\ Len(D[l]) = m
      BY <1>1, <1>4, <1>5, <1>7, <2>2, <3>2
    <3>6. With(D[l], Len(D[l]), z[m + 1]) = e[m + 1]
      <4>1. With(SubSeq(z, 1, m), m, z[m + 1]) = SubSeq(z, 1, m + 1)
        BY <1>1, <1>5, <2>2, SubSeqWith
      <4>2. e[m] = SubSeq(z, 1, m) /\ e[m + 1] = SubSeq(z, 1, m + 1)
        <5>1. m \in 0..N /\ m + 1 \in 0..N
          BY ONLY <1>5, <2>2
        <5>. QED BY ONLY <1>4, <5>1
      <4>. QED BY ONLY <3>5, <4>1, <4>2
    <3>7. Pushed(k, Q, D, l, e[m + 1], F - (m + 1), f[m + 1])
      <4>1. Pushed(k, Q, D, l, With(D[l], Len(D[l]), z[m + 1]), Room(k) - 1, ring!PushOne(k, l, z[m + 1]))
        BY <2>5, <3>3, <3>4, PushOneGood
      <4>. QED BY <2>5, <3>1, <3>4, <3>6, <4>1
    <3>8. [D EXCEPT ![l] = e[m + 1]] = [C EXCEPT ![l] = e[m + 1]]
      BY <1>7, <3>2
    <3>9. Pushed(h, R, C, l, e[m + 1], F - (m + 1), f[m + 1])
      BY <3>3, <3>4, <3>7, <3>8 DEF Pushed
    <3>. QED BY <3>1, <3>9
  <2>7. CASE ~ (m < F)
    <3>1. Least(m, F) = F /\ Least(m + 1, F) = F /\ F - F = 0
      BY <1>5, <2>2, <2>7 DEF Least
    <3>2. Room(k) = 0
      BY <2>4, <3>1 DEF Pushed
    <3>3. ring!Free(k) = {}
      BY <3>2, FreeIsFinite
    <3>4. f[m + 1] = k
      BY <2>5, <3>3 DEF ring!PushOne
    <3>. QED BY <2>4, <3>1, <3>4
  <2>. QED BY <2>6, <2>7
<1>10. Pushed(h, R, C, l, e[Least(N, F)], F - Least(N, F), f[N])
  <2>. HIDE DEF T
  <2>1. T \in SUBSET Nat
    BY DEF T
  <2>2. T = Nat
    BY <1>8, <1>9, <2>1, SetInduction
  <2>3. N \in T /\ N <= N
    BY <1>5, <2>2
  <2>. QED BY <2>3 DEF T
<1>11. e[Least(N, F)] = SubSeq(z, 1, Least(N, F))
  BY <1>4, <1>5 DEF Least
<1>. QED BY <1>1, <1>2, <1>6, <1>10, <1>11

-----------------------------------------------------------------------------
(* clear: all nodes are destroyed, one by one, and the sentinel is reset. *)
LEMMA ClearIs ==
  ASSUME NEW h \in Heaps, NEW l \in ring!Sentinels, NEW z \in Seq(RingNodes), z = ring!Ring(h, l)
  PROVE  \E f : /\ f \in [0..Len(z) -> Heaps] /\ f[0] = h
                /\ ring!clear(h, l) = [ring!reset_empty(f[Len(z)], l) EXCEPT !.size_[l] = 0]
                /\ \A i \in 1..Len(z) : f[i] = ring!destroy_node(f[i - 1], z[i])
<1>. PICK n : n = Len(z)
  OBVIOUS
<1>1. n \in Nat /\ \A i \in 1..n : z[i] \in RingNodes
  OBVIOUS
<1>. DEFINE after[i \in 0..n] == IF i = 0 THEN h ELSE ring!destroy_node(after[i - 1], z[i])
<1>2. PICK F : F = [p \in Heaps \X (1..n) |-> ring!destroy_node(p[1], z[p[2]])]
  OBVIOUS
<1>3. \A x \in Heaps, i \in 1..n : ring!destroy_node(x, z[i]) \in Heaps
  BY <1>1, DestroyFields DEF Destroys
<1>4. F \in [Heaps \X (1..n) -> Heaps]
  BY <1>2, <1>3
<1>5. \A x \in Heaps, i \in 1..n : F[<<x, i>>] = ring!destroy_node(x, z[i])
  BY <1>2
<1>6. PICK f \in [0..n -> Heaps] : f[0] = h /\ \A i \in 1..n : f[i] = F[<<f[i - 1], i>>]
  <2>1. Iterated(Heaps, h, n, F)
    BY <1>1, <1>4, RecursionExists
  <2>. QED BY <2>1 DEF Iterated
<1>7. \A i \in 1..n : i - 1 \in 0..n
  BY <1>1
<1>8. \A i \in 1..n : f[i] = ring!destroy_node(f[i - 1], z[i])
  BY <1>5, <1>6, <1>7
<1>9. \A i \in 0..n : i # 0 => i \in 1..n
  BY <1>1
<1>10. f = [i \in 0..n |-> IF i = 0 THEN h ELSE ring!destroy_node(f[i - 1], z[i])]
  BY <1>6, <1>8, <1>9
<1>11. after = [i \in 0..n |-> IF i = 0 THEN h ELSE ring!destroy_node(after[i - 1], z[i])]
  <2>1. \E e : e = [i \in 0..n |-> IF i = 0 THEN h ELSE ring!destroy_node(e[i - 1], z[i])]
    BY <1>10
  <2>. QED BY <2>1, Zenon
<1>12. ring!clear(h, l) = [ring!reset_empty(after[n], l) EXCEPT !.size_[l] = 0]
  BY DEF ring!clear
<1>. HIDE DEF after
<1>13. after[0] = h /\ \A i \in 1..n : after[i] = ring!destroy_node(after[i - 1], z[i])
  <2>1. 0 \in 0..n /\ \A i \in 1..n : i \in 0..n /\ i # 0
    BY <1>1
  <2>. QED BY <1>11, <2>1
<1>14. after \in [0..n -> Heaps]
  <2>. DEFINE T == {i \in Nat : i \in 0..n => after[i] \in Heaps}
  <2>1. 0 \in T
    BY <1>13 DEF T
  <2>. HIDE DEF T
  <2>2. ASSUME NEW i \in T PROVE i + 1 \in T
    <3>1. SUFFICES ASSUME i + 1 \in 0..n PROVE after[i + 1] \in Heaps
      BY DEF T
    <3>2. i \in 0..n /\ i + 1 \in 1..n /\ (i + 1) - 1 = i
      BY <1>1, <3>1 DEF T
    <3>3. after[i] \in Heaps
      BY <3>2 DEF T
    <3>4. after[i + 1] = ring!destroy_node(after[i], z[i + 1])
      BY <1>13, <3>2
    <3>. QED BY <1>3, <3>2, <3>3, <3>4
  <2>3. T = Nat
    <3>1. T \in SUBSET Nat
      BY DEF T
    <3>. QED BY <2>1, <2>2, <3>1, SetInduction
  <2>4. \A i \in 0..n : after[i] \in Heaps
    BY <1>1, <2>3 DEF T
  <2>5. \E e : after = [i \in 0..n |-> e[i]]
    BY <1>11, <2>4
  <2>. QED BY <1>11, <2>4
<1>. QED BY <1>12, <1>13, <1>14

Swept(h, z, m, g) ==
  /\ g \in Heaps /\ g.size_ = h.size_ /\ g.alloc_ = h.alloc_
  /\ \A x \in Places : IF \E i \in 1..m : x = z[i] THEN g.next[x] = x /\ g.prev[x] = x
                       ELSE g.next[x] = h.next[x] /\ g.prev[x] = h.prev[x]
  /\ \A x \in RingNodes : IF \E i \in 1..m : x = z[i] THEN g.value[x] = None /\ g.owner[x] = None
                          ELSE g.value[x] = h.value[x] /\ g.owner[x] = h.owner[x]

LEMMA SweptOne ==
  ASSUME NEW h, NEW z \in Seq(RingNodes), NEW m \in 0..(Len(z) - 1), NEW k, Swept(h, z, m, k)
  PROVE  Swept(h, z, m + 1, ring!destroy_node(k, z[m + 1]))
<1>. PICK n : n = z[m + 1]
  OBVIOUS
<1>. PICK g : g = ring!destroy_node(k, n)
  OBVIOUS
<1>1. m \in Nat /\ m + 1 \in 1..Len(z) /\ n \in RingNodes /\ n \in Places /\ k \in Heaps
  BY DEF Swept, Places
<1>2. Destroys(k, n, g)
  BY <1>1, DestroyFields
<1>3. /\ k.next \in [Places -> Places] /\ k.prev \in [Places -> Places]
      /\ k.value \in [RingNodes -> Items \cup {Taken, None}] /\ k.owner \in [RingNodes -> Allocators \cup {None}]
  BY <1>1 DEF Heaps
<1>4. \A x : (\E i \in 1..(m + 1) : x = z[i]) <=> x = n \/ \E i \in 1..m : x = z[i]
  <2>1. \A i \in 1..(m + 1) : i \in 1..m \/ i = m + 1
    BY <1>1
  <2>2. m + 1 \in 1..(m + 1) /\ \A i \in 1..m : i \in 1..(m + 1)
    BY <1>1
  <2>. QED BY <2>1, <2>2
<1>5. ASSUME NEW x \in Places
      PROVE  IF \E i \in 1..(m + 1) : x = z[i] THEN g.next[x] = x /\ g.prev[x] = x
             ELSE g.next[x] = h.next[x] /\ g.prev[x] = h.prev[x]
  <2>1. IF \E i \in 1..m : x = z[i] THEN k.next[x] = x /\ k.prev[x] = x
        ELSE k.next[x] = h.next[x] /\ k.prev[x] = h.prev[x]
    BY DEF Swept
  <2>2. IF x = n THEN g.next[x] = x /\ g.prev[x] = x ELSE g.next[x] = k.next[x] /\ g.prev[x] = k.prev[x]
    BY <1>1, <1>2, <1>3 DEF Destroys
  <2>. QED BY ONLY <1>4, <2>1, <2>2
<1>6. ASSUME NEW x \in RingNodes
      PROVE  IF \E i \in 1..(m + 1) : x = z[i] THEN g.value[x] = None /\ g.owner[x] = None
             ELSE g.value[x] = h.value[x] /\ g.owner[x] = h.owner[x]
  <2>1. IF \E i \in 1..m : x = z[i] THEN k.value[x] = None /\ k.owner[x] = None
        ELSE k.value[x] = h.value[x] /\ k.owner[x] = h.owner[x]
    BY DEF Swept
  <2>2. IF x = n THEN g.value[x] = None /\ g.owner[x] = None ELSE g.value[x] = k.value[x] /\ g.owner[x] = k.owner[x]
    BY <1>1, <1>2, <1>3 DEF Destroys
  <2>. QED BY ONLY <1>4, <2>1, <2>2
<1>7. g \in Heaps /\ g.size_ = h.size_ /\ g.alloc_ = h.alloc_
  BY <1>2 DEF Destroys, Swept
<1>. QED BY <1>5, <1>6, <1>7 DEF Swept

LEMMA ClearFields ==
  ASSUME NEW h, NEW R, NEW C, Good(h, R, C), NEW l \in ring!Sentinels
  PROVE  \E k : /\ Swept(h, R[l], Len(R[l]), k)
                /\ ring!clear(h, l) = [ring!reset_empty(k, l) EXCEPT !.size_[l] = 0]
<1>. PICK z : z = R[l]
  OBVIOUS
<1>. PICK n : n = Len(z)
  OBVIOUS
<1>1. h \in Heaps /\ z \in Seq(RingNodes) /\ n \in Nat /\ z = ring!Ring(h, l)
  BY RingTypes, RingIs
<1>2. PICK f : /\ f \in [0..n -> Heaps] /\ f[0] = h
               /\ ring!clear(h, l) = [ring!reset_empty(f[n], l) EXCEPT !.size_[l] = 0]
               /\ \A i \in 1..n : f[i] = ring!destroy_node(f[i - 1], z[i])
  BY <1>1, ClearIs
<1>. DEFINE T == {m \in Nat : m <= n => Swept(h, z, m, f[m])}
<1>3. 0 \in T
  <2>1. \A i \in 1..0 : FALSE
    OBVIOUS
  <2>2. Swept(h, z, 0, h)
    BY <1>1, <2>1 DEF Swept
  <2>. QED BY <1>2, <2>2
<1>4. ASSUME NEW m \in T PROVE m + 1 \in T
  <2>1. SUFFICES ASSUME m + 1 <= n PROVE Swept(h, z, m + 1, f[m + 1])
    OBVIOUS
  <2>2. m \in Nat /\ m <= n /\ m \in 0..(n - 1) /\ m + 1 \in 1..n /\ (m + 1) - 1 = m
    BY <1>1, <2>1
  <2>3. Swept(h, z, m, f[m])
    BY <2>2
  <2>4. f[m + 1] = ring!destroy_node(f[m], z[m + 1])
    BY <1>2, <2>2
  <2>. QED BY <1>1, <2>2, <2>3, <2>4, SweptOne
<1>5. Swept(h, z, n, f[n])
  <2>. HIDE DEF T
  <2>1. T \in SUBSET Nat
    BY DEF T
  <2>2. T = Nat
    BY <1>3, <1>4, <2>1, SetInduction
  <2>3. n \in T /\ n <= n
    BY <1>1, <2>2
  <2>. QED BY <2>3 DEF T
<1>. QED BY <1>2, <1>5

Sizes(h, l, n, g) ==
  /\ g \in Heaps /\ g.next = h.next /\ g.prev = h.prev /\ g.value = h.value /\ g.owner = h.owner
  /\ g.alloc_ = h.alloc_ /\ g.size_ = [h.size_ EXCEPT ![l] = n]

LEMMA SizeFields ==
  ASSUME NEW h \in Heaps, NEW l \in ring!Sentinels, NEW n \in Int
  PROVE  Sizes(h, l, n, [h EXCEPT !.size_[l] = n])
BY DEF Heaps, Sizes

Allots(h, l, al, g) ==
  /\ g \in Heaps /\ g.next = h.next /\ g.prev = h.prev /\ g.value = h.value /\ g.owner = h.owner
  /\ g.size_ = h.size_ /\ g.alloc_ = [h.alloc_ EXCEPT ![l] = al]

LEMMA AllocFields ==
  ASSUME NEW h \in Heaps, NEW l \in ring!Sentinels, NEW al \in Allocators \cup {None}
  PROVE  Allots(h, l, al, [h EXCEPT !.alloc_[l] = al])
BY DEF Heaps, Allots

LEMMA ClearGood ==
  ASSUME NEW h, NEW R, NEW C, Good(h, R, C), NEW l \in ring!Sentinels, NEW g, g = ring!clear(h, l)
  PROVE  Good(g, [R EXCEPT ![l] = <<>>], [C EXCEPT ![l] = <<>>]) /\ g.alloc_ = h.alloc_
<1>. PICK s : s = R[l]
  OBVIOUS
<1>. PICK n : n = Len(s)
  OBVIOUS
<1>1. h \in Heaps /\ s \in Seq(RingNodes) /\ n \in Nat /\ l \in Places /\ \A i \in 1..n : s[i] \in RingNodes
  BY RingTypes DEF Places
<1>2. PICK k : Swept(h, s, n, k) /\ g = [ring!reset_empty(k, l) EXCEPT !.size_[l] = 0]
  BY ClearFields
<1>3. PICK r : r = ring!reset_empty(k, l)
  OBVIOUS
<1>4. Resets(k, l, r)
  BY <1>2, <1>3, ResetFields DEF Swept
<1>5. /\ g \in Heaps /\ g.next = [k.next EXCEPT ![l] = l] /\ g.prev = [k.prev EXCEPT ![l] = l]
      /\ g.value = k.value /\ g.owner = k.owner /\ g.size_ = [h.size_ EXCEPT ![l] = 0] /\ g.alloc_ = h.alloc_
  <2>1. g = [r EXCEPT !.size_[l] = 0]
    BY <1>2, <1>3
  <2>2. /\ g \in Heaps /\ g.next = r.next /\ g.prev = r.prev /\ g.value = r.value /\ g.owner = r.owner
        /\ g.alloc_ = r.alloc_ /\ g.size_ = [r.size_ EXCEPT ![l] = 0]
    <3>1. r \in Heaps /\ 0 \in Int
      BY <1>4 DEF Resets
    <3>2. Sizes(r, l, 0, g)
      BY <2>1, <3>1, SizeFields
    <3>. QED BY <3>2 DEF Sizes
  <2>. QED BY <1>2, <1>4, <2>2 DEF Swept, Resets
<1>6. k.next \in [Places -> Places] /\ k.prev \in [Places -> Places] /\ h.size_ \in [ring!Sentinels -> Int]
  BY <1>1, <1>2 DEF Swept, Heaps
<1>7. Sound(g, l, <<>>, <<>>)
  <2>1. g.next[l] = l /\ g.prev[l] = l /\ g.size_[l] = 0
    BY <1>1, <1>5, <1>6
  <2>2. Len(<<>>) = 0 /\ (\A i \in 1..0 : FALSE) /\ 0..0 = {0}
    OBVIOUS
  <2>3. \A i \in {0} : At(l, <<>>, i) = l /\ At(l, <<>>, i + 1) = l
    BY <2>2 DEF At
  <2>. QED BY <2>1, <2>2, <2>3 DEF Sound, Linked
<1>8. ASSUME NEW o \in ring!Sentinels, o # l PROVE Sound(g, o, R[o], C[o])
  <2>1. \A i \in Int : /\ At(o, R[o], i) # l /\ At(o, R[o], i) \in Places
                       /\ \A j \in 1..n : At(o, R[o], i) # s[j]
    <3>1. \A i, j \in Int : At(l, s, j) # At(o, R[o], i)
      BY <1>8, PlacesApart
    <3>2. At(l, s, 0) = l /\ 0 \in Int /\ \A j \in 1..n : At(l, s, j) = s[j] /\ j \in Int
      BY <1>1 DEF At
    <3>3. \A i \in Int : At(o, R[o], i) \in Places
      BY RingTypes, AtPlaces
    <3>. QED BY <3>1, <3>2, <3>3
  <2>2. \A i \in Int : /\ g.next[At(o, R[o], i)] = h.next[At(o, R[o], i)]
                       /\ g.prev[At(o, R[o], i)] = h.prev[At(o, R[o], i)]
    BY <1>2, <1>5, <1>6, <2>1 DEF Swept
  <2>3. \A j \in 1..Len(R[o]) : R[o][j] \in RingNodes /\ \A i \in 1..n : R[o][j] # s[i]
    BY <1>8, RingTypes DEF Good, Apart
  <2>4. \A j \in 1..Len(R[o]) : g.value[R[o][j]] = h.value[R[o][j]] /\ g.owner[R[o][j]] = h.owner[R[o][j]]
    BY <1>2, <1>5, <2>3 DEF Swept
  <2>5. g.size_[o] = h.size_[o] /\ g.alloc_[o] = h.alloc_[o]
    BY <1>5, <1>6, <1>8
  <2>. QED BY <2>2, <2>4, <2>5, SoundOther
<1>9. ASSUME NEW x \in RingNodes
      PROVE  g.owner[x] # None <=> \E o \in ring!Sentinels : o # l /\ \E i \in 1..Len(R[o]) : x = R[o][i]
  <2>1. h.owner[x] # None <=> \E o \in ring!Sentinels : \E i \in 1..Len(R[o]) : x = R[o][i]
    BY DEF Good, Reached
  <2>2. IF \E i \in 1..n : x = s[i] THEN g.owner[x] = None ELSE g.owner[x] = h.owner[x]
    BY <1>2, <1>5 DEF Swept
  <2>3. ASSUME NEW o \in ring!Sentinels, o # l, NEW i \in 1..Len(R[o]), x = R[o][i] PROVE \A j \in 1..n : x # s[j]
    BY <2>3 DEF Good, Apart
  <2>. QED BY <2>1, <2>2, <2>3
<1>10. OnlyChanges(R, C, l, g, <<>>, <<>>)
  <2>1. Len(<<>>) = 0 /\ \A i \in 1..0 : FALSE
    OBVIOUS
  <2>2. <<>> \in Seq(RingNodes) /\ <<>> \in Seq(Items \cup {Taken}) /\ Distinct(<<>>)
    BY DEF Distinct
  <2>. QED BY <1>5, <1>7, <1>8, <1>9, <2>1, <2>2 DEF OnlyChanges
<1>. QED BY <1>5, <1>10, OneChanges

-----------------------------------------------------------------------------
(* An empty list gets an allocator, or loses it. *)
LEMMA EmptyRing ==
  ASSUME NEW h, NEW R, NEW C, Good(h, R, C), NEW l \in ring!Sentinels
  PROVE  /\ C[l] = <<>> <=> R[l] = <<>>
         /\ h.size_[l] = 0 <=> R[l] = <<>>
         /\ R[l] = <<>> => h.next[l] = l /\ h.prev[l] = l
         /\ R[l] # <<>> => /\ Len(R[l]) \in Nat /\ Len(R[l]) >= 1
                           /\ h.next[l] = R[l][1] /\ h.prev[l] = R[l][Len(R[l])]
<1>. PICK s : s = R[l]
  OBVIOUS
<1>1. s \in Seq(RingNodes) /\ C[l] \in Seq(Items \cup {Taken}) /\ Len(s) \in Nat /\ Len(C[l]) = Len(s) /\ Linked(h.next, h.prev, l, s)
  BY RingTypes
<1>2. h.size_[l] = Len(s)
  BY DEF Good, Sound
<1>3. (s = <<>> <=> Len(s) = 0) /\ (C[l] = <<>> <=> Len(C[l]) = 0)
  BY <1>1, EmptySeq
<1>4. 0 \in 0..Len(s) /\ Len(s) \in 0..Len(s) /\ 0 + 1 = 1
  BY <1>1
<1>5. h.next[At(l, s, 0)] = At(l, s, 1) /\ h.prev[At(l, s, Len(s) + 1)] = At(l, s, Len(s))
  BY <1>1, <1>4 DEF Linked
<1>6. At(l, s, 0) = l /\ At(l, s, Len(s) + 1) = l
  BY <1>1 DEF At
<1>7. CASE Len(s) = 0
  <2>1. At(l, s, 1) = l /\ At(l, s, Len(s)) = l
    BY <1>7 DEF At
  <2>. QED BY <1>1, <1>2, <1>3, <1>5, <1>6, <1>7, <2>1
<1>8. CASE Len(s) # 0
  <2>1. Len(s) >= 1 /\ At(l, s, 1) = s[1] /\ At(l, s, Len(s)) = s[Len(s)]
    BY <1>1, <1>8 DEF At
  <2>. QED BY <1>1, <1>2, <1>3, <1>5, <1>6, <1>8, <2>1
<1>. QED BY <1>7, <1>8

LEMMA AllotGood ==
  ASSUME NEW h, NEW R, NEW C, Good(h, R, C), NEW l \in ring!Sentinels, C[l] = <<>>, NEW al, NEW g, Allots(h, l, al, g)
  PROVE  Good(g, R, C)
<1>1. h \in Heaps /\ g \in Heaps /\ h.alloc_ \in [ring!Sentinels -> Allocators \cup {None}]
  BY DEF Good, Allots, Heaps
<1>2. R[l] = <<>>
  BY EmptyRing
<1>3. ASSUME NEW o \in ring!Sentinels PROVE Sound(g, o, R[o], C[o])
  <2>1. Sound(h, o, R[o], C[o])
    BY DEF Good
  <2>2. CASE o = l
    <3>1. \A i \in 1..Len(<<>>) : FALSE
      OBVIOUS
    <3>. QED BY <1>2, <2>1, <2>2, <3>1 DEF Sound, Allots
  <2>3. CASE o # l
    BY <1>1, <2>1, <2>3 DEF Sound, Allots
  <2>. QED BY <2>2, <2>3
<1>4. Reached(g, R)
  BY DEF Good, Reached, Allots
<1>. QED BY <1>1, <1>3, <1>4 DEF Good

LEMMA FreshGood ==
  ASSUME NEW h, NEW R, NEW C, Good(h, R, C), NEW l \in ring!Sentinels, C[l] = <<>>, NEW al \in Allocators \cup {None},
         NEW g, g = ring!Fresh(h, l, al)
  PROVE  Good(g, R, C) /\ Allots(h, l, al, g)
<1>1. /\ h \in Heaps /\ h.next \in [Places -> Places] /\ h.prev \in [Places -> Places] /\ l \in Places
      /\ h.size_ \in [ring!Sentinels -> Int]
  BY DEF Good, Heaps, Places
<1>2. h.next[l] = l /\ h.prev[l] = l /\ h.size_[l] = 0
  BY EmptyRing
<1>3. PICK r : r = ring!reset_empty(h, l)
  OBVIOUS
<1>4. Resets(h, l, r)
  BY <1>1, <1>3, ResetFields
<1>5. r.next = h.next /\ r.prev = h.prev
  BY <1>1, <1>2, <1>4 DEF Resets
<1>6. PICK q : q = [r EXCEPT !.size_[l] = 0]
  OBVIOUS
<1>7. Sizes(r, l, 0, q)
  <2>1. r \in Heaps /\ 0 \in Int
    BY <1>4 DEF Resets
  <2>. QED BY <1>6, <2>1, SizeFields
<1>8. q.size_ = h.size_
  BY <1>1, <1>2, <1>4, <1>7 DEF Sizes, Resets
<1>9. g = [q EXCEPT !.alloc_[l] = al]
  <2>1. g = [r EXCEPT !.size_[l] = 0, !.alloc_[l] = al]
    BY <1>3 DEF ring!Fresh
  <2>2. r \in Heaps
    BY <1>4 DEF Resets
  <2>. QED BY <1>6, <2>1, <2>2 DEF Heaps
<1>10. Allots(q, l, al, g)
  <2>1. q \in Heaps
    BY <1>7 DEF Sizes
  <2>. QED BY <1>9, <2>1, AllocFields
<1>11. Allots(h, l, al, g)
  BY <1>4, <1>5, <1>7, <1>8, <1>10 DEF Resets, Sizes, Allots
<1>. QED BY <1>11, AllotGood

LEMMA DestroyedGood ==
  ASSUME NEW h, NEW R, NEW C, Good(h, R, C), NEW l \in ring!Sentinels, NEW g, g = ring!Destroyed(h, l)
  PROVE  /\ Good(g, [R EXCEPT ![l] = <<>>], [C EXCEPT ![l] = <<>>])
         /\ g.alloc_ = [h.alloc_ EXCEPT ![l] = None]
<1>1. PICK k : k = ring!clear(h, l)
  OBVIOUS
<1>2. PICK D : D = [C EXCEPT ![l] = <<>>]
  OBVIOUS
<1>3. Good(k, [R EXCEPT ![l] = <<>>], D) /\ k.alloc_ = h.alloc_ /\ k \in Heaps
  <2>1. Good(k, [R EXCEPT ![l] = <<>>], [C EXCEPT ![l] = <<>>]) /\ k.alloc_ = h.alloc_
    BY <1>1, ClearGood
  <2>. QED BY <1>2, <2>1 DEF Good
<1>4. D[l] = <<>>
  BY <1>2 DEF Good
<1>5. g = [k EXCEPT !.alloc_[l] = None]
  BY <1>1 DEF ring!Destroyed
<1>6. Allots(k, l, None, g)
  BY <1>3, <1>5, AllocFields
<1>7. Good(g, [R EXCEPT ![l] = <<>>], D)
  BY <1>3, <1>4, <1>6, AllotGood
<1>. QED BY <1>2, <1>3, <1>6, <1>7 DEF Allots

-----------------------------------------------------------------------------
(* The lists l and o exchange their nodes; a sentinel takes the ends of s. *)

Enters(h, g, l, s) ==
  IF s = <<>> THEN g.next[l] = l /\ g.prev[l] = l
  ELSE /\ g.next[l] = s[1] /\ g.prev[l] = s[Len(s)] /\ g.next[s[Len(s)]] = l /\ g.prev[s[1]] = l
       /\ \A i \in 1..Len(s) : i # Len(s) => g.next[s[i]] = h.next[s[i]]
       /\ \A i \in 1..Len(s) : i # 1 => g.prev[s[i]] = h.prev[s[i]]

Outside(x, l, s) == x # l /\ \A i \in 1..Len(s) : x # s[i]

Exchanges(h, R, l, o, g) ==
  /\ g \in Heaps /\ g.value = h.value /\ g.owner = h.owner
  /\ g.size_ = [h.size_ EXCEPT ![l] = h.size_[o], ![o] = h.size_[l]]
  /\ Enters(h, g, l, R[o]) /\ Enters(h, g, o, R[l])
  /\ \A x \in Places : Outside(x, l, R[l]) /\ Outside(x, o, R[o]) => g.next[x] = h.next[x] /\ g.prev[x] = h.prev[x]
  /\ R[o] # <<>> => g.alloc_[l] = h.alloc_[o]
  /\ R[l] # <<>> => g.alloc_[o] = h.alloc_[l]
  /\ \A p \in ring!Sentinels : p # l /\ p # o => g.alloc_[p] = h.alloc_[p]

LEMMA EntersLinked ==
  ASSUME NEW h, NEW g, NEW o \in ring!Sentinels, NEW l \in ring!Sentinels, NEW s \in Seq(RingNodes),
         Linked(h.next, h.prev, o, s), Enters(h, g, l, s)
  PROVE  Linked(g.next, g.prev, l, s)
<1>1. Len(s) \in Nat /\ (s = <<>> <=> Len(s) = 0)
  BY EmptySeq
<1>. SUFFICES ASSUME NEW i \in 0..Len(s)
              PROVE  g.next[At(l, s, i)] = At(l, s, i + 1) /\ g.prev[At(l, s, i + 1)] = At(l, s, i)
  BY DEF Linked
<1>2. CASE Len(s) = 0
  <2>1. At(l, s, i) = l /\ At(l, s, i + 1) = l
    BY <1>2 DEF At
  <2>. QED BY <1>1, <1>2, <2>1 DEF Enters
<1>3. CASE Len(s) # 0
  <2>1. /\ g.next[l] = s[1] /\ g.prev[l] = s[Len(s)] /\ g.next[s[Len(s)]] = l /\ g.prev[s[1]] = l
        /\ \A j \in 1..Len(s) : j # Len(s) => g.next[s[j]] = h.next[s[j]]
        /\ \A j \in 1..Len(s) : j # 1 => g.prev[s[j]] = h.prev[s[j]]
    BY <1>1, <1>3 DEF Enters
  <2>2. h.next[At(o, s, i)] = At(o, s, i + 1) /\ h.prev[At(o, s, i + 1)] = At(o, s, i)
    BY DEF Linked
  <2>3. g.next[At(l, s, i)] = At(l, s, i + 1)
    <3>1. CASE i = 0
      <4>1. At(l, s, i) = l /\ At(l, s, i + 1) = s[1]
        BY <1>1, <1>3, <3>1 DEF At
      <4>. QED BY <2>1, <4>1
    <3>2. CASE i = Len(s)
      <4>1. At(l, s, i) = s[Len(s)] /\ At(l, s, i + 1) = l
        BY <1>1, <1>3, <3>2 DEF At
      <4>. QED BY <2>1, <4>1
    <3>3. CASE i # 0 /\ i # Len(s)
      <4>1. i \in 1..Len(s) /\ i + 1 \in 1..Len(s)
        BY <1>1, <3>3
      <4>2. At(l, s, i) = s[i] /\ At(l, s, i + 1) = s[i + 1] /\ At(o, s, i) = s[i] /\ At(o, s, i + 1) = s[i + 1]
        BY <4>1 DEF At
      <4>. QED BY <2>1, <2>2, <3>3, <4>1, <4>2
    <3>. QED BY <3>1, <3>2, <3>3
  <2>4. g.prev[At(l, s, i + 1)] = At(l, s, i)
    <3>1. CASE i = 0
      <4>1. At(l, s, i) = l /\ At(l, s, i + 1) = s[1]
        BY <1>1, <1>3, <3>1 DEF At
      <4>. QED BY <2>1, <4>1
    <3>2. CASE i = Len(s)
      <4>1. At(l, s, i) = s[Len(s)] /\ At(l, s, i + 1) = l
        BY <1>1, <1>3, <3>2 DEF At
      <4>. QED BY <2>1, <4>1
    <3>3. CASE i # 0 /\ i # Len(s)
      <4>1. i \in 1..Len(s) /\ i + 1 \in 1..Len(s) /\ i + 1 # 1
        BY <1>1, <3>3
      <4>2. At(l, s, i) = s[i] /\ At(l, s, i + 1) = s[i + 1] /\ At(o, s, i) = s[i] /\ At(o, s, i + 1) = s[i + 1]
        BY <4>1 DEF At
      <4>. QED BY <2>1, <2>2, <4>1, <4>2
    <3>. QED BY <3>1, <3>2, <3>3
  <2>. QED BY <2>3, <2>4
<1>. QED BY <1>2, <1>3

LEMMA ExchangeGood ==
  ASSUME NEW h, NEW R, NEW C, Good(h, R, C), NEW l \in ring!Sentinels, NEW o \in ring!Sentinels, l # o,
         NEW g, Exchanges(h, R, l, o, g)
  PROVE  Good(g, [R EXCEPT ![l] = R[o], ![o] = R[l]], [C EXCEPT ![l] = C[o], ![o] = C[l]])
<1>. PICK Q : Q = [R EXCEPT ![l] = R[o], ![o] = R[l]]
  OBVIOUS
<1>. PICK D : D = [C EXCEPT ![l] = C[o], ![o] = C[l]]
  OBVIOUS
<1>. PICK other : other = [p \in ring!Sentinels |-> IF p = l THEN o ELSE IF p = o THEN l ELSE p]
  OBVIOUS
<1>1. /\ Q \in [ring!Sentinels -> Seq(RingNodes)] /\ D \in [ring!Sentinels -> Seq(Items \cup {Taken})]
      /\ \A p \in ring!Sentinels : Q[p] = R[other[p]] /\ D[p] = C[other[p]] /\ other[p] \in ring!Sentinels
      /\ \A p, q \in ring!Sentinels : other[p] = other[q] => p = q
      /\ \A p \in ring!Sentinels : other[other[p]] = p
  BY DEF Good
<1>2. Apart(Q)
  <2>. SUFFICES ASSUME NEW p \in ring!Sentinels, NEW q \in ring!Sentinels,
                       NEW i \in 1..Len(Q[p]), NEW j \in 1..Len(Q[q]), Q[p][i] = Q[q][j]
                PROVE  p = q /\ i = j
    BY DEF Apart
  <2>1. other[p] = other[q] /\ i = j
    BY <1>1 DEF Good, Apart
  <2>. QED BY <1>1, <2>1
<1>3. Reached(g, Q)
  <2>. SUFFICES ASSUME NEW n \in RingNodes
                PROVE  g.owner[n] # None <=> \E p \in ring!Sentinels : \E i \in 1..Len(Q[p]) : n = Q[p][i]
    BY DEF Reached
  <2>1. g.owner[n] # None <=> \E p \in ring!Sentinels : \E i \in 1..Len(R[p]) : n = R[p][i]
    BY DEF Good, Reached, Exchanges
  <2>2. ASSUME NEW p \in ring!Sentinels, NEW i \in 1..Len(R[p]), n = R[p][i]
        PROVE  \E q \in ring!Sentinels : \E j \in 1..Len(Q[q]) : n = Q[q][j]
    <3>1. Q[other[p]] = R[p] /\ other[p] \in ring!Sentinels
      BY <1>1
    <3>. QED BY <2>2, <3>1
  <2>3. ASSUME NEW p \in ring!Sentinels, NEW i \in 1..Len(Q[p]), n = Q[p][i]
        PROVE  \E q \in ring!Sentinels : \E j \in 1..Len(R[q]) : n = R[q][j]
    BY <1>1, <2>3
  <2>. QED BY <2>1, <2>2, <2>3
<1>4. /\ h \in Heaps /\ g \in Heaps /\ h.size_ \in [ring!Sentinels -> Int]
      /\ \A p \in ring!Sentinels : R[p] \in Seq(RingNodes) /\ Len(R[p]) \in Nat /\ Sound(h, p, R[p], C[p])
  BY RingTypes DEF Good, Exchanges, Heaps
<1>5. ASSUME NEW p \in ring!Sentinels, NEW q \in ring!Sentinels, Enters(h, g, p, R[q]),
             R[q] # <<>> => g.alloc_[p] = h.alloc_[q], g.size_[p] = h.size_[q]
      PROVE  Sound(g, p, R[q], C[q])
  <2>1. Sound(h, q, R[q], C[q]) /\ R[q] \in Seq(RingNodes)
    BY <1>4
  <2>2. Linked(g.next, g.prev, p, R[q])
    BY <1>5, <2>1, EntersLinked DEF Sound
  <2>3. ASSUME NEW i \in 1..Len(R[q]) PROVE g.value[R[q][i]] = C[q][i] /\ g.owner[R[q][i]] = g.alloc_[p]
    <3>1. R[q] # <<>>
      OBVIOUS
    <3>. QED BY <1>5, <2>1, <3>1 DEF Sound, Exchanges
  <2>. QED BY <1>5, <2>1, <2>2, <2>3 DEF Sound
<1>6. Sound(g, l, Q[l], D[l])
  <2>1. Q[l] = R[o] /\ D[l] = C[o]
    BY <1>1
  <2>2. g.size_[l] = h.size_[o]
    BY <1>4 DEF Exchanges
  <2>. QED BY <1>5, <2>1, <2>2 DEF Exchanges
<1>7. Sound(g, o, Q[o], D[o])
  <2>1. Q[o] = R[l] /\ D[o] = C[l]
    BY <1>1
  <2>2. g.size_[o] = h.size_[l]
    BY <1>4 DEF Exchanges
  <2>. QED BY <1>5, <2>1, <2>2 DEF Exchanges
<1>8. ASSUME NEW p \in ring!Sentinels, p # l, p # o PROVE Sound(g, p, Q[p], D[p])
  <2>1. Q[p] = R[p] /\ D[p] = C[p]
    BY <1>1, <1>8
  <2>2. \A i \in Int : At(p, R[p], i) \in Places /\ Outside(At(p, R[p], i), l, R[l]) /\ Outside(At(p, R[p], i), o, R[o])
    <3>1. ASSUME NEW q \in ring!Sentinels, p # q PROVE \A i \in Int : Outside(At(p, R[p], i), q, R[q])
      <4>1. \A i, j \in Int : At(q, R[q], j) # At(p, R[p], i)
        BY <3>1, PlacesApart
      <4>2. At(q, R[q], 0) = q /\ 0 \in Int /\ \A j \in 1..Len(R[q]) : At(q, R[q], j) = R[q][j] /\ j \in Int
        BY <1>4 DEF At
      <4>. QED BY <4>1, <4>2 DEF Outside
    <3>2. \A i \in Int : At(p, R[p], i) \in Places
      BY <1>4, AtPlaces
    <3>. QED BY <1>8, <3>1, <3>2
  <2>3. \A i \in Int : /\ g.next[At(p, R[p], i)] = h.next[At(p, R[p], i)]
                       /\ g.prev[At(p, R[p], i)] = h.prev[At(p, R[p], i)]
    BY <2>2 DEF Exchanges
  <2>4. g.size_[p] = h.size_[p] /\ g.alloc_[p] = h.alloc_[p] /\ g.value = h.value /\ g.owner = h.owner
    BY <1>4, <1>8 DEF Exchanges
  <2>5. Sound(g, p, R[p], C[p])
    BY <2>3, <2>4, SoundOther
  <2>. QED BY <2>1, <2>5
<1>9. Good(g, Q, D)
  BY <1>1, <1>2, <1>3, <1>4, <1>6, <1>7, <1>8 DEF Good
<1>. QED BY <1>9

-----------------------------------------------------------------------------
(* repair_sentinel_links: the ends of the nodes s point at l. *)

Repairs(h, l, g) ==
  IF h.size_[l] = 0 THEN Resets(h, l, g)
  ELSE /\ g \in Heaps /\ g.next = [h.next EXCEPT ![h.prev[l]] = l] /\ g.prev = [h.prev EXCEPT ![h.next[l]] = l]
       /\ g.value = h.value /\ g.owner = h.owner /\ g.size_ = h.size_ /\ g.alloc_ = h.alloc_

LEMMA RepairFields ==
  ASSUME NEW h \in Heaps, NEW l \in ring!Sentinels
  PROVE  Repairs(h, l, ring!repair_sentinel_links(h, l))
<1>1. CASE h.size_[l] = 0
  BY <1>1, ResetFields DEF ring!repair_sentinel_links, Repairs
<1>2. CASE h.size_[l] # 0
  <2>1. l \in Places /\ h.next[l] \in Places /\ h.prev[l] \in Places
    BY DEF Heaps, Places
  <2>2. PICK p : p = h.prev[l]
    OBVIOUS
  <2>3. PICK q : q = h.next[l]
    OBVIOUS
  <2>4. PICK g : g = ring!repair_sentinel_links(h, l)
    OBVIOUS
  <2>5. g = [h EXCEPT !.prev[q] = l, !.next[p] = l]
    BY <1>2, <2>2, <2>3, <2>4 DEF ring!repair_sentinel_links
  <2>6. /\ g \in Heaps /\ g.next = [h.next EXCEPT ![p] = l] /\ g.prev = [h.prev EXCEPT ![q] = l]
        /\ g.value = h.value /\ g.owner = h.owner /\ g.size_ = h.size_ /\ g.alloc_ = h.alloc_
    BY ONLY <2>1, <2>2, <2>3, <2>5, h \in Heaps DEF Heaps
  <2>. QED BY <1>2, <2>2, <2>3, <2>4, <2>6 DEF Repairs
<1>. QED BY <1>1, <1>2

Repaired(h, k, l, s, g) ==
  /\ g \in Heaps /\ g.value = k.value /\ g.owner = k.owner /\ g.size_ = k.size_ /\ g.alloc_ = k.alloc_
  /\ Enters(h, g, l, s)
  /\ \A x \in Places : Outside(x, l, s) => g.next[x] = k.next[x] /\ g.prev[x] = k.prev[x]

LEMMA RepairEnters ==
  ASSUME NEW h, NEW k \in Heaps, NEW l \in ring!Sentinels, NEW s \in Seq(RingNodes), Distinct(s), k.size_[l] = Len(s),
         s # <<>> => k.next[l] = s[1] /\ k.prev[l] = s[Len(s)],
         \A i \in 1..Len(s) : k.next[s[i]] = h.next[s[i]] /\ k.prev[s[i]] = h.prev[s[i]]
  PROVE  Repaired(h, k, l, s, ring!repair_sentinel_links(k, l))
<1>. PICK g : g = ring!repair_sentinel_links(k, l)
  OBVIOUS
<1>1. Repairs(k, l, g)
  BY RepairFields
<1>2. k.next \in [Places -> Places] /\ k.prev \in [Places -> Places] /\ l \in Places /\ l \notin RingNodes
  BY Addresses DEF Heaps, Places
<1>3. Len(s) \in Nat /\ (s = <<>> <=> Len(s) = 0) /\ \A i \in 1..Len(s) : s[i] \in RingNodes /\ s[i] \in Places
  BY EmptySeq DEF Places
<1>4. CASE Len(s) = 0
  <2>1. Resets(k, l, g)
    BY <1>1, <1>4 DEF Repairs
  <2>2. g.next[l] = l /\ g.prev[l] = l
    BY <1>2, <2>1 DEF Resets
  <2>3. \A x \in Places : x # l => g.next[x] = k.next[x] /\ g.prev[x] = k.prev[x]
    BY <1>2, <2>1 DEF Resets
  <2>4. Enters(h, g, l, s)
    BY <1>3, <1>4, <2>2 DEF Enters
  <2>. QED BY <2>1, <2>3, <2>4 DEF Resets, Repaired, Outside
<1>5. CASE Len(s) # 0
  <2>1. 1 \in 1..Len(s) /\ Len(s) \in 1..Len(s) /\ s # <<>>
    BY <1>3, <1>5
  <2>2. PICK p : p = s[Len(s)]
    OBVIOUS
  <2>3. PICK q : q = s[1]
    OBVIOUS
  <2>4. /\ g \in Heaps /\ g.next = [k.next EXCEPT ![p] = l] /\ g.prev = [k.prev EXCEPT ![q] = l]
        /\ g.value = k.value /\ g.owner = k.owner /\ g.size_ = k.size_ /\ g.alloc_ = k.alloc_
    BY <1>1, <1>5, <2>1, <2>2, <2>3 DEF Repairs
  <2>5. p \in Places /\ q \in Places /\ p # l /\ q # l
    BY <1>2, <1>3, <2>1, <2>2, <2>3
  <2>6. /\ g.next[p] = l /\ g.prev[q] = l
        /\ \A x \in Places : (x # p => g.next[x] = k.next[x]) /\ (x # q => g.prev[x] = k.prev[x])
    BY <1>2, <2>4, <2>5
  <2>7. \A i \in 1..Len(s) : (i # Len(s) => s[i] # p) /\ (i # 1 => s[i] # q)
    BY <2>1, <2>2, <2>3 DEF Distinct
  <2>8. g.next[l] = q /\ g.prev[l] = p
    BY <1>2, <2>1, <2>2, <2>3, <2>5, <2>6
  <2>9. \A i \in 1..Len(s) : (i # Len(s) => g.next[s[i]] = h.next[s[i]]) /\ (i # 1 => g.prev[s[i]] = h.prev[s[i]])
    BY <1>3, <2>6, <2>7
  <2>10. Enters(h, g, l, s)
    BY <2>1, <2>2, <2>3, <2>6, <2>8, <2>9 DEF Enters
  <2>11. \A x \in Places : Outside(x, l, s) => x # p /\ x # q
    BY <2>1, <2>2, <2>3 DEF Outside
  <2>. QED BY <2>4, <2>6, <2>10, <2>11 DEF Repaired
<1>. QED BY <1>4, <1>5

LEMMA EntersKept ==
  ASSUME NEW h, NEW k, NEW g, NEW l, NEW s \in Seq(RingNodes), Enters(h, k, l, s),
         g.next[l] = k.next[l], g.prev[l] = k.prev[l],
         \A i \in 1..Len(s) : g.next[s[i]] = k.next[s[i]] /\ g.prev[s[i]] = k.prev[s[i]]
  PROVE  Enters(h, g, l, s)
<1>1. CASE s = <<>>
  BY <1>1 DEF Enters
<1>2. CASE s # <<>>
  <2>1. 1 \in 1..Len(s) /\ Len(s) \in 1..Len(s)
    BY <1>2, EmptySeq
  <2>. QED BY <1>2, <2>1 DEF Enters
<1>. QED BY <1>1, <1>2

(* The places of two lists. *)
LEMMA Disjoint ==
  ASSUME NEW h, NEW R, NEW C, Good(h, R, C), NEW l \in ring!Sentinels, NEW o \in ring!Sentinels, l # o
  PROVE  /\ Outside(l, o, R[o]) /\ \A i \in 1..Len(R[l]) : Outside(R[l][i], o, R[o]) /\ R[l][i] # l /\ R[l][i] \in Places
<1>1. \A i \in 1..Len(R[l]) : R[l][i] \in RingNodes /\ R[l][i] \notin ring!Sentinels /\ R[l][i] \in Places
  BY RingTypes, Addresses DEF Places
<1>2. \A i \in 1..Len(R[o]) : R[o][i] \notin ring!Sentinels
  BY RingTypes, Addresses
<1>3. \A i \in 1..Len(R[l]), j \in 1..Len(R[o]) : R[l][i] # R[o][j]
  BY DEF Good, Apart
<1>. QED BY <1>1, <1>2, <1>3 DEF Outside

LEMMA StealGood ==
  ASSUME NEW h, NEW R, NEW C, Good(h, R, C), NEW l \in ring!Sentinels, NEW o \in ring!Sentinels, l # o,
         C[l] = <<>>, h.alloc_[l] = h.alloc_[o], NEW g, g = ring!steal_nodes_from(h, l, o)
  PROVE  /\ Good(g, [R EXCEPT ![l] = R[o], ![o] = R[l]], [C EXCEPT ![l] = C[o], ![o] = C[l]])
         /\ g.alloc_ = h.alloc_
<1>. PICK s : s = R[o]
  OBVIOUS
<1>1. /\ h \in Heaps /\ s \in Seq(RingNodes) /\ Len(s) \in Nat /\ Distinct(s) /\ h.size_[o] = Len(s)
      /\ (s = <<>> <=> Len(s) = 0) /\ l \in Places /\ o \in Places
      /\ h.next \in [Places -> Places] /\ h.prev \in [Places -> Places] /\ h.size_ \in [ring!Sentinels -> Int]
  <2>1. h \in Heaps /\ s \in Seq(RingNodes) /\ Len(s) \in Nat /\ Distinct(s)
    BY RingTypes
  <2>2. h.size_[o] = Len(s)
    BY DEF Good, Sound
  <2>3. s = <<>> <=> Len(s) = 0
    BY <2>1, EmptySeq
  <2>. QED BY <2>1, <2>2, <2>3 DEF Heaps, Places
<1>2. R[l] = <<>> /\ h.size_[l] = 0 /\ h.next[l] = l /\ h.prev[l] = l /\ Len(<<>>) = 0 /\ \A i \in 1..0 : FALSE
  BY EmptyRing
<1>3. Exchanges(h, R, l, o, g) /\ g.alloc_ = h.alloc_
  <2>1. CASE Len(s) = 0
    <3>1. PICK r : r = ring!reset_empty(h, l)
      OBVIOUS
    <3>2. Resets(h, l, r)
      BY <1>1, <3>1, ResetFields
    <3>3. g = [r EXCEPT !.size_[l] = 0]
      BY <1>1, <2>1, <3>1 DEF ring!steal_nodes_from
    <3>4. Sizes(r, l, 0, g)
      <4>1. r \in Heaps /\ 0 \in Int
        BY <3>2 DEF Resets
      <4>. QED BY <3>3, <4>1, SizeFields
    <3>5. g.next = h.next /\ g.prev = h.prev /\ g.value = h.value /\ g.owner = h.owner /\ g.alloc_ = h.alloc_ /\ g \in Heaps
      BY <1>1, <1>2, <3>2, <3>4 DEF Resets, Sizes
    <3>6. g.size_ = [h.size_ EXCEPT ![l] = h.size_[o], ![o] = h.size_[l]]
      BY <1>1, <1>2, <2>1, <3>2, <3>4 DEF Resets, Sizes
    <3>7. h.next[o] = o /\ h.prev[o] = o /\ R[o] = <<>>
      BY <1>1, <2>1, EmptyRing
    <3>8. Enters(h, g, l, <<>>) /\ Enters(h, g, o, <<>>)
      BY <1>2, <3>5, <3>7 DEF Enters
    <3>. QED BY <1>2, <3>5, <3>6, <3>7, <3>8 DEF Exchanges
  <2>2. CASE Len(s) # 0
    <3>1. h.next[o] = s[1] /\ h.prev[o] = s[Len(s)] /\ 1 \in 1..Len(s) /\ Len(s) \in 1..Len(s) /\ s # <<>>
      BY <1>1, <2>2, EmptyRing
    <3>2. PICK x : x = h.next[o]
      OBVIOUS
    <3>3. PICK y : y = h.prev[o]
      OBVIOUS
    <3>4. PICK n : n = h.size_[o]
      OBVIOUS
    <3>5. PICK u : u = [h EXCEPT !.next[l] = x, !.prev[l] = y, !.size_[l] = n]
      OBVIOUS
    <3>6. x \in Places /\ y \in Places /\ n \in Int
      BY <1>1, <3>2, <3>3, <3>4
    <3>7. /\ u \in Heaps /\ u.next = [h.next EXCEPT ![l] = x] /\ u.prev = [h.prev EXCEPT ![l] = y]
          /\ u.value = h.value /\ u.owner = h.owner /\ u.size_ = [h.size_ EXCEPT ![l] = n] /\ u.alloc_ = h.alloc_
      BY ONLY <1>1, <3>5, <3>6, l \in ring!Sentinels DEF Heaps
    <3>8. PICK v : v = ring!repair_sentinel_links(u, l)
      OBVIOUS
    <3>9. \A i \in 1..Len(s) : s[i] \in Places /\ s[i] # l /\ s[i] # o
      BY Disjoint DEF Outside
    <3>10. Repaired(h, u, l, s, v)
      <4>1. u.size_[l] = Len(s) /\ u.next[l] = s[1] /\ u.prev[l] = s[Len(s)]
        BY <1>1, <3>1, <3>2, <3>3, <3>4, <3>7
      <4>2. \A i \in 1..Len(s) : u.next[s[i]] = h.next[s[i]] /\ u.prev[s[i]] = h.prev[s[i]]
        BY <1>1, <3>7, <3>9
      <4>. QED BY <1>1, <3>7, <3>8, <4>1, <4>2, RepairEnters
    <3>11. PICK r : r = ring!reset_empty(v, o)
      OBVIOUS
    <3>12. Resets(v, o, r)
      BY <3>10, <3>11, ResetFields DEF Repaired
    <3>13. g = [r EXCEPT !.size_[o] = 0]
      BY <1>1, <2>2, <3>2, <3>3, <3>4, <3>5, <3>8, <3>11 DEF ring!steal_nodes_from
    <3>14. Sizes(r, o, 0, g)
      <4>1. r \in Heaps /\ 0 \in Int
        BY <3>12 DEF Resets
      <4>. QED BY <3>13, <4>1, SizeFields
    <3>15. v.next \in [Places -> Places] /\ v.prev \in [Places -> Places] /\ v.size_ = [h.size_ EXCEPT ![l] = n]
      BY <3>7, <3>10 DEF Repaired, Heaps
    <3>16. /\ g.next[o] = o /\ g.prev[o] = o
           /\ \A p \in Places : p # o => g.next[p] = v.next[p] /\ g.prev[p] = v.prev[p]
      BY <1>1, <3>12, <3>14, <3>15 DEF Resets, Sizes
    <3>17. g \in Heaps /\ g.value = h.value /\ g.owner = h.owner /\ g.alloc_ = h.alloc_
      BY <3>7, <3>10, <3>12, <3>14 DEF Repaired, Resets, Sizes
    <3>18. g.size_ = [h.size_ EXCEPT ![l] = h.size_[o], ![o] = h.size_[l]]
      <4>1. g.size_ = [[h.size_ EXCEPT ![l] = n] EXCEPT ![o] = 0]
        BY <3>12, <3>14, <3>15 DEF Resets, Sizes
      <4>. QED BY <1>1, <1>2, <3>4, <4>1
    <3>19. Enters(h, g, l, s)
      <4>1. Enters(h, v, l, s)
        BY <3>10 DEF Repaired
      <4>2. g.next[l] = v.next[l] /\ g.prev[l] = v.prev[l]
        BY <1>1, <3>16
      <4>3. \A i \in 1..Len(s) : g.next[s[i]] = v.next[s[i]] /\ g.prev[s[i]] = v.prev[s[i]]
        BY <3>9, <3>16
      <4>. QED BY <1>1, <4>1, <4>2, <4>3, EntersKept
    <3>20. Enters(h, g, o, <<>>)
      BY <3>16 DEF Enters
    <3>21. ASSUME NEW p \in Places, Outside(p, l, <<>>), Outside(p, o, s) PROVE g.next[p] = h.next[p] /\ g.prev[p] = h.prev[p]
      <4>1. p # l /\ p # o /\ Outside(p, l, s)
        BY <3>21 DEF Outside
      <4>2. g.next[p] = v.next[p] /\ g.prev[p] = v.prev[p]
        BY <3>16, <4>1
      <4>3. v.next[p] = u.next[p] /\ v.prev[p] = u.prev[p]
        BY <3>10, <4>1 DEF Repaired
      <4>. QED BY <1>1, <3>7, <4>1, <4>2, <4>3
    <3>. QED BY <1>2, <3>17, <3>18, <3>19, <3>20, <3>21 DEF Exchanges
  <2>. QED BY <2>1, <2>2
<1>. QED BY <1>3, ExchangeGood

LEMMA SwappedGood ==
  ASSUME NEW h, NEW R, NEW C, Good(h, R, C), NEW l \in ring!Sentinels, NEW o \in ring!Sentinels, l # o,
         propagates \/ h.alloc_[l] = h.alloc_[o], NEW g, g = ring!swapped(h, l, o)
  PROVE  /\ Good(g, [R EXCEPT ![l] = R[o], ![o] = R[l]], [C EXCEPT ![l] = C[o], ![o] = C[l]])
         /\ g.alloc_ = [h.alloc_ EXCEPT ![l] = h.alloc_[o], ![o] = h.alloc_[l]]
<1>. PICK s : s = R[o]
  OBVIOUS
<1>. PICK t : t = R[l]
  OBVIOUS
<1>1. /\ h \in Heaps /\ s \in Seq(RingNodes) /\ Distinct(s) /\ h.size_[o] = Len(s)
      /\ t \in Seq(RingNodes) /\ Distinct(t) /\ h.size_[l] = Len(t)
  <2>1. h \in Heaps /\ s \in Seq(RingNodes) /\ Distinct(s) /\ t \in Seq(RingNodes) /\ Distinct(t)
    BY RingTypes
  <2>2. h.size_[o] = Len(s) /\ h.size_[l] = Len(t)
    BY DEF Good, Sound
  <2>. QED BY <2>1, <2>2
<1>2. /\ l \in Places /\ o \in Places /\ h.next \in [Places -> Places] /\ h.prev \in [Places -> Places]
      /\ h.size_ \in [ring!Sentinels -> Int] /\ h.alloc_ \in [ring!Sentinels -> Allocators \cup {None}]
  BY <1>1 DEF Heaps, Places
<1>3. /\ s # <<>> => h.next[o] = s[1] /\ h.prev[o] = s[Len(s)]
      /\ t # <<>> => h.next[l] = t[1] /\ h.prev[l] = t[Len(t)]
  BY EmptyRing
<1>4. /\ Outside(o, l, t) /\ \A i \in 1..Len(s) : Outside(s[i], l, t) /\ s[i] # o /\ s[i] \in Places
      /\ Outside(l, o, s) /\ \A i \in 1..Len(t) : Outside(t[i], o, s) /\ t[i] # l /\ t[i] \in Places
  BY Disjoint
<1>5. \A i \in 1..Len(s) : s[i] # l
  BY <1>4 DEF Outside
<1>6. \A i \in 1..Len(t) : t[i] # o
  BY <1>4 DEF Outside
<1>10. PICK nl : nl = h.next[l]
  OBVIOUS
<1>11. PICK no : no = h.next[o]
  OBVIOUS
<1>12. PICK pl : pl = h.prev[l]
  OBVIOUS
<1>13. PICK po : po = h.prev[o]
  OBVIOUS
<1>14. PICK sl : sl = h.size_[l]
  OBVIOUS
<1>15. PICK so : so = h.size_[o]
  OBVIOUS
<1>16. PICK al : al = h.alloc_[l]
  OBVIOUS
<1>17. PICK ao : ao = h.alloc_[o]
  OBVIOUS
<1>18. /\ nl \in Places /\ no \in Places /\ pl \in Places /\ po \in Places /\ sl \in Int /\ so \in Int
       /\ al \in Allocators \cup {None} /\ ao \in Allocators \cup {None}
  BY <1>2, <1>10, <1>11, <1>12, <1>13, <1>14, <1>15, <1>16, <1>17
<1>19. PICK u : u = [h EXCEPT !.next[l] = no, !.next[o] = nl, !.prev[l] = po, !.prev[o] = pl,
                              !.size_[l] = so, !.size_[o] = sl,
                              !.alloc_[l] = IF propagates THEN ao ELSE @, !.alloc_[o] = IF propagates THEN al ELSE @]
  OBVIOUS
<1>20. /\ u \in Heaps
       /\ u.next = [h.next EXCEPT ![l] = no, ![o] = nl] /\ u.prev = [h.prev EXCEPT ![l] = po, ![o] = pl]
       /\ u.value = h.value /\ u.owner = h.owner /\ u.size_ = [h.size_ EXCEPT ![l] = so, ![o] = sl]
       /\ u.alloc_ = [h.alloc_ EXCEPT ![l] = ao, ![o] = al]
  <2>1. PICK na : na = [h.alloc_ EXCEPT ![l] = IF propagates THEN ao ELSE @, ![o] = IF propagates THEN al ELSE @]
    OBVIOUS
  <2>2. u = [next   |-> [h.next EXCEPT ![l] = no, ![o] = nl], prev |-> [h.prev EXCEPT ![l] = po, ![o] = pl],
             value  |-> h.value, owner |-> h.owner, size_ |-> [h.size_ EXCEPT ![l] = so, ![o] = sl], alloc_ |-> na]
    BY ONLY <1>1, <1>19, <2>1 DEF Heaps
  <2>3. na = [h.alloc_ EXCEPT ![l] = ao, ![o] = al]
    BY <1>2, <1>16, <1>17, <2>1
  <2>. QED BY ONLY <1>1, <1>2, <1>18, <2>2, <2>3, l \in ring!Sentinels, o \in ring!Sentinels DEF Heaps
<1>21. PICK v : v = ring!repair_sentinel_links(u, l)
  OBVIOUS
<1>22. g = ring!repair_sentinel_links(v, o)
  BY <1>10, <1>11, <1>12, <1>13, <1>14, <1>15, <1>16, <1>17, <1>19, <1>21 DEF ring!swapped
<1>23. Repaired(h, u, l, s, v)
  <2>1. u.size_[l] = Len(s) /\ (s # <<>> => u.next[l] = s[1] /\ u.prev[l] = s[Len(s)])
    BY <1>1, <1>2, <1>3, <1>11, <1>13, <1>15, <1>20
  <2>2. \A i \in 1..Len(s) : u.next[s[i]] = h.next[s[i]] /\ u.prev[s[i]] = h.prev[s[i]]
    BY <1>2, <1>4, <1>5, <1>20
  <2>. QED BY <1>1, <1>20, <1>21, <2>1, <2>2, RepairEnters
<1>24. \A x \in Places : Outside(x, l, s) => v.next[x] = u.next[x] /\ v.prev[x] = u.prev[x]
  BY <1>23 DEF Repaired
<1>25. ASSUME NEW i \in 1..Len(t) PROVE Outside(t[i], l, s) /\ t[i] \in Places /\ t[i] # o
  BY <1>4, <1>6 DEF Outside
<1>26. Outside(o, l, s)
  BY <1>4 DEF Outside
<1>27. Repaired(h, v, o, t, g)
  <2>1. v.size_[o] = Len(t)
    BY <1>1, <1>2, <1>14, <1>20, <1>23 DEF Repaired
  <2>2. t # <<>> => v.next[o] = t[1] /\ v.prev[o] = t[Len(t)]
    <3>1. v.next[o] = u.next[o] /\ v.prev[o] = u.prev[o]
      BY <1>2, <1>24, <1>26
    <3>2. u.next[o] = nl /\ u.prev[o] = pl
      BY <1>2, <1>20
    <3>. QED BY <1>3, <1>10, <1>12, <3>1, <3>2
  <2>3. \A i \in 1..Len(t) : v.next[t[i]] = h.next[t[i]] /\ v.prev[t[i]] = h.prev[t[i]]
    <3>1. \A i \in 1..Len(t) : v.next[t[i]] = u.next[t[i]] /\ v.prev[t[i]] = u.prev[t[i]]
      BY <1>24, <1>25
    <3>2. \A i \in 1..Len(t) : u.next[t[i]] = h.next[t[i]] /\ u.prev[t[i]] = h.prev[t[i]]
      BY <1>2, <1>4, <1>6, <1>20
    <3>. QED BY <3>1, <3>2
  <2>4. v \in Heaps
    BY <1>23 DEF Repaired
  <2>. QED BY <1>1, <1>22, <2>1, <2>2, <2>3, <2>4, RepairEnters
<1>28. \A x \in Places : Outside(x, o, t) => g.next[x] = v.next[x] /\ g.prev[x] = v.prev[x]
  BY <1>27 DEF Repaired
<1>29. Enters(h, g, l, s)
  <2>1. Enters(h, v, l, s)
    BY <1>23 DEF Repaired
  <2>2. Outside(l, o, t) /\ \A i \in 1..Len(s) : Outside(s[i], o, t) /\ s[i] \in Places
    BY <1>4 DEF Outside
  <2>3. g.next[l] = v.next[l] /\ g.prev[l] = v.prev[l]
    BY <1>2, <1>28, <2>2
  <2>4. \A i \in 1..Len(s) : g.next[s[i]] = v.next[s[i]] /\ g.prev[s[i]] = v.prev[s[i]]
    BY <1>28, <2>2
  <2>. QED BY <1>1, <2>1, <2>3, <2>4, EntersKept
<1>30. Enters(h, g, o, t)
  BY <1>27 DEF Repaired
<1>31. ASSUME NEW x \in Places, Outside(x, l, t), Outside(x, o, s) PROVE g.next[x] = h.next[x] /\ g.prev[x] = h.prev[x]
  <2>1. Outside(x, o, t) /\ Outside(x, l, s) /\ x # l /\ x # o
    BY <1>31 DEF Outside
  <2>2. g.next[x] = v.next[x] /\ g.prev[x] = v.prev[x] /\ v.next[x] = u.next[x] /\ v.prev[x] = u.prev[x]
    BY <1>24, <1>28, <2>1
  <2>3. u.next[x] = h.next[x] /\ u.prev[x] = h.prev[x]
    BY <1>2, <1>20, <2>1
  <2>. QED BY <2>2, <2>3
<1>32. /\ g \in Heaps /\ g.value = h.value /\ g.owner = h.owner
       /\ g.size_ = [h.size_ EXCEPT ![l] = so, ![o] = sl] /\ g.alloc_ = [h.alloc_ EXCEPT ![l] = ao, ![o] = al]
  BY <1>20, <1>23, <1>27 DEF Repaired
<1>33. g.alloc_[l] = ao /\ g.alloc_[o] = al /\ \A p \in ring!Sentinels : p # l /\ p # o => g.alloc_[p] = h.alloc_[p]
  BY <1>2, <1>32
<1>34. Exchanges(h, R, l, o, g)
  BY <1>14, <1>15, <1>16, <1>17, <1>29, <1>30, <1>31, <1>32, <1>33 DEF Exchanges
<1>. QED BY <1>16, <1>17, <1>32, <1>34, ExchangeGood

-----------------------------------------------------------------------------
(* The lists L exist and hold C; the other sentinels have no nodes. *)

Keeps(h, C) == \E R : Good(h, R, C)

Stores(h, L, C) ==
  /\ L \subseteq Lists /\ Keeps(h, C)
  /\ \A l \in ring!Sentinels : l \notin L => C[l] = <<>>
  /\ \A l \in L : h.alloc_[l] \in Allocators

Shown(L, C) == [l \in Lists |-> IF l \in L THEN C[l] ELSE None]

LEMMA StoresTypes ==
  ASSUME NEW h, NEW L, NEW C, Stores(h, L, C)
  PROVE  /\ L \subseteq Lists /\ L \subseteq ring!Sentinels /\ Lists \subseteq ring!Sentinels
         /\ Temp \in ring!Sentinels /\ Temp \notin L /\ C[Temp] = <<>>
         /\ h \in Heaps /\ C \in [ring!Sentinels -> Seq(Items \cup {Taken})]
         /\ h.alloc_ \in [ring!Sentinels -> Allocators \cup {None}]
         /\ \A l \in ring!Sentinels : l \notin L => C[l] = <<>>
         /\ \A l \in L : h.alloc_[l] \in Allocators
  BY Addresses DEF Stores, Keeps, Good, Heaps, ring!Sentinels

LEMMA KeptTypes ==
  ASSUME NEW h, NEW C, Keeps(h, C)
  PROVE  /\ h \in Heaps /\ C \in [ring!Sentinels -> Seq(Items \cup {Taken})]
         /\ h.alloc_ \in [ring!Sentinels -> Allocators \cup {None}]
  BY DEF Keeps, Good, Heaps

LEMMA ContentsAre ==
  ASSUME NEW h, NEW C, Keeps(h, C), NEW l \in ring!Sentinels
  PROVE  ring!Contents(h, l) = C[l]
  BY RingIs DEF Keeps

LEMMA FitsIs ==
  ASSUME NEW h, NEW s
  PROVE  ring!Fits(h, s) <=> Len(s) <= Room(h)
  BY DEF ring!Fits, ring!Cardinality, Cardinality, Room

(* The operations once more, without the nodes. *)
LEMMA FreshKeeps ==
  ASSUME NEW h, NEW C, Keeps(h, C), NEW l \in ring!Sentinels, C[l] = <<>>, NEW al \in Allocators
  PROVE  /\ Keeps(ring!Fresh(h, l, al), C) /\ ring!Fresh(h, l, al).alloc_ = [h.alloc_ EXCEPT ![l] = al]
         /\ Room(ring!Fresh(h, l, al)) = Room(h)
<1>1. PICK R : Good(h, R, C)
  BY DEF Keeps
<1>2. PICK g : g = ring!Fresh(h, l, al)
  OBVIOUS
<1>3. Good(g, R, C) /\ Allots(h, l, al, g)
  BY <1>1, <1>2, FreshGood
<1>4. ring!Free(g) = ring!Free(h)
  BY <1>3 DEF Allots, ring!Free
<1>. QED BY <1>2, <1>3, <1>4 DEF Keeps, Allots, Room

KeepsPushed(h, C, l, z, g) ==
  /\ g.alloc_ = h.alloc_
  /\ \E y \in Seq(Items \cup {Taken}) : Keeps(g, [C EXCEPT ![l] = y]) /\ (Len(z) <= Room(h) => y = z)

LEMMA PushKeeps ==
  ASSUME NEW h, NEW C, Keeps(h, C), NEW l \in ring!Sentinels, C[l] = <<>>, h.alloc_[l] \in Allocators,
         NEW z \in Seq(Items \cup {Taken})
  PROVE  KeepsPushed(h, C, l, z, ring!PushAll(h, l, z))
<1>1. PICK R : Good(h, R, C)
  BY DEF Keeps
<1>2. PICK g : g = ring!PushAll(h, l, z)
  OBVIOUS
<1>3. PICK k : k = Least(Len(z), Room(h))
  OBVIOUS
<1>4. Pushed(h, R, C, l, SubSeq(z, 1, k), Room(h) - k, g)
  BY <1>1, <1>2, <1>3, PushAllGood
<1>5. Len(z) \in Nat /\ Room(h) \in Nat /\ k \in Nat /\ k <= Len(z)
  BY <1>3, FreeIsFinite DEF Least
<1>6. PICK y : y = SubSeq(z, 1, k)
  OBVIOUS
<1>7. y \in Seq(Items \cup {Taken})
  <2>. PICK S : S = Items \cup {Taken}
    OBVIOUS
  <2>. QED BY <1>5, <1>6
<1>8. ASSUME Len(z) <= Room(h) PROVE y = z
  <2>1. PICK S : S = Items \cup {Taken}
    OBVIOUS
  <2>2. z \in Seq(S) /\ k = Len(z)
    BY <1>3, <1>8, <2>1 DEF Least
  <2>3. y \in Seq(S) /\ Len(y) = Len(z) /\ \A i \in 1..Len(z) : y[i] = z[i]
    BY <1>5, <1>6, <2>2
  <2>. QED BY ONLY <2>2, <2>3, SeqEqual
<1>. QED BY <1>2, <1>4, <1>6, <1>7, <1>8 DEF Pushed, Keeps, KeepsPushed

LEMMA ClearKeeps ==
  ASSUME NEW h, NEW C, Keeps(h, C), NEW l \in ring!Sentinels
  PROVE  Keeps(ring!clear(h, l), [C EXCEPT ![l] = <<>>]) /\ ring!clear(h, l).alloc_ = h.alloc_
  BY ClearGood DEF Keeps

LEMMA AllotKeeps ==
  ASSUME NEW h, NEW C, Keeps(h, C), NEW l \in ring!Sentinels, C[l] = <<>>, NEW al \in Allocators
  PROVE  /\ Keeps([h EXCEPT !.alloc_[l] = al], C)
         /\ [h EXCEPT !.alloc_[l] = al].alloc_ = [h.alloc_ EXCEPT ![l] = al]
<1>1. PICK R : Good(h, R, C)
  BY DEF Keeps
<1>2. PICK g : g = [h EXCEPT !.alloc_[l] = al]
  OBVIOUS
<1>3. Allots(h, l, al, g)
  BY <1>2, KeptTypes, AllocFields
<1>4. Good(g, R, C)
  BY <1>1, <1>3, AllotGood
<1>. QED BY <1>2, <1>3, <1>4 DEF Keeps, Allots

LEMMA DestroyedKeeps ==
  ASSUME NEW h, NEW C, Keeps(h, C), NEW l \in ring!Sentinels
  PROVE  /\ Keeps(ring!Destroyed(h, l), [C EXCEPT ![l] = <<>>])
         /\ ring!Destroyed(h, l).alloc_ = [h.alloc_ EXCEPT ![l] = None]
  BY DestroyedGood DEF Keeps

LEMMA StealKeeps ==
  ASSUME NEW h, NEW C, Keeps(h, C), NEW l \in ring!Sentinels, NEW o \in ring!Sentinels, l # o,
         C[l] = <<>>, h.alloc_[l] = h.alloc_[o]
  PROVE  /\ Keeps(ring!steal_nodes_from(h, l, o), [C EXCEPT ![l] = C[o], ![o] = <<>>])
         /\ ring!steal_nodes_from(h, l, o).alloc_ = h.alloc_
<1>1. PICK R : Good(h, R, C)
  BY DEF Keeps
<1>2. PICK g : g = ring!steal_nodes_from(h, l, o)
  OBVIOUS
<1>3. Good(g, [R EXCEPT ![l] = R[o], ![o] = R[l]], [C EXCEPT ![l] = C[o], ![o] = C[l]]) /\ g.alloc_ = h.alloc_
  BY <1>1, <1>2, StealGood
<1>. QED BY <1>2, <1>3 DEF Keeps

LEMMA SwappedKeeps ==
  ASSUME NEW h, NEW C, Keeps(h, C), NEW l \in ring!Sentinels, NEW o \in ring!Sentinels, l # o,
         propagates \/ h.alloc_[l] = h.alloc_[o]
  PROVE  /\ Keeps(ring!swapped(h, l, o), [C EXCEPT ![l] = C[o], ![o] = C[l]])
         /\ ring!swapped(h, l, o).alloc_ = [h.alloc_ EXCEPT ![l] = h.alloc_[o], ![o] = h.alloc_[l]]
<1>1. PICK R : Good(h, R, C)
  BY DEF Keeps
<1>2. PICK g : g = ring!swapped(h, l, o)
  OBVIOUS
<1>3. /\ Good(g, [R EXCEPT ![l] = R[o], ![o] = R[l]], [C EXCEPT ![l] = C[o], ![o] = C[l]])
      /\ g.alloc_ = [h.alloc_ EXCEPT ![l] = h.alloc_[o], ![o] = h.alloc_[l]]
  BY <1>1, <1>2, SwappedGood
<1>. QED BY <1>2, <1>3 DEF Keeps

-----------------------------------------------------------------------------
(* What the operations leave, from the lists L that hold C. *)

LEMMA ConstructStores ==
  ASSUME NEW h, NEW L, NEW C, Stores(h, L, C), NEW l \in Lists, l \notin L, NEW al \in Allocators,
         NEW s \in Seq(Items \cup {Taken})
  PROVE  /\ ring!Fits(h, s) => Stores(ring!PushAll(ring!Fresh(h, l, al), l, s), L \cup {l}, [C EXCEPT ![l] = s])
         /\ Stores(ring!Destroyed(ring!PushAll(ring!Fresh(h, l, al), l, s), l), L, C)
<1>1. PICK f : f = ring!Fresh(h, l, al)
  OBVIOUS
<1>2. PICK p : p = ring!PushAll(f, l, s)
  OBVIOUS
<1>3. PICK d : d = ring!Destroyed(p, l)
  OBVIOUS
<1>4. /\ Keeps(h, C) /\ l \in ring!Sentinels /\ C[l] = <<>> /\ C \in [ring!Sentinels -> Seq(Items \cup {Taken})]
      /\ h.alloc_ \in [ring!Sentinels -> Allocators \cup {None}]
      /\ L \subseteq Lists /\ L \subseteq ring!Sentinels /\ \A o \in L : h.alloc_[o] \in Allocators
      /\ \A o \in ring!Sentinels : o \notin L => C[o] = <<>>
  <2>1. Keeps(h, C) /\ L \subseteq Lists
    BY DEF Stores
  <2>. QED BY <2>1, StoresTypes
<1>5. Keeps(f, C) /\ f.alloc_ = [h.alloc_ EXCEPT ![l] = al] /\ Room(f) = Room(h)
  BY <1>1, <1>4, FreshKeeps
<1>6. f.alloc_[l] \in Allocators
  BY <1>4, <1>5
<1>7. /\ p.alloc_ = f.alloc_
      /\ \E y \in Seq(Items \cup {Taken}) : Keeps(p, [C EXCEPT ![l] = y]) /\ (Len(s) <= Room(f) => y = s)
  <2>1. KeepsPushed(f, C, l, s, p)
    BY <1>2, <1>4, <1>5, <1>6, PushKeeps
  <2>. QED BY <2>1 DEF KeepsPushed
<1>8. PICK y \in Seq(Items \cup {Taken}) : Keeps(p, [C EXCEPT ![l] = y]) /\ (Len(s) <= Room(f) => y = s)
  BY <1>7
<1>9. \A o \in L : o # l /\ p.alloc_[o] \in Allocators
  BY <1>4, <1>5, <1>7
<1>10. ASSUME ring!Fits(h, s) PROVE Stores(p, L \cup {l}, [C EXCEPT ![l] = s])
  <2>1. Keeps(p, [C EXCEPT ![l] = s])
    BY <1>5, <1>8, <1>10, FitsIs
  <2>2. \A o \in ring!Sentinels : o \notin L \cup {l} => [C EXCEPT ![l] = s][o] = <<>>
    BY <1>4
  <2>3. \A o \in L \cup {l} : p.alloc_[o] \in Allocators
    BY <1>6, <1>7, <1>9
  <2>. QED BY <1>4, <2>1, <2>2, <2>3 DEF Stores
<1>11. Stores(d, L, C)
  <2>1. PICK D : D = [C EXCEPT ![l] = y]
    OBVIOUS
  <2>2. Keeps(d, [D EXCEPT ![l] = <<>>]) /\ d.alloc_ = [p.alloc_ EXCEPT ![l] = None]
    BY <1>3, <1>4, <1>8, <2>1, DestroyedKeeps
  <2>3. [D EXCEPT ![l] = <<>>] = C
    BY <1>4, <2>1
  <2>4. \A o \in L : d.alloc_[o] \in Allocators
    BY <1>4, <1>5, <1>7, <1>9, <2>2
  <2>. QED BY <1>4, <2>2, <2>3, <2>4 DEF Stores
<1>. QED BY <1>1, <1>2, <1>3, <1>10, <1>11

LEMMA MoveConstructStores ==
  ASSUME NEW h, NEW L, NEW C, Stores(h, L, C), NEW l \in Lists, l \notin L, NEW o \in L
  PROVE  Stores(ring!steal_nodes_from(ring!Fresh(h, l, h.alloc_[o]), l, o), L \cup {l}, [C EXCEPT ![l] = C[o], ![o] = <<>>])
<1>1. PICK al : al = h.alloc_[o]
  OBVIOUS
<1>2. PICK f : f = ring!Fresh(h, l, al)
  OBVIOUS
<1>3. PICK g : g = ring!steal_nodes_from(f, l, o)
  OBVIOUS
<1>4. /\ Keeps(h, C) /\ l \in ring!Sentinels /\ C[l] = <<>> /\ C \in [ring!Sentinels -> Seq(Items \cup {Taken})]
      /\ h.alloc_ \in [ring!Sentinels -> Allocators \cup {None}] /\ o \in ring!Sentinels /\ l # o
      /\ L \subseteq Lists /\ L \subseteq ring!Sentinels /\ \A p \in L : h.alloc_[p] \in Allocators
      /\ \A p \in ring!Sentinels : p \notin L => C[p] = <<>>
  <2>1. Keeps(h, C) /\ L \subseteq Lists
    BY DEF Stores
  <2>. QED BY <2>1, StoresTypes
<1>5. Keeps(f, C) /\ f.alloc_ = [h.alloc_ EXCEPT ![l] = al]
  BY <1>1, <1>2, <1>4, FreshKeeps
<1>6. f.alloc_[l] = f.alloc_[o]
  BY <1>1, <1>4, <1>5
<1>7. Keeps(g, [C EXCEPT ![l] = C[o], ![o] = <<>>]) /\ g.alloc_ = f.alloc_
  <2>1. Keeps(f, C) /\ f.alloc_[l] = f.alloc_[o]
    BY <1>5, <1>6
  <2>. QED BY <1>3, <1>4, <2>1, StealKeeps
<1>8. \A p \in L \cup {l} : g.alloc_[p] \in Allocators
  BY <1>1, <1>4, <1>5, <1>7
<1>9. \A p \in ring!Sentinels : p \notin L \cup {l} => [C EXCEPT ![l] = C[o], ![o] = <<>>][p] = <<>>
  BY <1>4
<1>10. Stores(g, L \cup {l}, [C EXCEPT ![l] = C[o], ![o] = <<>>])
  BY <1>4, <1>7, <1>8, <1>9 DEF Stores
<1>. QED BY <1>1, <1>2, <1>3, <1>10

LEMMA DestroyStores ==
  ASSUME NEW h, NEW L, NEW C, Stores(h, L, C), NEW l \in L
  PROVE  Stores(ring!Destroyed(h, l), L \ {l}, [C EXCEPT ![l] = <<>>])
<1>1. PICK g : g = ring!Destroyed(h, l)
  OBVIOUS
<1>2. /\ Keeps(h, C) /\ l \in ring!Sentinels /\ C \in [ring!Sentinels -> Seq(Items \cup {Taken})]
      /\ h.alloc_ \in [ring!Sentinels -> Allocators \cup {None}]
      /\ L \subseteq Lists /\ L \subseteq ring!Sentinels /\ \A p \in L : h.alloc_[p] \in Allocators
      /\ \A p \in ring!Sentinels : p \notin L => C[p] = <<>>
  <2>1. Keeps(h, C) /\ L \subseteq Lists
    BY DEF Stores
  <2>. QED BY <2>1, StoresTypes
<1>3. Keeps(g, [C EXCEPT ![l] = <<>>]) /\ g.alloc_ = [h.alloc_ EXCEPT ![l] = None]
  BY <1>1, <1>2, DestroyedKeeps
<1>4. \A p \in L \ {l} : g.alloc_[p] \in Allocators
  BY <1>2, <1>3
<1>5. \A p \in ring!Sentinels : p \notin L \ {l} => [C EXCEPT ![l] = <<>>][p] = <<>>
  BY <1>2
<1>6. Stores(g, L \ {l}, [C EXCEPT ![l] = <<>>])
  BY <1>2, <1>3, <1>4, <1>5 DEF Stores
<1>. QED BY <1>1, <1>6

LEMMA ClearStores ==
  ASSUME NEW h, NEW L, NEW C, Stores(h, L, C), NEW l \in L
  PROVE  Stores(ring!clear(h, l), L, [C EXCEPT ![l] = <<>>])
<1>1. PICK g : g = ring!clear(h, l)
  OBVIOUS
<1>2. /\ Keeps(h, C) /\ l \in ring!Sentinels /\ C \in [ring!Sentinels -> Seq(Items \cup {Taken})]
      /\ L \subseteq Lists /\ L \subseteq ring!Sentinels /\ \A p \in L : h.alloc_[p] \in Allocators
      /\ \A p \in ring!Sentinels : p \notin L => C[p] = <<>>
  <2>1. Keeps(h, C) /\ L \subseteq Lists
    BY DEF Stores
  <2>. QED BY <2>1, StoresTypes
<1>3. Keeps(g, [C EXCEPT ![l] = <<>>]) /\ g.alloc_ = h.alloc_
  BY <1>1, <1>2, ClearKeeps
<1>4. \A p \in ring!Sentinels : p \notin L => [C EXCEPT ![l] = <<>>][p] = <<>>
  BY <1>2
<1>5. Stores(g, L, [C EXCEPT ![l] = <<>>])
  BY <1>2, <1>3, <1>4 DEF Stores
<1>. QED BY <1>1, <1>5

LEMMA SwapStores ==
  ASSUME NEW h, NEW L, NEW C, Stores(h, L, C), NEW l \in L, NEW o \in L, l # o,
         propagates \/ h.alloc_[l] = h.alloc_[o]
  PROVE  Stores(ring!swapped(h, l, o), L, [C EXCEPT ![l] = C[o], ![o] = C[l]])
<1>1. PICK g : g = ring!swapped(h, l, o)
  OBVIOUS
<1>2. /\ Keeps(h, C) /\ l \in ring!Sentinels /\ o \in ring!Sentinels /\ C \in [ring!Sentinels -> Seq(Items \cup {Taken})]
      /\ h.alloc_ \in [ring!Sentinels -> Allocators \cup {None}]
      /\ L \subseteq Lists /\ L \subseteq ring!Sentinels /\ \A p \in L : h.alloc_[p] \in Allocators
      /\ \A p \in ring!Sentinels : p \notin L => C[p] = <<>>
  <2>1. Keeps(h, C) /\ L \subseteq Lists
    BY DEF Stores
  <2>. QED BY <2>1, StoresTypes
<1>3. /\ Keeps(g, [C EXCEPT ![l] = C[o], ![o] = C[l]])
      /\ g.alloc_ = [h.alloc_ EXCEPT ![l] = h.alloc_[o], ![o] = h.alloc_[l]]
  BY <1>1, <1>2, SwappedKeeps
<1>4. \A p \in L : g.alloc_[p] \in Allocators
  BY <1>2, <1>3
<1>5. \A p \in ring!Sentinels : p \notin L => [C EXCEPT ![l] = C[o], ![o] = C[l]][p] = <<>>
  BY <1>2
<1>6. Stores(g, L, [C EXCEPT ![l] = C[o], ![o] = C[l]])
  BY <1>2, <1>3, <1>4, <1>5 DEF Stores
<1>. QED BY <1>1, <1>6

LEMMA EmplaceStores ==
  ASSUME NEW h, NEW L, NEW C, Stores(h, L, C), NEW l \in L, ring!Free(h) # {},
         NEW pos \in ring!Range(ring!Ring(h, l)) \cup {l}, NEW v \in Items
  PROVE  \E k \in 0..Len(C[l]) : Stores(ring!emplace(h, l, pos, v), L, [C EXCEPT ![l] = With(C[l], k, v)])
<1>1. PICK g : g = ring!emplace(h, l, pos, v)
  OBVIOUS
<1>2. /\ l \in ring!Sentinels /\ C \in [ring!Sentinels -> Seq(Items \cup {Taken})]
      /\ L \subseteq Lists /\ L \subseteq ring!Sentinels /\ \A p \in L : h.alloc_[p] \in Allocators
      /\ \A p \in ring!Sentinels : p \notin L => C[p] = <<>>
  BY StoresTypes
<1>3. PICK R : Good(h, R, C)
  BY DEF Stores, Keeps
<1>4. PICK s : s = R[l]
  OBVIOUS
<1>5. s \in Seq(RingNodes) /\ Len(s) \in Nat /\ Len(C[l]) = Len(s)
  BY <1>2, <1>3, <1>4, RingTypes
<1>6. ring!Ring(h, l) = s
  BY <1>2, <1>3, <1>4, RingIs
<1>7. \E k \in 0..Len(s) : pos = At(l, s, k + 1)
  <2>1. CASE pos = l
    <3>1. Len(s) \in 0..Len(s) /\ At(l, s, Len(s) + 1) = l
      BY <1>5 DEF At
    <3>. QED BY <2>1, <3>1
  <2>2. CASE pos \in ring!Range(s)
    <3>1. PICK i \in 1..Len(s) : pos = s[i]
      BY <1>5, <2>2 DEF ring!Range
    <3>2. i - 1 \in 0..Len(s) /\ (i - 1) + 1 = i /\ At(l, s, i) = s[i]
      BY <1>5 DEF At
    <3>. QED BY <3>1, <3>2
  <2>. QED BY <1>6, <2>1, <2>2
<1>8. PICK k \in 0..Len(s) : pos = At(l, s, k + 1)
  BY <1>7
<1>9. Emplaced(h, R, C, l, k, v, g)
  <2>1. /\ k \in 0..Len(R[l]) /\ h.alloc_[l] \in Allocators /\ v \in Items \cup {Taken}
        /\ g = ring!emplace(h, l, At(l, R[l], k + 1), v)
    BY <1>1, <1>2, <1>4, <1>8
  <2>. QED BY <1>2, <1>3, <2>1, EmplaceGood
<1>10. PICK D : D = [C EXCEPT ![l] = With(C[l], k, v)]
  OBVIOUS
<1>11. Keeps(g, D) /\ g.alloc_ = h.alloc_
  BY <1>9, <1>10 DEF Emplaced, Keeps
<1>12. \A p \in ring!Sentinels : p \notin L => D[p] = <<>>
  BY <1>2, <1>10
<1>13. Stores(g, L, D)
  BY <1>2, <1>11, <1>12 DEF Stores
<1>. QED BY <1>1, <1>5, <1>8, <1>10, <1>13

LEMMA EraseStores ==
  ASSUME NEW h, NEW L, NEW C, Stores(h, L, C), NEW l \in L,
         NEW i \in DOMAIN ring!Ring(h, l), NEW j \in DOMAIN ring!Ring(h, l), i <= j
  PROVE  /\ i \in 1..Len(C[l]) /\ j \in i..Len(C[l])
         /\ Stores(ring!EraseAll(h, l, SubSeq(ring!Ring(h, l), i, j)), L, [C EXCEPT ![l] = Cut(C[l], i, j - i + 1)])
<1>2. /\ l \in ring!Sentinels /\ C \in [ring!Sentinels -> Seq(Items \cup {Taken})]
      /\ L \subseteq Lists /\ L \subseteq ring!Sentinels /\ \A p \in L : h.alloc_[p] \in Allocators
      /\ \A p \in ring!Sentinels : p \notin L => C[p] = <<>>
  BY StoresTypes
<1>3. PICK R : Good(h, R, C)
  BY DEF Stores, Keeps
<1>4. PICK s : s = R[l]
  OBVIOUS
<1>5. s \in Seq(RingNodes) /\ Len(s) \in Nat /\ Len(C[l]) = Len(s)
  BY <1>2, <1>3, <1>4, RingTypes
<1>6. ring!Ring(h, l) = s
  BY <1>2, <1>3, <1>4, RingIs
<1>7. i \in 1..Len(s) /\ j \in i..Len(s)
  BY <1>5, <1>6
<1>8. PICK g : g = ring!EraseAll(h, l, SubSeq(s, i, j))
  OBVIOUS
<1>9. PICK D : D = [C EXCEPT ![l] = Cut(C[l], i, j - i + 1)]
  OBVIOUS
<1>10. /\ Good(g, [R EXCEPT ![l] = Cut(R[l], i, j - i + 1)], [C EXCEPT ![l] = Cut(C[l], i, j - i + 1)])
       /\ g.alloc_ = h.alloc_
  <2>1. i \in 1..Len(R[l]) /\ j \in i..Len(R[l]) /\ g = ring!EraseAll(h, l, SubSeq(R[l], i, j))
    BY <1>4, <1>7, <1>8
  <2>2. l \in ring!Sentinels /\ Good(h, R, C)
    BY <1>2, <1>3
  <2>3. PICK m : m = j - i + 1
    OBVIOUS
  <2>. QED BY ONLY <2>1, <2>2, EraseAllGood
<1>11. Keeps(g, D)
  BY <1>9, <1>10 DEF Keeps
<1>12. \A p \in ring!Sentinels : p \notin L => D[p] = <<>>
  BY <1>2, <1>9
<1>13. Stores(g, L, D)
  BY <1>2, <1>10, <1>11, <1>12 DEF Stores
<1>. QED BY <1>5, <1>6, <1>7, <1>8, <1>9, <1>13

(* The copy assignment through the temporary. *)
LEMMA CopyAssignStores ==
  ASSUME NEW h, NEW L, NEW C, Stores(h, L, C), NEW l \in L, NEW o \in L, l # o, NEW al \in Allocators,
         NEW p, p = ring!PushAll(ring!Fresh(h, Temp, al), Temp, C[o]),
         NEW k, k = [ring!clear(p, l) EXCEPT !.alloc_[l] = al]
  PROVE  /\ ring!Fits(h, C[o]) => Stores(ring!Destroyed(ring!steal_nodes_from(k, l, Temp), Temp), L, [C EXCEPT ![l] = C[o]])
         /\ Stores(ring!Destroyed(p, Temp), L, C)
<1>1. PICK f : f = ring!Fresh(h, Temp, al)
  OBVIOUS
<1>2. PICK s : s = C[o]
  OBVIOUS
<1>3. /\ Keeps(h, C) /\ l \in ring!Sentinels /\ o \in ring!Sentinels /\ Temp \in ring!Sentinels /\ C[Temp] = <<>>
      /\ C \in [ring!Sentinels -> Seq(Items \cup {Taken})] /\ s \in Seq(Items \cup {Taken})
      /\ h.alloc_ \in [ring!Sentinels -> Allocators \cup {None}]
      /\ L \subseteq Lists /\ L \subseteq ring!Sentinels /\ Temp \notin L /\ l # Temp /\ o # Temp
  <2>1. Keeps(h, C) /\ L \subseteq Lists
    BY DEF Stores
  <2>. QED BY <1>2, <2>1, StoresTypes
<1>4. (\A q \in L : h.alloc_[q] \in Allocators) /\ \A q \in ring!Sentinels : q \notin L => C[q] = <<>>
  BY StoresTypes
<1>5. Keeps(f, C) /\ f.alloc_ = [h.alloc_ EXCEPT ![Temp] = al] /\ Room(f) = Room(h)
  BY <1>1, <1>3, FreshKeeps
<1>6. f.alloc_[Temp] \in Allocators
  BY <1>3, <1>5
<1>7. KeepsPushed(f, C, Temp, s, p)
  BY <1>1, <1>2, <1>3, <1>5, <1>6, PushKeeps
<1>8. PICK y \in Seq(Items \cup {Taken}) : Keeps(p, [C EXCEPT ![Temp] = y]) /\ (Len(s) <= Room(f) => y = s)
  BY <1>7 DEF KeepsPushed
<1>9. p.alloc_ = [h.alloc_ EXCEPT ![Temp] = al]
  BY <1>5, <1>7 DEF KeepsPushed
<1>10. PICK D : D = [C EXCEPT ![Temp] = y]
  OBVIOUS
<1>11. ASSUME ring!Fits(h, C[o])
       PROVE  Stores(ring!Destroyed(ring!steal_nodes_from(k, l, Temp), Temp), L, [C EXCEPT ![l] = C[o]])
  <2>1. y = s
    BY <1>2, <1>5, <1>8, <1>11, FitsIs
  <2>2. PICK c : c = ring!clear(p, l)
    OBVIOUS
  <2>3. PICK E : E = [D EXCEPT ![l] = <<>>]
    OBVIOUS
  <2>4. Keeps(c, E) /\ c.alloc_ = p.alloc_
    BY <1>3, <1>8, <1>10, <2>2, <2>3, ClearKeeps
  <2>5. E[l] = <<>> /\ E[Temp] = s /\ E \in [ring!Sentinels -> Seq(Items \cup {Taken})]
    BY <1>3, <1>10, <2>1, <2>3
  <2>6. Keeps(k, E) /\ k.alloc_ = [c.alloc_ EXCEPT ![l] = al]
    <3>1. Keeps(c, E) /\ l \in ring!Sentinels /\ E[l] = <<>> /\ al \in Allocators
      BY <1>3, <2>4, <2>5
    <3>2. k = [c EXCEPT !.alloc_[l] = al]
      BY <2>2
    <3>. QED BY ONLY <3>1, <3>2, AllotKeeps
  <2>7. k.alloc_[l] = k.alloc_[Temp]
    BY <1>3, <1>9, <2>4, <2>6
  <2>8. PICK g : g = ring!steal_nodes_from(k, l, Temp)
    OBVIOUS
  <2>9. PICK G : G = [E EXCEPT ![l] = E[Temp], ![Temp] = <<>>]
    OBVIOUS
  <2>10. Keeps(g, G) /\ g.alloc_ = k.alloc_
    <3>1. Keeps(k, E) /\ l \in ring!Sentinels /\ Temp \in ring!Sentinels /\ l # Temp /\ E[l] = <<>> /\ k.alloc_[l] = k.alloc_[Temp]
      BY <1>3, <2>5, <2>6, <2>7
    <3>. QED BY ONLY <2>8, <2>9, <3>1, StealKeeps
  <2>11. PICK d : d = ring!Destroyed(g, Temp)
    OBVIOUS
  <2>12. Keeps(d, [G EXCEPT ![Temp] = <<>>]) /\ d.alloc_ = [g.alloc_ EXCEPT ![Temp] = None]
    BY <1>3, <2>10, <2>11, DestroyedKeeps
  <2>13. [G EXCEPT ![Temp] = <<>>] = [C EXCEPT ![l] = s]
    BY <1>3, <1>10, <2>1, <2>3, <2>5, <2>9
  <2>14. \A q \in L : d.alloc_[q] \in Allocators
    <3>1. d.alloc_ = [[[h.alloc_ EXCEPT ![Temp] = al] EXCEPT ![l] = al] EXCEPT ![Temp] = None]
      BY <1>9, <2>4, <2>6, <2>10, <2>12
    <3>. SUFFICES ASSUME NEW q \in L PROVE d.alloc_[q] \in Allocators
      OBVIOUS
    <3>2. q \in ring!Sentinels /\ q # Temp /\ h.alloc_[q] \in Allocators
      BY <1>3, <1>4
    <3>3. d.alloc_[q] = IF q = l THEN al ELSE h.alloc_[q]
      BY ONLY <1>3, <3>1, <3>2
    <3>. QED BY <3>2, <3>3
  <2>15. \A q \in ring!Sentinels : q \notin L => [C EXCEPT ![l] = s][q] = <<>>
    BY <1>3, <1>4
  <2>16. Stores(d, L, [C EXCEPT ![l] = s])
    BY <1>3, <2>12, <2>13, <2>14, <2>15 DEF Stores
  <2>. QED BY <1>2, <2>8, <2>11, <2>16
<1>12. Stores(ring!Destroyed(p, Temp), L, C)
  <2>1. PICK d : d = ring!Destroyed(p, Temp)
    OBVIOUS
  <2>2. Keeps(d, [D EXCEPT ![Temp] = <<>>]) /\ d.alloc_ = [p.alloc_ EXCEPT ![Temp] = None]
    BY <1>3, <1>8, <1>10, <2>1, DestroyedKeeps
  <2>3. [D EXCEPT ![Temp] = <<>>] = C
    BY <1>3, <1>10
  <2>4. \A q \in L : d.alloc_[q] \in Allocators
    BY <1>3, <1>4, <1>9, <2>2
  <2>5. Stores(d, L, C)
    BY <1>3, <1>4, <2>2, <2>3, <2>4 DEF Stores
  <2>. QED BY <2>1, <2>5
<1>. QED BY <1>11, <1>12

-----------------------------------------------------------------------------
(* The move assignment element by element: the first k values of o are moved. *)

MovedFrom(c, k) == [i \in 1..Len(c) |-> IF i <= k THEN Taken ELSE c[i]]

Leaves(h, s, k, g) ==
  /\ g \in Heaps /\ g.next = h.next /\ g.prev = h.prev /\ g.owner = h.owner /\ g.size_ = h.size_ /\ g.alloc_ = h.alloc_
  /\ \A n \in RingNodes : g.value[n] = IF \E i \in 1..k : n = s[i] THEN Taken ELSE h.value[n]

LEMMA LeftGood ==
  ASSUME NEW h, NEW R, NEW C, Good(h, R, C), NEW o \in ring!Sentinels, NEW k \in 0..Len(R[o]),
         NEW g, Leaves(h, R[o], k, g)
  PROVE  Good(g, R, [C EXCEPT ![o] = MovedFrom(C[o], k)])
<1>. PICK s : s = R[o]
  OBVIOUS
<1>. PICK c : c = C[o]
  OBVIOUS
<1>. PICK d : d = MovedFrom(c, k)
  OBVIOUS
<1>. PICK D : D = [C EXCEPT ![o] = d]
  OBVIOUS
<1>1. /\ s \in Seq(RingNodes) /\ Len(s) \in Nat /\ Len(c) = Len(s) /\ Distinct(s) /\ c \in Seq(Items \cup {Taken})
      /\ \A i \in 1..Len(s) : s[i] \in RingNodes
  BY RingTypes
<1>2. C \in [ring!Sentinels -> Seq(Items \cup {Taken})] /\ k \in Nat /\ k <= Len(s)
  BY <1>1 DEF Good
<1>3. d \in Seq(Items \cup {Taken}) /\ Len(d) = Len(s)
  <2>1. \A i \in 1..Len(s) : (IF i <= k THEN Taken ELSE c[i]) \in Items \cup {Taken}
    BY <1>1
  <2>2. d = [i \in 1..Len(s) |-> IF i <= k THEN Taken ELSE c[i]]
    BY <1>1 DEF MovedFrom
  <2>. QED BY <1>1, <2>1, <2>2
<1>4. \A i \in 1..Len(s) : d[i] = IF i <= k THEN Taken ELSE c[i]
  BY <1>1 DEF MovedFrom
<1>5. D \in [ring!Sentinels -> Seq(Items \cup {Taken})] /\ D[o] = d /\ \A p \in ring!Sentinels : p # o => D[p] = C[p]
  BY <1>2, <1>3
<1>6. Sound(g, o, s, d)
  <2>1. Sound(h, o, s, c)
    BY DEF Good
  <2>2. ASSUME NEW i \in 1..Len(s) PROVE g.value[s[i]] = d[i] /\ g.owner[s[i]] = g.alloc_[o]
    <3>1. s[i] \in RingNodes /\ h.value[s[i]] = c[i] /\ h.owner[s[i]] = h.alloc_[o]
      BY <1>1, <2>1 DEF Sound
    <3>2. (\E j \in 1..k : s[i] = s[j]) <=> i <= k
      <4>1. \A j \in 1..k : j \in 1..Len(s) /\ j <= k
        BY <1>1, <1>2
      <4>2. i <= k => i \in 1..k
        BY <1>1, <1>2
      <4>. QED BY <1>1, <4>1, <4>2 DEF Distinct
    <3>3. g.value[s[i]] = IF \E j \in 1..k : s[i] = s[j] THEN Taken ELSE h.value[s[i]]
      BY <3>1 DEF Leaves
    <3>. QED BY <1>4, <3>1, <3>2, <3>3 DEF Leaves
  <2>. QED BY <1>3, <2>1, <2>2 DEF Sound, Leaves
<1>7. ASSUME NEW p \in ring!Sentinels, p # o PROVE Sound(g, p, R[p], C[p])
  <2>1. \A i \in 1..Len(R[p]) : R[p][i] \in RingNodes
    BY RingTypes
  <2>2. \A i \in 1..Len(R[p]), j \in 1..k : R[p][i] # s[j]
    <3>1. \A j \in 1..k : j \in 1..Len(s)
      BY <1>1, <1>2
    <3>. QED BY <1>7, <3>1 DEF Good, Apart
  <2>3. \A i \in 1..Len(R[p]) : g.value[R[p][i]] = h.value[R[p][i]]
    BY <2>1, <2>2 DEF Leaves
  <2>4. Sound(h, p, R[p], C[p])
    BY DEF Good
  <2>. QED BY <2>3, <2>4 DEF Sound, Leaves
<1>8. \A p \in ring!Sentinels : Sound(g, p, R[p], D[p])
  BY <1>5, <1>6, <1>7
<1>9. Reached(g, R)
  BY DEF Good, Reached, Leaves
<1>10. Good(g, R, D)
  BY <1>5, <1>8, <1>9 DEF Good, Leaves
<1>. QED BY <1>10

Left(h, l, o, cleared, pushed) ==
  [pushed EXCEPT !.value = [n \in RingNodes |->
     IF \E i \in 1..ring!Cardinality(ring!Free(cleared)) : i <= Len(ring!Contents(h, o)) /\ n = ring!Ring(h, o)[i]
       THEN Taken ELSE @[n]]]

LEMMA MoveAssignStores ==
  ASSUME NEW h, NEW L, NEW C, Stores(h, L, C), NEW l \in L, NEW o \in L, l # o,
         NEW cleared, cleared = ring!clear(h, l), NEW pushed, pushed = ring!PushAll(cleared, l, C[o]),
         NEW M, M = [C EXCEPT ![l] = C[o], ![o] = <<>>]
  PROVE  /\ Stores(ring!steal_nodes_from([cleared EXCEPT !.alloc_[l] = h.alloc_[o]], l, o), L, M)
         /\ h.alloc_[l] = h.alloc_[o] => Stores(ring!steal_nodes_from(cleared, l, o), L, M)
         /\ ring!Fits(cleared, C[o]) => Stores(ring!clear(pushed, o), L, M)
         /\ ~ ring!Fits(cleared, C[o]) =>
              \E k \in 0..(Len(C[o]) - 1) :
                Stores(Left(h, l, o, cleared, pushed), L, [C EXCEPT ![l] = SubSeq(C[o], 1, k), ![o] = MovedFrom(C[o], k)])
<1>1. /\ Keeps(h, C) /\ l \in ring!Sentinels /\ o \in ring!Sentinels
      /\ C \in [ring!Sentinels -> Seq(Items \cup {Taken})]
      /\ h.alloc_ \in [ring!Sentinels -> Allocators \cup {None}]
      /\ L \subseteq Lists /\ L \subseteq ring!Sentinels
  <2>1. Keeps(h, C) /\ L \subseteq Lists
    BY DEF Stores
  <2>. QED BY <2>1, StoresTypes
<1>2. (\A q \in L : h.alloc_[q] \in Allocators) /\ \A q \in ring!Sentinels : q \notin L => C[q] = <<>>
  BY StoresTypes
<1>3. PICK D : D = [C EXCEPT ![l] = <<>>]
  OBVIOUS
<1>4. PICK R : Good(h, R, C)
  BY <1>1 DEF Keeps
<1>5. PICK Q : Q = [R EXCEPT ![l] = <<>>]
  OBVIOUS
<1>6. Good(cleared, Q, D) /\ cleared.alloc_ = h.alloc_
  BY <1>1, <1>3, <1>4, <1>5, ClearGood
<1>7. D[l] = <<>> /\ D[o] = C[o] /\ D \in [ring!Sentinels -> Seq(Items \cup {Taken})] /\ Q[o] = R[o]
  BY <1>1, <1>3, <1>4, <1>5 DEF Good
<1>8. Keeps(cleared, D)
  BY <1>6 DEF Keeps
<1>9. [D EXCEPT ![l] = D[o], ![o] = <<>>] = M
  BY <1>1, <1>3, <1>7
<1>10. \A q \in ring!Sentinels : q \notin L => M[q] = <<>>
  BY <1>1, <1>2
<1>11. Stores(ring!steal_nodes_from([cleared EXCEPT !.alloc_[l] = h.alloc_[o]], l, o), L, M)
  <2>1. PICK al \in Allocators : al = h.alloc_[o]
    BY <1>2
  <2>2. PICK k : k = [cleared EXCEPT !.alloc_[l] = al]
    OBVIOUS
  <2>3. Keeps(k, D) /\ k.alloc_ = [h.alloc_ EXCEPT ![l] = al]
    <3>1. l \in ring!Sentinels /\ D[l] = <<>>
      BY <1>1, <1>7
    <3>2. Keeps(k, D) /\ k.alloc_ = [cleared.alloc_ EXCEPT ![l] = al]
      BY ONLY <1>8, <2>2, <3>1, al \in Allocators, AllotKeeps
    <3>. QED BY <1>6, <3>2
  <2>4. k.alloc_[l] = k.alloc_[o]
    BY <1>1, <2>1, <2>3
  <2>5. PICK g : g = ring!steal_nodes_from(k, l, o)
    OBVIOUS
  <2>6. Keeps(g, M) /\ g.alloc_ = k.alloc_
    <3>1. Keeps(k, D) /\ l \in ring!Sentinels /\ o \in ring!Sentinels /\ l # o /\ D[l] = <<>> /\ k.alloc_[l] = k.alloc_[o]
      BY <1>1, <1>7, <2>3, <2>4
    <3>2. Keeps(g, [D EXCEPT ![l] = D[o], ![o] = <<>>]) /\ g.alloc_ = k.alloc_
      BY ONLY <2>5, <3>1, StealKeeps
    <3>. QED BY <1>9, <3>2
  <2>7. \A q \in L : g.alloc_[q] \in Allocators
    BY <1>1, <1>2, <2>3, <2>6
  <2>8. Stores(g, L, M)
    BY <1>1, <1>10, <2>6, <2>7 DEF Stores
  <2>. QED BY <2>1, <2>2, <2>5, <2>8
<1>12. ASSUME h.alloc_[l] = h.alloc_[o] PROVE Stores(ring!steal_nodes_from(cleared, l, o), L, M)
  <2>1. PICK g : g = ring!steal_nodes_from(cleared, l, o)
    OBVIOUS
  <2>2. Keeps(g, M) /\ g.alloc_ = h.alloc_
    <3>1. /\ Keeps(cleared, D) /\ l \in ring!Sentinels /\ o \in ring!Sentinels /\ l # o /\ D[l] = <<>>
          /\ cleared.alloc_[l] = cleared.alloc_[o]
      BY <1>1, <1>6, <1>7, <1>8, <1>12
    <3>2. Keeps(g, [D EXCEPT ![l] = D[o], ![o] = <<>>]) /\ g.alloc_ = cleared.alloc_
      BY ONLY <2>1, <3>1, StealKeeps
    <3>. QED BY <1>6, <1>9, <3>2
  <2>3. Stores(g, L, M)
    BY <1>1, <1>2, <1>10, <2>2 DEF Stores
  <2>. QED BY <2>1, <2>3
<1>13. PICK s : s = C[o]
  OBVIOUS
<1>14. PICK k : k = Least(Len(s), Room(cleared))
  OBVIOUS
<1>15. s \in Seq(Items \cup {Taken}) /\ Len(s) \in Nat /\ Room(cleared) \in Nat
  BY <1>1, <1>13, FreeIsFinite
<1>16. Pushed(cleared, Q, D, l, SubSeq(s, 1, k), Room(cleared) - k, pushed)
  <2>1. Good(cleared, Q, D) /\ l \in ring!Sentinels /\ cleared.alloc_[l] \in Allocators /\ D[l] = <<>> /\ s \in Seq(Items \cup {Taken})
    BY <1>1, <1>2, <1>6, <1>7, <1>15
  <2>2. pushed = ring!PushAll(cleared, l, s)
    BY <1>13
  <2>. QED BY ONLY <1>14, <2>1, <2>2, PushAllGood
<1>17. PICK P : Good(pushed, P, [D EXCEPT ![l] = SubSeq(s, 1, k)]) /\ \A q \in ring!Sentinels : q # l => P[q] = Q[q]
  BY <1>16 DEF Pushed
<1>18. pushed.alloc_ = h.alloc_
  BY <1>6, <1>16 DEF Pushed
<1>19. ASSUME ring!Fits(cleared, C[o]) PROVE Stores(ring!clear(pushed, o), L, M)
  <2>1. k = Len(s)
    BY <1>13, <1>14, <1>19, FitsIs DEF Least
  <2>2. SubSeq(s, 1, k) = s
    <3>1. PICK S : S = Items \cup {Taken}
      OBVIOUS
    <3>2. s \in Seq(S) /\ k \in Nat
      BY <1>15, <2>1, <3>1
    <3>3. PICK y : y = SubSeq(s, 1, k)
      OBVIOUS
    <3>4. y \in Seq(S) /\ Len(y) = Len(s) /\ \A i \in 1..Len(s) : y[i] = s[i]
      BY ONLY <2>1, <3>2, <3>3
    <3>5. y = s
      BY ONLY <3>2, <3>4, SeqEqual
    <3>. QED BY <3>3, <3>5
  <2>3. PICK E : E = [D EXCEPT ![l] = s]
    OBVIOUS
  <2>4. Keeps(pushed, E)
    BY <1>17, <2>2, <2>3 DEF Keeps
  <2>5. PICK g : g = ring!clear(pushed, o)
    OBVIOUS
  <2>6. Keeps(g, [E EXCEPT ![o] = <<>>]) /\ g.alloc_ = pushed.alloc_
    BY <1>1, <2>4, <2>5, ClearKeeps
  <2>7. [E EXCEPT ![o] = <<>>] = M
    BY <1>1, <1>3, <1>13, <2>3
  <2>8. Stores(g, L, M)
    BY <1>1, <1>2, <1>10, <1>18, <2>6, <2>7 DEF Stores
  <2>. QED BY <2>5, <2>8
<1>20. ASSUME ~ ring!Fits(cleared, C[o])
       PROVE  \E m \in 0..(Len(C[o]) - 1) :
                Stores(Left(h, l, o, cleared, pushed), L, [C EXCEPT ![l] = SubSeq(C[o], 1, m), ![o] = MovedFrom(C[o], m)])
  <2>1. k = Room(cleared) /\ k \in 0..(Len(s) - 1) /\ k <= Len(s)
    BY <1>13, <1>14, <1>15, <1>20, FitsIs DEF Least
  <2>2. PICK g : g = Left(h, l, o, cleared, pushed)
    OBVIOUS
  <2>3. PICK t : t = R[o]
    OBVIOUS
  <2>4. ring!Ring(h, o) = t /\ ring!Contents(h, o) = s /\ P[o] = t /\ Len(t) = Len(s)
    BY <1>1, <1>4, <1>7, <1>13, <1>17, <2>3, RingIs, RingTypes
  <2>5. ring!Cardinality(ring!Free(cleared)) = k
    BY <2>1 DEF ring!Cardinality, Cardinality, Room
  <2>6. pushed \in Heaps
    BY <1>17 DEF Good
  <2>7. Leaves(pushed, t, k, g)
    <3>1. g = [pushed EXCEPT !.value = [n \in RingNodes |-> IF \E i \in 1..k : i <= Len(s) /\ n = t[i] THEN Taken ELSE @[n]]]
      BY <2>2, <2>4, <2>5 DEF Left
    <3>2. \A n \in RingNodes : (\E i \in 1..k : i <= Len(s) /\ n = t[i]) <=> \E i \in 1..k : n = t[i]
      BY <1>15, <2>1
    <3>3. PICK w : w = [n \in RingNodes |-> IF \E i \in 1..k : n = t[i] THEN Taken ELSE pushed.value[n]]
      OBVIOUS
    <3>4. g = [pushed EXCEPT !.value = w]
      <4>1. PICK v : v = [n \in RingNodes |-> IF \E i \in 1..k : i <= Len(s) /\ n = t[i] THEN Taken ELSE pushed.value[n]]
        OBVIOUS
      <4>2. g = [pushed EXCEPT !.value = v]
        BY ONLY <2>6, <3>1, <4>1 DEF Heaps
      <4>3. v = w
        BY ONLY <3>2, <3>3, <4>1
      <4>. QED BY <4>2, <4>3
    <3>5. w \in [RingNodes -> Items \cup {Taken, None}]
      BY <2>6, <3>3 DEF Heaps
    <3>6. /\ g \in Heaps /\ g.next = pushed.next /\ g.prev = pushed.prev /\ g.owner = pushed.owner
          /\ g.size_ = pushed.size_ /\ g.alloc_ = pushed.alloc_ /\ g.value = w
      BY ONLY <2>6, <3>4, <3>5 DEF Heaps
    <3>. QED BY <3>3, <3>6 DEF Leaves
  <2>8. PICK E : E = [D EXCEPT ![l] = SubSeq(s, 1, k)]
    OBVIOUS
  <2>9. E[o] = s
    BY <1>1, <1>7, <1>13, <2>8
  <2>10. Good(g, P, [E EXCEPT ![o] = MovedFrom(E[o], k)])
    <3>1. Good(pushed, P, E) /\ o \in ring!Sentinels /\ k \in 0..Len(P[o]) /\ Leaves(pushed, P[o], k, g)
      BY <1>1, <1>15, <1>17, <2>1, <2>4, <2>7, <2>8
    <3>. QED BY ONLY <3>1, LeftGood
  <2>11. PICK G : G = [C EXCEPT ![l] = SubSeq(s, 1, k), ![o] = MovedFrom(s, k)]
    OBVIOUS
  <2>12. [E EXCEPT ![o] = MovedFrom(E[o], k)] = G
    BY <1>1, <1>3, <2>8, <2>9, <2>11
  <2>13. Keeps(g, G) /\ g.alloc_ = h.alloc_
    BY <1>18, <2>7, <2>10, <2>12 DEF Keeps, Leaves
  <2>14. \A q \in ring!Sentinels : q \notin L => G[q] = <<>>
    BY <1>1, <1>2, <2>11
  <2>15. Stores(g, L, G)
    BY <1>1, <1>2, <2>13, <2>14 DEF Stores
  <2>. QED BY <1>13, <2>1, <2>2, <2>11, <2>15
<1>. QED BY <1>11, <1>12, <1>19, <1>20

-----------------------------------------------------------------------------
(* The lists of a state, and what the abstract objects show of them. *)

RingInv == propagates \in BOOLEAN /\ \E C : Stores(cell, alive, C)

RingContent == [l \in Lists |-> IF l \in alive THEN ring!Contents(cell, l) ELSE None]

LEMMA Shows ==
  ASSUME NEW h, NEW L, NEW C, Stores(h, L, C)
  PROVE  [l \in Lists |-> IF l \in L THEN ring!Contents(h, l) ELSE None] = Shown(L, C)
<1>1. ASSUME NEW l \in L PROVE ring!Contents(h, l) = C[l]
  <2>1. l \in ring!Sentinels
    BY <1>1, StoresTypes
  <2>2. Keeps(h, C)
    BY DEF Stores
  <2>. QED BY <2>1, <2>2, ContentsAre
<1>. QED BY <1>1 DEF Shown

LEMMA ShownNow == \A C : Stores(cell, alive, C) => RingContent = Shown(alive, C)
  BY Shows DEF RingContent

LEMMA ShownNext == \A C : Stores(cell', alive', C) => RingContent' = Shown(alive', C)
<1>. SUFFICES ASSUME NEW C, Stores(cell', alive', C) PROVE RingContent' = Shown(alive', C)
  OBVIOUS
<1>1. PICK h : h = cell'
  OBVIOUS
<1>2. PICK L : L = alive'
  OBVIOUS
<1>3. [l \in Lists |-> IF l \in L THEN ring!Contents(h, l) ELSE None] = Shown(L, C)
  BY <1>1, <1>2, Shows
<1>. QED BY <1>1, <1>2, <1>3 DEF RingContent

LEMMA ShownTypes ==
  ASSUME NEW h, NEW L, NEW C, Stores(h, L, C), NEW l \in Lists
  PROVE  /\ l \in L => Shown(L, C)[l] = C[l] /\ C[l] \in Seq(Items \cup {Taken}) /\ C[l] # None
         /\ l \notin L => Shown(L, C)[l] = None
<1>1. l \in ring!Sentinels /\ C[l] \in Seq(Items \cup {Taken})
  BY StoresTypes
<1>. QED BY <1>1, Addresses DEF Shown

(* The abstract operations, of RingContent. *)
LEMMA RingOperations ==
  \A l, o \in Lists :
    LET X == RingContent
    IN  /\ X[l] = None /\ (\E s \in {<<>>, <<a, b>>} : X' = [X EXCEPT ![l] = s]) => ring!Objects!Construct(l)
        /\ X[l] # None /\ X' = [X EXCEPT ![l] = None] => ring!Objects!Destroy(l)
        /\ X[o] # None /\ X' = [X EXCEPT ![l] = X[o]] => ring!Objects!Copy(l, o)
        /\ l # o /\ X[o] # None /\ X' = [X EXCEPT ![l] = X[o], ![o] = <<>>] => ring!Objects!Move(l, o)
        /\ X[l] # None /\ X[o] # None /\ X' = [X EXCEPT ![l] = X[o], ![o] = X[l]] => ring!Objects!Swap(l, o)
  BY DEF RingContent, ring!Objects!Construct, ring!Objects!Destroy, ring!Objects!Copy, ring!Objects!Move, ring!Objects!Swap,
         ring!Objects!Alive, ring!Objects!Becomes

-----------------------------------------------------------------------------
(* One lemma for each operation. *)

LEMMA RingInit == ring!Init => RingInv /\ RingContent = [l \in Lists |-> None]
<1>. SUFFICES ASSUME ring!Init PROVE RingInv /\ RingContent = [l \in Lists |-> None]
  OBVIOUS
<1>1. PICK h : h = cell
  OBVIOUS
<1>2. PICK R : R = [l \in ring!Sentinels |-> <<>>]
  OBVIOUS
<1>3. h \in Heaps
  BY <1>1, Addresses DEF ring!Init, Heaps, Places
<1>4. /\ R \in [ring!Sentinels -> Seq(RingNodes)] /\ R \in [ring!Sentinels -> Seq(Items \cup {Taken})]
      /\ \A l \in ring!Sentinels : R[l] = <<>> /\ Len(R[l]) = 0
  BY <1>2
<1>5. Apart(R)
  BY <1>4 DEF Apart
<1>6. Reached(h, R)
  BY <1>1, <1>4 DEF Reached, ring!Init
<1>7. ASSUME NEW l \in ring!Sentinels PROVE Sound(h, l, R[l], R[l])
  <2>1. h.next[l] = l /\ h.prev[l] = l /\ h.size_[l] = 0
    BY <1>1 DEF ring!Init
  <2>. QED BY <1>4, <2>1 DEF Sound, Linked, At
<1>8. Good(h, R, R)
  BY <1>3, <1>4, <1>5, <1>6, <1>7 DEF Good
<1>9. Stores(cell, alive, R)
  BY <1>1, <1>4, <1>8 DEF Stores, Keeps, ring!Init
<1>. QED BY <1>9 DEF RingInv, RingContent, ring!Init

LEMMA RingIntact == RingInv => ring!RingsIntact
<1>. SUFFICES ASSUME RingInv PROVE ring!RingsIntact
  OBVIOUS
<1>1. PICK C : Stores(cell, alive, C)
  BY DEF RingInv
<1>2. PICK R : Good(cell, R, C)
  BY <1>1 DEF Stores, Keeps
<1>3. alive \subseteq ring!Sentinels /\ \A l \in ring!Sentinels : l \notin alive => C[l] = <<>>
  BY <1>1, StoresTypes
<1>4. ASSUME NEW l \in alive
      PROVE  /\ ring!Ring(cell, l) = R[l] /\ R[l] \in Seq(RingNodes) /\ Len(R[l]) \in Nat /\ Distinct(R[l])
             /\ ring!Range(R[l]) = {R[l][i] : i \in 1..Len(R[l])} /\ ring!Range(R[l]) \subseteq RingNodes
  <2>1. l \in ring!Sentinels
    BY <1>3, <1>4
  <2>2. R[l] \in Seq(RingNodes) /\ Len(R[l]) \in Nat /\ Distinct(R[l]) /\ \A i \in 1..Len(R[l]) : R[l][i] \in RingNodes
    BY <1>2, <2>1, RingTypes
  <2>3. ring!Range(R[l]) = {R[l][i] : i \in 1..Len(R[l])}
    BY <2>2 DEF ring!Range
  <2>. QED BY <1>2, <2>1, <2>2, <2>3, RingIs
<1>5. ASSUME NEW l \in alive
      PROVE  /\ ring!IsInjective(R[l]) /\ Len(R[l]) = cell.size_[l]
             /\ \A n \in ring!Range(R[l]) : cell.owner[n] = cell.alloc_[l]
             /\ \A i \in 1..(Len(<<l>> \o R[l] \o <<l>>) - 1) :
                  /\ cell.next[(<<l>> \o R[l] \o <<l>>)[i]] = (<<l>> \o R[l] \o <<l>>)[i + 1]
                  /\ cell.prev[(<<l>> \o R[l] \o <<l>>)[i + 1]] = (<<l>> \o R[l] \o <<l>>)[i]
  <2>1. Sound(cell, l, R[l], C[l])
    BY <1>2, <1>3, <1>5 DEF Good
  <2>2. ring!IsInjective(R[l])
    BY <1>4, <1>5 DEF ring!IsInjective, Distinct
  <2>3. ASSUME NEW n \in ring!Range(R[l]) PROVE cell.owner[n] = cell.alloc_[l]
    <3>1. PICK i \in 1..Len(R[l]) : n = R[l][i]
      BY <1>4
    <3>. QED BY <2>1, <3>1 DEF Sound
  <2>4. PICK r : r = R[l]
    OBVIOUS
  <2>5. PICK s : s = <<l>> \o r \o <<l>>
    OBVIOUS
  <2>6. r \in Seq(RingNodes) /\ Len(r) \in Nat
    BY <1>4, <1>5, <2>4
  <2>7. Len(s) = Len(r) + 2 /\ \A i \in 1..Len(s) : s[i] = At(l, r, i - 1)
    <3>1. PICK S : S = RingNodes \cup {l}
      OBVIOUS
    <3>2. r \in Seq(S) /\ <<l>> \in Seq(S)
      BY <2>6, <3>1
    <3>3. PICK q : q = <<l>> \o r
      OBVIOUS
    <3>4. /\ q \in Seq(S) /\ Len(q) = 1 + Len(r)
          /\ \A i \in 1..(1 + Len(r)) : q[i] = IF i <= 1 THEN <<l>>[i] ELSE r[i - 1]
      BY ONLY <3>2, <3>3, ConcatProperties
    <3>5. /\ Len(s) = (1 + Len(r)) + 1
          /\ \A i \in 1..((1 + Len(r)) + 1) : s[i] = IF i <= 1 + Len(r) THEN q[i] ELSE <<l>>[i - (1 + Len(r))]
      BY ONLY <2>5, <3>2, <3>3, <3>4, ConcatProperties
    <3>6. ASSUME NEW i \in 1..Len(s) PROVE s[i] = At(l, r, i - 1)
      BY <2>6, <3>4, <3>5, <3>6 DEF At
    <3>. QED BY <2>6, <3>5, <3>6
  <2>8. \A i \in 1..(Len(s) - 1) : cell.next[s[i]] = s[i + 1] /\ cell.prev[s[i + 1]] = s[i]
    <3>. SUFFICES ASSUME NEW i \in 1..(Len(s) - 1) PROVE cell.next[s[i]] = s[i + 1] /\ cell.prev[s[i + 1]] = s[i]
      OBVIOUS
    <3>1. i - 1 \in 0..Len(r) /\ i \in 1..Len(s) /\ i + 1 \in 1..Len(s) /\ (i + 1) - 1 = i /\ (i - 1) + 1 = i
      BY <2>6, <2>7
    <3>2. cell.next[At(l, r, i - 1)] = At(l, r, i) /\ cell.prev[At(l, r, i)] = At(l, r, i - 1)
      BY <2>1, <2>4, <3>1 DEF Sound, Linked
    <3>. QED BY <2>7, <3>1, <3>2
  <2>. QED BY <2>1, <2>2, <2>3, <2>4, <2>5, <2>8 DEF Sound
<1>6. ASSUME NEW l \in alive, NEW o \in alive, l # o PROVE ring!Range(R[l]) \cap ring!Range(R[o]) = {}
  <2>1. \A i \in 1..Len(R[l]), j \in 1..Len(R[o]) : R[l][i] # R[o][j]
    BY <1>2, <1>3, <1>6 DEF Good, Apart
  <2>. QED BY <1>4, <1>6, <2>1
<1>7. RingNodes \ ring!Free(cell) = UNION {ring!Range(R[l]) : l \in alive}
  <2>1. ASSUME NEW n \in RingNodes, cell.owner[n] # None PROVE \E l \in alive : n \in ring!Range(R[l])
    <3>3. PICK l \in ring!Sentinels : \E i \in 1..Len(R[l]) : n = R[l][i]
      BY <1>2, <2>1 DEF Good, Reached
    <3>1. PICK i \in 1..Len(R[l]) : n = R[l][i]
      BY <3>3
    <3>2. l \in alive
      <4>1. Len(C[l]) = Len(R[l]) /\ Len(R[l]) \in Nat
        BY <1>2, RingTypes
      <4>2. Len(C[l]) # 0
        BY <3>1, <4>1
      <4>. QED BY <1>3, <4>2
    <3>. QED BY <1>4, <3>1, <3>2
  <2>2. ASSUME NEW l \in alive, NEW n \in ring!Range(R[l]) PROVE n \in RingNodes /\ cell.owner[n] # None
    <3>1. PICK i \in 1..Len(R[l]) : n = R[l][i]
      BY <1>4, <2>2
    <3>2. n \in RingNodes
      BY <1>4, <2>2
    <3>. QED BY <1>2, <1>3, <3>1, <3>2 DEF Good, Reached
  <2>. QED BY <2>1, <2>2 DEF ring!Free
<1>8. \A l \in alive : ring!Ring(cell, l) = R[l]
  BY <1>4
<1>. DEFINE ends(l) == <<l>> \o ring!Ring(cell, l) \o <<l>>
<1>9. ASSUME NEW l \in alive
      PROVE  /\ ring!Range(ring!Ring(cell, l)) \subseteq RingNodes /\ ring!IsInjective(ring!Ring(cell, l))
             /\ Len(ring!Ring(cell, l)) = cell.size_[l]
             /\ \A i \in 1..(Len(ends(l)) - 1) : cell.next[ends(l)[i]] = ends(l)[i + 1] /\ cell.prev[ends(l)[i + 1]] = ends(l)[i]
             /\ \A n \in ring!Range(ring!Ring(cell, l)) : cell.owner[n] = cell.alloc_[l]
  <2>1. ring!Ring(cell, l) = R[l]
    BY <1>8, <1>9
  <2>2. ring!Range(R[l]) \subseteq RingNodes
    BY <1>4, <1>9
  <2>3. ends(l) = <<l>> \o R[l] \o <<l>>
    BY ONLY <2>1
  <2>4. \A i \in 1..(Len(ends(l)) - 1) : cell.next[ends(l)[i]] = ends(l)[i + 1] /\ cell.prev[ends(l)[i + 1]] = ends(l)[i]
    <3>. HIDE DEF ends
    <3>1. PICK t : t = <<l>> \o R[l] \o <<l>>
      OBVIOUS
    <3>2. \A i \in 1..(Len(t) - 1) : cell.next[t[i]] = t[i + 1] /\ cell.prev[t[i + 1]] = t[i]
      BY <1>5, <1>9, <3>1
    <3>3. ends(l) = t
      BY <2>3, <3>1
    <3>. QED BY ONLY <3>2, <3>3
  <2>. HIDE DEF ends
  <2>. QED BY <1>5, <1>9, <2>1, <2>2, <2>4, Zenon
<1>10. \A l, o \in alive : l # o => ring!Range(ring!Ring(cell, l)) \cap ring!Range(ring!Ring(cell, o)) = {}
  BY <1>6, <1>8
<1>11. RingNodes \ ring!Free(cell) = UNION {ring!Range(ring!Ring(cell, l)) : l \in alive}
  BY <1>7, <1>8
<1>. QED BY <1>9, <1>10, <1>11, Zenon DEF ring!RingsIntact

-----------------------------------------------------------------------------
(* Every step takes lists that store C to lists that store what the abstract
   step says. *)

RingSteps == RingInv' /\ [ring!Objects!Next]_RingContent

LEMMA ContentNow ==
  ASSUME NEW C, Stores(cell, alive, C), NEW l \in alive
  PROVE  /\ ring!Contents(cell, l) = C[l] /\ RingContent[l] = C[l] /\ RingContent[l] # None
         /\ C[l] \in Seq(Items \cup {Taken}) /\ Len(C[l]) \in Nat /\ cell.alloc_[l] \in Allocators
         /\ l \in Lists /\ l \in ring!Sentinels
<1>1. l \in Lists /\ l \in ring!Sentinels /\ cell.alloc_[l] \in Allocators
  BY StoresTypes
<1>2. Keeps(cell, C)
  BY DEF Stores
<1>3. ring!Contents(cell, l) = C[l]
  BY <1>1, <1>2, ContentsAre
<1>4. C[l] \in Seq(Items \cup {Taken}) /\ C[l] # None
  BY <1>1, ShownTypes
<1>5. Len(C[l]) \in Nat
  <2>1. PICK S : S = Items \cup {Taken}
    OBVIOUS
  <2>2. C[l] \in Seq(S)
    BY <1>4, <2>1
  <2>. QED BY <2>2
<1>. QED BY <1>1, <1>3, <1>4, <1>5 DEF RingContent

LEMMA NoContent == ASSUME NEW l \in Lists, l \notin alive PROVE RingContent[l] = None
BY DEF RingContent

LEMMA RingNextHas ==
  \A l, o \in Lists :
    \/ ring!Objects!Construct(l) \/ ring!Objects!Destroy(l) \/ ring!Objects!InsertItem(l) \/ ring!Objects!RemoveRange(l)
    \/ ring!Objects!Swap(l, o) \/ ring!Objects!Copy(l, o) \/ ring!Objects!Move(l, o) \/ ring!Objects!MoveStops(l, o)
    \/ RingContent' = RingContent
    => [ring!Objects!Next]_RingContent
BY DEF ring!Objects!Next

(* A constructor: as a whole or not at all. *)
LEMMA ConstructShown ==
  ASSUME propagates \in BOOLEAN, NEW C, Stores(cell, alive, C), NEW l \in Lists, NEW al \in Allocators,
         NEW s \in Seq(Items \cup {Taken}), ring!Construct(l, al, s)
  PROVE  /\ RingInv' /\ RingContent[l] = None
         /\ RingContent' = [RingContent EXCEPT ![l] = s] \/ RingContent' = RingContent
<1>1. l \notin alive /\ RingContent[l] = None /\ propagates' \in BOOLEAN
  BY NoContent DEF ring!Construct
<1>2. CASE ring!Fits(cell, s)
  <2>1. PICK D : D = [C EXCEPT ![l] = s]
    OBVIOUS
  <2>2. cell' = ring!PushAll(ring!Fresh(cell, l, al), l, s) /\ alive' = alive \cup {l}
    BY <1>2 DEF ring!Construct
  <2>3. Stores(cell', alive', D)
    BY <1>1, <1>2, <2>1, <2>2, ConstructStores
  <2>4. RingContent' = Shown(alive', D) /\ RingContent = Shown(alive, C)
    BY <2>3, ShownNow, ShownNext
  <2>5. Shown(alive \cup {l}, D) = [Shown(alive, C) EXCEPT ![l] = s]
    <3>1. C \in [ring!Sentinels -> Seq(Items \cup {Taken})] /\ alive \subseteq Lists /\ Lists \subseteq ring!Sentinels
      BY StoresTypes
    <3>. QED BY <2>1, <3>1 DEF Shown
  <2>. QED BY <1>1, <2>2, <2>3, <2>4, <2>5 DEF RingInv
<1>3. CASE ~ ring!Fits(cell, s)
  <2>1. cell' = ring!Destroyed(ring!PushAll(ring!Fresh(cell, l, al), l, s), l) /\ alive' = alive
    BY <1>3 DEF ring!Construct
  <2>2. Stores(cell', alive', C)
    BY <1>1, <2>1, ConstructStores
  <2>3. RingContent' = RingContent
    BY <2>1, <2>2, ShownNow, ShownNext
  <2>. QED BY <1>1, <2>2, <2>3 DEF RingInv
<1>. QED BY <1>2, <1>3

LEMMA ListRefines ==
  ASSUME propagates \in BOOLEAN, NEW C, Stores(cell, alive, C), NEW l \in Lists, ring!List(l)
  PROVE  RingSteps
<1>1. PICK al \in Allocators, s \in {<<>>, <<a, b>>} : ring!Construct(l, al, s)
  BY DEF ring!List
<1>2. s \in Seq(Items \cup {Taken})
  <2>1. a \in Items \cup {Taken} /\ b \in Items \cup {Taken}
    BY MCListsAssumption DEF MCListsAssumption
  <2>2. <<a, b>> \in Seq(Items \cup {Taken}) /\ <<>> \in Seq(Items \cup {Taken})
    BY <2>1
  <2>. QED BY <2>2
<1>3. /\ RingInv' /\ RingContent[l] = None
      /\ RingContent' = [RingContent EXCEPT ![l] = s] \/ RingContent' = RingContent
  BY <1>1, <1>2, ConstructShown
<1>4. ring!Objects!Construct(l) \/ RingContent' = RingContent
  BY <1>3, RingOperations
<1>. QED BY <1>3, <1>4, RingNextHas DEF RingSteps

LEMMA CopyConstructRefines ==
  ASSUME propagates \in BOOLEAN, NEW C, Stores(cell, alive, C), NEW l \in Lists, NEW o \in Lists,
         ring!CopyConstruct(l, o)
  PROVE  RingSteps
<1>1. o \in alive /\ ring!Construct(l, cell.alloc_[o], ring!Contents(cell, o))
  BY DEF ring!CopyConstruct
<1>2. /\ ring!Contents(cell, o) = C[o] /\ RingContent[o] = C[o] /\ RingContent[o] # None
      /\ C[o] \in Seq(Items \cup {Taken}) /\ cell.alloc_[o] \in Allocators
  BY <1>1, ContentNow
<1>3. /\ RingInv' /\ RingContent[l] = None
      /\ RingContent' = [RingContent EXCEPT ![l] = C[o]] \/ RingContent' = RingContent
  BY <1>1, <1>2, ConstructShown
<1>4. ring!Objects!Copy(l, o) \/ RingContent' = RingContent
  BY <1>2, <1>3, RingOperations
<1>. QED BY <1>3, <1>4, RingNextHas DEF RingSteps

LEMMA MoveConstructRefines ==
  ASSUME propagates \in BOOLEAN, NEW C, Stores(cell, alive, C), NEW l \in Lists, NEW o \in Lists,
         ring!MoveConstruct(l, o)
  PROVE  RingSteps
<1>1. /\ l \notin alive /\ o \in alive /\ l # o /\ propagates' \in BOOLEAN /\ alive' = alive \cup {l}
      /\ cell' = ring!steal_nodes_from(ring!Fresh(cell, l, cell.alloc_[o]), l, o)
  BY DEF ring!MoveConstruct
<1>2. PICK D : D = [C EXCEPT ![l] = C[o], ![o] = <<>>]
  OBVIOUS
<1>3. Stores(cell', alive', D)
  BY <1>1, <1>2, MoveConstructStores
<1>4. RingContent' = Shown(alive', D) /\ RingContent = Shown(alive, C)
  BY <1>3, ShownNow, ShownNext
<1>5. Shown(alive \cup {l}, D) = [Shown(alive, C) EXCEPT ![l] = C[o], ![o] = <<>>]
  <2>1. C \in [ring!Sentinels -> Seq(Items \cup {Taken})] /\ alive \subseteq Lists /\ Lists \subseteq ring!Sentinels
    BY StoresTypes
  <2>. QED BY <1>1, <1>2, <2>1 DEF Shown
<1>6. RingContent[o] = C[o] /\ RingContent[o] # None
  BY <1>1, ContentNow
<1>7. ring!Objects!Move(l, o)
  BY <1>1, <1>4, <1>5, <1>6, RingOperations
<1>. QED BY <1>1, <1>3, <1>7, RingNextHas DEF RingInv, RingSteps

LEMMA DestroyRefines ==
  ASSUME propagates \in BOOLEAN, NEW C, Stores(cell, alive, C), NEW l \in Lists, ring!Destroy(l)
  PROVE  RingSteps
<1>1. l \in alive /\ propagates' \in BOOLEAN /\ alive' = alive \ {l} /\ cell' = ring!Destroyed(cell, l)
  BY DEF ring!Destroy
<1>2. PICK D : D = [C EXCEPT ![l] = <<>>]
  OBVIOUS
<1>3. Stores(cell', alive', D)
  BY <1>1, <1>2, DestroyStores
<1>4. RingContent' = Shown(alive', D) /\ RingContent = Shown(alive, C)
  BY <1>3, ShownNow, ShownNext
<1>5. Shown(alive \ {l}, D) = [Shown(alive, C) EXCEPT ![l] = None]
  <2>1. C \in [ring!Sentinels -> Seq(Items \cup {Taken})] /\ alive \subseteq Lists /\ Lists \subseteq ring!Sentinels
    BY StoresTypes
  <2>. QED BY <1>2, <2>1 DEF Shown
<1>6. RingContent[l] # None
  BY <1>1, ContentNow
<1>7. ring!Objects!Destroy(l)
  BY <1>1, <1>4, <1>5, <1>6, RingOperations
<1>. QED BY <1>1, <1>3, <1>7, RingNextHas DEF RingInv, RingSteps

LEMMA SwapRefines ==
  ASSUME propagates \in BOOLEAN, NEW C, Stores(cell, alive, C), NEW l \in Lists, NEW o \in Lists, ring!Swap(l, o)
  PROVE  RingSteps
<1>1. /\ l \in alive /\ o \in alive /\ l # o /\ propagates' \in BOOLEAN /\ alive' = alive /\ alive \cup {l} = alive
      /\ cell' = ring!swapped(cell, l, o) /\ (propagates \/ cell.alloc_[l] = cell.alloc_[o])
  BY DEF ring!Swap
<1>2. PICK D : D = [C EXCEPT ![l] = C[o], ![o] = C[l]]
  OBVIOUS
<1>3. Stores(cell', alive', D)
  <2>1. Stores(ring!swapped(cell, l, o), alive, D)
    BY <1>1, <1>2, SwapStores
  <2>. QED BY <1>1, <2>1
<1>4. RingContent' = Shown(alive', D) /\ RingContent = Shown(alive, C)
  BY <1>3, ShownNow, ShownNext
<1>5. Shown(alive \cup {l}, D) = [Shown(alive, C) EXCEPT ![l] = C[o], ![o] = C[l]]
  <2>1. C \in [ring!Sentinels -> Seq(Items \cup {Taken})] /\ alive \subseteq Lists /\ Lists \subseteq ring!Sentinels
    BY StoresTypes
  <2>. QED BY <1>1, <1>2, <2>1 DEF Shown
<1>6. RingContent[l] = C[l] /\ RingContent[l] # None /\ RingContent[o] = C[o] /\ RingContent[o] # None
  BY <1>1, ContentNow
<1>7. ring!Objects!Swap(l, o)
  <2>1. RingContent' = [RingContent EXCEPT ![l] = RingContent[o], ![o] = RingContent[l]]
    BY <1>1, <1>4, <1>5, <1>6
  <2>. QED BY <1>6, <2>1, RingOperations
<1>. QED BY <1>1, <1>3, <1>7, RingNextHas DEF RingInv, RingSteps

(* A step that changes one list, or none. *)
LEMMA OneShown ==
  ASSUME propagates \in BOOLEAN, UNCHANGED <<alive, propagates>>, NEW C, Stores(cell, alive, C),
         NEW l \in alive, NEW t, NEW D, D = [C EXCEPT ![l] = t], Stores(cell', alive, D)
  PROVE  RingInv' /\ RingContent' = [RingContent EXCEPT ![l] = t]
<1>1. Stores(cell', alive', D)
  OBVIOUS
<1>2. RingContent' = Shown(alive, D) /\ RingContent = Shown(alive, C)
  BY <1>1, ShownNow, ShownNext
<1>3. C \in [ring!Sentinels -> Seq(Items \cup {Taken})] /\ alive \subseteq Lists /\ Lists \subseteq ring!Sentinels
  BY StoresTypes
<1>4. Shown(alive, D) = [Shown(alive, C) EXCEPT ![l] = t]
  BY <1>3 DEF Shown
<1>. QED BY <1>1, <1>2, <1>4 DEF RingInv

LEMMA EmplaceRefines ==
  ASSUME propagates \in BOOLEAN, NEW C, Stores(cell, alive, C), NEW l \in Lists, ring!Emplace(l)
  PROVE  RingSteps
<1>1. l \in alive /\ UNCHANGED <<alive, propagates>>
  BY DEF ring!Emplace
<1>2. PICK pos \in ring!Range(ring!Ring(cell, l)) \cup {l}, v \in Items :
        ring!Free(cell) # {} /\ cell' = ring!emplace(cell, l, pos, v)
  BY DEF ring!Emplace
<1>3. PICK s : s = C[l]
  OBVIOUS
<1>4. PICK k \in 0..Len(s) : Stores(ring!emplace(cell, l, pos, v), alive, [C EXCEPT ![l] = With(s, k, v)])
  BY <1>1, <1>2, <1>3, EmplaceStores
<1>5. PICK t : t = With(s, k, v)
  OBVIOUS
<1>6. PICK D : D = [C EXCEPT ![l] = t]
  OBVIOUS
<1>7. Stores(cell', alive, D)
  BY <1>2, <1>4, <1>5, <1>6
<1>8. RingInv' /\ RingContent' = [RingContent EXCEPT ![l] = t]
  BY <1>1, <1>6, <1>7, OneShown
<1>9. RingContent[l] = s /\ RingContent[l] # None /\ s \in Seq(Items \cup {Taken}) /\ Len(s) \in Nat
  BY <1>1, <1>3, ContentNow
<1>10. SubSeq(s, 1, k) \o <<v>> \o SubSeq(s, k + 1, Len(s)) = t
  <2>1. PICK S : S = Items \cup {Taken}
    OBVIOUS
  <2>2. s \in Seq(S) /\ v \in S
    BY <1>9, <2>1
  <2>. QED BY <1>5, <2>2, WithJoins
<1>13. \E j \in 0..Len(RingContent[l]), x \in Items :
         RingContent' = [RingContent EXCEPT ![l] =
                           SubSeq(RingContent[l], 1, j) \o <<x>> \o SubSeq(RingContent[l], j + 1, Len(RingContent[l]))]
  <2>1. RingContent' = [RingContent EXCEPT ![l] =
                          SubSeq(RingContent[l], 1, k) \o <<v>> \o SubSeq(RingContent[l], k + 1, Len(RingContent[l]))]
    BY <1>8, <1>9, <1>10
  <2>2. k \in 0..Len(RingContent[l])
    BY <1>9
  <2>. QED BY <2>1, <2>2, Zenon
<1>14. ring!Objects!InsertItem(l)
  BY <1>9, <1>13 DEF ring!Objects!InsertItem, ring!Objects!Becomes, ring!Objects!Alive, RingContent
<1>. QED BY <1>8, <1>14, RingNextHas DEF RingSteps

(* The elements i to j - 1 are taken out of a list that is not empty. *)
LEMMA RingRangeRemoved ==
  ASSUME NEW l \in Lists, RingContent[l] # None, NEW s, RingContent[l] = s,
         NEW i \in 1..(Len(s) + 1), NEW j \in 1..(Len(s) + 1), i < j,
         NEW t, t = SubSeq(s, 1, i - 1) \o SubSeq(s, j, Len(s)), RingContent' = [RingContent EXCEPT ![l] = t]
  PROVE  ring!Objects!RemoveRange(l)
<1>1. /\ i < j /\ i \in 1..(Len(RingContent[l]) + 1) /\ j \in 1..(Len(RingContent[l]) + 1)
      /\ RingContent' = [RingContent EXCEPT ![l] = SubSeq(RingContent[l], 1, i - 1)
                                                    \o SubSeq(RingContent[l], j, Len(RingContent[l]))]
  OBVIOUS
<1>2. \E x, y \in 1..(Len(RingContent[l]) + 1) :
        /\ x < y
        /\ RingContent' = [RingContent EXCEPT ![l] = SubSeq(RingContent[l], 1, x - 1)
                                                      \o SubSeq(RingContent[l], y, Len(RingContent[l]))]
  BY ONLY <1>1, ZenonT(60)
<1>. QED BY <1>2 DEF ring!Objects!RemoveRange, ring!Objects!Becomes, ring!Objects!Alive, RingContent

LEMMA EraseRefines ==
  ASSUME propagates \in BOOLEAN, NEW C, Stores(cell, alive, C), NEW l \in Lists, ring!Erase(l)
  PROVE  RingSteps
<1>1. l \in alive /\ UNCHANGED <<alive, propagates>>
  BY DEF ring!Erase
<1>2. PICK i \in DOMAIN ring!Ring(cell, l), j \in DOMAIN ring!Ring(cell, l) :
        i <= j /\ cell' = ring!EraseAll(cell, l, SubSeq(ring!Ring(cell, l), i, j))
  BY DEF ring!Erase
<1>3. PICK s : s = C[l]
  OBVIOUS
<1>4. PICK t : t = Cut(s, i, j - i + 1)
  OBVIOUS
<1>5. PICK D : D = [C EXCEPT ![l] = t]
  OBVIOUS
<1>6. i \in 1..Len(s) /\ j \in i..Len(s) /\ Stores(cell', alive, D)
  BY <1>1, <1>2, <1>3, <1>4, <1>5, EraseStores
<1>7. RingInv' /\ RingContent' = [RingContent EXCEPT ![l] = t]
  BY <1>1, <1>5, <1>6, OneShown
<1>8. RingContent[l] = s /\ RingContent[l] # None /\ s \in Seq(Items \cup {Taken}) /\ Len(s) \in Nat
  BY <1>1, <1>3, ContentNow
<1>9. PICK n : n = j + 1
  OBVIOUS
<1>10. i \in 1..(Len(s) + 1) /\ n \in 1..(Len(s) + 1) /\ i < n
  BY <1>6, <1>8, <1>9
<1>11. t = SubSeq(s, 1, i - 1) \o SubSeq(s, n, Len(s))
  <2>1. PICK S : S = Items \cup {Taken}
    OBVIOUS
  <2>2. s \in Seq(S)
    BY <1>8, <2>1
  <2>. QED BY ONLY <1>4, <1>6, <1>9, <2>2, CutJoins
<1>12. ring!Objects!RemoveRange(l)
  BY <1>7, <1>8, <1>10, <1>11, RingRangeRemoved
<1>. QED BY <1>7, <1>12, RingNextHas DEF RingSteps

LEMMA ClearListRefines ==
  ASSUME propagates \in BOOLEAN, NEW C, Stores(cell, alive, C), NEW l \in Lists, ring!Clear(l)
  PROVE  RingSteps
<1>1. l \in alive /\ UNCHANGED <<alive, propagates>> /\ cell' = ring!clear(cell, l)
  BY DEF ring!Clear
<1>2. PICK D : D = [C EXCEPT ![l] = <<>>]
  OBVIOUS
<1>3. Stores(cell', alive, D)
  BY <1>1, <1>2, ClearStores
<1>4. RingInv' /\ RingContent' = [RingContent EXCEPT ![l] = <<>>]
  BY <1>1, <1>2, <1>3, OneShown
<1>5. PICK s : s = C[l]
  OBVIOUS
<1>6. RingContent[l] = s /\ RingContent[l] # None /\ s \in Seq(Items \cup {Taken}) /\ Len(s) \in Nat
  BY <1>1, <1>5, ContentNow
<1>7. CASE Len(s) = 0
  <2>1. s = <<>>
    <3>1. PICK S : S = Items \cup {Taken}
      OBVIOUS
    <3>2. s \in Seq(S)
      BY <1>6, <3>1
    <3>. QED BY <1>7, <3>2
  <2>2. RingContent' = RingContent
    BY <1>4, <1>6, <2>1 DEF RingContent
  <2>. QED BY <1>4, <2>2 DEF RingSteps
<1>8. CASE Len(s) # 0
  <2>1. PICK j : j = Len(s) + 1
    OBVIOUS
  <2>2. 1 \in 1..(Len(s) + 1) /\ j \in 1..(Len(s) + 1) /\ 1 < j
    BY <1>6, <1>8, <2>1
  <2>3. <<>> = SubSeq(s, 1, 1 - 1) \o SubSeq(s, j, Len(s))
    <3>1. PICK S : S = Items \cup {Taken}
      OBVIOUS
    <3>2. s \in Seq(S) /\ Len(s) \in Nat
      BY <1>6, <3>1
    <3>3. SubSeq(s, 1, 0) = <<>> /\ SubSeq(s, Len(s) + 1, Len(s)) = <<>>
      BY ONLY <3>2
    <3>. QED BY <2>1, <3>3
  <2>4. ring!Objects!RemoveRange(l)
    BY <1>4, <1>6, <2>2, <2>3, RingRangeRemoved
  <2>. QED BY <1>4, <2>4, RingNextHas DEF RingSteps
<1>. QED BY <1>7, <1>8

LEMMA CopyAssignRefines ==
  ASSUME propagates \in BOOLEAN, NEW C, Stores(cell, alive, C), NEW l \in Lists, NEW o \in Lists, ring!CopyAssign(l, o)
  PROVE  RingSteps
<1>1. l \in alive /\ o \in alive /\ l # o /\ UNCHANGED <<alive, propagates>>
  BY DEF ring!CopyAssign
<1>2. /\ ring!Contents(cell, o) = C[o] /\ RingContent[o] = C[o] /\ RingContent[o] # None
      /\ cell.alloc_[l] \in Allocators /\ cell.alloc_[o] \in Allocators
  BY <1>1, ContentNow
<1>3. PICK al : al = IF propagates THEN cell.alloc_[o] ELSE cell.alloc_[l]
  OBVIOUS
<1>4. PICK p : p = ring!PushAll(ring!Fresh(cell, Temp, al), Temp, C[o])
  OBVIOUS
<1>5. PICK k : k = [ring!clear(p, l) EXCEPT !.alloc_[l] = al]
  OBVIOUS
<1>6. cell' = ring!Destroyed(IF ring!Fits(cell, C[o]) THEN ring!steal_nodes_from(k, l, Temp) ELSE p, Temp)
  BY <1>2, <1>3, <1>4, <1>5 DEF ring!CopyAssign
<1>7. PICK D : D = [C EXCEPT ![l] = C[o]]
  OBVIOUS
<1>8. /\ ring!Fits(cell, C[o]) => Stores(ring!Destroyed(ring!steal_nodes_from(k, l, Temp), Temp), alive, D)
      /\ Stores(ring!Destroyed(p, Temp), alive, C)
  <2>1. al \in Allocators
    BY <1>2, <1>3
  <2>. QED BY <1>1, <1>4, <1>5, <1>7, <2>1, CopyAssignStores
<1>9. CASE ring!Fits(cell, C[o])
  <2>1. Stores(cell', alive, D)
    BY <1>6, <1>8, <1>9
  <2>2. RingInv' /\ RingContent' = [RingContent EXCEPT ![l] = C[o]]
    BY <1>1, <1>7, <2>1, OneShown
  <2>3. ring!Objects!Copy(l, o)
    BY <1>2, <2>2, RingOperations
  <2>. QED BY <2>2, <2>3, RingNextHas DEF RingSteps
<1>10. CASE ~ ring!Fits(cell, C[o])
  <2>1. Stores(cell', alive', C)
    BY <1>1, <1>6, <1>8, <1>10
  <2>2. RingContent' = RingContent
    BY <1>1, <2>1, ShownNow, ShownNext
  <2>. QED BY <1>1, <2>1, <2>2 DEF RingInv, RingSteps
<1>. QED BY <1>9, <1>10

LEMMA MovesRefines ==
  ASSUME propagates \in BOOLEAN, NEW C, Stores(cell, alive, C), UNCHANGED <<alive, propagates>>,
         NEW l \in alive, NEW o \in alive, l # o,
         NEW M, M = [C EXCEPT ![l] = C[o], ![o] = <<>>], Stores(cell', alive, M)
  PROVE  RingSteps
<1>1. Stores(cell', alive', M)
  OBVIOUS
<1>2. RingContent' = Shown(alive, M) /\ RingContent = Shown(alive, C)
  BY <1>1, ShownNow, ShownNext
<1>3. C \in [ring!Sentinels -> Seq(Items \cup {Taken})] /\ alive \subseteq Lists /\ Lists \subseteq ring!Sentinels
  BY StoresTypes
<1>4. Shown(alive, M) = [Shown(alive, C) EXCEPT ![l] = C[o], ![o] = <<>>]
  BY <1>3 DEF Shown
<1>5. RingContent[o] = C[o] /\ RingContent[o] # None /\ l \in Lists /\ o \in Lists
  BY ContentNow
<1>6. ring!Objects!Move(l, o)
  BY <1>2, <1>4, <1>5, RingOperations
<1>. QED BY <1>1, <1>5, <1>6, RingNextHas DEF RingInv, RingSteps

(* The move that stops when no node is left. *)
LEMMA StopsRefines ==
  ASSUME propagates \in BOOLEAN, NEW C, Stores(cell, alive, C), UNCHANGED <<alive, propagates>>,
         NEW l \in alive, NEW o \in alive, l # o, NEW k \in 0..(Len(C[o]) - 1),
         NEW G, G = [C EXCEPT ![l] = SubSeq(C[o], 1, k), ![o] = MovedFrom(C[o], k)], Stores(cell', alive, G)
  PROVE  RingSteps
<1>1. Stores(cell', alive', G)
  OBVIOUS
<1>2. RingContent' = Shown(alive, G) /\ RingContent = Shown(alive, C)
  BY <1>1, ShownNow, ShownNext
<1>3. C \in [ring!Sentinels -> Seq(Items \cup {Taken})] /\ alive \subseteq Lists /\ Lists \subseteq ring!Sentinels
  BY StoresTypes
<1>4. PICK s : s = C[o]
  OBVIOUS
<1>5. RingContent[o] = s /\ RingContent[o] # None /\ RingContent[l] # None /\ l \in Lists /\ o \in Lists
  BY <1>4, ContentNow
<1>6. PICK u : u = SubSeq(s, 1, k)
  OBVIOUS
<1>7. PICK w : w = MovedFrom(s, k)
  OBVIOUS
<1>8. Shown(alive, G) = [Shown(alive, C) EXCEPT ![l] = u, ![o] = w]
  <2>1. G = [C EXCEPT ![l] = u, ![o] = w]
    BY <1>4, <1>6, <1>7
  <2>. QED BY <1>3, <2>1 DEF Shown
<1>9. RingContent' = [RingContent EXCEPT ![l] = u, ![o] = w]
  BY <1>2, <1>8
<1>10. /\ u = SubSeq(RingContent[o], 1, k) /\ k \in 0..(Len(RingContent[o]) - 1)
       /\ w = [i \in 1..Len(RingContent[o]) |-> IF i <= k THEN Taken ELSE RingContent[o][i]]
  BY <1>4, <1>5, <1>6, <1>7 DEF MovedFrom
<1>11. \E m \in 0..(Len(RingContent[o]) - 1) :
         RingContent' = [RingContent EXCEPT
           ![l] = SubSeq(RingContent[o], 1, m),
           ![o] = [i \in 1..Len(RingContent[o]) |-> IF i <= m THEN Taken ELSE RingContent[o][i]]]
  <2>1. RingContent' = [RingContent EXCEPT
           ![l] = SubSeq(RingContent[o], 1, k),
           ![o] = [i \in 1..Len(RingContent[o]) |-> IF i <= k THEN Taken ELSE RingContent[o][i]]]
    BY ONLY <1>9, <1>10
  <2>2. k \in 0..(Len(RingContent[o]) - 1)
    BY <1>10
  <2>. QED BY ONLY <2>1, <2>2, Zenon
<1>12. ring!Objects!MoveStops(l, o)
  BY <1>5, <1>11 DEF ring!Objects!MoveStops, ring!Objects!Alive, RingContent
<1>. QED BY <1>1, <1>5, <1>12, RingNextHas DEF RingInv, RingSteps

LEMMA MoveAssignRefines ==
  ASSUME propagates \in BOOLEAN, NEW C, Stores(cell, alive, C), NEW l \in Lists, NEW o \in Lists, ring!MoveAssign(l, o)
  PROVE  RingSteps
<1>1. l \in alive /\ o \in alive /\ l # o /\ UNCHANGED <<alive, propagates>>
  BY DEF ring!MoveAssign
<1>2. ring!Contents(cell, o) = C[o]
  BY <1>1, ContentNow
<1>3. PICK cleared : cleared = ring!clear(cell, l)
  OBVIOUS
<1>4. PICK pushed : pushed = ring!PushAll(cleared, l, C[o])
  OBVIOUS
<1>5. PICK M : M = [C EXCEPT ![l] = C[o], ![o] = <<>>]
  OBVIOUS
<1>6. /\ Stores(ring!steal_nodes_from([cleared EXCEPT !.alloc_[l] = cell.alloc_[o]], l, o), alive, M)
      /\ cell.alloc_[l] = cell.alloc_[o] => Stores(ring!steal_nodes_from(cleared, l, o), alive, M)
      /\ ring!Fits(cleared, C[o]) => Stores(ring!clear(pushed, o), alive, M)
      /\ ~ ring!Fits(cleared, C[o]) =>
           \E k \in 0..(Len(C[o]) - 1) :
             Stores(Left(cell, l, o, cleared, pushed), alive, [C EXCEPT ![l] = SubSeq(C[o], 1, k), ![o] = MovedFrom(C[o], k)])
  BY <1>1, <1>3, <1>4, <1>5, MoveAssignStores
<1>7. cell' = CASE propagates -> ring!steal_nodes_from([cleared EXCEPT !.alloc_[l] = cell.alloc_[o]], l, o)
                [] ~ propagates /\ cell.alloc_[l] = cell.alloc_[o] -> ring!steal_nodes_from(cleared, l, o)
                [] ~ propagates /\ cell.alloc_[l] # cell.alloc_[o] /\ ring!Fits(cleared, C[o]) -> ring!clear(pushed, o)
                [] OTHER -> Left(cell, l, o, cleared, pushed)
  BY <1>2, <1>3, <1>4 DEF ring!MoveAssign, Left
<1>8. ASSUME Stores(cell', alive, M) PROVE RingSteps
  BY <1>1, <1>5, <1>8, MovesRefines
<1>9. CASE propagates
  BY <1>6, <1>7, <1>8, <1>9
<1>10. CASE ~ propagates /\ cell.alloc_[l] = cell.alloc_[o]
  BY <1>6, <1>7, <1>8, <1>10
<1>11. CASE ~ propagates /\ cell.alloc_[l] # cell.alloc_[o] /\ ring!Fits(cleared, C[o])
  BY <1>6, <1>7, <1>8, <1>11
<1>12. CASE ~ propagates /\ cell.alloc_[l] # cell.alloc_[o] /\ ~ ring!Fits(cleared, C[o])
  <2>1. cell' = Left(cell, l, o, cleared, pushed)
    BY <1>7, <1>12
  <2>2. PICK k \in 0..(Len(C[o]) - 1) :
          Stores(Left(cell, l, o, cleared, pushed), alive, [C EXCEPT ![l] = SubSeq(C[o], 1, k), ![o] = MovedFrom(C[o], k)])
    BY <1>6, <1>12
  <2>3. PICK G : G = [C EXCEPT ![l] = SubSeq(C[o], 1, k), ![o] = MovedFrom(C[o], k)]
    OBVIOUS
  <2>4. Stores(cell', alive, G)
    BY <2>1, <2>2, <2>3
  <2>. QED BY <1>1, <2>3, <2>4, StopsRefines
<1>. QED BY <1>9, <1>10, <1>11, <1>12

LEMMA RingRefines ==
  RingInv /\ [ring!Next]_ringVars => RingInv' /\ [ring!Objects!Next]_RingContent
<1>. SUFFICES ASSUME RingInv, [ring!Next]_ringVars PROVE RingSteps
  BY DEF RingSteps
<1>1. propagates \in BOOLEAN
  BY DEF RingInv
<1>2. PICK C : Stores(cell, alive, C)
  BY DEF RingInv
<1>3. ASSUME NEW l \in Lists, ring!List(l) \/ ring!Destroy(l) \/ ring!Emplace(l) \/ ring!Erase(l) \/ ring!Clear(l)
      PROVE  RingSteps
  <2>1. CASE ring!List(l)
    BY <1>1, <1>2, <2>1, ListRefines
  <2>2. CASE ring!Destroy(l)
    BY <1>1, <1>2, <2>2, DestroyRefines
  <2>3. CASE ring!Emplace(l)
    BY <1>1, <1>2, <2>3, EmplaceRefines
  <2>4. CASE ring!Erase(l)
    BY <1>1, <1>2, <2>4, EraseRefines
  <2>5. CASE ring!Clear(l)
    BY <1>1, <1>2, <2>5, ClearListRefines
  <2>. QED BY <1>3, <2>1, <2>2, <2>3, <2>4, <2>5
<1>4. ASSUME NEW l \in Lists, NEW o \in Lists,
             \/ ring!CopyConstruct(l, o) \/ ring!MoveConstruct(l, o)
             \/ ring!CopyAssign(l, o) \/ ring!MoveAssign(l, o) \/ ring!Swap(l, o)
      PROVE  RingSteps
  <2>1. CASE ring!CopyConstruct(l, o)
    BY <1>1, <1>2, <2>1, CopyConstructRefines
  <2>2. CASE ring!MoveConstruct(l, o)
    BY <1>1, <1>2, <2>2, MoveConstructRefines
  <2>3. CASE ring!CopyAssign(l, o)
    BY <1>1, <1>2, <2>3, CopyAssignRefines
  <2>4. CASE ring!MoveAssign(l, o)
    BY <1>1, <1>2, <2>4, MoveAssignRefines
  <2>5. CASE ring!Swap(l, o)
    BY <1>1, <1>2, <2>5, SwapRefines
  <2>. QED BY <1>4, <2>1, <2>2, <2>3, <2>4, <2>5
<1>5. CASE UNCHANGED ringVars
  <2>1. cell' = cell /\ alive' = alive /\ propagates' = propagates
    BY <1>5 DEF ringVars
  <2>2. Stores(cell', alive', C)
    BY <1>2, <2>1
  <2>3. RingContent' = RingContent
    BY <1>2, <2>1, <2>2, ShownNow, ShownNext
  <2>. QED BY <1>1, <2>1, <2>2, <2>3 DEF RingInv, RingSteps
<1>. QED BY <1>3, <1>4, <1>5 DEF ring!Next
-----------------------------------------------------------------------------
(* No operation of ds::List loses a node, leaves one in two lists, frees one
   by another allocator than it came from, or breaks a ring in one direction,
   whatever was copied, moved, swapped and thrown before.  Forwards and
   backwards the doubly linked list is the same, and every node that was
   allocated and not deleted is in it. *)
THEOREM NodesStayIntact == ListsSpec => []NodesIntact
<1>1. ListsSpec => []RingInv
  BY Alone, RingInit, RingRefines, PTL DEF ListsSpec, allVars
<1>2. ListsSpec => []DoublyInv
  BY Alone, DoublyInit, DoublyRefines, PTL DEF ListsSpec, allVars
<1>3. RingInv /\ DoublyInv => NodesIntact
  BY RingIntact, DoublyLinked DEF NodesIntact
<1>. QED BY <1>1, <1>2, <1>3, PTL

LEMMA RingsAreSequences == ListsSpec => ring!ImplementsSequences
<1>1. ring!Init => RingInv /\ ring!Objects!Init
  BY RingInit DEF ring!Objects!Init, RingContent
<1>2. RingInv /\ [ring!Next]_ringVars =>
        RingInv' /\ [ring!Objects!Next]_([l \in Lists |-> IF l \in alive THEN ring!Contents(cell, l) ELSE None])
  BY RingRefines DEF RingContent
<1>3. [ListsNext]_allVars => [ring!Next]_ringVars
  BY Alone
<1>. QED BY <1>1, <1>2, <1>3, Alone, PTL DEF ListsSpec, allVars, ring!ImplementsSequences, ring!Objects!Spec

LEMMA ListIsSequence == ListsSpec => doubly!ImplementsSequence
<1>1. doubly!Init => DoublyInv /\ doubly!Objects!Init
  BY DoublyInit DEF doubly!Objects!Init, ListContent
<1>2. DoublyInv /\ [doubly!Next]_doublyVars =>
        DoublyInv' /\ [doubly!Objects!Next]_([o \in {"list"} |-> [i \in DOMAIN doubly!Forward |-> val[doubly!Forward[i]]]])
  BY DoublyRefines DEF ListContent
<1>3. [ListsNext]_allVars => [doubly!Next]_doublyVars
  BY Alone
<1>. QED BY <1>1, <1>2, <1>3, Alone, PTL DEF ListsSpec, allVars, doubly!ImplementsSequence, doubly!Objects!Spec

(* Whatever becomes of nodes and allocators, the callers of ds::List see
   operations on sequences that take effect as a whole, and one that throws
   changes nothing, save for the move assignment between unequal allocators.
   For the doubly linked list, insertions next to any node and removals of any
   node are those of a sequence. *)
THEOREM ListsImplement == ListsSpec => ImplementsLists
BY RingsAreSequences, ListIsSequence, PTL DEF ImplementsLists
=============================================================================
