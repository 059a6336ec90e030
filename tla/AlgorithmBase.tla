---------------------------- MODULE AlgorithmBase ----------------------------
(* What the algorithm modules share: the ranges of the counted loops, the     *)
(* order of tuples and reachability, the reference for every graph search.   *)
EXTENDS Integers, Sequences, FiniteSets, SequencesExt

(* `for (i = a; i <= b; i++)` as the sequence its body is folded over, and
   the same range counted down. *)
Upto(a, b) == [i \in 1..(b - a + 1) |-> a + i - 1]

Downto(b, a) == [i \in 1..(b - a + 1) |-> b - i + 1]

MaxOf(a, b) == IF a >= b THEN a ELSE b

MinOf(a, b) == IF a <= b THEN a ELSE b

(* The order std::sort uses on tuples and vectors of equal length. *)
LexLess(s, t) ==
  \E i \in DOMAIN s : s[i] < t[i] /\ \A j \in 1..(i - 1) : s[j] = t[j]

SumOver(S, f(_)) == MapThenFoldSet(+, 0, f, LAMBDA T : CHOOSE x \in T : TRUE, S)

SumSeq(s) == SumOver(DOMAIN s, LAMBDA i : s[i])

(* The elements of s at the positions D, in their order, and all such choices. *)
Picked(s, D) ==
  [i \in 1..Cardinality(D) |->
     s[CHOOSE d \in D : Cardinality({e \in D : e <= d}) = i]]

Subsequences(s) == {Picked(s, D) : D \in SUBSET DOMAIN s}

(* The cells of a grid next to c, in the order of dir[] = {-1, 0, 1, 0, -1}. *)
Around(c) == << <<c[1] - 1, c[2]>>, <<c[1], c[2] + 1>>,
                <<c[1] + 1, c[2]>>, <<c[1], c[2] - 1>> >>

(* Everything the pairs of E lead to from S. *)
RECURSIVE Reached(_, _)
Reached(S, E) ==
  LET T == S \union {e[2] : e \in {x \in E : x[1] \in S}}
  IN  IF T = S THEN S ELSE Reached(T, E)
=============================================================================
