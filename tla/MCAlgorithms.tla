----------------------------- MODULE MCAlgorithms -----------------------------
(* The algorithms on every small input: Init makes a call, Return answers it. *)
EXTENDS GraphAlgorithms, DynamicPrograms, StringAlgorithms,
        TreeAlgorithms, ArrayAlgorithms, LinkedLists

VARIABLES family, call, result

vars == <<family, call, result>>

SmallGrids(m, n, V) == [(0..(m - 1)) \X (0..(n - 1)) -> V]

Pairs(n) == {<<a, b>> : a, b \in 0..(n - 1)}

(* The pairs of E in their order. *)
Listed(n, E) == SelectSeq([k \in 1..(n * n) |-> <<(k - 1) \div n, (k - 1) % n>>],
                          LAMBDA e : e \in E)

Downhill(n) == {e \in Pairs(n) : e[1] < e[2]}

(* Every graph on n nodes with one weight out of W per edge, as a sequence. *)
Weighted(n, W) ==
  UNION {{[i \in DOMAIN s |-> s[i] \o <<w[i]>>] : w \in [DOMAIN s -> W]} :
         s \in {Listed(n, E) : E \in SUBSET Downhill(n)}}

Undirected(n, E) == {<<i, i>> : i \in 0..(n - 1)} \union E \union {<<e[2], e[1]>> : e \in E}

ParentTrees(n) == {[i \in 1..(n - 1) |-> <<i, up[i]>>] :
             up \in {f \in [1..(n - 1) -> 0..(n - 1)] : \A i \in 1..(n - 1) : f[i] < i}}

GraphCalls ==
  main
  \union [fn : {"fill"}, grid : SmallGrids(3, 3, {"O", "X"}) \union SmallGrids(4, 2, {"O", "X"})
                                 \union SmallGrids(1, 3, {"O", "X"})]
  \union [fn : {"toposort"}, n : {3}, edges : {Listed(3, E) : E \in SUBSET Pairs(3)}]
  \union [fn : {"minimum_lines"},
          points : {[i \in 1..4 |-> <<d[i], y[i]>>] :
                    d \in {<<1, 2, 3, 4>>, <<4, 1, 3, 6>>}, y \in [1..4 -> 0..3]}]
  \union [fn : {"min_obstacles"}, grid : SmallGrids(3, 3, {0, 1}) \union SmallGrids(2, 4, {0, 1})]
  \union [fn : {"count_paths"}, grid : SmallGrids(2, 3, 1..3)]
  \union [fn : {"min_num_of_semesters"}, n : {4}, k : 1..3,
          relations : SUBSET {<<1, 2>>, <<1, 3>>, <<2, 4>>, <<3, 4>>, <<4, 1>>, <<2, 3>>}]
  \union [fn : {"min_malware_spread"}, n : {4},
          graph : {Undirected(4, E) : E \in SUBSET Downhill(4)}, initial : {<<0>>, <<2, 1>>, <<0, 3>>, <<3, 0, 1>>}]
  \union [fn : {"min_malware_spread"}, n : {7},  \* trees of two that are joined
          graph : {Undirected(7, E) : E \in SUBSET {<<3, 6>>, <<4, 5>>, <<5, 6>>, <<0, 1>>, <<1, 2>>, <<2, 3>>}},
          initial : {<<0, 4>>, <<5, 2>>, <<6, 1, 0>>}]
  \union [fn : {"min_cost_time"}, maxTime : 1..3, edges : Weighted(3, 1..2),
          fees : {<<1, 2, 1>>, <<3, 1, 2>>}]
  \union [fn : {"num_of_good_paths"}, vals : [1..4 -> 1..3], edges : ParentTrees(4)]
  \union [fn : {"find_shortese_edges", "count_path"}, n : {4},
          edges : {s \in Weighted(4, 1..2) : Len(s) <= 5}]

Words(A, n) == UNION {[1..k -> A] : k \in 0..n}

Jobs(n) == [1..n -> {<<1, 2, 2>>, <<1, 3, 3>>, <<2, 3, 2>>, <<2, 4, 4>>, <<3, 4, 1>>}]

DpCalls ==
  dp_main
  \union [fn : {"min_operations_reach_k"}, k : 0..16]
  \union [fn : {"min_operations_strings"}, s : Words({1, 2}, 3), t : Words({1, 2, 3}, 3)]
  \union [fn : {"knapsack_2d", "knapsack_opt"}, W : {0, 3, 5}, v : [1..3 -> 1..2], wt : [1..3 -> {1, 2, 4}]]
  \union [fn : {"number_blast_prefix", "number_blast_suffix"}, A : Words(0..2, 4)]
  \union [fn : {"min_square", "min_square_bfs"}, n : 1..16]
  \union [fn : {"longest_pal_subs_dp", "longest_pal_subs_center"}, s : Words({1, 2}, 5)]
  \union [fn : {"partition_set"}, arr : Words(0..3, 4)]
  \union [fn : {"job_scheduling_v1", "job_scheduling_v2", "max_taxi_earnings"}, jobs : Jobs(3)]
  \union [fn : {"max_events2"}, jobs : Jobs(3), k : 1..2]
  \union [fn : {"min_falling_path_sum"}, grid : [1..3 -> [1..3 -> 0..1]] \union [1..2 -> [1..2 -> 0..2]]]
  \union [fn : {"min_array_sum"}, a : [1..2 -> 0..5], d : 1..3, op1 : 0..2, op2 : 0..2]

(* Patterns with no star in front or behind another. *)
Patterns(n) ==
  {p \in Words({"a", ".", "*"}, n) :
    \A i \in 1..Len(p) : p[i] = "*" => IF i = 1 THEN FALSE ELSE p[i - 1] # "*"}

StringCalls ==
  strings_main
  \union [fn : {"find_substrings"}, s : Words({1, 2}, 4)]
  \union [fn : {"is_interleave"}, s : Words({1, 2}, 2), t : Words({1, 2}, 2), u : Words({1, 2}, 4)]
  \union [fn : {"group_anagrams"}, ana : [1..3 -> Words({1, 2}, 2)]]
  \union [fn : {"remove_k_chars"}, k : 1..3, s : Words({1, 2}, 6)]
  \union [fn : {"search_for_pat"}, pat : Words({1, 2}, 4) \ {<<>>}, txt : Words({1, 2}, 6)]
  \union [fn : {"shortest_common_subseq"}, s : Words({1, 2}, 3), t : Words({1, 2, 3}, 3)]
  \union [fn : {"longest_substring", "count_distinct_subseq", "longest_unique_substring"},
          s : Words(1..3, 5)]
  \union [fn : {"is_match"}, s : Words({"a", "b"}, 3), p : Patterns(4)]
  \union [fn : {"remove_invalid_parentheses"}, s : Words({"(", ")", "x"}, 5)]

(* Binary trees of n nodes with data out of V, and all their nodes. *)
RECURSIVE BinaryTrees(_, _)
BinaryTrees(n, V) ==
  IF n = 0 THEN {Null}
  ELSE UNION {{<<d, l, r>> : d \in V, l \in BinaryTrees(k, V), r \in BinaryTrees(n - 1 - k, V)} :
              k \in 0..(n - 1)}

RECURSIVE NodesOf(_)
NodesOf(t) == IF t = Null THEN {} ELSE {t} \union NodesOf(Left(t)) \union NodesOf(Right(t))

Distinct(n) == {t \in BinaryTrees(n, 1..n) : {Data(x) : x \in NodesOf(t)} = 1..n}

TreesUpTo(n, V) == UNION {BinaryTrees(k, V) : k \in 0..n}

TreeCalls ==
  trees_main
  \union [fn : {"height_recursion", "height_levelorder"}, root : TreesUpTo(5, {1})]
  \union [fn : {"children_sum_recursion", "children_sum_queue"}, root : TreesUpTo(4, 1..3)]
  \union [fn : {"connect_nodes"}, root : UNION {Distinct(k) : k \in 0..4}]
  \union {[fn |-> "lca", root |-> c[1], t1 |-> c[2], t2 |-> c[3]] :
            c \in UNION {{t} \X NodesOf(t) \X NodesOf(t) : t \in Distinct(4)}}
  \union [fn : {"max_path_sum", "max_path_sum_two_nodes"}, root : TreesUpTo(4, {-1, 0, 2})]
  \union [fn : {"count_all_paths"}, root : TreesUpTo(4, {-1, 1}), k : -1..1]
  \union [fn : {"sum_of_distances_in_tree"}, n : {5}, edges : ParentTrees(5)]

Symmetric(n) ==
  {[v \in 1..n |-> SelectSeq(Upto(1, n), LAMBDA u : {u, v} \in E)] :
     E \in SUBSET {{x, y} : x, y \in 1..n}}

ArrayCalls ==
  arrays_main
  \union [fn : {"threesum"}, a : [1..5 -> -2..2]]
  \union [fn : {"trheesum_target"}, a : [1..4 -> 0..3], k : {4, 7}]
  \union [fn : {"array_change"}, a : {<<1, 2, 3>>, <<4, 2, 1>>},
          ops : {<< <<1, 5>>, <<2, 1>> >>, << <<1, 6>>, <<6, 1>>, <<2, 6>> >>}]
  \union [fn : {"count_smaller"}, a : Words(-1..2, 5)]
  \union [fn : {"insert_interval"}, ni : {<<1, 3>>, <<0, 0>>, <<2, 5>>},
          a : {<<>>, << <<1, 2>> >>, << <<0, 1>>, <<3, 4>>, <<6, 7>> >>, << <<0, 0>>, <<2, 2>>, <<4, 5>> >>}]
  \union [fn : {"trap_rain_water"}, grid : {[c \in (0..2) \X (0..3) |-> IF c \in DOMAIN g THEN g[c] ELSE 2] :
                                        g \in [{<<1, 0>>, <<1, 1>>, <<1, 2>>, <<1, 3>>, <<2, 1>>} -> 0..2]}]
  \union [fn : {"find_kth_largest"}, a : [1..5 -> 0..2], k : 1..5]
  \union [fn : {"smallest_dist_pair"}, a : [1..4 -> 0..4], k : 1..6]
  \union [fn : {"make_array_increasing"}, a : UNION {[1..k -> 1..3] : k \in 2..4}, b : {<<2>>, <<3, 0>>, <<0, 1, 2>>}]
  \union [fn : {"has_alt_bits"}, k : 0..64]
  \union [fn : {"findx"}, a : Words({1, 2}, 5), b : Words({1, 2}, 3)]
  \union [fn : {"read_chars"}, a : {[i \in 1..k |-> IF i = n THEN "!" ELSE "x"] : k \in {3, 8, 9, 17}, n \in {2, 9, 20}}]
  \union [fn : {"HeapSort"}, a : Words(0..3, 5)]
  \union [fn : {"graph_is_bipartite"}, adj : Symmetric(4)]
  \union [fn : {"group_identical_strings"}, a : [1..3 -> Words({1, 2}, 2)]]
  \union [fn : {"count_unique_substrings"}, a : Words({1, 2}, 4) \ {<<>>}]
  \union UNION {[fn : {"index"}, a : [1..6 -> 0..2], l : {w[1]}, r : {w[2]}] : w \in {<<1, 6>>, <<2, 4>>, <<3, 3>>, <<2, 6>>}}
  \union [fn : {"bench"}, a : Words({0, 1, 4, 5, 6}, 3), n : {6}, w : {4}]
  \union [fn : {"one"}, a : Words({-1, 0, 3, 4, 5}, 3), n : {4}, w : {4}]
  \union [fn : {"anagram_program"}, a : UNION {[1..k -> Words({1, 2}, 2) \ {<<>>}] : k \in 1..3}]

(* The binary trees with root 1, every child below a smaller node. *)
HeapTrees(n) ==
  LET down == {f \in [1..n -> 0..n] : \A i \in 1..n : f[i] = 0 \/ f[i] > i}
      parents(h, c) == Cardinality({i \in 1..n : h.left[i] = c}) + Cardinality({i \in 1..n : h.right[i] = c})
  IN  {h \in [left : down, right : down] : \A c \in 2..n : parents(h, c) = 1}

(* k linked nodes, and one more that is not. *)
Chain(k) == [succ |-> [i \in 1..(k + 1) |-> IF i < k THEN i + 1 ELSE 0],
             prev |-> [i \in 1..(k + 1) |-> IF i <= k THEN i - 1 ELSE 0]]

Values(v) == [value |-> v, succ |-> [i \in DOMAIN v |-> IF i < Len(v) THEN i + 1 ELSE 0],
              prev |-> [i \in DOMAIN v |-> i - 1]]

ListCalls ==
  lists_main
  \union [fn : {"pair_wise_swap"}, heap : {Line(d, 0) : d \in Words(1..2, 5) \ {<<>>}}]
  \union [fn : {"count_element"}, heap : {Line(d, 0) : d \in Words(1..2, 4) \ {<<>>}}, k : 1..2]
  \union [fn : {"detect_cycle", "length_of_loop"},
          heap : UNION {{Line([i \in 1..n |-> i], last) : last \in 0..n} : n \in 1..7}]
  \union [fn : {"b_to_dll_stack", "bt_to_dll_morris"}, heap : UNION {HeapTrees(n) : n \in 1..4}]
  \union UNION {[fn : {"__insert_", "__add_"}, heap : {Chain(k)}, p : 0..k, n : {0, k + 1}] : k \in 0..4}
  \union [fn : {"__find_"}, heap : {Values(v) : v \in [1..3 -> 1..2]}, p : 0..3, k : 1..2]
  \union [fn : {"__advance_"}, heap : {Values(v) : v \in {<<1, 2, 3, 4>>}}, p : 0..4, k : -4..4]

MCInit ==
  /\ \/ family = "graphs" /\ call \in GraphCalls
     \/ family = "dp" /\ call \in DpCalls
     \/ family = "strings" /\ call \in StringCalls
     \/ family = "trees" /\ call \in TreeCalls
     \/ family = "arrays" /\ call \in ArrayCalls
     \/ family = "lists" /\ call \in ListCalls
  /\ result = <<>>

ReturnGraph ==
  /\ family = "graphs" /\ result = <<>>
  /\ result' = <<Graph(call)>>
  /\ UNCHANGED <<family, call>>

ReturnDp ==
  /\ family = "dp" /\ result = <<>>
  /\ result' = <<Dp(call)>>
  /\ UNCHANGED <<family, call>>

ReturnString ==
  /\ family = "strings" /\ result = <<>>
  /\ result' = <<Strings(call)>>
  /\ UNCHANGED <<family, call>>

ReturnTree ==
  /\ family = "trees" /\ result = <<>>
  /\ result' = <<Trees(call)>>
  /\ UNCHANGED <<family, call>>

ReturnArray ==
  /\ family = "arrays" /\ result = <<>>
  /\ result' = <<Arrays(call)>>
  /\ UNCHANGED <<family, call>>

ReturnList ==
  /\ family = "lists" /\ result = <<>>
  /\ result' = <<Lists(call)>>
  /\ UNCHANGED <<family, call>>

MCNext == ReturnGraph \/ ReturnDp \/ ReturnString \/ ReturnTree \/ ReturnArray \/ ReturnList

MCSpec == MCInit /\ [][MCNext]_vars

Answered(f) == family = f /\ result # <<>>

(* The searches, the union-find and the shortest paths of graphs.cpp return what
   reachability, enumeration of routes and of schedules define; the recursive and
   the queue version of each function of trees.cpp answer what the places of the
   nodes in the tree define. *)
GraphAnswers ==
  /\ Answered("graphs") => GraphPromise(call, result[1])
  /\ Answered("trees") => TreesPromise(call, result[1])

(* Every table of dp.cpp, also those updated in place, ends with the best value
   over all choices; the two versions of a problem agree. *)
DpAnswers == Answered("dp") => DpPromise(call, result[1])

(* Two pointers, partition, heap, Fenwick tree, sparse table, hashes and bitmaps
   give the answer that the definition over all indices gives; the pattern search,
   the masks and the tables of strings.cpp the one that the substrings and
   subsequences of the input define. *)
ArrayAnswers ==
  /\ Answered("arrays") => ArraysPromise(call, result[1])
  /\ Answered("strings") => StringsPromise(call, result[1])

(* The pointer exercises keep every node, the links agree in both directions,
   and a cycle is found and measured wherever it begins. *)
ListAnswers == Answered("lists") => ListsPromise(call, result[1])
=============================================================================
