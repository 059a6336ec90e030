--------------------------- MODULE TreeAlgorithms ---------------------------
(* The functions of algorithms/trees/trees.cpp, and what each is for.  A      *)
(* node is <<data, left, right>> and Null is nullptr; where a function tells  *)
(* nodes apart by their address the data of the tree are all different.       *)
EXTENDS AlgorithmBase

Null == <<>>

tree_node(x) == <<x, Null, Null>>

Left(t)  == t[2]
Right(t) == t[3]
Data(t)  == IF t = Null THEN 0 ELSE t[1]
Leaf(t)  == Left(t) = Null /\ Right(t) = Null

Children(t) == SelectSeq(<<Left(t), Right(t)>>, LAMBDA c : c # Null)

(* A level of the tree in the queue becomes the next one. *)
Below(q) == FlattenSeq([i \in DOMAIN q |-> Children(q[i])])

RECURSIVE height_recursion(_)
height_recursion(t) ==
  IF t = Null THEN -1
  ELSE 1 + MaxOf(height_recursion(Left(t)), height_recursion(Right(t)))

RECURSIVE LevelLoop(_, _)
LevelLoop(q, depth) == IF q = <<>> THEN depth - 1 ELSE LevelLoop(Below(q), depth + 1)

height_levelorder(root) == IF root = Null THEN 0 ELSE LevelLoop(<<root>>, 0)

RECURSIVE children_sum_recursion(_)
children_sum_recursion(t) ==
  \/ t = Null
  \/ Leaf(t)
  \/ /\ Data(Left(t)) + Data(Right(t)) = Data(t)
     /\ children_sum_recursion(Left(t)) /\ children_sum_recursion(Right(t))

RECURSIVE SumLoop(_)
SumLoop(q) ==
  LET t == Head(q)
  IN  CASE q = <<>> -> TRUE
        [] q # <<>> /\ Leaf(t) -> SumLoop(Tail(q))
        [] OTHER -> /\ Data(Left(t)) + Data(Right(t)) = Data(t)
                    /\ SumLoop(Tail(q) \o Children(t))

children_sum_queue(root) == IF root = Null THEN TRUE ELSE SumLoop(<<root>>)

(* right_next of every node, as a function of its data. *)
RECURSIVE ConnectLoop(_, _)
ConnectLoop(q, next) ==
  IF q = <<>> THEN next
  ELSE ConnectLoop(Below(q),
         next @@ [d \in {Data(q[i]) : i \in DOMAIN q} |->
                    LET i == CHOOSE j \in DOMAIN q : Data(q[j]) = d
                    IN  IF i = Len(q) THEN 0 ELSE Data(q[i + 1])])

connect_nodes(root) == ConnectLoop(IF root = Null THEN <<>> ELSE <<root>>, <<>>)

RECURSIVE lca(_, _, _)
lca(t, t1, t2) ==
  IF t = Null \/ t = t1 \/ t = t2 THEN t
  ELSE LET l == lca(Left(t), t1, t2)
           r == lca(Right(t), t1, t2)
       IN  CASE l # Null /\ r # Null -> t
             [] l # Null /\ r = Null -> l
             [] OTHER -> r

RECURSIVE LeafSums(_, _, _)
LeafSums(t, sum, mx) ==
  IF t = Null THEN mx
  ELSE LET s == sum + Data(t)
           m == IF Leaf(t) THEN MaxOf(mx, s) ELSE mx
       IN  LeafSums(Right(t), s, LeafSums(Left(t), s, m))

max_path_sum(root) == LeafSums(root, 0, -1000000000)

(* pref lists the sums of the paths from the root to the ancestors, which the
   map counts; a node looks its own up before it adds itself. *)
RECURSIVE CountPaths(_, _, _, _)
CountPaths(t, k, sum, pref) ==
  IF t = Null THEN 0
  ELSE LET s == sum + Data(t)
       IN  (IF s = k THEN 1 ELSE 0)
             + Cardinality({i \in DOMAIN pref : pref[i] = s - k})
             + CountPaths(Left(t), k, s, Append(pref, s))
             + CountPaths(Right(t), k, s, Append(pref, s))

count_all_paths(root, k) == CountPaths(root, k, 0, <<>>)

(* The best sum from a leaf up to t, and the best between two leaves so far. *)
RECURSIVE TwoLeaves(_, _)
TwoLeaves(t, mx_path) ==
  IF t = Null THEN <<0, mx_path>>
  ELSE LET lhs == TwoLeaves(Left(t), mx_path)
           rhs == TwoLeaves(Right(t), lhs[2])
           l == lhs[1]
           r == rhs[1]
       IN  IF Left(t) # Null /\ Right(t) # Null
           THEN <<Data(t) + MaxOf(l, r), MaxOf(rhs[2], l + r + Data(t))>>
           ELSE <<Data(t) + (IF l # 0 THEN l ELSE r), rhs[2]>>

max_path_sum_two_nodes(root) == TwoLeaves(root, -1000000000)[2]

-----------------------------------------------------------------------------
(* SUM_OF_DISTANCES: a general tree given by its edges, rooted at 0. *)

Neighbours(edges, i) == {e[2] : e \in {x \in ToSet(edges) : x[1] = i}}
                          \union {e[1] : e \in {x \in ToSet(edges) : x[2] = i}}

(* dfs1: the size of i's subtree and the sum of the depths in it. *)
RECURSIVE Dfs1(_, _, _, _)
Dfs1(edges, i, fa, d) ==
  LET sub == {Dfs1(edges, j, i, d + 1) @@ [node |-> j] : j \in Neighbours(edges, i) \ {fa}}
  IN  [size |-> 1 + SumOver(sub, LAMBDA s : s.size),
       sum |-> d + SumOver(sub, LAMBDA s : s.sum)]

(* dfs2: moving the root along an edge brings size[j] nodes nearer and takes
   the others further away. *)
RECURSIVE Dfs2(_, _, _, _, _)
Dfs2(edges, n, i, fa, t) ==
  LET below(j) == Dfs1(edges, j, i, 0).size
      subs == {Dfs2(edges, n, j, i, t - below(j) + n - below(j)) :
                 j \in Neighbours(edges, i) \ {fa}}
  IN  (i :> t) @@ [v \in UNION {DOMAIN s : s \in subs} |->
                     (CHOOSE s \in subs : v \in DOMAIN s)[v]]

sum_of_distances_in_tree(n, edges) == Dfs2(edges, n, 0, -1, Dfs1(edges, 0, -1, 0).sum)

-----------------------------------------------------------------------------
(* main's trees. *)

trees_main ==
  LET N(d, l, r) == <<d, l, r>>
      T(d) == tree_node(d)
      lcaTree == N(1, T(2), N(3, N(6, T(8), Null), T(7)))
  IN  { [fn |-> "height_levelorder", root |-> N(12, N(8, T(5), T(11)), T(18))],
        [fn |-> "children_sum_queue", root |-> N(35, N(20, T(15), T(5)), N(15, T(10), T(5)))],
        [fn |-> "connect_nodes", root |-> N(10, N(8, T(3), Null), N(2, T(4), Null))],
        [fn |-> "lca", root |-> lcaTree, t1 |-> T(7), t2 |-> T(8)],
        [fn |-> "max_path_sum", root |-> N(10, N(-2, T(8), T(-4)), T(7))],
        [fn |-> "count_all_paths", k |-> 7,
         root |-> N(8, N(4, N(3, T(3), T(-2)), N(2, Null, T(1))), N(5, Null, T(2)))],
        [fn |-> "max_path_sum_two_nodes",
         root |-> N(1, N(-2, T(8), T(-1)), N(3, T(4), T(-5)))] }

-----------------------------------------------------------------------------
(* What the functions are for, in terms of the places of the nodes: the ways
   from the root as sequences of the child taken, 2 or 3. *)

Trees(call) ==
  CASE call.fn = "height_recursion" -> height_recursion(call.root)
    [] call.fn = "height_levelorder" -> height_levelorder(call.root)
    [] call.fn = "children_sum_recursion" -> children_sum_recursion(call.root)
    [] call.fn = "children_sum_queue" -> children_sum_queue(call.root)
    [] call.fn = "connect_nodes" -> connect_nodes(call.root)
    [] call.fn = "lca" -> lca(call.root, call.t1, call.t2)
    [] call.fn = "max_path_sum" -> max_path_sum(call.root)
    [] call.fn = "count_all_paths" -> count_all_paths(call.root, call.k)
    [] call.fn = "max_path_sum_two_nodes" -> max_path_sum_two_nodes(call.root)
    [] call.fn = "sum_of_distances_in_tree" -> sum_of_distances_in_tree(call.n, call.edges)

RECURSIVE At(_, _)
At(t, w) == IF w = <<>> THEN t ELSE IF t = Null THEN Null ELSE At(t[Head(w)], Tail(w))

RECURSIVE Places(_)
Places(t) ==
  IF t = Null THEN {}
  ELSE {<<>>} \union UNION {{<<c>> \o w : w \in Places(t[c])} : c \in {2, 3}}

LeafPlaces(t) == {w \in Places(t) : Leaf(At(t, w))}

(* The data from the place v down to the place w, both counted. *)
SumDown(t, v, w) == SumOver(Len(v)..Len(w), LAMBDA i : Data(At(t, SubSeq(w, 1, i))))

Fork(v, w) == CHOOSE u \in Prefixes(v) \cap Prefixes(w) :
                \A x \in Prefixes(v) \cap Prefixes(w) : Len(x) <= Len(u)

TreesPromise(call, result) ==
  CASE call.fn \in {"height_recursion", "height_levelorder"} ->
         call.root # Null => result = Max({Len(w) : w \in Places(call.root)})
    [] call.fn \in {"children_sum_recursion", "children_sum_queue"} ->
         result <=> \A w \in Places(call.root) \ LeafPlaces(call.root) :
                      LET t == At(call.root, w)
                      IN  Data(t) = SumSeq([i \in DOMAIN Children(t) |-> Data(Children(t)[i])])
    [] call.fn = "connect_nodes" ->
         LET row(w) == {v \in Places(call.root) : Len(v) = Len(w) /\ LexLess(w, v)}
             d(w) == Data(At(call.root, w))
         IN  /\ DOMAIN result = {d(w) : w \in Places(call.root)}
             /\ \A w \in Places(call.root) :
                  result[d(w)] = IF row(w) = {} THEN 0
                                 ELSE d(CHOOSE v \in row(w) : \A x \in row(w) : x = v \/ LexLess(v, x))
    [] call.fn = "lca" ->
         LET place(t) == CHOOSE w \in Places(call.root) : At(call.root, w) = t
         IN  result = At(call.root, Fork(place(call.t1), place(call.t2)))
    [] call.fn = "max_path_sum" ->
         result = Max({SumDown(call.root, <<>>, w) : w \in LeafPlaces(call.root)} \union {-1000000000})
    [] call.fn = "count_all_paths" ->
         result = Cardinality({<<v, w>> \in Places(call.root) \X Places(call.root) :
                                 IsPrefix(v, w) /\ SumDown(call.root, v, w) = call.k})
    [] call.fn = "max_path_sum_two_nodes" ->
         LET leaves == LeafPlaces(call.root)
             way(v, w) == SumDown(call.root, Fork(v, w), v) + SumDown(call.root, Fork(v, w), w)
                            - Data(At(call.root, Fork(v, w)))
         IN  result = Max({way(p[1], p[2]) : p \in {q \in leaves \X leaves : q[1] # q[2]}}
                            \union {-1000000000})
    [] call.fn = "sum_of_distances_in_tree" ->
         LET E == {<<e[1], e[2]>> : e \in ToSet(call.edges)}
             cut(e) == {x \in E \union {<<y[2], y[1]>> : y \in E} : {x[1], x[2]} # {e[1], e[2]}}
             between(a, b) == Cardinality({e \in E : b \notin Reached({a}, cut(e))})
         IN  result = [a \in 0..(call.n - 1) |-> SumOver(0..(call.n - 1), LAMBDA b : between(a, b))]
=============================================================================
