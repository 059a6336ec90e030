--------------------------- MODULE GraphAlgorithms ---------------------------
(* The functions of algorithms/graphs/graphs.cpp, and what each is for.       *)
(* Grids are functions of the cells <<i, j>>, edges are tuples as in the      *)
(* code, nodes count from 0.  solve_sudoku is left out: it reads tables that  *)
(* it does not initialise.                                                    *)
EXTENDS AlgorithmBase

Mod == 1000000007

Infinity == 2^30

Height(grid) == 1 + Max({c[1] : c \in DOMAIN grid})
Width(grid)  == 1 + Max({c[2] : c \in DOMAIN grid})

-----------------------------------------------------------------------------
(* SURROUNDING_XO: what is left standing are the O's the border leads to. *)

RECURSIVE Flood(_, _)
Flood(grid, c) ==
  IF c \notin DOMAIN grid THEN grid
  ELSE IF grid[c] # "O" THEN grid
  ELSE FoldLeft(Flood, [grid EXCEPT ![c] = "."], Around(c))

(* The second loop runs over the rows, not the columns, of the grid. *)
fill(grid) ==
  LET m == Height(grid)
      n == Width(grid)
      rows    == [k \in 1..(2 * m) |-> <<(k - 1) \div 2, (k % 2) * (n - 1)>>]
      columns == [k \in 1..MaxOf(0, 2 * m - 4) |-> <<(k % 2) * (m - 1), (k + 1) \div 2>>]
      marked  == FoldLeft(Flood, grid, rows \o columns)
  IN  [c \in DOMAIN grid |-> CASE marked[c] = "." -> "O"
                               [] marked[c] = "O" -> "X"
                               [] OTHER -> marked[c]]

-----------------------------------------------------------------------------
(* TOPOLOGICAL_SORT *)

OutOf(edges, v) == SelectSeq(edges, LAMBDA e : e[1] = v)

RECURSIVE TopoLoop(_, _, _, _)
TopoLoop(edges, q, in, topo) ==
  IF q = <<>> THEN topo
  ELSE LET drop(s, e) ==
             LET d == [s.in EXCEPT ![e[2]] = @ - 1]
             IN  [in |-> d, q |-> IF d[e[2]] = 0 THEN Append(s.q, e[2]) ELSE s.q]
           s == FoldLeft(drop, [in |-> in, q |-> Tail(q)], OutOf(edges, Head(q)))
       IN  TopoLoop(edges, s.q, s.in, Append(topo, Head(q)))

toposort(V, edges) ==
  LET in == [v \in 0..(V - 1) |-> Cardinality({k \in DOMAIN edges : edges[k][2] = v})]
  IN  TopoLoop(edges, SelectSeq(Upto(0, V - 1), LAMBDA v : in[v] = 0), in, <<>>)

-----------------------------------------------------------------------------
(* LINE_CHART: the lines through the sorted points, one more at each bend. *)

minimum_lines(stockPrices) ==
  LET p == SortSeq(stockPrices, LexLess)
      d(i) == IF i = 1 THEN <<0, 1>> ELSE <<p[i][1] - p[i-1][1], p[i][2] - p[i-1][2]>>
  IN  IF Len(p) <= 1 THEN 0
      ELSE Cardinality({i \in 2..Len(p) :
             d(i)[2] * d(i-1)[1] # d(i)[1] * d(i-1)[2]})

-----------------------------------------------------------------------------
(* OBSTACLE_REMOVAL: a search that takes free cells from the front. *)

RECURSIVE ObstacleLoop(_, _, _)
ObstacleLoop(grid, dq, vis) ==
  LET t == Head(dq)
      push(s, x) == CASE x \notin DOMAIN grid -> s
                      [] x \in DOMAIN grid /\ grid[x] = 0 -> << <<x, t[2]>> >> \o s
                      [] OTHER -> Append(s, <<x, t[2] + 1>>)
  IN  CASE dq = <<>> -> -1
        [] dq # <<>> /\ t[1] = <<Height(grid) - 1, Width(grid) - 1>> -> t[2]
        [] dq # <<>> /\ t[1] \in vis -> ObstacleLoop(grid, Tail(dq), vis)
        [] OTHER -> ObstacleLoop(grid, FoldLeft(push, Tail(dq), Around(t[1])),
                                 vis \union {t[1]})

min_obstacles(grid) == ObstacleLoop(grid, << <<<<0, 0>>, 0>> >>, {})

-----------------------------------------------------------------------------
(* INCREASING_PATHS: f is the memo of the depth-first search. *)

count_paths(grid) ==
  LET f[c \in DOMAIN grid] ==
        FoldLeft(LAMBDA ans, x : IF x \in DOMAIN grid /\ grid[c] < grid[x]
                                 THEN (ans + f[x]) % Mod ELSE ans,
                 1, Around(c))
  IN  SumOver(DOMAIN grid, LAMBDA c : f[c]) % Mod

-----------------------------------------------------------------------------
(* PARALLEL_COURSE2: breadth first over the sets of courses taken, which the
   code keeps as bit masks: all those reached after t semesters at a time. *)

Terms(n, d, k, cur) ==
  LET nxt == {i \in 1..n : d[i] \subseteq cur} \ cur
  IN  {s \union cur : s \in IF Cardinality(nxt) <= k THEN {nxt} ELSE kSubset(k, nxt)}

RECURSIVE SemesterLoop(_, _, _, _, _, _)
SemesterLoop(n, d, k, level, t, vis) ==
  LET new == (UNION {Terms(n, d, k, cur) : cur \in level}) \ vis
  IN  CASE level = {} -> 0
        [] (1..n) \in level -> t
        [] OTHER -> SemesterLoop(n, d, k, new, t + 1, vis \union new)

min_num_of_semesters(n, relations, k) ==
  LET d == [i \in 1..n |-> {e[1] : e \in {r \in relations : r[2] = i}}]
  IN  SemesterLoop(n, d, k, {{}}, 0, {{}})

-----------------------------------------------------------------------------
(* MINIMIZE_MALWARE_SPREAD: a forest in which a root holds minus the size of
   its tree.  The path compression of get() changes no root and is left out. *)

RECURSIVE get(_, _)
get(e, x) == IF e[x] < 0 THEN x ELSE get(e, e[x])

(* Mutant: the smaller tree counts as one node. *)
unite_CountsOne(e, x, y) ==
  LET a == get(e, x)
      b == get(e, y)
  IN  CASE a = b -> e
        [] a # b /\ e[a] > e[b] -> [e EXCEPT ![b] = @ - 1, ![a] = b]
        [] OTHER -> [e EXCEPT ![a] = @ - 1, ![b] = a]

unite(e, x, y) ==
  LET a == get(e, x)
      b == get(e, y)
      big   == IF e[a] > e[b] THEN b ELSE a
      small == IF e[a] > e[b] THEN a ELSE b
  IN  IF a = b THEN e ELSE [e EXCEPT ![big] = @ + e[small], ![small] = big]

min_malware_spread(n, graph, initial) ==
  LET e == FoldLeft(LAMBDA f, p : IF p \in graph THEN unite(f, p[1], p[2]) ELSE f,
                    [x \in 0..(n - 1) |-> -1],
                    [k \in 1..(n * n) |-> <<(k - 1) \div n, (k - 1) % n>>])
      root(x) == get(e, x)
      cnt(r)  == Cardinality({i \in DOMAIN initial : root(initial[i]) = r})
      size(x) == -e[root(x)]
      best == FoldLeft(LAMBDA b, x :
                IF cnt(root(x)) = 1 /\ (size(x) > b[2] \/ (size(x) = b[2] /\ b[1] > x))
                THEN <<x, size(x)>> ELSE b, <<n, 0>>, initial)
  IN  IF best[1] = n THEN Min(Range(initial)) ELSE best[1]

-----------------------------------------------------------------------------
(* MINIMUM_COST: f[i, v] is the least fee of being at v at time i. *)

min_cost_time(maxTime, edges, passingFees) ==
  LET last == Len(passingFees) - 1
      fee(v) == passingFees[v + 1]
      f[i \in 0..maxTime, v \in 0..last] ==
        IF i = 0 THEN IF v = 0 THEN fee(0) ELSE Infinity
        ELSE FoldLeft(LAMBDA c, e :
               LET c1 == IF e[3] <= i /\ e[1] = v THEN MinOf(c, f[i - e[3], e[2]] + fee(v)) ELSE c
               IN  IF e[3] <= i /\ e[2] = v THEN MinOf(c1, f[i - e[3], e[1]] + fee(v)) ELSE c1,
               Infinity, edges)
      ans == Min({f[i, last] : i \in 1..maxTime} \union {Infinity})
  IN  IF ans = Infinity THEN -1 ELSE ans

-----------------------------------------------------------------------------
(* NUMBER_OF_GOOD_PATHS: trees joined in the order of their values; size
   counts, for each root, the nodes of each value in its tree. *)

Links(edges, v) ==
  FlattenSeq([i \in DOMAIN edges |->
    (IF edges[i][1] = v THEN << <<edges[i][2], i>> >> ELSE <<>>) \o
    (IF edges[i][2] = v THEN << <<edges[i][1], i>> >> ELSE <<>>)])

num_of_good_paths(vals, edges) ==
  LET n == Len(vals)
      val(x) == vals[x + 1]
      arr == SortSeq([i \in 1..n |-> <<vals[i], i - 1>>], LexLess)
      find(p, x) == LET r[y \in 0..(n - 1)] == IF p[y] = y THEN y ELSE r[p[y]] IN r[x]
      join(v, s, l) ==
        LET x == find(s.p, s.x)
            y == find(s.p, l[1])
        IN  CASE val(l[1]) > v -> s
              [] val(l[1]) <= v /\ x = y -> [s EXCEPT !.x = x]
              [] OTHER -> [p |-> [s.p EXCEPT ![y] = x], x |-> x,
                           size |-> [s.size EXCEPT ![x, v] = @ + s.size[y, v]],
                           ans |-> s.ans + s.size[x, v] * s.size[y, v]]
      visit(s, a) == FoldLeft(LAMBDA t, l : join(a[1], t, l),
                              [s EXCEPT !.x = a[2]], Links(edges, a[2]))
  IN  FoldLeft(visit, [p |-> [x \in 0..(n - 1) |-> x], x |-> 0, ans |-> n,
                       size |-> [x \in 0..(n - 1), v \in Range(vals) |->
                                   IF val(x) = v THEN 1 ELSE 0]], arr).ans

-----------------------------------------------------------------------------
(* FIND_EDGES_SHORTEST_PATH: Dijkstra with outdated entries left in the heap,
   and a search back from the target over the tight edges. *)

RECURSIVE Dijkstra(_, _, _)
Dijkstra(edges, dist, pq) ==
  IF pq = {} THEN dist
  ELSE LET top == CHOOSE p \in pq : \A q \in pq : p = q \/ LexLess(p, q)
           relax(s, l) ==
             LET d == s.dist[top[2]] + edges[l[2]][3]
             IN  IF d < s.dist[l[1]]
                 THEN [dist |-> [s.dist EXCEPT ![l[1]] = d], pq |-> s.pq \union {<<d, l[1]>>}]
                 ELSE s
           s == FoldLeft(relax, [dist |-> dist, pq |-> pq \ {top}],
                         IF top[1] = dist[top[2]] THEN Links(edges, top[2]) ELSE <<>>)
       IN  Dijkstra(edges, s.dist, s.pq)

RECURSIVE TightLoop(_, _, _, _, _)
TightLoop(edges, dist, q, vis, ans) ==
  IF q = {} THEN ans
  ELSE LET to == CHOOSE v \in q : TRUE
           tight == SelectSeq(Links(edges, to), LAMBDA l : dist[to] = dist[l[1]] + edges[l[2]][3])
           from  == {tight[i][1] : i \in DOMAIN tight} \ vis
       IN  TightLoop(edges, dist, (q \ {to}) \union from, vis \union from,
                     ans \union {tight[i][2] : i \in DOMAIN tight})

find_shortese_edges(n, edges) ==
  LET dist == Dijkstra(edges, [v \in 0..(n - 1) |-> IF v = 0 THEN 0 ELSE Infinity], {<<0, 0>>})
      ans  == IF dist[n - 1] = Infinity THEN {}
              ELSE TightLoop(edges, dist, {n - 1}, {n - 1}, {})
  IN  [i \in DOMAIN edges |-> i \in ans]

-----------------------------------------------------------------------------
(* WAYS_ARRIVE_DESTINATION: n rounds that settle the nearest open node. *)

count_path(n, roads) ==
  LET nodes == 0..(n - 1)
      relax(v, s, l) ==
        LET d == s.d[v] + roads[l[2]][3]
            to == l[1]
        IN  CASE d < s.d[to] -> [s EXCEPT !.d[to] = d, !.f[to] = s.f[v]]
              [] d = s.d[to] -> [s EXCEPT !.f[to] = (@ + s.f[v]) % Mod]
              [] OTHER -> s
      round(s, i) ==
        LET open == nodes \ s.u
            v == CHOOSE x \in open : \A y \in open : ~LexLess(<<s.d[y], y>>, <<s.d[x], x>>)
        IN  IF s.d[v] = Infinity THEN s
            ELSE FoldLeft(LAMBDA t, l : relax(v, t, l), [s EXCEPT !.u = @ \union {v}],
                          Links(roads, v))
  IN  FoldLeft(round, [d |-> [x \in nodes |-> IF x = 0 THEN 0 ELSE Infinity], u |-> {},
                       f |-> [x \in nodes |-> IF x = 0 THEN 1 ELSE 0]], Upto(1, n)).f[n - 1]

-----------------------------------------------------------------------------
(* main's grids, graphs and points. *)

GridOf(rows) ==
  [c \in (0..(Len(rows) - 1)) \X (0..(Len(rows[1]) - 1)) |-> rows[c[1] + 1][c[2] + 1]]

main ==
  LET O == "O"
      X == "X"
  IN  { [fn |-> "fill", grid |-> GridOf(<< <<X, O, X, O, X, X>>, <<X, O, X, X, O, X>>,
           <<X, X, X, O, X, X>>, <<O, X, X, X, X, X>>, <<X, X, X, O, X, O>>,
           <<O, O, X, O, O, O>> >>)],
        [fn |-> "toposort", n |-> 6,
         edges |-> << <<0, 1>>, <<1, 2>>, <<2, 3>>, <<4, 5>>, <<5, 1>>, <<5, 2>> >>],
        [fn |-> "minimum_lines", points |-> << <<1, 7>>, <<2, 6>>, <<3, 5>>, <<4, 4>>,
           <<5, 4>>, <<6, 3>>, <<7, 2>>, <<8, 1>> >>],
        [fn |-> "min_obstacles", grid |-> GridOf(<< <<0, 1, 1>>, <<1, 1, 0>>, <<1, 1, 0>> >>)],
        [fn |-> "min_obstacles",
         grid |-> GridOf(<< <<0, 1, 0, 0, 0>>, <<0, 1, 0, 1, 0>>, <<0, 0, 0, 1, 0>> >>)],
        [fn |-> "count_paths", grid |-> GridOf(<< <<1, 1>>, <<3, 4>> >>)],
        [fn |-> "min_malware_spread", n |-> 3, initial |-> <<0, 1>>,
         graph |-> {<<0, 0>>, <<0, 1>>, <<1, 0>>, <<1, 1>>, <<2, 2>>}] }

-----------------------------------------------------------------------------
(* What the functions are for, said without their loops. *)

Graph(call) ==
  CASE call.fn = "fill" -> fill(call.grid)
    [] call.fn = "toposort" -> toposort(call.n, call.edges)
    [] call.fn = "minimum_lines" -> minimum_lines(call.points)
    [] call.fn = "min_obstacles" -> min_obstacles(call.grid)
    [] call.fn = "count_paths" -> count_paths(call.grid)
    [] call.fn = "min_num_of_semesters" -> min_num_of_semesters(call.n, call.relations, call.k)
    [] call.fn = "min_malware_spread" -> min_malware_spread(call.n, call.graph, call.initial)
    [] call.fn = "min_cost_time" -> min_cost_time(call.maxTime, call.edges, call.fees)
    [] call.fn = "num_of_good_paths" -> num_of_good_paths(call.vals, call.edges)
    [] call.fn = "find_shortese_edges" -> find_shortese_edges(call.n, call.edges)
    [] call.fn = "count_path" -> count_path(call.n, call.edges)

Steps(S) == {e \in S \X S : e[2] \in ToSet(Around(e[1]))}

Both(edges) == UNION {{<<e[1], e[2]>>, <<e[2], e[1]>>} : e \in ToSet(edges)}

Straight(p, i, j) ==
  \A k \in i..j : (p[k][2] - p[i][2]) * (p[j][1] - p[i][1])
                    = (p[j][2] - p[i][2]) * (p[k][1] - p[i][1])

(* The paths from 0 to n - 1 that visit no node twice, and their lengths when
   every hop takes the shortest edge there is. *)
Hops(edges, a, b) ==
  {edges[l[2]][3] : l \in {x \in ToSet(Links(edges, a)) : x[1] = b}}

Routes(n, edges) ==
  {r \in UNION {[1..k -> 0..(n - 1)] : k \in 1..n} :
    /\ IsInjective(r) /\ r[1] = 0 /\ r[Len(r)] = n - 1
    /\ \A i \in 1..(Len(r) - 1) : Hops(edges, r[i], r[i + 1]) # {}}

Length(edges, r) == SumOver(1..(Len(r) - 1), LAMBDA i : Min(Hops(edges, r[i], r[i + 1])))

Shortest(n, edges) ==
  LET R == Routes(n, edges)
  IN  {r \in R : \A s \in R : Length(edges, r) <= Length(edges, s)}

GraphPromise(call, result) ==
  CASE call.fn = "fill" ->
         LET D == DOMAIN call.grid
             os == {c \in D : call.grid[c] = "O"}
             kept == Reached({c \in os : \E x \in ToSet(Around(c)) : x \notin D}, Steps(os))
         IN  \* a grid wider than high has top and bottom cells no loop looks at
             Height(call.grid) >= Width(call.grid) =>
               result = [c \in D |-> IF c \in kept THEN "O" ELSE "X"]
    [] call.fn = "toposort" ->
         LET E == ToSet(call.edges)
             cyclic == {v \in 0..(call.n - 1) : v \in Reached({e[2] : e \in {x \in E : x[1] = v}}, E)}
         IN  /\ IsInjective(result)
             /\ Range(result) = (0..(call.n - 1)) \ Reached(cyclic, E)
             /\ \A i, j \in DOMAIN result : <<result[i], result[j]>> \in E => i < j
    [] call.fn = "minimum_lines" ->
         LET p == SortSeq(call.points, LexLess)
             least[i \in 1..Len(p)] ==
               IF i = Len(p) THEN 0
               ELSE 1 + Min({least[j] : j \in {k \in (i + 1)..Len(p) : Straight(p, i, k)}})
         IN  result = least[1]
    [] call.fn = "min_obstacles" ->
         LET free == {c \in DOMAIN call.grid : call.grid[c] = 0 \/ c = <<0, 0>>}
             goal == <<Height(call.grid) - 1, Width(call.grid) - 1>>
             opens(S) == goal \in Reached({<<0, 0>>}, Steps(free \union S))
         IN  result = Min({Cardinality(S) : S \in {T \in SUBSET (DOMAIN call.grid \ free) : opens(T)}})
    [] call.fn = "count_paths" ->
         LET g == call.grid
             rises(S) == \A x, y \in S :
               /\ x # y => g[x] # g[y]
               /\ (g[x] < g[y] /\ ~\E z \in S : g[x] < g[z] /\ g[z] < g[y]) => <<x, y>> \in Steps(S)
         IN  result = Cardinality({S \in SUBSET DOMAIN g : S # {} /\ rises(S)})
    [] call.fn = "min_num_of_semesters" ->
         LET fits(t) == \E f \in [1..call.n -> 1..t] :
               /\ \A s \in 1..t : Cardinality({i \in 1..call.n : f[i] = s}) <= call.k
               /\ \A r \in call.relations : f[r[1]] < f[r[2]]
             terms == {t \in 1..call.n : fits(t)}
         IN  result = IF terms = {} THEN 0 ELSE Min(terms)
    [] call.fn = "min_malware_spread" ->
         LET all == Range(call.initial)
             spread(x) == Cardinality(Reached(all \ {x}, call.graph))
         IN  result = Min({x \in all : \A y \in all : spread(x) <= spread(y)})
    [] call.fn = "min_cost_time" ->
         LET n == Len(call.fees)
             inTime == {r \in Routes(n, call.edges) : Length(call.edges, r) <= call.maxTime}
             fees == {SumOver(DOMAIN r, LAMBDA i : call.fees[r[i] + 1]) : r \in inTime}
         IN  result = IF fees = {} THEN -1 ELSE Min(fees)
    [] call.fn = "num_of_good_paths" ->
         LET val(x) == call.vals[x + 1]
             below(v) == {e \in Both(call.edges) : val(e[1]) <= v /\ val(e[2]) <= v}
         IN  result = Cardinality({p \in (0..(Len(call.vals) - 1)) \X (0..(Len(call.vals) - 1)) :
               /\ p[1] <= p[2] /\ val(p[1]) = val(p[2])
               /\ p[2] \in Reached({p[1]}, below(val(p[1])))})
    [] call.fn = "find_shortese_edges" ->
         LET uses(r, e) == \E i \in 1..(Len(r) - 1) :
               /\ {r[i], r[i + 1]} = {e[1], e[2]}
               /\ e[3] = Min(Hops(call.edges, r[i], r[i + 1]))
             best == Shortest(call.n, call.edges)
         IN  \A i \in DOMAIN call.edges : result[i] <=> \E r \in best : uses(r, call.edges[i])
    [] call.fn = "count_path" -> result = Cardinality(Shortest(call.n, call.edges))
=============================================================================
