--------------------------- MODULE DynamicPrograms ---------------------------
(* The functions of algorithms/dp/dp.cpp, and what each is for.  A table that *)
(* is filled front to back is a recursive function; one that is updated in    *)
(* place is folded in the order of the loops, which is what can go wrong.     *)
(* Strings are sequences, positions count from 1.                             *)
EXTENDS AlgorithmBase

Inf == 2^30

min_operations_reach_k(k) ==
  LET dp[i \in 0..k] ==
        CASE i = 0 -> 0
          [] i > 0 /\ i % 2 = 0 -> MinOf(dp[i - 1] + 1, dp[i \div 2] + 1)
          [] OTHER -> dp[i - 1] + 1
  IN  dp[k]

min_operations_strings(s, t) ==
  LET dp[i \in 0..Len(s), j \in 0..Len(t)] ==
        CASE i = 0 \/ j = 0 -> 0
          [] i > 0 /\ j > 0 /\ s[i] = t[j] -> 1 + dp[i - 1, j - 1]
          [] OTHER -> MaxOf(dp[i - 1, j], dp[i, j - 1])
      lcs == dp[Len(s), Len(t)]
  IN  (Len(s) - lcs) + (Len(t) - lcs)

knapsack_2d(W, v, wt) ==
  LET dp[i \in 0..Len(wt), j \in 0..W] ==
        IF i = 0 \/ j = 0 THEN 0
        ELSE LET take == IF wt[i] <= j THEN dp[i - 1, j - wt[i]] + v[i] ELSE 0
             IN  MaxOf(take, dp[i - 1, j])
  IN  dp[Len(wt), W]

(* Mutant: the row is updated from the front. *)
knapsack_opt_Forward(W, v, wt) ==
  FoldLeft(LAMBDA dp, i :
             FoldLeft(LAMBDA row, j : [row EXCEPT ![j] = MaxOf(@, row[j - wt[i]] + v[i])],
                      dp, Upto(MinOf(wt[i], W + 1), W)),
           [j \in 0..W |-> 0], Upto(1, Len(wt)))[W]

(* One row, updated from the back so that no item is taken twice. *)
knapsack_opt(W, v, wt) ==
  FoldLeft(LAMBDA dp, i :
             FoldLeft(LAMBDA row, j : [row EXCEPT ![j] = MaxOf(@, row[j - wt[i]] + v[i])],
                      dp, Downto(W, MinOf(wt[i], W + 1))),
           [j \in 0..W |-> 0], Upto(1, Len(wt)))[W]

number_blast_prefix(A) ==
  LET dp[i \in 0..Len(A)] ==
        IF i = 0 THEN 0
        ELSE Max({dp[i - 1]} \union {dp[j - 1] + A[j] * A[i] : j \in 1..(i - 1)})
  IN  dp[Len(A)]

number_blast_suffix(A) ==
  LET n == Len(A)
      dp[i \in 1..(n + 1)] ==
        IF i > n THEN 0
        ELSE Max({0} \union {dp[j + 1] + A[i] * A[j] : j \in (i + 1)..n}
                     \union {A[i + 1] * A[j] + dp[j + 1] : j \in (i + 2)..n})
  IN  dp[1]

min_square(n) ==
  LET dp[i \in 0..n] ==
        IF i <= 1 THEN i
        ELSE Min({i} \union {dp[i - x * x] + 1 : x \in {y \in 1..i : y * y <= i}})
  IN  dp[n]

(* All values reached in `step` subtractions at a time. *)
RECURSIVE SquareLoop(_, _, _)
SquareLoop(level, step, vis) ==
  LET new == {y \in {v - x * x : v \in level, x \in 1..Max(level)} : y >= 0} \ vis
  IN  CASE level = {} -> -1
        [] level # {} /\ 0 \in level -> step
        [] OTHER -> SquareLoop(new, step + 1, vis \union new)

min_square_bfs(n) == SquareLoop({n}, 0, {n})

-----------------------------------------------------------------------------
(* LONGEST_PALINDROMIC_SUBSTRING, by growing lengths and around each centre;
   p is <<first, second>>: where the best one starts and how long it is. *)

longest_pal_subs_dp(s) ==
  LET n == Len(s)
      dp[i \in 1..n, j \in 1..n] ==
        i = j \/ (s[i] = s[j] /\ (j = i + 1 \/ dp[i + 1, j - 1]))
      spans == FlattenSeq([l \in 1..n |-> [i \in 1..(n - l + 1) |-> <<i, l>>]])
      p == FoldLeft(LAMBDA b, c : IF c[2] > b[2] /\ dp[c[1], c[1] + c[2] - 1] THEN c ELSE b,
                    <<1, 1>>, spans)
  IN  SubSeq(s, p[1], MinOf(n, p[1] + p[2] - 1))

longest_pal_subs_center(s) ==
  LET n == Len(s)
      grow[l \in 0..n, h \in 1..(n + 1)] ==
        IF l >= 1 /\ h <= n /\ s[l] = s[h]
        THEN grow[l - 1, h + 1] ELSE <<l + 1, h - l - 1>>
      p == FoldLeft(LAMBDA b, c : LET g == grow[(c + 1) \div 2, (c + 2) \div 2]
                                  IN  IF b[2] < g[2] THEN g ELSE b,
                    <<1, 1>>, Upto(1, 2 * n))
  IN  SubSeq(s, p[1], MinOf(n, p[1] + p[2] - 1))

(* PARTITION_SET: the sums of the subsets, again from the back. *)
partition_set(arr) ==
  LET S == SumSeq(arr)
      dp == FoldLeft(LAMBDA d, x :
              FoldLeft(LAMBDA e, sum : [e EXCEPT ![sum] = @ \/ e[sum - x]], d, Downto(S, x)),
              [sum \in 0..S |-> sum = 0], arr)
  IN  Min({S} \union {(S - sum) - sum : sum \in {x \in 0..(S \div 2) : dp[x]}})

-----------------------------------------------------------------------------
(* Jobs, rides and events: sorted, and the ones compatible with each found by
   a binary search, which counts keys in a sorted range. *)

Sorted(jobs, f(_)) == SortSeq([i \in DOMAIN jobs |-> f(jobs[i])], LexLess)

ByStart(job) == job
ByEnd(job)   == <<job[2], job[1], job[3]>>

LowerBound(e, lo, hi, x) == lo + Cardinality({k \in lo..(hi - 1) : e[k][1] < x})
UpperBound(e, lo, hi, x) == lo + Cardinality({k \in lo..(hi - 1) : e[k][1] <= x})

job_scheduling_v1(jobs) ==
  LET e == Sorted(jobs, ByStart)
      n == Len(e)
      f[i \in 1..(n + 1)] ==
        IF i > n THEN 0
        ELSE MaxOf(f[i + 1], e[i][3] + f[LowerBound(e, i + 1, n + 1, e[i][2])])
  IN  f[1]

(* dp[i] is about the first i - 1 jobs. *)
job_scheduling_v2(jobs) ==
  LET e == Sorted(jobs, ByEnd)
      dp[i \in 1..(Len(e) + 1)] ==
        IF i = 1 THEN 0
        ELSE MaxOf(dp[i - 1], e[i - 1][3] + dp[UpperBound(e, 1, i - 1, e[i - 1][2])])
  IN  dp[Len(e) + 1]

max_taxi_earnings(rides) ==
  LET e == Sorted(rides, ByEnd)
      dp[i \in 1..(Len(e) + 1)] ==
        IF i = 1 THEN 0
        ELSE MaxOf(dp[i - 1], (e[i - 1][1] - e[i - 1][2] + e[i - 1][3])
                                + dp[UpperBound(e, 1, i - 1, e[i - 1][2])])
  IN  dp[Len(e) + 1]

max_events2(events, k) ==
  LET e == Sorted(events, ByEnd)
      dp[i \in 1..(Len(e) + 1), j \in 0..k] ==
        IF i = 1 \/ j = 0 THEN 0
        ELSE MaxOf(dp[i - 1, j], e[i - 1][3] + dp[LowerBound(e, 1, i - 1, e[i - 1][2]), j - 1])
  IN  dp[Len(e) + 1, k]

-----------------------------------------------------------------------------

min_falling_path_sum(grid) ==
  LET n == Len(grid)
      next(f, row) ==
        [i \in 1..n |->
          LET t == Min({Inf} \union {f[j] : j \in (1..n) \ {i}})
          IN  row[i] + IF t = Inf THEN 0 ELSE t]
  IN  Min(Range(FoldLeft(next, [i \in 1..n |-> 0], grid)))

(* MIN_ARRAY_SUM: f[i, j, k] is the least sum of the first i numbers after
   exactly j halvings and k subtractions; 0x3f3f3f3f stands for none. *)
min_array_sum(a, d, op1, op2) ==
  LET f[i \in 0..Len(a), j \in 0..op1, k \in 0..op2] ==
        IF i = 0 THEN IF j = 0 /\ k = 0 THEN 0 ELSE 1061109567
        ELSE LET x == a[i]
                 y == (x + 1) \div 2
             IN  Min({f[i - 1, j, k] + x}
                   \union (IF j > 0 THEN {f[i - 1, j - 1, k] + y} ELSE {})
                   \union (IF k > 0 /\ x >= d THEN {f[i - 1, j, k - 1] + (x - d)} ELSE {})
                   \union (IF j > 0 /\ k > 0 /\ y >= d
                           THEN {f[i - 1, j - 1, k - 1] + (y - d)} ELSE {})
                   \union (IF j > 0 /\ k > 0 /\ x >= d
                           THEN {f[i - 1, j - 1, k - 1] + (x - d + 1) \div 2} ELSE {}))
  IN  Min({f[Len(a), j, k] : j \in 0..op1, k \in 0..op2} \union {1000000000})

-----------------------------------------------------------------------------
(* main's examples, without the string of LONGEST_PALINDROMIC_SUBSTRING. *)

dp_main ==
  { [fn |-> "min_operations_strings", s |-> <<"A", "G", "G", "T", "A", "B">>,
     t |-> <<"G", "X", "T", "X", "A", "Y", "B">>],
    [fn |-> "min_operations_reach_k", k |-> 12],
    [fn |-> "knapsack_opt", W |-> 4, v |-> <<1, 2, 3>>, wt |-> <<4, 5, 1>>],
    [fn |-> "number_blast_suffix", A |-> <<4, 2, 3, 1, 5, 9, 3, 7, 3, 4, 8, 2>>],
    [fn |-> "min_square_bfs", n |-> 6],
    [fn |-> "partition_set", arr |-> <<1, 6, 11, 5>>] }

-----------------------------------------------------------------------------
(* What the functions are for: the best over all choices. *)

Dp(call) ==
  CASE call.fn = "min_operations_reach_k" -> min_operations_reach_k(call.k)
    [] call.fn = "min_operations_strings" -> min_operations_strings(call.s, call.t)
    [] call.fn = "knapsack_2d" -> knapsack_2d(call.W, call.v, call.wt)
    [] call.fn = "knapsack_opt" -> knapsack_opt(call.W, call.v, call.wt)
    [] call.fn = "number_blast_prefix" -> number_blast_prefix(call.A)
    [] call.fn = "number_blast_suffix" -> number_blast_suffix(call.A)
    [] call.fn = "min_square" -> min_square(call.n)
    [] call.fn = "min_square_bfs" -> min_square_bfs(call.n)
    [] call.fn = "longest_pal_subs_dp" -> longest_pal_subs_dp(call.s)
    [] call.fn = "longest_pal_subs_center" -> longest_pal_subs_center(call.s)
    [] call.fn = "partition_set" -> partition_set(call.arr)
    [] call.fn = "job_scheduling_v1" -> job_scheduling_v1(call.jobs)
    [] call.fn = "job_scheduling_v2" -> job_scheduling_v2(call.jobs)
    [] call.fn = "max_taxi_earnings" -> max_taxi_earnings(call.jobs)
    [] call.fn = "max_events2" -> max_events2(call.jobs, call.k)
    [] call.fn = "min_falling_path_sum" -> min_falling_path_sum(call.grid)
    [] call.fn = "min_array_sum" -> min_array_sum(call.a, call.d, call.op1, call.op2)

(* The most that compatible jobs bring in; an event ends after its last day,
   a job and a ride before their end. *)
BestPlan(jobs, value(_), gap, k) ==
  LET apart(x, y) == x[2] + gap <= y[1] \/ y[2] + gap <= x[1]
      plans == {S \in SUBSET DOMAIN jobs :
                  Cardinality(S) <= k /\ \A i, j \in S : i # j => apart(jobs[i], jobs[j])}
  IN  Max({SumOver(S, LAMBDA i : value(jobs[i])) : S \in plans})

Pay(job)  == job[3]
Fare(job) == job[2] - job[1] + job[3]

(* What each number may be turned into, with the operations that takes. *)
Outcomes(x, d) ==
  LET half == (x + 1) \div 2
  IN  {<<x, 0, 0>>, <<half, 1, 0>>}
        \union (IF x >= d THEN {<<x - d, 0, 1>>, <<(x - d + 1) \div 2, 1, 1>>} ELSE {})
        \union (IF half >= d THEN {<<half - d, 1, 1>>} ELSE {})

DpPromise(call, result) ==
  CASE call.fn = "min_operations_reach_k" ->
         LET bits == {p \in 0..call.k : 2 ^ p <= call.k}
         IN  result = IF call.k = 0 THEN 0
                      ELSE Cardinality(bits) - 1
                             + Cardinality({p \in bits : (call.k \div 2 ^ p) % 2 = 1})
    [] call.fn = "min_operations_strings" ->
         result = Len(call.s) + Len(call.t)
                    - 2 * Max({Len(c) : c \in Subsequences(call.s) \cap Subsequences(call.t)})
    [] call.fn \in {"knapsack_2d", "knapsack_opt"} ->
         result = Max({SumOver(S, LAMBDA i : call.v[i]) :
                    S \in {T \in SUBSET DOMAIN call.wt : SumOver(T, LAMBDA i : call.wt[i]) <= call.W}})
    [] call.fn = "number_blast_prefix" ->
         LET n == Len(call.A)
             pairs == {p \in (1..n) \X (1..n) : p[1] < p[2]}
             apart(S) == \A p, q \in S : p = q \/ p[2] < q[1] \/ q[2] < p[1]
         IN  result = Max({SumOver(S, LAMBDA p : call.A[p[1]] * call.A[p[2]]) :
                             S \in {T \in SUBSET pairs : apart(T)}})
    [] call.fn = "number_blast_suffix" -> result = number_blast_prefix(call.A)
    [] call.fn \in {"min_square", "min_square_bfs"} ->
         LET roots == {x \in 1..call.n : x * x <= call.n}
             sums(k) == {f \in [1..k -> roots] : SumOver(1..k, LAMBDA i : f[i] * f[i]) = call.n}
         IN  result = CHOOSE k \in 1..4 : sums(k) # {} /\ \A j \in 1..(k - 1) : sums(j) = {}
    [] call.fn \in {"longest_pal_subs_dp", "longest_pal_subs_center"} ->
         LET pals == {w \in (1..Len(call.s)) \X (1..Len(call.s)) :
                        w[1] <= w[2] /\ LET u == SubSeq(call.s, w[1], w[2]) IN u = Reverse(u)}
             first == CHOOSE w \in pals : \A x \in pals :
                        \/ x[2] - x[1] < w[2] - w[1]
                        \/ (x[2] - x[1] = w[2] - w[1] /\ w[1] <= x[1])
         IN  result = IF call.s = <<>> THEN <<>> ELSE SubSeq(call.s, first[1], first[2])
    [] call.fn = "partition_set" ->
         LET sum(S) == SumOver(S, LAMBDA i : call.arr[i])
             diff(S) == sum(S) - sum(DOMAIN call.arr \ S)
         IN  result = Min({diff(S) : S \in {T \in SUBSET DOMAIN call.arr : diff(T) >= 0}})
    [] call.fn \in {"job_scheduling_v1", "job_scheduling_v2"} ->
         result = BestPlan(call.jobs, Pay, 0, Len(call.jobs))
    [] call.fn = "max_taxi_earnings" -> result = BestPlan(call.jobs, Fare, 0, Len(call.jobs))
    [] call.fn = "max_events2" -> result = BestPlan(call.jobs, Pay, 1, call.k)
    [] call.fn = "min_falling_path_sum" ->
         LET n == Len(call.grid)
             falls == {f \in [1..n -> 1..n] : \A i \in 1..(n - 1) : f[i] # f[i + 1]}
         IN  n > 1 =>
               result = Min({SumOver(1..n, LAMBDA i : call.grid[i][f[i]]) : f \in falls})
    [] call.fn = "min_array_sum" ->
         LET n == Len(call.a)
             all == UNION {Outcomes(call.a[i], call.d) : i \in 1..n}
             total(f, j) == SumOver(1..n, LAMBDA i : f[i][j])
             plans == {f \in [1..n -> all] :
                         /\ \A i \in 1..n : f[i] \in Outcomes(call.a[i], call.d)
                         /\ total(f, 2) <= call.op1 /\ total(f, 3) <= call.op2}
         IN  result = Min({total(f, 1) : f \in plans})
=============================================================================
