-------------------------- MODULE ArrayAlgorithms --------------------------
(* Algorithms on arrays: algorithms/array, binary_search, bits, vec and data, *)
(* data/ and pearls/. Arrays are sequences and their indices count from 1,    *)
(* except where a result is an index of the program.                          *)
EXTENDS AlgorithmBase

InOrder(s) == SortSeq(s, <)

(* std::lower_bound: how many elements of the sorted s are below x. *)
FirstAt(s, x) == Cardinality({i \in DOMAIN s : s[i] < x})

Swapped(s, i, j) == [s EXCEPT ![i] = s[j], ![j] = s[i]]

-----------------------------------------------------------------------------
(* algorithms/array/array.cpp *)

(* The triples with sum zero that begin with arr[i], for j and k closing in. *)
RECURSIVE Triples(_, _, _, _)
Triples(arr, i, j, k) ==
  LET x == arr[i] + arr[j] + arr[k]
      jj == Min({p \in (j + 1)..MaxOf(j + 1, k - 1) : p >= k - 1 \/ arr[p] # arr[p - 1]})
      kk == Max({p \in MinOf(jj, k - 1)..(k - 1) : p <= jj \/ arr[p] # arr[p + 1]})
  IN  CASE j >= k -> <<>>
        [] j < k /\ x < 0 -> Triples(arr, i, j + 1, k)
        [] j < k /\ x > 0 -> Triples(arr, i, j, k - 1)
        [] j < k /\ x = 0 -> << <<arr[i], arr[j], arr[k]>> >> \o Triples(arr, i, jj, kk)

threesum(a) ==
  LET arr == InOrder(a)
      n == Len(arr)
      firsts == SelectSeq(Upto(1, n - 2), LAMBDA i : \A h \in 1..i : arr[h] <= 0)
      ans(i) == IF i > 1 /\ arr[i] = arr[MaxOf(1, i - 1)] THEN <<>> ELSE Triples(arr, i, i + 1, n)
  IN  FlattenSeq([h \in DOMAIN firsts |-> ans(firsts[h])])

RECURSIVE PairWith(_, _, _, _)
PairWith(a, x, j, k) ==
  /\ j < k
  /\ \/ a[j] + a[k] = x
     \/ a[j] + a[k] < x /\ PairWith(a, x, j + 1, k)
     \/ a[j] + a[k] > x /\ PairWith(a, x, j, k - 1)

trheesum_target(arr, target) ==
  LET a == InOrder(arr)
  IN  \E i \in 1..(Len(a) - 2) : PairWith(a, target - a[i], i + 1, Len(a))

(* mp remembers where each number is; mp[x] stays behind when x is replaced. *)
array_change(nums, operations) ==
  LET change(st, op) ==
        LET at == st.mp[op[1]]
        IN  [arr |-> [st.arr EXCEPT ![at] = op[2]],
             mp |-> [v \in DOMAIN st.mp \union {op[2]} |-> IF v = op[2] THEN at ELSE st.mp[v]]]
      mp == [v \in Range(nums) |-> Max({i \in DOMAIN nums : nums[i] = v})]
  IN  FoldLeft(change, [arr |-> nums, mp |-> mp], operations).arr

(* The Fenwick tree: k & -k is the largest power of two that divides k. *)
LowBit(k) == Max({2^i : i \in {j \in 0..k : k % (2^j) = 0}})

RECURSIVE Update(_, _), Query(_, _)
Update(data, k) ==
  IF k > Len(data) THEN data ELSE Update([data EXCEPT ![k] = @ + 1], k + LowBit(k))
Query(data, k) == IF k = 0 THEN 0 ELSE data[k] + Query(data, k - LowBit(k))

count_smaller(a) ==
  LET all == InOrder(SetToSeq(Range(a)))
      m(v) == FirstAt(all, v) + 1
      visit(st, i) == LET data == Update(st.data, m(a[i]))
                      IN  [data |-> data, ans |-> <<Query(data, m(a[i]) - 1)>> \o st.ans]
  IN  FoldLeft(visit, [data |-> [i \in 1..Len(all) |-> 0], ans |-> <<>>], Downto(Len(a), 1)).ans

insert_interval(intervals, ni) ==
  LET ii == SortSeq(Append(intervals, ni), LexLess)
      merge(ans, x) == IF Last(ans)[2] < x[1] THEN Append(ans, x)
                       ELSE Append(Front(ans), <<Last(ans)[1], MaxOf(Last(ans)[2], x[2])>>)
  IN  FoldLeft(merge, <<ii[1]>>, Tail(ii))

(* pq holds <<water level, row, column>> and gives up its least element. *)
RECURSIVE Pour(_, _, _, _)
Pour(H, pq, vis, ans) ==
  LET top == CHOOSE e \in pq : \A f \in pq : ~ LexLess(f, e)
      near == SelectSeq(Around(<<top[2], top[3]>>), LAMBDA c : c \in DOMAIN H \ vis)
      level(c) == MaxOf(top[1], H[c])
  IN  IF pq = {} THEN ans
      ELSE Pour(H, (pq \ {top}) \union {<<level(c), c[1], c[2]>> : c \in Range(near)},
                vis \union Range(near), ans + SumOver(Range(near), LAMBDA c : level(c) - H[c]))

Border(H) == {c \in DOMAIN H : \E i \in 1..4 : Around(c)[i] \notin DOMAIN H}

trap_rain_water(H) == Pour(H, {<<H[c], c[1], c[2]>> : c \in Border(H)}, Border(H), 0)

(* Hoare's partition of A[i + 1 .. j - 1] about x: the array and the last j. *)
RECURSIVE Partition(_, _, _, _)
Partition(A, x, i, j) ==
  LET ii == Min({p \in (i + 1)..Len(A) : A[p] >= x})
      jj == Max({p \in 1..(j - 1) : A[p] <= x})
  IN  IF ii < jj THEN Partition(Swapped(A, ii, jj), x, ii, jj) ELSE <<A, jj>>

RECURSIVE QuickSelect(_, _, _, _)
QuickSelect(A, k, l, r) ==
  LET cut == Partition(A, A[(l + r) \div 2], l - 1, r + 1)
  IN  CASE l = r -> A[l]
        [] l # r /\ cut[2] < k -> QuickSelect(cut[1], k, cut[2] + 1, r)
        [] l # r /\ cut[2] >= k -> QuickSelect(cut[1], k, l, cut[2])

find_kth_largest(A, k) == QuickSelect(A, Len(A) - k + 1, 1, Len(A))

-----------------------------------------------------------------------------
(* algorithms/binary_search, bits, vec and data *)

smallest_dist_pair(a, k) ==
  LET arr == InOrder(a)
      count(dist) == SumOver(DOMAIN arr, LAMBDA i : i - 1 - FirstAt(arr, arr[i] - dist))
      search[w \in (0..(Last(arr) - arr[1])) \X (0..(Last(arr) - arr[1]))] ==
        LET l == w[1]
            r == w[2]
            mid == (l + r) \div 2
        IN  IF l >= r THEN l ELSE IF count(mid) >= k THEN search[<<l, mid>>] ELSE search[<<mid + 1, r>>]
  IN  search[<<0, Last(arr) - arr[1]>>]

(* n is taken before the sentinels go in: f stops at the last but one element. *)
make_array_increasing(nums, other) ==
  LET inf == 2^30
      n == Len(nums)
      arr1 == <<-inf>> \o nums \o <<inf>>
      arr2 == InOrder(SetToSeq(Range(other)))
      f[i \in 0..(n - 1)] ==
        LET j == FirstAt(arr2, arr1[i + 1])
            keep == IF arr1[i] < arr1[i + 1] THEN {f[i - 1]} ELSE {}
            swap == {f[i - k - 1] + k : k \in {m \in 1..MinOf(i - 1, j) : arr1[i - m] < arr2[j - m + 1]}}
        IN  IF i = 0 THEN 0 ELSE Min({inf} \union keep \union swap)
  IN  IF f[n - 1] >= inf THEN -1 ELSE f[n - 1]

RECURSIVE AltBits(_, _)
AltBits(n, prev) == n = 0 \/ (n % 2 # prev /\ AltBits(n \div 2, n % 2))

has_alt_bits(n) == AltBits(n, -1)

(* Where x begins in s, 0 for nullptr. *)
findx(s, x) ==
  LET same(i) == {j \in 0..Len(x) : i + j - 1 <= Len(s) /\ SubSeq(s, i, i + j - 1) = SubSeq(x, 1, j)}
      hits == {i \in 1..Len(s) : Max(same(i)) = Len(x)}
  IN  IF x = <<>> THEN 1 ELSE IF hits = {} THEN 0 ELSE Min(hits)

(* The characters up to '!' in a buffer that doubles when it is full. *)
read_chars(input) ==
  LET step(st, ch) ==
        CASE st.done \/ ch = "!" -> [st EXCEPT !.done = TRUE]
          [] OTHER -> [st EXCEPT !.cap = IF Len(st.buffer) = st.cap THEN st.cap * 2 ELSE st.cap,
                                 !.buffer = Append(st.buffer, ch)]
  IN  FoldLeft(step, [cap |-> 8, buffer |-> <<>>, done |-> FALSE], input)

RECURSIVE ShiftDown(_, _, _)
ShiftDown(heap, i, mx) ==
  LET larger(big, c) == IF c <= mx THEN IF heap[c] > heap[big] THEN c ELSE big ELSE big
      big == larger(larger(i, 2 * i), 2 * i + 1)
  IN  IF big = i THEN heap ELSE ShiftDown(Swapped(heap, i, big), big, mx)

ToHeap(heap) == FoldLeft(LAMBDA h, i : ShiftDown(h, i, Len(h)), heap, Downto(Len(heap) \div 2, 1))

(* Mutant: the element that was moved to the end stays in the heap. *)
HeapSort_KeepsEnd(a) ==
  FoldLeft(LAMBDA h, end : ShiftDown(Swapped(h, 1, end), 1, end), ToHeap(a), Downto(Len(a), 2))

HeapSort(a) ==
  FoldLeft(LAMBDA h, end : ShiftDown(Swapped(h, 1, end), 1, end - 1), ToHeap(a), Downto(Len(a), 2))

(* One component coloured breadth first: the sides and if every edge crosses. *)
RECURSIVE Colour(_, _)
Colour(adj, st) ==
  LET x == st.q[1]
      look(s, y) ==
        IF s.side[y] = -1 THEN [s EXCEPT !.side[y] = 1 - s.side[x], !.q = Append(s.q, y)]
        ELSE [s EXCEPT !.ok = s.ok /\ s.side[y] # s.side[x]]
  IN  IF st.q = <<>> THEN st
      ELSE Colour(adj, FoldLeft(look, [st EXCEPT !.q = Tail(st.q)], adj[x]))

graph_is_bipartite(adj) ==
  LET start(st, v) ==
        LET done == Colour(adj, [side |-> [st.side EXCEPT ![v] = 0], q |-> <<v>>, ok |-> TRUE])
        IN  IF st.side[v] # -1 THEN st
            ELSE [side |-> done.side, says |-> Append(st.says, <<v, done.ok>>)]
  IN  FoldLeft(start, [side |-> [v \in DOMAIN adj |-> -1], says |-> <<>>], Upto(1, Len(adj))).says

(* p and m of the polynomial hash. *)
HashBase == 31

HashMod == 1000000009

PPow(n) == FoldLeft(LAMBDA w, i : (w * HashBase) % HashMod, 1, Upto(1, n))

(* Letters are 1 for 'a', 2 for 'b' and so on. *)
compute_hash(s) == FoldLeft(LAMBDA h, i : (h + s[i] * PPow(i - 1)) % HashMod, 0, Upto(1, Len(s)))

group_identical_strings(s) ==
  LET hashes == SortSeq([i \in DOMAIN s |-> <<compute_hash(s[i]), i>>], LexLess)
      put(groups, i) ==
        IF i = 1 THEN << <<hashes[i][2]>> >>
        ELSE IF hashes[i][1] # hashes[i - 1][1] THEN Append(groups, <<hashes[i][2]>>)
        ELSE Append(Front(groups), Append(Last(groups), hashes[i][2]))
  IN  FoldLeft(put, <<>>, Upto(1, Len(s)))

count_unique_substrings(s) ==
  LET n == Len(s)
      h(i) == compute_hash(SubSeq(s, 1, i))
      cur(i, l) == (((h(i + l) + HashMod - h(i)) % HashMod) * PPow(n - i - 1)) % HashMod
  IN  SumOver(1..n, LAMBDA l : Cardinality({cur(i, l) : i \in 0..(n - l)}))

(* jmp[j][i] is the position of the least of the 2^j elements from i on. *)
cmb(v, a, b) == IF v[a] = v[b] THEN MinOf(a, b) ELSE IF v[a] < v[b] THEN a ELSE b

Level(x) == Max({d \in 0..x : 2^d <= x})

Jumps(v) ==
  LET jmp[j \in 0..Level(Len(v))] ==
        [i \in 1..(Len(v) - 2^j + 1) |->
           IF j = 0 THEN i ELSE cmb(v, jmp[j - 1][i], jmp[j - 1][i + 2^(j - 1)])]
  IN  jmp

index(v, l, r) ==
  LET d == Level(r - l + 1) IN cmb(v, Jumps(v)[d][l], Jumps(v)[d][r - 2^d + 1])

-----------------------------------------------------------------------------
(* pearls/: a bit_vector of n bits is a sequence of words of w bits, each the *)
(* set of its bits; an index beyond n raises out_of_range only where checked. *)

NewBits(n, w) == [k \in 1..((n + w - 1) \div w) |-> {}]

SetBit(v, w, i) == [v EXCEPT ![i \div w + 1] = @ \union {i % w}]

Test(v, w, i) == i % w \in v[i \div w + 1]

BitmapOf(input, n, w) ==
  LET v == FoldLeft(LAMBDA b, x : SetBit(b, w, x), NewBits(n, w), input)
  IN  SelectSeq(Upto(0, n - 1), LAMBDA i : Test(v, w, i))

bitmap_sort(input, MAX_VALUE, w) == BitmapOf(input, MAX_VALUE, w)

(* The benchmark refuses a value out of range, and results that differ. *)
bench(input, MAX_VALUE, w) ==
  IF \E i \in DOMAIN input : input[i] >= MAX_VALUE THEN "out of range"
  ELSE IF bitmap_sort(input, MAX_VALUE, w) # InOrder(input) THEN "mismatch" ELSE "sorted"

(* one.cpp skips what is out of range and has room for MAXV itself. *)
one(input, MAXV, w) == BitmapOf(SelectSeq(input, LAMBDA x : x \in 0..MAXV), MAXV + 1, w)

(* std::string's order: a proper prefix comes first. *)
WordLess(s, t) ==
  \/ IsStrictPrefix(s, t)
  \/ \E i \in DOMAIN s \cap DOMAIN t : s[i] < t[i] /\ SubSeq(s, 1, i - 1) = SubSeq(t, 1, i - 1)

(* The lines anagram_program prints: a new line where the signature changes. *)
anagram_program(input) ==
  LET less(x, y) == WordLess(x[1], y[1]) \/ (x[1] = y[1] /\ WordLess(x[2], y[2]))
      words == SortSeq([i \in DOMAIN input |-> <<InOrder(input[i]), input[i]>>], less)
      line(out, i) ==
        IF i > 1 /\ words[i][1] # words[MaxOf(1, i - 1)][1] THEN Append(out, <<words[i][2]>>)
        ELSE Append(Front(out), Append(Last(out), words[i][2]))
  IN  FoldLeft(line, << <<>> >>, Upto(1, Len(words)))
-----------------------------------------------------------------------------
(* The calls main and the tests make. *)
arrays_main ==
  {[fn |-> "threesum", a |-> <<-1, 0, 1, 2, -1, -4>>],
   [fn |-> "trheesum_target", a |-> <<1, 4, 45, 6, 10, 8>>, k |-> 13],
   [fn |-> "array_change", a |-> <<1, 2, 4, 6>>, ops |-> << <<1, 3>>, <<4, 7>>, <<6, 1>> >>],
   [fn |-> "HeapSort", a |-> <<12, 11, 15, 10, 9, 1, 2, 3, 13, 14, 4, 5, 6, 7, 8>>]}

Arrays(call) ==
  CASE call.fn = "threesum" -> threesum(call.a)
    [] call.fn = "trheesum_target" -> trheesum_target(call.a, call.k)
    [] call.fn = "array_change" -> array_change(call.a, call.ops)
    [] call.fn = "count_smaller" -> count_smaller(call.a)
    [] call.fn = "insert_interval" -> insert_interval(call.a, call.ni)
    [] call.fn = "trap_rain_water" -> trap_rain_water(call.grid)
    [] call.fn = "find_kth_largest" -> find_kth_largest(call.a, call.k)
    [] call.fn = "smallest_dist_pair" -> smallest_dist_pair(call.a, call.k)
    [] call.fn = "make_array_increasing" -> make_array_increasing(call.a, call.b)
    [] call.fn = "has_alt_bits" -> has_alt_bits(call.k)
    [] call.fn = "findx" -> findx(call.a, call.b)
    [] call.fn = "read_chars" -> read_chars(call.a)
    [] call.fn = "HeapSort" -> HeapSort(call.a)
    [] call.fn = "graph_is_bipartite" -> graph_is_bipartite(call.adj)
    [] call.fn = "group_identical_strings" -> group_identical_strings(call.a)
    [] call.fn = "count_unique_substrings" -> count_unique_substrings(call.a)
    [] call.fn = "index" -> index(call.a, call.l, call.r)
    [] call.fn = "bench" -> bench(call.a, call.n, call.w)
    [] call.fn = "one" -> one(call.a, call.n, call.w)
    [] call.fn = "anagram_program" -> anagram_program(call.a)

Count(s, x) == Cardinality({i \in DOMAIN s : s[i] = x})

SameItems(s, t) == Len(s) = Len(t) /\ \A i \in DOMAIN s : Count(s, s[i]) = Count(t, s[i])

Ascending(s) == \A i, j \in DOMAIN s : i < j => s[i] <= s[j]

Increasing(s) == \A i, j \in DOMAIN s : i < j => s[i] < s[j]

(* The level the water reaches: the least height at which a way leads out. *)
WaterLevel(H, c) ==
  Min({h \in Range(H) :
        \E d \in Reached({c} \cap {x \in DOMAIN H : H[x] <= h},
                        {e \in (DOMAIN H) \X (DOMAIN H) : e[2] \in Range(Around(e[1])) /\ H[e[2]] <= h}) :
           d \in Border(H)})

(* The fewest replacements, by numbers of b, that make a increase and keep
   its last element; -1 when there are none. *)
Replacements(a, b) ==
  LET n == Len(a)
      ways == {w \in [1..n -> Range(a) \union Range(b)] :
                 /\ \A i \in 1..n : w[i] = a[i] \/ (i < n /\ w[i] \in Range(b))
                 /\ Increasing(w)}
      cost(w) == Cardinality({i \in 1..n : w[i] # a[i]})
  IN  IF ways = {} THEN -1 ELSE Min({cost(w) : w \in ways})

ArraysPromise(call, result) ==
  CASE call.fn = "threesum" ->
         LET zero == {InOrder(Picked(call.a, S)) : S \in kSubset(3, 1..Len(call.a))}
         IN  IsInjective(result) /\ Range(result) = {t \in zero : SumSeq(t) = 0}
    [] call.fn = "trheesum_target" ->
         result <=> \E S \in kSubset(3, 1..Len(call.a)) : SumSeq(Picked(call.a, S)) = call.k
    [] call.fn = "array_change" ->
         LET change(s, op) == [i \in DOMAIN s |-> IF s[i] = op[1] THEN op[2] ELSE s[i]]
         IN  result = FoldLeft(change, call.a, call.ops)
    [] call.fn = "count_smaller" ->
         result = [i \in DOMAIN call.a |->
                     Cardinality({j \in (i + 1)..Len(call.a) : call.a[j] < call.a[i]})]
    [] call.fn = "insert_interval" ->
         LET cover(S) == UNION {(2 * x[1])..(2 * x[2]) : x \in S}
         IN  /\ cover(Range(result)) = cover(Range(call.a) \union {call.ni})
             /\ \A i \in 1..(Len(result) - 1) : result[i][2] < result[i + 1][1]
    [] call.fn = "trap_rain_water" ->
         result = SumOver(DOMAIN call.grid, LAMBDA c : WaterLevel(call.grid, c) - call.grid[c])
    [] call.fn = "find_kth_largest" ->
         /\ Cardinality({i \in DOMAIN call.a : call.a[i] > result}) < call.k
         /\ Cardinality({i \in DOMAIN call.a : call.a[i] >= result}) >= call.k
    [] call.fn = "smallest_dist_pair" ->
         LET apart(d) == {e \in (DOMAIN call.a) \X (DOMAIN call.a) :
                            e[1] < e[2] /\ call.a[e[1]] - call.a[e[2]] \in (-d)..d}
         IN  Cardinality(apart(result)) >= call.k /\ Cardinality(apart(result - 1)) < call.k
    [] call.fn = "make_array_increasing" -> result = Replacements(Front(call.a), call.b)
    [] call.fn = "has_alt_bits" ->
         result <=> \A i \in 1..6 : 2^i <= call.k =>
                      (call.k \div 2^i) % 2 # (call.k \div 2^(i - 1)) % 2
    [] call.fn = "findx" ->
         LET at(i) == i + Len(call.b) - 1 <= Len(call.a) /\ SubSeq(call.a, i, i + Len(call.b) - 1) = call.b
         IN  IF result = 0 THEN call.b # <<>> /\ \A i \in DOMAIN call.a : ~ at(i)
             ELSE at(result) /\ \A i \in 1..(result - 1) : ~ at(i)
    [] call.fn = "read_chars" ->
         /\ Append(result.buffer, "!") = SubSeq(Append(call.a, "!"), 1, Len(result.buffer) + 1)
         /\ \A i \in DOMAIN result.buffer : result.buffer[i] # "!"
         /\ result.cap >= Len(result.buffer)
         /\ result.cap > 8 => result.cap < 2 * Len(result.buffer)
    [] call.fn = "HeapSort" -> Ascending(result) /\ SameItems(result, call.a)
    [] call.fn = "graph_is_bipartite" ->
         LET E == UNION {{<<v, y>> : y \in Range(call.adj[v])} : v \in DOMAIN call.adj}
             fair(C) == \E side \in [C -> 0..1] :
                          \A e \in E : e[1] \in C => side[e[1]] # side[e[2]]
         IN  /\ \A i \in DOMAIN result : result[i][2] <=> fair(Reached({result[i][1]}, E))
             /\ \A v \in DOMAIN call.adj :
                  Cardinality({i \in DOMAIN result : v \in Reached({result[i][1]}, E)}) = 1
    [] call.fn = "group_identical_strings" ->
         /\ \A i, j \in DOMAIN call.a :
              call.a[i] = call.a[j] <=> \E g \in Range(result) : {i, j} \subseteq Range(g)
         /\ \A g \in Range(result) : Increasing(g)
    [] call.fn = "count_unique_substrings" ->
         result = Cardinality({SubSeq(call.a, i, j) : i, j \in DOMAIN call.a} \ {<<>>})
    [] call.fn = "index" ->
         /\ result \in call.l..call.r
         /\ \A i \in call.l..call.r : call.a[result] <= call.a[i]
         /\ \A i \in call.l..(result - 1) : call.a[result] < call.a[i]
    [] call.fn = "bench" ->
         /\ result = "out of range" <=> \E i \in DOMAIN call.a : call.a[i] >= call.n
         /\ result = "sorted" <=> IsInjective(call.a) /\ \A i \in DOMAIN call.a : call.a[i] < call.n
    [] call.fn = "one" -> Increasing(result) /\ Range(result) = Range(call.a) \cap (0..call.n)
    [] call.fn = "anagram_program" ->
         /\ SameItems(FlattenSeq(result), call.a)
         /\ \A i, j \in DOMAIN result : \A x \in Range(result[i]), y \in Range(result[j]) :
              i = j <=> SameItems(x, y)
=============================================================================
