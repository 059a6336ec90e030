----------------------------- MODULE LinkedLists -----------------------------
(* The exercises of algorithms/linked_list/linked_list.cpp and the links of   *)
(* data/list.hpp. A heap is a record of functions from nodes 1..n to nodes,   *)
(* where 0 is nullptr.                                                        *)
EXTENDS AlgorithmBase

RECURSIVE SwapFrom(_, _)
SwapFrom(h, cur) ==
  LET after == h.next[cur]
  IN  IF cur = 0 THEN h
      ELSE IF after = 0 THEN h
      ELSE SwapFrom([h EXCEPT !.data[cur] = h.data[after], !.data[after] = h.data[cur]], h.next[after])

pair_wise_swap(h, head) == SwapFrom(h, head)

RECURSIVE CountFrom(_, _, _)
CountFrom(h, cur, k) ==
  IF cur = 0 THEN 0 ELSE (IF h.data[cur] = k THEN 1 ELSE 0) + CountFrom(h, h.next[cur], k)

count_element(h, head, k) == CountFrom(h, head, k)

(* Where the slow and the fast pointer meet; 0 when the fast one falls off. *)
RECURSIVE Meet(_, _, _)
Meet(h, slow, fast) ==
  IF fast = 0 THEN 0
  ELSE IF h.next[fast] = 0 THEN 0
  ELSE LET s == h.next[slow]
           f == h.next[h.next[fast]]
       IN  IF s = f THEN s ELSE Meet(h, s, f)

detect_cycle(h, head) == Meet(h, head, head) # 0

RECURSIVE CountNodes(_, _, _)
CountNodes(h, node, cur) == IF h.next[cur] = node THEN 1 ELSE 1 + CountNodes(h, node, h.next[cur])

length_of_loop(h, head) ==
  LET met == Meet(h, head, head) IN IF met = 0 THEN 0 ELSE CountNodes(h, met, met)

-----------------------------------------------------------------------------
(* A binary tree turned, in its own nodes, into a doubly linked list. *)

(* st is a stack of <<node, state>>; the answer is the heap and the head. *)
RECURSIVE StackLoop(_, _, _, _)
StackLoop(h, st, head, prev) ==
  LET t == Last(st)[1]
      state == Last(st)[2]
      again == Append(Front(st), <<t, state + 1>>)
      joined == [h EXCEPT !.left[t] = prev]
  IN  CASE st = <<>> -> <<h, head>>
        [] st # <<>> /\ (state = 3 \/ t = 0) -> StackLoop(h, Front(st), head, prev)
        [] st # <<>> /\ t # 0 /\ state = 0 -> StackLoop(h, Append(again, <<h.left[t], 0>>), head, prev)
        [] st # <<>> /\ t # 0 /\ state = 1 ->
             StackLoop(IF prev = 0 THEN joined ELSE [joined EXCEPT !.right[prev] = t],
                       again, IF head = 0 THEN t ELSE head, t)
        [] st # <<>> /\ t # 0 /\ state = 2 -> StackLoop(h, Append(again, <<h.right[t], 0>>), head, prev)

b_to_dll_stack(h, root) == StackLoop(h, << <<root, 0>> >>, 0, 0)

(* The rightmost node below pre, or the one threaded to cur. *)
RECURSIVE Rightmost(_, _, _)
Rightmost(h, pre, cur) ==
  IF h.right[pre] \in {0, cur} THEN pre ELSE Rightmost(h, h.right[pre], cur)

RECURSIVE Morris(_, _, _, _)
Morris(h, cur, prev, head) ==
  LET pre == Rightmost(h, h.left[cur], cur)
      joined == [h EXCEPT !.right[prev] = cur, !.left[cur] = prev]
      back == h.right[prev]
      rejoined == [h EXCEPT !.left[back] = prev]
  IN  IF cur = 0 THEN <<h, head>>
      ELSE IF h.left[cur] = 0 THEN
        IF head = 0 THEN Morris(h, h.right[cur], cur, cur) ELSE Morris(joined, joined.right[cur], cur, head)
      ELSE IF h.right[pre] = 0 THEN Morris([h EXCEPT !.right[pre] = cur], h.left[cur], prev, head)
      ELSE Morris(rejoined, rejoined.right[back], back, head)

bt_to_dll_morris(h, root) == Morris(h, root, 0, 0)

-----------------------------------------------------------------------------
(* data/list.hpp: n goes in before or after p; the answer is a heap and n. *)

(* Mutant: the node in front of p still leads to p. *)
__insert__OneWay(h, p, n) ==
  IF n = 0 THEN <<h, p>> ELSE IF p = 0 THEN <<h, n>>
  ELSE <<[h EXCEPT !.succ[n] = p, !.prev[n] = h.prev[p], !.prev[p] = n], n>>

__insert_(h, p, n) ==
  LET before == h.prev[p]
      linked == [h EXCEPT !.succ[n] = p, !.prev[n] = before, !.prev[p] = n]
  IN  IF n = 0 THEN <<h, p>>
      ELSE IF p = 0 THEN <<h, n>>
      ELSE IF before = 0 THEN <<linked, n>> ELSE <<[linked EXCEPT !.succ[before] = n], n>>

__add_(h, p, n) ==
  LET after == h.succ[p]
      linked == [h EXCEPT !.prev[n] = p, !.succ[n] = after, !.succ[p] = n]
  IN  IF p = 0 THEN <<h, n>>
      ELSE IF n = 0 THEN <<h, p>>
      ELSE IF after = 0 THEN <<linked, n>> ELSE <<[linked EXCEPT !.prev[after] = n], n>>

RECURSIVE __find_(_, _, _), __advance_(_, _, _)
__find_(h, p, s) == IF p = 0 THEN 0 ELSE IF h.value[p] = s THEN p ELSE __find_(h, h.succ[p], s)

__advance_(h, p, n) ==
  LET to == IF n > 0 THEN h.succ[p] ELSE h.prev[p]
  IN  IF p = 0 \/ n = 0 THEN p ELSE __advance_(h, to, IF n > 0 THEN n - 1 ELSE n + 1)

-----------------------------------------------------------------------------
(* The lists and the tree of main; a list's nodes are numbered in its order. *)

Line(data, last) ==
  [data |-> data, next |-> [i \in DOMAIN data |-> IF i = Len(data) THEN last ELSE i + 1]]

lists_main ==
  {[fn |-> "pair_wise_swap", heap |-> Line(<<1, 2, 3, 4, 5, 6>>, 0)],
   [fn |-> "count_element", heap |-> Line(<<1, 2, 1, 2, 1>>, 0), k |-> 1],
   [fn |-> "detect_cycle", heap |-> Line(<<1, 3, 4>>, 2)],
   [fn |-> "length_of_loop", heap |-> Line(<<25, 14, 19, 33, 10>>, 3)],
   [fn |-> "bt_to_dll_morris",
    heap |-> [left |-> <<2, 4, 6, 0, 0, 0>>, right |-> <<3, 5, 0, 0, 0, 0>>]]}

Lists(call) ==
  CASE call.fn = "pair_wise_swap" -> pair_wise_swap(call.heap, 1)
    [] call.fn = "count_element" -> count_element(call.heap, 1, call.k)
    [] call.fn = "detect_cycle" -> detect_cycle(call.heap, 1)
    [] call.fn = "length_of_loop" -> length_of_loop(call.heap, 1)
    [] call.fn = "b_to_dll_stack" -> b_to_dll_stack(call.heap, 1)
    [] call.fn = "bt_to_dll_morris" -> bt_to_dll_morris(call.heap, 1)
    [] call.fn = "__insert_" -> __insert_(call.heap, call.p, call.n)
    [] call.fn = "__add_" -> __add_(call.heap, call.p, call.n)
    [] call.fn = "__find_" -> __find_(call.heap, call.p, call.k)
    [] call.fn = "__advance_" -> __advance_(call.heap, call.p, call.k)

RECURSIVE Walk(_, _), InOrderNodes(_, _)
Walk(next, p) == IF p = 0 THEN <<>> ELSE <<p>> \o Walk(next, next[p])
InOrderNodes(h, t) ==
  IF t = 0 THEN <<>> ELSE InOrderNodes(h, h.left[t]) \o <<t>> \o InOrderNodes(h, h.right[t])

(* Followed one way and the other, from both ends, the links give the list s. *)
Linked(forward, backward, s) ==
  Walk(forward, s[1]) = s /\ Walk(backward, Last(s)) = Reverse(s)

ListsPromise(call, result) ==
  LET h == call.heap
      reach(from) == Reached({from}, {<<i, h.next[i]>> : i \in DOMAIN h.next})
      cycle == {i \in DOMAIN h.next : i \in reach(h.next[i])}
      n == Len(h.succ)
      other == [i \in 1..(n - 1) |-> i]
  IN  CASE call.fn = "pair_wise_swap" ->
             /\ result.next = h.next
             /\ \A i \in DOMAIN h.data :
                  LET j == IF i % 2 = 1 THEN i + 1 ELSE i - 1
                  IN  result.data[i] = h.data[IF j \in DOMAIN h.data THEN j ELSE i]
        [] call.fn = "count_element" -> result = Cardinality({i \in DOMAIN h.data : h.data[i] = call.k})
        [] call.fn = "detect_cycle" -> result <=> cycle # {}
        [] call.fn = "length_of_loop" -> result = Cardinality(cycle)
        [] call.fn \in {"b_to_dll_stack", "bt_to_dll_morris"} ->
             /\ result[2] = InOrderNodes(h, 1)[1]
             /\ Linked(result[1].right, result[1].left, InOrderNodes(h, 1))
        [] call.fn \in {"__insert_", "__add_"} ->
             LET p == call.p
                 at == IF call.fn = "__insert_" THEN p - 1 ELSE p
             IN  IF p = 0 \/ call.n = 0 THEN result = <<h, MaxOf(p, call.n)>>
                 ELSE /\ result[2] = n
                      /\ Linked(result[1].succ, result[1].prev, InsertAt(other, at + 1, n))
        [] call.fn = "__find_" ->
             LET hits == {i \in call.p..n : call.p # 0 /\ h.value[i] = call.k}
             IN  result = IF hits = {} THEN 0 ELSE Min(hits)
        [] call.fn = "__advance_" ->
             result = IF call.p # 0 /\ call.p + call.k \in 1..n THEN call.p + call.k ELSE 0
=============================================================================
