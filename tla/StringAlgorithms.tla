-------------------------- MODULE StringAlgorithms --------------------------
(* The functions of algorithms/strings/strings.cpp, and what each is for.     *)
(* Strings are sequences of letters, positions count from 1.                  *)
EXTENDS AlgorithmBase

find_substrings(s) ==
  FlattenSeq([i \in 1..Len(s) |-> [k \in 1..(Len(s) - i + 1) |-> SubSeq(s, i, i + k - 1)]])

is_interleave(s1, s2, s3) ==
  LET dp[i \in 0..Len(s1), j \in 0..Len(s2)] ==
        \/ i = 0 /\ j = 0
        \/ i > 0 /\ s1[i] = s3[i + j] /\ dp[i - 1, j]
        \/ j > 0 /\ s2[j] = s3[i + j] /\ dp[i, j - 1]
  IN  Len(s1) + Len(s2) = Len(s3) /\ dp[Len(s1), Len(s2)]

(* The map is unordered, so the groups come out in no particular order. *)
group_anagrams(ana) ==
  LET key(s) == SortSeq(s, <)
  IN  {SelectSeq(ana, LAMBDA t : key(t) = k) : k \in {key(ana[i]) : i \in DOMAIN ana}}

(* st holds the pending letters with how often each came in a row. *)
remove_k_chars(k, s) ==
  LET push(st, c) ==
        LET cnt == IF st # <<>> /\ Last(st)[1] = c THEN Last(st)[2] + 1 ELSE 1
        IN  CASE cnt = 1 -> Append(st, <<c, 1>>)
              [] cnt > 1 /\ cnt < k -> Append(Front(st), <<c, cnt>>)
              [] OTHER -> Front(st)
      st == FoldLeft(push, <<>>, s)
  IN  IF k = 1 THEN <<>>
      ELSE FlattenSeq([i \in DOMAIN st |-> [n \in 1..st[i][2] |-> st[i][1]]])

-----------------------------------------------------------------------------
(* KMP: lps[i] is the length of the longest proper prefix of the pattern that
   ends at i; len and j count the letters that match so far. *)

RECURSIVE LPS(_, _, _)
LPS(s, lps, len) ==
  LET i == Len(lps) + 1
  IN  CASE i > Len(s) -> lps
        [] i <= Len(s) /\ s[i] = s[len + 1] -> LPS(s, Append(lps, len + 1), len + 1)
        [] i <= Len(s) /\ s[i] # s[len + 1] /\ len > 0 -> LPS(s, lps, lps[len])
        [] OTHER -> LPS(s, Append(lps, 0), 0)

RECURSIVE SearchLoop(_, _, _, _, _, _)
SearchLoop(pat, txt, lps, i, j, res) ==
  LET whole == j + 1 = Len(pat)
  IN  CASE i > Len(txt) -> res
        [] i <= Len(txt) /\ txt[i] = pat[j + 1] ->
             SearchLoop(pat, txt, lps, i + 1, IF whole THEN lps[j + 1] ELSE j + 1,
                        IF whole THEN Append(res, i - j) ELSE res)
        [] i <= Len(txt) /\ txt[i] # pat[j + 1] /\ j > 0 ->
             SearchLoop(pat, txt, lps, i, lps[j], res)
        [] OTHER -> SearchLoop(pat, txt, lps, i + 1, 0, res)

search_for_pat(pat, txt) == SearchLoop(pat, txt, LPS(pat, <<0>>, 0), 1, 0, <<>>)

-----------------------------------------------------------------------------

shortest_common_subseq(s, t) ==
  LET dp[i \in 0..Len(s), j \in 0..Len(t)] ==
        CASE i = 0 -> j
          [] i > 0 /\ j = 0 -> i
          [] i > 0 /\ j > 0 /\ s[i] = t[j] -> 1 + dp[i - 1, j - 1]
          [] OTHER -> 1 + MinOf(dp[i - 1, j], dp[i, j - 1])
  IN  dp[Len(s), Len(t)]

(* The mask of the letters seen an odd number of times is a set; index maps
   each mask to where it was first seen.  Of the 26 letters only those of s
   can lead to a mask that was seen. *)
longest_substring(s) ==
  LET step(st, i) ==
        LET mask  == SymDiff(st.mask, {s[i]})
            index == IF mask \in DOMAIN st.index THEN st.index ELSE st.index @@ (mask :> i)
            near  == {mask} \union {SymDiff(mask, {c}) : c \in Range(s)}
            spans == {i - index[m] : m \in near \cap DOMAIN index}
        IN  [mask |-> mask, index |-> index, answer |-> Max(spans \union {st.answer})]
  IN  FoldLeft(step, [mask |-> {}, index |-> ({} :> 0), answer |-> 0], Upto(1, Len(s))).answer

(* last maps a letter to the length of the prefix before its last occurrence.
   The count is an int, which holds it for up to 30 letters. *)
count_distinct_subseq(s) ==
  LET last(i) == {j \in 1..(i - 1) : s[j] = s[i]}
      dp[i \in 0..Len(s)] ==
        IF i = 0 THEN 1
        ELSE 2 * dp[i - 1] - (IF last(i) = {} THEN 0 ELSE dp[Max(last(i)) - 1])
  IN  dp[Len(s)]

RECURSIVE Shrink(_, _, _, _)
Shrink(s, cnt, l, r) ==
  IF cnt[s[r]] > 1 THEN Shrink(s, [cnt EXCEPT ![s[l]] = @ - 1], l + 1, r)
  ELSE [cnt |-> cnt, l |-> l]

longest_unique_substring(s) ==
  LET step(w, r) ==
        LET x == Shrink(s, [w.cnt EXCEPT ![s[r]] = @ + 1], w.l, r)
        IN  [cnt |-> x.cnt, l |-> x.l, ans |-> MaxOf(w.ans, r - x.l + 1)]
  IN  FoldLeft(step, [cnt |-> [c \in Range(s) |-> 0], l |-> 1, ans |-> 0], Upto(1, Len(s))).ans

(* REGULAR_EXPRESSION_MATHCING; the memo f is the function itself. *)
is_match(s, p) ==
  LET f[i \in 1..(Len(s) + 1), j \in 1..(Len(p) + 2)] ==
        LET one == i <= Len(s) /\ j <= Len(p) /\ p[j] \in {s[i], "."}
        IN  CASE j > Len(p) -> i > Len(s)
              [] j < Len(p) /\ p[j + 1] = "*" -> f[i, j + 2] \/ (one /\ f[i + 1, j])
              [] OTHER -> one /\ f[i + 1, j + 1]
  IN  f[1, 1]

-----------------------------------------------------------------------------
(* REMOVE_INAVLID_PARENTHESES: l and r parentheses are to go.  The search
   passes lcnt and rcnt on as they are, so its test lcnt < rcnt never holds
   and it keeps strings that are not balanced. *)

Surplus(s) ==
  FoldLeft(LAMBDA n, c : CASE c = "(" -> <<n[1] + 1, n[2]>>
                           [] c = ")" /\ n[1] > 0 -> <<n[1] - 1, n[2]>>
                           [] c = ")" /\ n[1] = 0 -> <<n[1], n[2] + 1>>
                           [] OTHER -> n, <<0, 0>>, s)

RECURSIVE Without(_, _, _, _, _)
Without(s, i, l, r, t) ==
  CASE i > Len(s) /\ l = 0 /\ r = 0 -> {t}
    [] Len(s) - i + 1 < l + r -> {}
    [] OTHER -> (IF s[i] = "(" /\ l > 0 THEN Without(s, i + 1, l - 1, r, t) ELSE {})
                  \union (IF s[i] = ")" /\ r > 0 THEN Without(s, i + 1, l, r - 1, t) ELSE {})
                  \union Without(s, i + 1, l, r, Append(t, s[i]))

remove_invalid_parentheses(s) == Without(s, 1, Surplus(s)[1], Surplus(s)[2], <<>>)

-----------------------------------------------------------------------------
(* main's examples. *)

strings_main ==
  { [fn |-> "is_interleave", s |-> <<"A", "A", "B">>, t |-> <<"A", "A", "C">>,
     u |-> <<"A", "A", "A", "A", "B", "C">>],
    [fn |-> "group_anagrams", ana |-> << <<3, 1, 9>>, <<5, 7, 2>>, <<1, 3, 9>>, <<2, 7, 5>>, <<9, 3, 1>> >>],
    [fn |-> "remove_k_chars", k |-> 2, s |-> <<"g", "e", "e", "k", "s", "f", "o", "r", "g", "e", "e", "k", "s">>],
    [fn |-> "search_for_pat", pat |-> <<1, 1, 2, 1>>,
     txt |-> <<1, 1, 2, 1, 1, 3, 1, 1, 4, 1, 1, 2, 1, 1, 2, 1>>],
    [fn |-> "shortest_common_subseq", s |-> <<"A", "G", "G", "T", "A", "B">>,
     t |-> <<"G", "X", "T", "X", "A", "Y", "B">>],
    [fn |-> "longest_substring", s |-> <<"a", "d", "b", "a", "b", "d">>],
    [fn |-> "count_distinct_subseq", s |-> <<"g", "f", "g">>],
    [fn |-> "longest_unique_substring",
     s |-> <<"a", "l", "g", "g", "o", "r", "i", "t", "h", "m", "s", "s">>] }

-----------------------------------------------------------------------------
(* What the functions are for. *)

Strings(call) ==
  CASE call.fn = "find_substrings" -> find_substrings(call.s)
    [] call.fn = "is_interleave" -> is_interleave(call.s, call.t, call.u)
    [] call.fn = "group_anagrams" -> group_anagrams(call.ana)
    [] call.fn = "remove_k_chars" -> remove_k_chars(call.k, call.s)
    [] call.fn = "search_for_pat" -> search_for_pat(call.pat, call.txt)
    [] call.fn = "shortest_common_subseq" -> shortest_common_subseq(call.s, call.t)
    [] call.fn = "longest_substring" -> longest_substring(call.s)
    [] call.fn = "count_distinct_subseq" -> count_distinct_subseq(call.s)
    [] call.fn = "longest_unique_substring" -> longest_unique_substring(call.s)
    [] call.fn = "is_match" -> is_match(call.s, call.p)
    [] call.fn = "remove_invalid_parentheses" -> remove_invalid_parentheses(call.s)

Windows(s) == {<<i, j>> \in (1..Len(s)) \X (1..Len(s)) : i <= j}

(* The longest of the substrings of s that are good. *)
LongestOf(s, good(_)) ==
  Max({0} \union {w[2] - w[1] + 1 : w \in {v \in Windows(s) : good(SubSeq(s, v[1], v[2]))}})

(* Runs of k equal letters taken out until there is none, in any order. *)
RECURSIVE Collapse(_, _)
Collapse(k, s) ==
  LET runs == {i \in 1..(Len(s) - k + 1) : \A j \in i..(i + k - 1) : s[j] = s[i]}
      i == Max(runs)
  IN  IF runs = {} THEN s ELSE Collapse(k, SubSeq(s, 1, i - 1) \o SubSeq(s, i + k, Len(s)))

(* The words of up to n letters out of A that the pattern describes. *)
RECURSIVE Language(_, _, _)
Language(p, A, n) ==
  LET class == IF p[1] = "." THEN A ELSE {p[1]}
      words == UNION {[1..k -> class] : k \in 0..n}
      rest(i) == Language(SubSeq(p, i, Len(p)), A, n)
  IN  CASE p = <<>> -> {<<>>}
        [] Len(p) > 1 /\ p[2] = "*" -> {u \o v : u \in words, v \in rest(3)}
        [] OTHER -> {<<c>> \o v : c \in class, v \in rest(2)}

Balanced(t) ==
  LET depth(i) == Cardinality({j \in 1..i : t[j] = "("}) - Cardinality({j \in 1..i : t[j] = ")"})
  IN  depth(Len(t)) = 0 /\ \A i \in 1..Len(t) : depth(i) >= 0

StringsPromise(call, result) ==
  CASE call.fn = "find_substrings" ->
         /\ Len(result) = Cardinality(Windows(call.s))
         /\ Range(result) = {SubSeq(call.s, w[1], w[2]) : w \in Windows(call.s)}
    [] call.fn = "is_interleave" ->
         result <=> \E D \in SUBSET DOMAIN call.u :
                      Picked(call.u, D) = call.s /\ Picked(call.u, DOMAIN call.u \ D) = call.t
    [] call.fn = "group_anagrams" ->
         LET letters(t) == [c \in Range(t) |-> Cardinality({i \in DOMAIN t : t[i] = c})]
         IN  /\ \A i \in DOMAIN call.ana : \E g \in result : Contains(g, call.ana[i])
             /\ \A g, h \in result : \A i \in DOMAIN g, j \in DOMAIN h :
                  g = h <=> letters(g[i]) = letters(h[j])
             /\ SumOver(result, Len) = Len(call.ana)
    [] call.fn = "remove_k_chars" -> result = Collapse(call.k, call.s)
    [] call.fn = "search_for_pat" ->
         LET hits == {i \in 1..(Len(call.txt) - Len(call.pat) + 1) :
                        SubSeq(call.txt, i, i + Len(call.pat) - 1) = call.pat}
         IN  Range(result) = hits /\ \A i, j \in DOMAIN result : i < j => result[i] < result[j]
    [] call.fn = "shortest_common_subseq" ->
         result = Len(call.s) + Len(call.t)
                    - Max({Len(c) : c \in Subsequences(call.s) \cap Subsequences(call.t)})
    [] call.fn = "longest_substring" ->
         LET odd(t) == {c \in Range(t) : Cardinality({i \in DOMAIN t : t[i] = c}) % 2 = 1}
         IN  result = LongestOf(call.s, LAMBDA t : Cardinality(odd(t)) <= 1)
    [] call.fn = "count_distinct_subseq" -> result = Cardinality(Subsequences(call.s))
    [] call.fn = "longest_unique_substring" -> result = LongestOf(call.s, IsInjective)
    [] call.fn = "is_match" ->
         result <=> call.s \in Language(call.p, {"a", "b"}, Len(call.s))
    [] call.fn = "remove_invalid_parentheses" ->
         LET fair == {t \in Subsequences(call.s) : Balanced(t)}
             best == {t \in fair : \A u \in fair : Len(u) <= Len(t)}
         IN  \* every best repair is found, and nothing shorter or longer
             /\ best \subseteq result /\ result \subseteq Subsequences(call.s)
             /\ \A t \in result, u \in best : Len(t) = Len(u)
=============================================================================
