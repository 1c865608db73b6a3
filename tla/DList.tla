-------------------------------- MODULE DList --------------------------------
(***************************************************************************)
(* Doubly linked lists of the kernel (lib/kernel/list.c): two lists over   *)
(* one set of elements, as the pointers the code keeps.  A history         *)
(* variable holds the sequences the lists stand for.                       *)
(***************************************************************************)
EXTENDS Integers, Sequences, FiniteSets, SequencesExt, FiniteSetsExt

CONSTANTS
    ListElem,      \* elements
    ListValue      \* the value of each, which LESS compares

ASSUME ListAssumption == ListValue \in [ListElem -> Int]

VARIABLES
    ls_heap,   \* [next, prev] pointers
    ls_seq     \* history: the two sequences

listVars == <<ls_heap, ls_seq>>

Lists == 1..2
list_head(l) == <<"head", l>>
list_end(l) == <<"tail", l>>
Cell(e) == <<"elem", e>>
NULL == <<"null", 0>>
ListNode == {list_head(l) : l \in Lists} \cup {list_end(l) : l \in Lists} \cup {Cell(e) : e \in ListElem}
less(a, b) == ListValue[a[2]] < ListValue[b[2]]
-----------------------------------------------------------------------------
(***************************************************************************)
(* The primitives.                                                         *)
(***************************************************************************)

list_init == [next |-> [n \in ListNode |-> IF n[1] = "head" THEN list_end(n[2]) ELSE NULL],
              prev |-> [n \in ListNode |-> IF n[1] = "tail" THEN list_head(n[2]) ELSE NULL]]
list_begin(h, l) == h.next[list_head(l)]
list_rbegin(h, l) == h.prev[list_end(l)]
list_empty(h, l) == list_begin(h, l) = list_end(l)

list_insert(h, before, e) ==
    [next |-> [h.next EXCEPT ![e] = before, ![h.prev[before]] = e],
     prev |-> [h.prev EXCEPT ![e] = h.prev[before], ![before] = e]]
list_push_front(h, l, e) == list_insert(h, list_begin(h, l), e)
list_push_back(h, l, e) == list_insert(h, list_end(l), e)
list_remove(h, e) ==
    [next |-> [h.next EXCEPT ![h.prev[e]] = h.next[e]],
     prev |-> [h.prev EXCEPT ![h.next[e]] = h.prev[e]]]

\* Faulty: the list the range came from keeps its old way back.
unlinked_forward(h, first, last) == [h EXCEPT !.next[h.prev[first]] = h.next[last]]
unlinked(h, first, last) ==
    [next |-> [h.next EXCEPT ![h.prev[first]] = h.next[last]],
     prev |-> [h.prev EXCEPT ![h.next[last]] = h.prev[first]]]
list_splice(h, before, first, end) ==
    IF first = end THEN h
    ELSE LET last == h.prev[end]
             u == unlinked(h, first, last)
         IN  [next |-> [u.next EXCEPT ![last] = before, ![u.prev[before]] = first],
              prev |-> [u.prev EXCEPT ![first] = u.prev[before], ![before] = last]]

\* The nodes from a to b (exclusive) along the pointers p, n of them at most.
RECURSIVE Trace(_, _, _, _)
Trace(p, a, b, n) == IF a = b \/ a = NULL \/ n = 0 THEN <<>> ELSE <<a>> \o Trace(p, p[a], b, n - 1)
Path(h, a, b) == Trace(h.next, a, b, Cardinality(ListNode))
PathBack(h, a, b) == Trace(h.prev, a, b, Cardinality(ListNode))
Walk(h, l) == Path(h, list_begin(h, l), list_end(l))
list_size(h, l) == Len(Walk(h, l))

\* Both pointers of every element are swapped, then the ends.
list_reverse(h, l) ==
    IF list_empty(h, l) THEN h
    ELSE LET in == ToSet(Walk(h, l))
             front == list_begin(h, l)
             back == list_rbegin(h, l)
         IN  [next |-> [n \in ListNode |-> IF n = front THEN list_end(l)
                          ELSE IF n \in in THEN h.prev[n] ELSE IF n = list_head(l) THEN back ELSE h.next[n]],
              prev |-> [n \in ListNode |-> IF n = back THEN list_head(l)
                          ELSE IF n \in in THEN h.next[n] ELSE IF n = list_end(l) THEN front ELSE h.prev[n]]]
-----------------------------------------------------------------------------
(***************************************************************************)
(* Operations on lists with an order.                                      *)
(***************************************************************************)

is_sorted(h, a, b) == LET p == Path(h, a, b) IN \A i \in 1..Len(p) - 1 : ~less(p[i + 1], p[i])

RECURSIVE find_end_of_run(_, _, _)
find_end_of_run(h, a, b) ==
    LET n == h.next[a] IN IF n # b /\ ~less(n, a) THEN find_end_of_run(h, n, b) ELSE n

RECURSIVE inplace_merge(_, _, _, _)
inplace_merge(h, a0, a1b0, b1) ==
    IF a0 = a1b0 \/ a1b0 = b1 THEN h
    ELSE IF ~less(a1b0, a0) THEN inplace_merge(h, h.next[a0], a1b0, b1)
    ELSE LET n == h.next[a1b0] IN inplace_merge(list_splice(h, a0, a1b0, n), a0, n, b1)

\* One pass over the list from a0: the heap after it, and how many runs it put out.
RECURSIVE sort_pass(_, _, _, _)
sort_pass(h, l, a0, cnt) ==
    IF a0 = list_end(l) THEN [heap |-> h, cnt |-> cnt]
    ELSE LET a1b0 == find_end_of_run(h, a0, list_end(l))
         IN  IF a1b0 = list_end(l) THEN [heap |-> h, cnt |-> cnt + 1]
             ELSE LET b1 == find_end_of_run(h, a1b0, list_end(l))
                  IN  sort_pass(inplace_merge(h, a0, a1b0, b1), l, b1, cnt + 1)
RECURSIVE list_sort(_, _)
list_sort(h, l) ==
    LET r == sort_pass(h, l, list_begin(h, l), 0)
    IN  IF r.cnt > 1 THEN list_sort(r.heap, l) ELSE r.heap

list_insert_ordered(h, l, e) ==
    LET w == Append(Walk(h, l), list_end(l))
        i == CHOOSE j \in 1..Len(w) :
                /\ j = Len(w) \/ less(e, w[j])
                /\ \A k \in 1..j - 1 : ~less(e, w[k])
    IN  list_insert(h, w[i], e)

\* All but the first of adjacent equal elements go to list d.
RECURSIVE unique_from(_, _, _, _)
unique_from(h, l, d, e) ==
    LET n == h.next[e]
    IN  IF n = list_end(l) THEN h
        ELSE IF ~less(e, n) /\ ~less(n, e) THEN unique_from(list_push_back(list_remove(h, n), d, n), l, d, e)
        ELSE unique_from(h, l, d, n)
list_unique(h, l, d) == IF list_empty(h, l) THEN h ELSE unique_from(h, l, d, list_begin(h, l))

list_max(h, l) ==
    IF list_empty(h, l) THEN list_end(l)
    ELSE FoldLeft(LAMBDA m, e : IF less(m, e) THEN e ELSE m, list_begin(h, l), Walk(h, l))
list_min(h, l) ==
    IF list_empty(h, l) THEN list_end(l)
    ELSE FoldLeft(LAMBDA m, e : IF less(e, m) THEN e ELSE m, list_begin(h, l), Walk(h, l))
-----------------------------------------------------------------------------
(***************************************************************************)
(* What the operations promise, on sequences.                              *)
(***************************************************************************)

\* The same elements in order, equal ones as they were.
StableSort(s) ==
    LET Before(i, j) == less(s[i], s[j]) \/ (ListValue[s[i][2]] = ListValue[s[j][2]] /\ i < j)
        order == SetToSortSeq(DOMAIN s, Before)
    IN  [i \in DOMAIN s |-> s[order[i]]]
Keeps(s) == {i \in DOMAIN s : i = 1 \/ ListValue[s[i][2]] # ListValue[s[i - 1][2]]}
Pick(s, I) == LET order == SetToSortSeq(I, <) IN [i \in 1..Cardinality(I) |-> s[order[i]]]
Extreme(s, l, Over(_, _)) ==
    IF s = <<>> THEN list_end(l)
    ELSE s[CHOOSE i \in DOMAIN s : /\ \A j \in DOMAIN s : ~Over(s[j], s[i])
                                   /\ \A j \in 1..i - 1 : Over(s[i], s[j])]
-----------------------------------------------------------------------------
Off == {Cell(e) : e \in ListElem} \ (ToSet(ls_seq[1]) \cup ToSet(ls_seq[2]))

\* At any place of a list; the two ends are list_push_front and list_push_back.
Insert ==
    \E l \in Lists, e \in Off :
       \E i \in 1..Len(ls_seq[l]) + 1 :
          /\ ls_heap' = IF i = 1 THEN list_push_front(ls_heap, l, e)
                        ELSE IF i = Len(ls_seq[l]) + 1 THEN list_push_back(ls_heap, l, e)
                        ELSE list_insert(ls_heap, ls_seq[l][i], e)
          /\ ls_seq' = [ls_seq EXCEPT ![l] = InsertAt(@, i, e)]
\* list_remove; list_pop_front and list_pop_back remove what list_front and list_back are.
Unlink ==
    \E l \in Lists : \E i \in DOMAIN ls_seq[l] :
       /\ ls_heap' = list_remove(ls_heap, IF i = 1 THEN list_begin(ls_heap, l)
                                          ELSE IF i = Len(ls_seq[l]) THEN list_rbegin(ls_heap, l)
                                          ELSE ls_seq[l][i])
       /\ ls_seq' = [ls_seq EXCEPT ![l] = RemoveAt(@, i)]
\* Elements i to j (exclusive) of list 1 go before element k of list 2.
Splice ==
    \E i \in 1..Len(ls_seq[1]) + 1, k \in 1..Len(ls_seq[2]) + 1 : \E j \in i..Len(ls_seq[1]) + 1 :
       LET at(l, n) == IF n > Len(ls_seq[l]) THEN list_end(l) ELSE ls_seq[l][n]
       IN  /\ ls_heap' = list_splice(ls_heap, at(2, k), at(1, i), at(1, j))
           /\ ls_seq' = <<SubSeq(ls_seq[1], 1, i - 1) \o SubSeq(ls_seq[1], j, Len(ls_seq[1])),
                          SubSeq(ls_seq[2], 1, k - 1) \o SubSeq(ls_seq[1], i, j - 1)
                             \o SubSeq(ls_seq[2], k, Len(ls_seq[2]))>>
Reversal ==
    \E l \in Lists : ls_heap' = list_reverse(ls_heap, l) /\ ls_seq' = [ls_seq EXCEPT ![l] = Reverse(@)]
Sort ==
    \E l \in Lists : ls_heap' = list_sort(ls_heap, l) /\ ls_seq' = [ls_seq EXCEPT ![l] = StableSort(@)]
InsertOrdered ==
    \E l \in Lists, e \in Off :
       /\ ls_seq[l] = StableSort(ls_seq[l])
       /\ ls_heap' = list_insert_ordered(ls_heap, l, e)
       /\ ls_seq' = [ls_seq EXCEPT ![l] = StableSort(Append(@, e))]
Unique ==
    /\ ls_heap' = list_unique(ls_heap, 1, 2)
    /\ ls_seq' = LET k == Keeps(ls_seq[1])
                 IN  <<Pick(ls_seq[1], k), ls_seq[2] \o Pick(ls_seq[1], DOMAIN ls_seq[1] \ k)>>

ListInit == ls_heap = list_init /\ ls_seq = <<<<>>, <<>>>>
ListNext == Insert \/ Unlink \/ Splice \/ Reversal \/ Sort \/ InsertOrdered \/ Unique
ListSpec == ListInit /\ [][ListNext]_listVars
-----------------------------------------------------------------------------
(***************************************************************************)
(* Properties.                                                             *)
(***************************************************************************)

ListTypeOK ==
    /\ ls_heap \in [next : [ListNode -> ListNode \cup {NULL}], prev : [ListNode -> ListNode \cup {NULL}]]
    /\ \A l \in Lists : ToSet(ls_seq[l]) \subseteq {Cell(e) : e \in ListElem}

\* After any sequence of operations both chains of pointers of a list spell the
\* sequence it stands for, forwards and backwards: list_sort is a stable sort and
\* ends, list_splice leaves both lists whole, list_unique keeps the first of equals;
\* and list_max, list_min are the earliest extremes.
ListAgrees ==
    ListTypeOK /\ \A l \in Lists :
       LET s == ls_seq[l]
       IN  /\ Walk(ls_heap, l) = s
           /\ PathBack(ls_heap, list_rbegin(ls_heap, l), list_head(l)) = Reverse(s)
           /\ list_max(ls_heap, l) = Extreme(s, l, LAMBDA a, b : less(b, a))
           /\ list_min(ls_heap, l) = Extreme(s, l, less)
           /\ is_sorted(ls_heap, list_begin(ls_heap, l), list_end(l)) = (s = StableSort(s))
=============================================================================
