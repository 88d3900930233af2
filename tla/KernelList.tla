----------------------------- MODULE KernelList -----------------------------
(***************************************************************************)
(* lib/kernel/list.c: doubly linked lists made of pointers, with a head    *)
(* and a tail element each.  Every operation is carried out on the         *)
(* pointers, and beside it on sequences, which is what it promises.        *)
(***************************************************************************)
EXTENDS Integers, Sequences, SequencesExt

CONSTANTS Elems,     \* list elements
          ListKeys,      \* what LESS compares
          NULL

List == {"list", "other"}
Node == Elems \cup ({"head", "tail"} \X List)

VARIABLES node,       \* struct list_elem: the next and prev of every node
          key,       \* the value of every element
          contents   \* the sequences the lists stand for

LsVars == <<node, key, contents>>

list_head(l) == <<"head", l>>
list_end(l) == <<"tail", l>>
less(i, j) == key[i] < key[j]

list_init ==
  [next |-> [n \in Node |-> IF n \in Elems \/ n[1] = "tail" THEN NULL ELSE list_end(n[2])],
   prev |-> [n \in Node |-> IF n \in Elems \/ n[1] = "head" THEN NULL ELSE list_head(n[2])]]

LsInit ==
  /\ node = list_init /\ key \in [Elems -> ListKeys]
  /\ contents = [l \in List |-> <<>>]

list_begin(m, l) == m.next[list_head(l)]
list_rbegin(m, l) == m.prev[list_end(l)]
list_empty(m, l) == list_begin(m, l) = list_end(l)

-----------------------------------------------------------------------------
(***************************************************************************)
(* The operations on pointers.                                             *)
(***************************************************************************)
list_insert(m, before, e) ==
  LET p == m.prev[before]
  IN [next |-> [m.next EXCEPT ![e] = before, ![p] = e],
      prev |-> [m.prev EXCEPT ![e] = p, ![before] = e]]

\* mistake: the back pointer is left as it was
list_removeHalf(m, e) == [m EXCEPT !.next[m.prev[e]] = m.next[e]]

\* The element keeps its own pointers.
list_remove(m, e) ==
  [next |-> [m.next EXCEPT ![m.prev[e]] = m.next[e]],
   prev |-> [m.prev EXCEPT ![m.next[e]] = m.prev[e]]]

list_splice(m, before, first, end) ==
  IF first = end THEN m
  ELSE LET last == m.prev[end]
           cut == [next |-> [m.next EXCEPT ![m.prev[first]] = m.next[last]],
                   prev |-> [m.prev EXCEPT ![m.next[last]] = m.prev[first]]]
           p == cut.prev[before]
       IN [next |-> [cut.next EXCEPT ![last] = before, ![p] = first],
           prev |-> [cut.prev EXCEPT ![first] = p, ![before] = last]]

\* From e to the end the two pointers are swapped; the next element is then
\* behind prev.
RECURSIVE SwapAll(_, _, _)
SwapAll(m, e, end) ==
  IF e = end THEN m
  ELSE SwapAll([next |-> [m.next EXCEPT ![e] = m.prev[e]], prev |-> [m.prev EXCEPT ![e] = m.next[e]]],
               m.next[e], end)

list_reverse(m, l) ==
  IF list_empty(m, l) THEN m
  ELSE LET s == SwapAll(m, list_begin(m, l), list_end(l))
           first == s.prev[list_end(l)]
           last == s.next[list_head(l)]
       IN [next |-> [s.next EXCEPT ![list_head(l)] = first, ![last] = s.prev[first]],
           prev |-> [s.prev EXCEPT ![list_end(l)] = last, ![first] = s.next[last]]]

RECURSIVE find_end_of_run(_, _, _)
find_end_of_run(m, e, end) ==
  LET n == m.next[e]
  IN IF n = end \/ less(n, m.prev[n]) THEN n ELSE find_end_of_run(m, n, end)

RECURSIVE inplace_merge(_, _, _, _)
inplace_merge(m, a0, a1b0, b1) ==
  IF a0 = a1b0 \/ a1b0 = b1 THEN m
  ELSE IF ~less(a1b0, a0) THEN inplace_merge(m, m.next[a0], a1b0, b1)
  ELSE LET n == m.next[a1b0] IN inplace_merge(list_splice(m, a0, m.prev[n], n), a0, n, b1)

\* One pass from a0: pairs of runs are merged; runs counts the ones put out.
RECURSIVE SortPass(_, _, _, _)
SortPass(m, a0, end, runs) ==
  IF a0 = end THEN [mem |-> m, runs |-> runs]
  ELSE LET a1b0 == find_end_of_run(m, a0, end)
       IN IF a1b0 = end THEN [mem |-> m, runs |-> runs + 1]
          ELSE LET b1 == find_end_of_run(m, a1b0, end)
               IN SortPass(inplace_merge(m, a0, a1b0, b1), b1, end, runs + 1)

RECURSIVE list_sort(_, _)
list_sort(m, l) ==
  LET pass == SortPass(m, list_begin(m, l), list_end(l), 0)
  IN IF pass.runs > 1 THEN list_sort(pass.mem, l) ELSE pass.mem

RECURSIVE FirstLater(_, _, _, _)
FirstLater(m, x, e, end) == IF e = end \/ less(x, e) THEN e ELSE FirstLater(m, x, m.next[e], end)

list_insert_ordered(m, l, x) == list_insert(m, FirstLater(m, x, list_begin(m, l), list_end(l)), x)

RECURSIVE Unique(_, _, _, _)
Unique(m, e, end, duplicates) ==
  LET n == m.next[e]
  IN IF n = end THEN m
     ELSE IF less(e, n) \/ less(n, e) THEN Unique(m, n, end, duplicates)
     ELSE Unique(list_insert(list_remove(m, n), list_end(duplicates), n), e, end, duplicates)

list_unique(m, l, duplicates) ==
  IF list_empty(m, l) THEN m ELSE Unique(m, list_begin(m, l), list_end(l), duplicates)

RECURSIVE Best(_, _, _, _)
Best(m, best, e, end) ==
  IF e = end THEN best ELSE Best(m, IF less(best, e) THEN e ELSE best, m.next[e], end)

list_max(m, l) ==
  LET first == list_begin(m, l)
  IN IF first = list_end(l) THEN first ELSE Best(m, first, m.next[first], list_end(l))

RECURSIVE Least(_, _, _, _)
Least(m, best, e, end) ==
  IF e = end THEN best ELSE Least(m, IF less(e, best) THEN e ELSE best, m.next[e], end)

list_min(m, l) ==
  LET first == list_begin(m, l)
  IN IF first = list_end(l) THEN first ELSE Least(m, first, m.next[first], list_end(l))

RECURSIVE Size(_, _, _)
Size(m, e, end) == IF e = end THEN 0 ELSE 1 + Size(m, m.next[e], end)
list_size(m, l) == Size(m, list_begin(m, l), list_end(l))

-----------------------------------------------------------------------------
(***************************************************************************)
(* The same on sequences.                                                  *)
(***************************************************************************)
\* The stable sort: by key, elements of one key in their order.
Stable(s) == SelectSeq(s, LAMBDA e : key[e] = 1) \o SelectSeq(s, LAMBDA e : key[e] = 2)
               \o SelectSeq(s, LAMBDA e : key[e] = 3)

InOrder(s) == \A i \in 1 .. Len(s) - 1 : key[s[i]] <= key[s[i + 1]]

FirstOfEach(s, kept) == SelectSeq(s, LAMBDA e : (\E i \in DOMAIN s : s[i] = e /\ (i = 1 \/ key[s[i - 1]] # key[e])) = kept)

NodeAt(l, i) == IF i <= Len(contents[l]) THEN contents[l][i] ELSE list_end(l)

Free == Elems \ UNION {ToSet(contents[l]) : l \in List}

PushFront(l, e) ==
  /\ node' = list_insert(node, list_begin(node, l), e)
  /\ contents' = [contents EXCEPT ![l] = <<e>> \o @]

PushBack(l, e) ==
  /\ node' = list_insert(node, list_end(l), e)
  /\ contents' = [contents EXCEPT ![l] = Append(@, e)]

PopFront(l) ==
  /\ ~list_empty(node, l) /\ node' = list_remove(node, list_begin(node, l))
  /\ contents' = [contents EXCEPT ![l] = Tail(@)]

PopBack(l) ==
  /\ ~list_empty(node, l) /\ node' = list_remove(node, list_rbegin(node, l))
  /\ contents' = [contents EXCEPT ![l] = Front(@)]

RemoveOne(l) == \E i \in DOMAIN contents[l] :
  /\ node' = list_remove(node, contents[l][i])
  /\ contents' = [contents EXCEPT ![l] = SelectSeq(@, LAMBDA e : e # contents[l][i])]

\* Elements i up to j (exclusive) of one list, before element k of the other.
Splice(l, o) == \E i, j \in 1 .. Len(contents[l]) + 1, k \in 1 .. Len(contents[o]) + 1 :
  /\ l # o /\ i <= j
  /\ node' = list_splice(node, NodeAt(o, k), NodeAt(l, i), NodeAt(l, j))
  /\ contents' = [contents EXCEPT
       ![l] = SubSeq(@, 1, i - 1) \o SubSeq(@, j, Len(@)),
       ![o] = SubSeq(@, 1, k - 1) \o SubSeq(contents[l], i, j - 1) \o SubSeq(@, k, Len(@))]

ReverseList(l) ==
  node' = list_reverse(node, l) /\ contents' = [contents EXCEPT ![l] = Reverse(@)]

Sort(l) == node' = list_sort(node, l) /\ contents' = [contents EXCEPT ![l] = Stable(@)]

InsertOrdered(l, x) ==
  /\ InOrder(contents[l]) /\ node' = list_insert_ordered(node, l, x)
  /\ contents' = [contents EXCEPT ![l] = Stable(Append(@, x))]

UniqueInto(l, o) ==
  /\ l # o /\ node' = list_unique(node, l, o)
  /\ contents' = [contents EXCEPT ![l] = FirstOfEach(@, TRUE), ![o] = @ \o FirstOfEach(contents[l], FALSE)]

LsNext ==
  /\ \E l \in List :
       \/ \E e \in Free : PushFront(l, e) \/ PushBack(l, e) \/ InsertOrdered(l, e)
       \/ PopFront(l) \/ PopBack(l) \/ RemoveOne(l) \/ ReverseList(l) \/ Sort(l)
       \/ \E o \in List : Splice(l, o) \/ UniqueInto(l, o)
  /\ UNCHANGED key

\* Read forwards and backwards, the pointers of each list are its sequence;
\* so insert, remove, splice, reverse, sort and unique do what list.h says,
\* whatever stale pointers the elements still hold from earlier lists.
PointersAgree ==
  \A l \in List :
    LET nodes == <<list_head(l)>> \o contents[l] \o <<list_end(l)>>
    IN /\ \A i \in 1 .. Len(nodes) - 1 :
            node.next[nodes[i]] = nodes[i + 1] /\ node.prev[nodes[i + 1]] = nodes[i]
       /\ node.prev[list_head(l)] = NULL /\ node.next[list_end(l)] = NULL

\* list_max and list_min return the earliest of the largest and of the smallest
\* elements, the tail for an empty list; list_size counts what is there.
ExtremesEarliest ==
  \A l \in List :
    LET s == contents[l]
        Earliest(Better(_, _)) ==
          IF s = <<>> THEN list_end(l)
          ELSE s[CHOOSE i \in DOMAIN s : (\A j \in DOMAIN s : ~Better(s[j], s[i]))
                                         /\ \A j \in 1 .. i - 1 : Better(s[i], s[j])]
    IN /\ list_max(node, l) = Earliest(LAMBDA i, j : less(j, i))
       /\ list_min(node, l) = Earliest(less)
       /\ list_size(node, l) = Len(s)

=============================================================================
