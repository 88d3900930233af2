----------------------------- MODULE KernelHash -----------------------------
(***************************************************************************)
(* lib/kernel/hash.c: a table of buckets, each a list, whose number is a   *)
(* power of two that follows the number of elements.  The element per      *)
(* bucket ratio and the least number of buckets are parameters, so that a  *)
(* table of a few elements grows and shrinks.                              *)
(***************************************************************************)
EXTENDS Integers, Sequences, FiniteSets, SequencesExt, Bitwise

CONSTANTS HashElems,             \* elements
          Value,                 \* Value[e]: what LESS compares
          Hashes,                \* the hash functions, from values to numbers
          BEST_ELEMS_PER_BUCKET, \* 2 in the code
          LeastBuckets           \* 4 in the code

ASSUME HaAssumption ==
  BEST_ELEMS_PER_BUCKET \in Nat \ {0} /\ \E k \in 0 .. 8 : LeastBuckets = 2 ^ k

VARIABLES h,       \* struct hash: buckets, bucket_cnt and elem_cnt
          hash,    \* the hash function
          members  \* what is in the table

HaVars == <<h, hash, members>>

Empty(cnt) == [b \in 0 .. cnt - 1 |-> <<>>]

hash_init == [buckets |-> Empty(LeastBuckets), bucket_cnt |-> LeastBuckets, elem_cnt |-> 0]

HaInit == h = hash_init /\ hash \in Hashes /\ members = {}

hash_clear(t) == [t EXCEPT !.buckets = Empty(t.bucket_cnt), !.elem_cnt = 0]

-----------------------------------------------------------------------------
find_bucket(t, e) == hash[Value[e]] & (t.bucket_cnt - 1)

find_elem(t, bucket, e) ==
  LET equal == {i \in DOMAIN t.buckets[bucket] : Value[t.buckets[bucket][i]] = Value[e]}
  IN IF equal = {} THEN {} ELSE {t.buckets[bucket][CHOOSE i \in equal : \A j \in equal : i <= j]}

insert_elem(t, bucket, e) ==
  [t EXCEPT !.elem_cnt = @ + 1, !.buckets[bucket] = <<e>> \o @]

remove_elem(t, e) ==
  [t EXCEPT !.elem_cnt = @ - 1, !.buckets = [b \in DOMAIN @ |-> SelectSeq(@[b], LAMBDA x : x # e)]]

turn_off_least_1bit(x) == x & (x - 1)
is_power_of_2(x) == x # 0 /\ turn_off_least_1bit(x) = 0

RECURSIVE DownToPower(_)
DownToPower(x) == IF is_power_of_2(x) THEN x ELSE DownToPower(turn_off_least_1bit(x))

ideal_cnt(t) ==
  LET best == t.elem_cnt \div BEST_ELEMS_PER_BUCKET
  IN DownToPower(IF best < LeastBuckets THEN LeastBuckets ELSE best)

\* The old buckets, one after the other, each from its front.
RECURSIVE AllOf(_, _)
AllOf(t, b) == IF b >= t.bucket_cnt THEN <<>> ELSE t.buckets[b] \o AllOf(t, b + 1)

\* Every element goes to the front of its new bucket.
Moved(t, cnt) ==
  LET bare == [t EXCEPT !.buckets = Empty(cnt), !.bucket_cnt = cnt]
      Push(acc, e) == [acc EXCEPT !.buckets[find_bucket(bare, e)] = <<e>> \o @]
  IN FoldLeft(Push, bare, AllOf(t, 0))

\* Without memory for the new buckets the old ones are kept.
rehash(t) ==
  IF ideal_cnt(t) = t.bucket_cnt THEN {t} ELSE {t, Moved(t, ideal_cnt(t))}

hash_find(t, e) == find_elem(t, find_bucket(t, e), e)

-----------------------------------------------------------------------------
hash_insert(new) ==
  LET bucket == find_bucket(h, new)
      old == find_elem(h, bucket, new)
  IN /\ h' \in rehash(IF old = {} THEN insert_elem(h, bucket, new) ELSE h)
     /\ members' = IF \E m \in members : Value[m] = Value[new] THEN members ELSE members \cup {new}

hash_replace(new) ==
  LET bucket == find_bucket(h, new)
      old == find_elem(h, bucket, new)
      bare == IF old = {} THEN h ELSE remove_elem(h, CHOOSE e \in old : TRUE)
  IN /\ h' \in rehash(insert_elem(bare, bucket, new))
     /\ members' = {m \in members : Value[m] # Value[new]} \cup {new}

hash_delete(e) ==
  LET found == hash_find(h, e)
  IN /\ IF found = {} THEN h' = h ELSE h' \in rehash(remove_elem(h, CHOOSE x \in found : TRUE))
     /\ members' = {m \in members : Value[m] # Value[e]}

Clear == h' = hash_clear(h) /\ members' = {}

HaNext ==
  /\ \/ \E e \in HashElems : (e \notin members /\ (hash_insert(e) \/ hash_replace(e))) \/ hash_delete(e)
     \/ Clear
  /\ UNCHANGED hash

\* hash_first and hash_next: the elements in the order an iteration meets
\* them, from the head of bucket b at position i.
RECURSIVE Iterate(_, _, _)
Iterate(t, b, i) ==
  IF i < Len(t.buckets[b]) THEN <<t.buckets[b][i + 1]>> \o Iterate(t, b, i + 1)
  ELSE IF b + 1 >= t.bucket_cnt THEN <<>> ELSE Iterate(t, b + 1, 0)

\* The elements in the order the action is called for them.
hash_apply(t) == AllOf(t, 0)

-----------------------------------------------------------------------------
\* After any calls, with or without memory for new buckets, the table finds
\* exactly the members, by value, and counts them.
FindsMembers ==
  /\ \A e \in HashElems : hash_find(h, e) = {m \in members : Value[m] = Value[e]}
  /\ h.elem_cnt = Cardinality(members)

\* hash_apply and hash_next meet every member once.
IterationComplete ==
  \A met \in {hash_apply(h), Iterate(h, 0, 0)} :
    Len(met) = Cardinality(members) /\ ToSet(met) = members

=============================================================================
