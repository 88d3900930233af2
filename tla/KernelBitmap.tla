---------------------------- MODULE KernelBitmap ----------------------------
(***************************************************************************)
(* lib/kernel/bitmap.c: an array of words used as an array of bits.  A     *)
(* word is the set of its bits that are 1.                                 *)
(***************************************************************************)
EXTENDS Integers, FiniteSets

CONSTANTS ELEM_BITS,   \* bits of a word
          BitCounts    \* sizes of bitmaps

ASSUME BmAssumption == ELEM_BITS \in Nat \ {0} /\ BitCounts \subseteq Nat

VARIABLES bmap,      \* struct bitmap
          marked, \* the set of bits it stands for
          file    \* the words last written to the file, and what they meant

BmVars == <<bmap, marked, file>>

Word == SUBSET (0 .. ELEM_BITS - 1)
elem_idx(bit_idx) == bit_idx \div ELEM_BITS
bit_mask(bit_idx) == {bit_idx % ELEM_BITS}
elem_cnt(bit_cnt) == (bit_cnt + ELEM_BITS - 1) \div ELEM_BITS

last_mask(m) ==
  LET last_bits == m.bit_cnt % ELEM_BITS IN IF last_bits # 0 THEN 0 .. last_bits - 1 ELSE 0 .. ELEM_BITS - 1

bitmap_mark(m, i) == [m EXCEPT !.bits[elem_idx(i)] = @ \cup bit_mask(i)]
bitmap_reset(m, i) == [m EXCEPT !.bits[elem_idx(i)] = @ \ bit_mask(i)]
bitmap_flip(m, i) ==
  [m EXCEPT !.bits[elem_idx(i)] = (@ \ bit_mask(i)) \cup (bit_mask(i) \ @)]
bitmap_set(m, i, value) == IF value THEN bitmap_mark(m, i) ELSE bitmap_reset(m, i)
bitmap_test(m, i) == m.bits[elem_idx(i)] \cap bit_mask(i) # {}

RECURSIVE bitmap_set_multiple(_, _, _, _)
bitmap_set_multiple(m, start, cnt, value) ==
  IF cnt = 0 THEN m ELSE bitmap_set_multiple(bitmap_set(m, start, value), start + 1, cnt - 1, value)

bitmap_set_all(m, value) == bitmap_set_multiple(m, 0, m.bit_cnt, value)

\* bitmap_create and bitmap_create_in_buf: malloc's memory may hold anything.
Created(bit_cnt) ==
  {bitmap_set_all([bit_cnt |-> bit_cnt, bits |-> w], FALSE) : w \in [0 .. elem_cnt(bit_cnt) - 1 -> Word]}

BmInit ==
  /\ bmap \in UNION {Created(n) : n \in BitCounts}
  /\ marked = {} /\ file = [bits |-> bmap.bits, marked |-> {}]

bitmap_count(m, start, cnt, value) ==
  Cardinality({i \in start .. start + cnt - 1 : bitmap_test(m, i) = value})
bitmap_contains(m, start, cnt, value) == \E i \in start .. start + cnt - 1 : bitmap_test(m, i) = value
bitmap_any(m, start, cnt) == bitmap_contains(m, start, cnt, TRUE)
bitmap_none(m, start, cnt) == ~bitmap_contains(m, start, cnt, TRUE)
bitmap_all(m, start, cnt) == ~bitmap_contains(m, start, cnt, FALSE)

BITMAP_ERROR == -1

RECURSIVE ScanFrom(_, _, _, _)
ScanFrom(m, i, cnt, value) ==
  IF i > m.bit_cnt - cnt THEN BITMAP_ERROR
  ELSE IF ~bitmap_contains(m, i, cnt, ~value) THEN i ELSE ScanFrom(m, i + 1, cnt, value)

bitmap_scan(m, start, cnt, value) ==
  IF cnt <= m.bit_cnt THEN ScanFrom(m, start, cnt, value) ELSE BITMAP_ERROR

-----------------------------------------------------------------------------
BitRange(start, cnt) == start .. start + cnt - 1

SetMultiple(start, cnt, value) ==
  /\ start + cnt <= bmap.bit_cnt
  /\ bmap' = bitmap_set_multiple(bmap, start, cnt, value)
  /\ marked' = IF value THEN marked \cup BitRange(start, cnt) ELSE marked \ BitRange(start, cnt)
  /\ UNCHANGED file

Flip(i) ==
  /\ i < bmap.bit_cnt /\ bmap' = bitmap_flip(bmap, i)
  /\ marked' = IF i \in marked THEN marked \ {i} ELSE marked \cup {i}
  /\ UNCHANGED file

bitmap_scan_and_flip(start, cnt, value) ==
  LET idx == bitmap_scan(bmap, start, cnt, value)
  IN /\ start <= bmap.bit_cnt /\ idx # BITMAP_ERROR
     /\ bmap' = bitmap_set_multiple(bmap, idx, cnt, ~value)
     /\ marked' = IF value THEN marked \ BitRange(idx, cnt) ELSE marked \cup BitRange(idx, cnt)
     /\ UNCHANGED file

bitmap_write == file' = [bits |-> bmap.bits, marked |-> marked] /\ UNCHANGED <<bmap, marked>>

\* The words come back, and the bits past the end are cleared.
bitmap_read ==
  /\ bmap' = IF bmap.bit_cnt = 0 THEN bmap
          ELSE [bmap EXCEPT !.bits = [file.bits EXCEPT ![elem_cnt(bmap.bit_cnt) - 1] = @ \cap last_mask(bmap)]]
  /\ marked' = file.marked /\ UNCHANGED file

BmNext ==
  \/ bitmap_write \/ bitmap_read
  \/ \E start, cnt \in 0 .. bmap.bit_cnt, value \in BOOLEAN :
       SetMultiple(start, cnt, value) \/ bitmap_scan_and_flip(start, cnt, value)
  \/ \E i \in 0 .. bmap.bit_cnt : Flip(i)

\* Every bit reads as what was last done to it, whatever malloc left in the
\* words, also when it comes back from the file.
BitsAgree == \A i \in 0 .. bmap.bit_cnt - 1 : bitmap_test(bmap, i) <=> i \in marked

\* bitmap_scan returns the first group of cnt bits of the value that begins at
\* or after start, up to the very last one; bitmap_count and bitmap_all agree.  For a
\* cnt of zero that is start, where the comment of bitmap_scan_and_flip says 0.
ScanFindsFirst ==
  \A start, cnt \in 0 .. bmap.bit_cnt, value \in BOOLEAN :
    LET Group(i) == \A j \in BitRange(i, cnt) : (j \in marked) = value
        groups == {i \in start .. bmap.bit_cnt - cnt : Group(i)}
        idx == bitmap_scan(bmap, start, cnt, value)
    IN /\ IF groups = {} THEN idx = BITMAP_ERROR ELSE idx \in groups /\ \A i \in groups : idx <= i
       /\ start + cnt <= bmap.bit_cnt =>
            /\ bitmap_count(bmap, start, cnt, TRUE) = Cardinality(BitRange(start, cnt) \cap marked)
            /\ bitmap_all(bmap, start, cnt) <=> BitRange(start, cnt) \subseteq marked
            /\ bitmap_any(bmap, start, cnt) # bitmap_none(bmap, start, cnt)

=============================================================================
