------------------------------ MODULE CStdlib -------------------------------
(***************************************************************************)
(* Pintos' lib/stdlib.c (atoi, heap sort, binary search), lib/arithmetic.c *)
(* (64-bit division on a 32-bit machine, here two words of WORD_BITS bits) *)
(* and lib/random.c (the RC4 generator, over RC4_SIZE values).  A step is  *)
(* one call on inputs chosen in the initial state; the generator's calls   *)
(* follow one another.                                                     *)
(***************************************************************************)
EXTENDS Integers, Sequences, FiniteSets

CONSTANTS
  Keys, MaxCount,      \* array elements and the longest array
  WORD_BITS,           \* 32 on the machine
  INT_MOD,             \* number of values of an int
  Texts,               \* inputs of atoi
  RC4_SIZE, Seeds, MaxDraws

ASSUME LibAssumption == WORD_BITS \in Nat \ {0} /\ RC4_SIZE \in Nat \ {0} /\ Keys \subseteq Int

VARIABLES job, out, rc4

libvars == <<job, out, rc4>>

-----------------------------------------------------------------------------
(* sort: an element is a record, so that equal keys stay apart *)

do_swap(array, a, b) == [array EXCEPT ![a] = array[b], ![b] = array[a]]
do_compare(array, a, b) == array[a].key - array[b].key

RECURSIVE heapify(_, _, _), Build(_, _), Drain(_, _)
heapify(array, i, cnt) ==
  LET left == 2 * i
      right == 2 * i + 1
      max1 == IF left <= cnt /\ do_compare(array, left, i) > 0 THEN left ELSE i
      max == IF right <= cnt /\ do_compare(array, right, max1) > 0 THEN right ELSE max1
  IN IF max = i THEN array ELSE heapify(do_swap(array, i, max), max, cnt)

Build(array, i) == IF i = 0 THEN array ELSE Build(heapify(array, i, Len(array)), i - 1)
Drain(array, i) ==
  IF i <= 1 THEN array ELSE Drain(heapify(do_swap(array, 1, i), 1, i - 1), i - 1)

sort(array) == Drain(Build(array, Len(array) \div 2), Len(array))

\* first and last are indexes from 0; the element found, or -1.
RECURSIVE SearchIn(_, _, _, _)
SearchIn(key, array, first, last) ==
  IF first >= last THEN -1
  ELSE LET middle == first + (last - first) \div 2
           cmp == key - array[middle + 1].key
       IN CASE cmp < 0 -> SearchIn(key, array, first, middle)
            [] cmp > 0 -> SearchIn(key, array, middle + 1, last)
            [] OTHER -> middle
binary_search(key, array) == SearchIn(key, array, 0, Len(array))

-----------------------------------------------------------------------------
(* atoi: the value is built as a negative number and wraps as an int does *)

Wrap(v) == ((v + INT_MOD \div 2) % INT_MOD) - INT_MOD \div 2
Digit(c) == c \in {"0", "1", "2", "3", "4", "5", "6", "7", "8", "9"}
DigitsValue(c) == CHOOSE v \in 0 .. 9 : <<"0", "1", "2", "3", "4", "5", "6", "7", "8", "9">>[v + 1] = c
At1(s) == IF s = <<>> THEN "end" ELSE s[1]

RECURSIVE SkipSpace(_), Digits(_, _)
SkipSpace(s) == IF At1(s) = " " THEN SkipSpace(Tail(s)) ELSE s
Digits(s, value) ==
  IF Digit(At1(s)) THEN Digits(Tail(s), Wrap(value * 10 - DigitsValue(s[1]))) ELSE value

atoi(text) ==
  LET s == SkipSpace(text)
      value == Digits(IF At1(s) \in {"+", "-"} THEN Tail(s) ELSE s, 0)
  IN IF At1(s) = "-" THEN value ELSE Wrap(-value)

-----------------------------------------------------------------------------
(* Division: two words make a double word *)

B == 2 ^ WORD_BITS
Trap == -1

\* The machine's instruction: a quotient that does not fit a word traps.
divl(n, d) == IF n \div d < B THEN n \div d ELSE Trap

RECURSIVE nlzFrom(_, _)
nlzFrom(x, k) ==
  IF k = 0 THEN 0
  ELSE IF x < 2 ^ (WORD_BITS - k) THEN k + nlzFrom(x * 2 ^ k, k \div 2) ELSE nlzFrom(x, k \div 2)
nlz(x) == nlzFrom(x, WORD_BITS \div 2)

udiv64Plain(n, d) ==                             \* a mistake: the estimate is not corrected
  IF d < B
  THEN divl(B * ((n \div B) % d) + (n % B), d) + B * ((n \div B) \div d)
  ELSE IF n < d THEN 0
  ELSE LET s == nlz(d \div B)
       IN divl(n \div 2, (d * 2 ^ s) \div B) \div 2 ^ (WORD_BITS - 1 - s)
udiv64(n, d) ==
  IF d < B
  THEN divl(B * ((n \div B) % d) + (n % B), d) + B * ((n \div B) \div d)
  ELSE IF n < d THEN 0
  ELSE LET s == nlz(d \div B)
           q == divl(n \div 2, (d * 2 ^ s) \div B) \div 2 ^ (WORD_BITS - 1 - s)
       IN IF (n - (q - 1) * d) % (B * B) < d THEN q - 1 ELSE q

\* The return type is uint32_t.
umod64(n, d) == (n - d * udiv64(n, d)) % B

Abs64(n) == IF n >= 0 THEN n ELSE -n
Signed64(v) == ((v + (B * B) \div 2) % (B * B)) - (B * B) \div 2
sdiv64(n, d) ==
  LET q_abs == udiv64(Abs64(n), Abs64(d))
  IN Signed64(IF (n < 0) = (d < 0) THEN q_abs ELSE -q_abs)
\* The return type is int32_t.
smod64(n, d) == (((n - d * sdiv64(n, d)) + B \div 2) % B) - B \div 2

-----------------------------------------------------------------------------
(* The generator *)

swap_byte(s, a, b) == [s EXCEPT ![a] = s[b], ![b] = s[a]]

\* Four bytes of the seed; a seed is the tuple of them.
random_init(state, seed) ==
  LET mix[i \in 0 .. RC4_SIZE] ==
        IF i = 0 THEN [s |-> [k \in 0 .. RC4_SIZE - 1 |-> k], j |-> 0]
        ELSE LET before == mix[i - 1]
                 j == (before.j + before.s[i - 1] + seed[((i - 1) % Len(seed)) + 1]) % RC4_SIZE
             IN [s |-> swap_byte(before.s, i - 1, j), j |-> j]
  IN IF state.inited THEN state
     ELSE [state EXCEPT !.s = mix[RC4_SIZE].s, !.i = 0, !.j = 0, !.inited = TRUE]

Drawn(state) ==
  LET i == (state.i + 1) % RC4_SIZE
      j == (state.j + state.s[i]) % RC4_SIZE
      s == swap_byte(state.s, i, j)
  IN [state EXCEPT !.s = s, !.i = i, !.j = j, !.drawn = Append(@, s[(s[i] + s[j]) % RC4_SIZE])]

\* One byte of random_bytes.
random_byte(state) == Drawn(IF state.inited THEN state ELSE random_init(state, <<0>>))

-----------------------------------------------------------------------------

Arrays == UNION {[1 .. n -> Keys] : n \in 0 .. MaxCount}
Tagged(a) == [i \in DOMAIN a |-> [key |-> a[i], was |-> i]]
Sorted(a) == \A i, j \in DOMAIN a : i < j => a[i].key <= a[j].key

LibInit ==
  /\ \/ \E a \in Arrays : job = [op |-> "sort", array |-> Tagged(a)]
     \/ \E a \in Arrays, k \in Keys : Sorted(Tagged(a)) /\
          job = [op |-> "search", array |-> Tagged(a), key |-> k]
     \/ \E t \in Texts : job = [op |-> "atoi", text |-> t]
     \/ \E n \in 0 .. B * B - 1, d \in 1 .. B * B - 1 : job = [op |-> "divide", n |-> n, d |-> d]
     \/ job = [op |-> "random"]
  /\ out = [done |-> FALSE]
  /\ rc4 = [inited |-> FALSE, s |-> [k \in 0 .. RC4_SIZE - 1 |-> 0], i |-> 0, j |-> 0,
            drawn |-> <<>>, seed |-> <<>>]

Sorts == job.op = "sort" /\ out' = [done |-> TRUE, array |-> sort(job.array)] /\ UNCHANGED rc4
Searches ==
  job.op = "search" /\ out' = [done |-> TRUE, at |-> binary_search(job.key, job.array)]
  /\ UNCHANGED rc4
Converts == job.op = "atoi" /\ out' = [done |-> TRUE, value |-> atoi(job.text)] /\ UNCHANGED rc4
Divides ==
  /\ job.op = "divide"
  /\ out' = [done |-> TRUE, quotient |-> udiv64(job.n, job.d), rest |-> umod64(job.n, job.d),
             squotient |-> sdiv64(Signed64(job.n), Signed64(job.d)),
             srest |-> smod64(Signed64(job.n), Signed64(job.d))]
  /\ UNCHANGED rc4
\* History: the seed of the first call, 0 when it draws a byte.
Seeded(seed) == [rc4 EXCEPT !.seed = IF @ = <<>> THEN seed ELSE @]
RandomInit ==
  /\ job.op = "random"
  /\ \E seed \in Seeds : rc4' = random_init(Seeded(seed), seed)
  /\ UNCHANGED out
RandomByte ==
  /\ job.op = "random" /\ Len(rc4.drawn) < MaxDraws
  /\ rc4' = random_byte(Seeded(<<0>>))
  /\ UNCHANGED out

LibNext ==
  /\ ~out.done
  /\ Sorts \/ Searches \/ Converts \/ Divides \/ RandomInit \/ RandomByte
  /\ UNCHANGED job

-----------------------------------------------------------------------------
(* Properties *)

\* sort orders the array and neither loses nor repeats an element.
SortsAll ==
  (job.op = "sort" /\ out.done) =>
    Sorted(out.array) /\ {out.array[i] : i \in DOMAIN out.array} = {job.array[i] : i \in DOMAIN job.array}

\* binary_search finds an element with the key exactly when there is one.
SearchFinds ==
  (job.op = "search" /\ out.done) =>
    IF \E i \in DOMAIN job.array : job.array[i].key = job.key
    THEN out.at + 1 \in DOMAIN job.array /\ job.array[out.at + 1].key = job.key
    ELSE out.at = -1

\* atoi returns the decimal number after leading spaces and an optional sign, whenever an int
\* can hold it, the most negative one included.
AtoiParses ==
  (job.op = "atoi" /\ out.done) =>
    LET t == job.text
        first == CHOOSE i \in 1 .. Len(t) + 1 :
                   (i = Len(t) + 1 \/ t[i] # " ") /\ \A k \in 1 .. i - 1 : t[k] = " "
        from == IF first <= Len(t) /\ t[first] \in {"+", "-"} THEN first + 1 ELSE first
        to == CHOOSE i \in from - 1 .. Len(t) :
                (i = Len(t) \/ ~Digit(t[i + 1])) /\ \A k \in from .. i : Digit(t[k])
        number[i \in from - 1 .. to] == IF i = from - 1 THEN 0 ELSE number[i - 1] * 10 + DigitsValue(t[i])
        value == IF first <= Len(t) /\ t[first] = "-" THEN -number[to] ELSE number[to]
    IN value \in -(INT_MOD \div 2) .. INT_MOD \div 2 - 1 => out.value = value

\* The quotients are right for every dividend and divisor, signed and unsigned, and the divide
\* instruction never traps.  The remainders, which take the sign of the dividend, are right in
\* their lower word: the functions promise the remainder, but return a word of it.
DivisionExact ==
  (job.op = "divide" /\ out.done) =>
    LET n == Signed64(job.n)
        d == Signed64(job.d)
        q == Abs64(n) \div Abs64(d)
    IN /\ out.quotient = job.n \div job.d
       /\ out.squotient = Signed64(IF (n < 0) = (d < 0) THEN q ELSE -q)
       /\ out.rest = (job.n % job.d) % B
       /\ (out.srest - (IF n < 0 THEN -1 ELSE 1) * (Abs64(n) % Abs64(d))) % B = 0

\* The generator's table stays a permutation of the byte values, however often it is drawn
\* from and seeded.
TableIsPermutation ==
  rc4.inited => {rc4.s[k] : k \in 0 .. RC4_SIZE - 1} = 0 .. RC4_SIZE - 1

\* The bytes drawn are those of a generator seeded once, with the first call's seed: a later
\* random_init, which by its comment reinitializes it, changes nothing (random.c:33-41).
RECURSIVE Draws(_, _)
Draws(state, n) == IF n = 0 THEN state.drawn ELSE Draws(Drawn(state), n - 1)
FirstSeedStays ==
  rc4.inited =>
    rc4.drawn = Draws(random_init([rc4 EXCEPT !.inited = FALSE, !.drawn = <<>>], rc4.seed),
                      Len(rc4.drawn))

=============================================================================
