------------------------------ MODULE CString -------------------------------
(***************************************************************************)
(* lib/string.c of Pintos: the memory and string functions of kernel and   *)
(* user programs, over a small memory of bytes.  A pointer is an address;  *)
(* the last byte is zero, so every string ends.  The loops are recursive   *)
(* operators; the properties compare them with what their comments say of  *)
(* whole strings and blocks.                                               *)
(***************************************************************************)
EXTENDS Integers, Sequences

CONSTANTS MemBytes,   \* number of bytes of the memory
          Chars       \* bytes other than zero

ASSUME StrAssumption == MemBytes \in Nat \ {0} /\ Chars \subseteq Nat \ {0}

VARIABLES
  mem,     \* the memory
  old,     \* the memory before the call
  call,    \* the call: its name and arguments, "none" before it
  ret,     \* what it returned
  tokens   \* what strtok_r returned since its first call

strvars == <<mem, old, call, ret, tokens>>

Address == 0 .. MemBytes - 1
NULLp == -1

-----------------------------------------------------------------------------
(* The functions that only read *)

RECURSIVE memcmp(_, _, _, _), strcmp(_, _, _), memchr(_, _, _, _), strchr(_, _, _),
          strspn(_, _, _), strcspn(_, _, _), strpbrk(_, _, _), strrchrFrom(_, _, _, _),
          strnlen(_, _, _), strstrFrom(_, _, _, _)

memcmp(m, a, b, size) ==
  IF size = 0 THEN 0
  ELSE IF m[a] # m[b] THEN (IF m[a] > m[b] THEN 1 ELSE -1)
  ELSE memcmp(m, a + 1, b + 1, size - 1)

strcmp(m, a, b) ==
  IF m[a] # 0 /\ m[a] = m[b] THEN strcmp(m, a + 1, b + 1)
  ELSE IF m[a] < m[b] THEN -1 ELSE IF m[a] > m[b] THEN 1 ELSE 0

memchr(m, block, ch, size) ==
  IF size = 0 THEN NULLp ELSE IF m[block] = ch THEN block ELSE memchr(m, block + 1, ch, size - 1)

strchr(m, string, c) ==
  IF m[string] = c THEN string ELSE IF m[string] = 0 THEN NULLp ELSE strchr(m, string + 1, c)

strcspn(m, string, stop) ==
  IF m[string] = 0 \/ strchr(m, stop, m[string]) # NULLp THEN 0
  ELSE 1 + strcspn(m, string + 1, stop)

strpbrk(m, string, stop) ==
  IF m[string] = 0 THEN NULLp
  ELSE IF strchr(m, stop, m[string]) # NULLp THEN string ELSE strpbrk(m, string + 1, stop)

strrchrFrom(m, string, c, p) ==
  IF m[string] = 0 THEN p ELSE strrchrFrom(m, string + 1, c, IF m[string] = c THEN string ELSE p)
strrchr(m, string, c) == strrchrFrom(m, string, c, NULLp)

strspn(m, string, skip) ==
  IF m[string] = 0 \/ strchr(m, skip, m[string]) = NULLp THEN 0
  ELSE 1 + strspn(m, string + 1, skip)

strnlen(m, string, maxlen) ==
  IF m[string] = 0 \/ maxlen = 0 THEN 0 ELSE 1 + strnlen(m, string + 1, maxlen - 1)
strlen(m, string) == strnlen(m, string, MemBytes)

strstrFrom(m, haystack, needle, left) ==
  IF memcmp(m, haystack, needle, strlen(m, needle)) = 0 THEN haystack
  ELSE IF left = 0 THEN NULLp ELSE strstrFrom(m, haystack + 1, needle, left - 1)
strstr(m, haystack, needle) ==
  LET spare == strlen(m, haystack) - strlen(m, needle)
  IN IF spare < 0 THEN NULLp ELSE strstrFrom(m, haystack, needle, spare)

-----------------------------------------------------------------------------
(* The functions that write *)

RECURSIVE CopyUp(_, _, _, _), CopyDown(_, _, _, _), SkipDelimiters(_, _, _), SkipToken(_, _, _)

CopyUp(m, dst, src, size) ==
  IF size = 0 THEN m ELSE CopyUp([m EXCEPT ![dst] = m[src]], dst + 1, src + 1, size - 1)

CopyDown(m, dst, src, size) ==
  IF size = 0 THEN m
  ELSE CopyDown([m EXCEPT ![dst + size - 1] = m[src + size - 1]], dst, src, size - 1)

memcpy(m, dst, src, size) == [mem |-> CopyUp(m, dst, src, size), ret |-> dst]

\* The loop moves dst itself, and dst is what it returns.
memmove(m, dst, src, size) ==
  IF dst < src THEN [mem |-> CopyUp(m, dst, src, size), ret |-> dst + size]
  ELSE [mem |-> CopyDown(m, dst, src, size), ret |-> dst]

memset(m, dst, value, size) ==
  [mem |-> [a \in Address |-> IF a \in dst .. dst + size - 1 THEN value ELSE m[a]], ret |-> dst]

strlcpy(m, dst, src, size) ==
  LET src_len == strlen(m, src)
      dst_len == IF src_len < size - 1 THEN src_len ELSE size - 1
  IN [mem |-> IF size = 0 THEN m
              ELSE [CopyUp(m, dst, src, dst_len) EXCEPT ![dst + dst_len] = 0],
      ret |-> src_len]

strlcat(m, dst, src, size) ==
  LET src_len == strlen(m, src)
      dst_len == strlen(m, dst)
      copy_cnt == IF src_len < size - dst_len - 1 THEN src_len ELSE size - dst_len - 1
  IN [mem |-> IF size > 0 /\ dst_len < size
              THEN [CopyUp(m, dst + dst_len, src, copy_cnt) EXCEPT ![dst + dst_len + copy_cnt] = 0]
              ELSE m,
      ret |-> src_len + dst_len]

SkipDelimiters(m, s, delimiters) ==
  IF m[s] # 0 /\ strchr(m, delimiters, m[s]) # NULLp THEN SkipDelimiters(m, s + 1, delimiters)
  ELSE s
SkipToken(m, s, delimiters) ==
  IF strchr(m, delimiters, m[s]) = NULLp THEN SkipToken(m, s + 1, delimiters) ELSE s

strtok_r(m, s, delimiters) ==
  LET token == SkipDelimiters(m, s, delimiters)
      end == SkipToken(m, token, delimiters)
  IN CASE m[token] = 0 -> [mem |-> m, save |-> token, ret |-> NULLp]
       [] m[end] # 0 -> [mem |-> [m EXCEPT ![end] = 0], save |-> end + 1, ret |-> token]
       [] OTHER -> [mem |-> m, save |-> end, ret |-> token]

-----------------------------------------------------------------------------
(* Calls: the arguments keep to the memory, as the functions require *)

RECURSIVE Str(_, _)
Str(m, p) == IF m[p] = 0 THEN <<>> ELSE <<m[p]>> \o Str(m, p + 1)

Disjoint(p, n, q, k) == p + n <= q \/ q + k <= p

StrInit ==
  /\ mem \in {m \in [Address -> Chars \cup {0}] : m[MemBytes - 1] = 0}
  /\ old = mem /\ call = [op |-> "none"] /\ ret = NULLp /\ tokens = <<>>

Do(op, dst, src, size, result) ==
  /\ call' = [op |-> op, dst |-> dst, src |-> src, size |-> size]
  /\ mem' = result.mem /\ ret' = result.ret
  /\ UNCHANGED <<old, tokens>>

\* The functions that only read, each on the strings at S and T.
CallReader ==
  /\ call.op = "none"
  /\ \E s, t \in Address :
       /\ call' = [op |-> "read", dst |-> s, src |-> t]
       /\ ret' = [len |-> strlen(mem, s),
                  chr |-> [c \in Chars \cup {0} |-> strchr(mem, s, c)],
                  rchr |-> [c \in Chars |-> strrchr(mem, s, c)],
                  mchr |-> [n \in 0 .. MemBytes - s |-> memchr(mem, s, 0, n)],
                  cspn |-> strcspn(mem, s, t), spn |-> strspn(mem, s, t),
                  pbrk |-> strpbrk(mem, s, t), str |-> strstr(mem, s, t),
                  cmp |-> strcmp(mem, s, t), back |-> strcmp(mem, t, s)]
  /\ UNCHANGED <<mem, old, tokens>>

CallBlock ==
  /\ call.op = "none"
  /\ \E dst, src \in Address, size \in 0 .. MemBytes :
       /\ dst + size <= MemBytes - 1
       /\ \/ /\ src + size <= MemBytes
             /\ Do("memmove", dst, src, size, memmove(mem, dst, src, size))
          \/ /\ src + size <= MemBytes /\ Disjoint(dst, size, src, size)
             /\ Do("memcpy", dst, src, size, memcpy(mem, dst, src, size))
          \/ /\ src \in Chars
             /\ Do("memset", dst, src, size, memset(mem, dst, src, size))

CallString ==
  /\ call.op = "none"
  /\ \E dst, src \in Address, size \in 0 .. MemBytes :
       /\ dst + size <= MemBytes /\ Disjoint(dst, size, src, strlen(mem, src) + 1)
       /\ \/ Do("strlcpy", dst, src, size, strlcpy(mem, dst, src, size))
          \/ /\ Disjoint(dst, strlen(mem, dst) + 1, src, strlen(mem, src) + 1)
             /\ Do("strlcat", dst, src, size, strlcat(mem, dst, src, size))

\* A string is cut into tokens by calls of strtok_r until it returns null.
CallToken ==
  /\ \E s, delimiters \in Address :
       /\ \/ call.op = "none" /\ Disjoint(s, strlen(mem, s) + 1, delimiters, strlen(mem, delimiters) + 1)
          \/ call.op = "strtok" /\ ret # NULLp /\ s = call.save /\ delimiters = call.src
       /\ LET r == strtok_r(mem, s, delimiters)
          IN /\ mem' = r.mem /\ ret' = r.ret
             /\ call' = [op |-> "strtok", src |-> delimiters, save |-> r.save,
                         dst |-> IF call.op = "none" THEN s ELSE call.dst]
             /\ tokens' = IF r.ret = NULLp THEN tokens ELSE Append(tokens, Str(r.mem, r.ret))
  /\ Len(tokens) <= MemBytes
  /\ UNCHANGED old

StrNext == CallReader \/ CallBlock \/ CallString \/ CallToken

-----------------------------------------------------------------------------
(* Properties *)

CharsOf(m, p) == {Str(m, p)[i] : i \in DOMAIN Str(m, p)}
Nearest(S) == IF S = {} THEN NULLp ELSE CHOOSE x \in S : \A y \in S : x <= y
Greatest(S) == IF S = {} THEN NULLp ELSE CHOOSE x \in S : \A y \in S : x >= y
Span(m, p) == p .. p + Len(Str(m, p)) - 1

\* strlen, strchr, strrchr, strspn, strcspn, strpbrk and strstr return what their comments
\* say of the strings as a whole, wherever the strings lie and also where one is the tail of
\* the other.
ReadersAgree ==
  call.op = "read" =>
    LET p == call.dst
        q == call.src
        n == Len(Str(mem, p))
        k == Len(Str(mem, q))
        stops == {a \in Span(mem, p) : mem[a] \in CharsOf(mem, q)}
        others == Span(mem, p) \ stops
    IN /\ ret.len = n
       /\ \A c \in Chars : /\ ret.chr[c] = Nearest({a \in Span(mem, p) : mem[a] = c})
                           /\ ret.rchr[c] = Greatest({a \in Span(mem, p) : mem[a] = c})
       /\ ret.chr[0] = p + n
       /\ \A m \in 0 .. MemBytes - p : ret.mchr[m] = IF m > n THEN p + n ELSE NULLp
       /\ ret.cspn = IF stops = {} THEN n ELSE Nearest(stops) - p
       /\ ret.spn = IF others = {} THEN n ELSE Nearest(others) - p
       /\ ret.pbrk = Nearest(stops)
       /\ ret.str = Nearest({a \in p .. p + n - k :
                        SubSeq(Str(mem, p), a - p + 1, a - p + k) = Str(mem, q)})
       /\ (ret.cmp = 0) <=> Str(mem, p) = Str(mem, q)
       /\ ret.cmp = -ret.back

\* The block functions leave every byte outside the destination as it was, and inside it is
\* what the source held before the call, also where source and destination overlap.  They
\* return DST as their comments say, except that memmove returns the end of the block when it
\* moves it down (string.c:19-20 promises DST there too).
BlocksMoved ==
  call.op \in {"memmove", "memcpy", "memset"} =>
    /\ \A a \in Address :
         mem[a] = IF a \notin call.dst .. call.dst + call.size - 1 THEN old[a]
                  ELSE IF call.op = "memset" THEN call.src ELSE old[call.src + (a - call.dst)]
    /\ ret = IF call.op = "memmove" /\ call.dst < call.src THEN call.dst + call.size ELSE call.dst

\* strlcpy and strlcat write only the SIZE bytes of DST, leave a terminated string there if
\* SIZE is not zero, and return the length of the string they were asked to make.
CopiesBounded ==
  call.op \in {"strlcpy", "strlcat"} =>
    LET wanted == IF call.op = "strlcpy" THEN Str(old, call.src)
                  ELSE Str(old, call.dst) \o Str(old, call.src)
        kept == IF Len(wanted) < call.size THEN Len(wanted) ELSE call.size - 1
    IN /\ ret = Len(wanted)
       /\ \A a \in Address : mem[a] # old[a] => a \in call.dst .. call.dst + call.size - 1
       /\ (call.size > 0 /\ (call.op = "strlcpy" \/ Len(Str(old, call.dst)) < call.size))
            => Str(mem, call.dst) = SubSeq(wanted, 1, kept)

\* The calls of strtok_r return, one after the other, the longest runs of characters that are
\* no delimiters, and no empty token.
TokensComplete ==
  (call.op = "strtok" /\ ret = NULLp) =>
    LET s == Str(old, call.dst)
        stops == CharsOf(old, call.src)
        first == {i \in DOMAIN s : s[i] \notin stops /\ (i = 1 \/ s[i - 1] \in stops)}
        end(i) == Nearest({j \in i .. Len(s) + 1 : j = Len(s) + 1 \/ s[j] \in stops})
        run(i) == SubSeq(s, i, end(i) - 1)
    IN \E f \in [1 .. Len(tokens) -> first] :
             /\ \A x, y \in 1 .. Len(tokens) : x < y => f[x] < f[y]
             /\ {f[x] : x \in 1 .. Len(tokens)} = first
             /\ \A x \in 1 .. Len(tokens) : tokens[x] = run(f[x])

=============================================================================
