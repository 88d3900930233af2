------------------------------ MODULE CPrintf -------------------------------
(***************************************************************************)
(* Formatted output of Pintos: lib/stdio.c and the user programs' buffered *)
(* output of lib/user/console.c.  A format and an output are sequences of  *)
(* characters; integer types have TypeMod values each.  A step is one call *)
(* of printf, snprintf, hex_dump or print_human_readable_size.             *)
(***************************************************************************)
EXTENDS Integers, Sequences

CONSTANTS
  Calls,          \* the calls made: formats with arguments, sizes, blocks
  TypeMod,        \* for each integer type the number of its values
  BufChars,       \* size of format_integer's buffer
  OutChars,       \* size of vhprintf's buffer
  PerLine,        \* bytes per line of hex_dump
  Kilo            \* 1024

ASSUME PfAssumption == BufChars \in Nat \ {0} /\ OutChars \in Nat \ {0} /\ PerLine \in Nat \ {0}

VARIABLES request, result
pfvars == <<request, result>>

-----------------------------------------------------------------------------
(* parse_conversion *)

Flags == {"-", "+", " ", "#", "0", "'"}
Digit10 == <<"0", "1", "2", "3", "4", "5", "6", "7", "8", "9">>
IsDigit(c) == \E k \in 1 .. 10 : Digit10[k] = c
DigitValue(c) == (CHOOSE k \in 1 .. 10 : Digit10[k] = c) - 1
Peek(f) == IF f = <<>> THEN "end" ELSE Head(f)

RECURSIVE ParseFlags(_, _), ParseNumber(_, _)
ParseFlags(f, flags) ==
  IF Peek(f) \in Flags THEN ParseFlags(Tail(f), flags \cup {Head(f)}) ELSE [flags |-> flags, f |-> f]
ParseNumber(f, n) ==
  IF IsDigit(Peek(f)) THEN ParseNumber(Tail(f), n * 10 + DigitValue(Head(f))) ELSE [n |-> n, f |-> f]

\* A number of the format, or an argument for `*'.
NumberOrStar(f, args) ==
  IF Peek(f) = "*" THEN [n |-> Head(args), f |-> Tail(f), args |-> Tail(args)]
  ELSE LET p == ParseNumber(f, 0) IN [n |-> p.n, f |-> p.f, args |-> args]

ParseType(f) ==
  CASE Peek(f) = "h" /\ Peek(Tail(f)) = "h" -> [type |-> "CHAR", f |-> Tail(Tail(f))]
    [] Peek(f) = "h" /\ Peek(Tail(f)) # "h" -> [type |-> "SHORT", f |-> Tail(f)]
    [] Peek(f) = "j" -> [type |-> "INTMAX", f |-> Tail(f)]
    [] Peek(f) = "l" /\ Peek(Tail(f)) = "l" -> [type |-> "LONGLONG", f |-> Tail(Tail(f))]
    [] Peek(f) = "l" /\ Peek(Tail(f)) # "l" -> [type |-> "LONG", f |-> Tail(f)]
    [] Peek(f) = "t" -> [type |-> "PTRDIFFT", f |-> Tail(f)]
    [] Peek(f) = "z" -> [type |-> "SIZET", f |-> Tail(f)]
    [] OTHER -> [type |-> "INT", f |-> f]

parse_conversion(format, args) ==
  LET fl == ParseFlags(format, {})
      w == NumberOrStar(fl.f, args)
      p == IF Peek(w.f) = "." THEN NumberOrStar(Tail(w.f), w.args)
           ELSE [n |-> -1, f |-> w.f, args |-> w.args]
      precision == IF p.n < 0 THEN -1 ELSE p.n
      minus == "-" \in fl.flags \/ w.n < 0
      t == ParseType(p.f)
      \* ZERO is dropped for a `-' flag, not for a negative `*' width
      dropped == (IF "-" \in fl.flags \/ precision >= 0 THEN {"0"} ELSE {})
                 \cup (IF "+" \in fl.flags THEN {" "} ELSE {})
  IN [c |-> [flags |-> (fl.flags \ dropped) \cup (IF minus THEN {"-"} ELSE {}),
             width |-> IF w.n < 0 THEN -w.n ELSE w.n, precision |-> precision, type |-> t.type],
      f |-> t.f, args |-> p.args]

-----------------------------------------------------------------------------
(* The conversions *)

output_dup(ch, cnt) == [i \in 1 .. cnt |-> ch]

HexDigits == <<"0", "1", "2", "3", "4", "5", "6", "7", "8", "9", "a", "b", "c", "d", "e", "f">>
Base(conv) == CASE conv \in {"d", "u"} -> [base |-> 10, x |-> FALSE, group |-> 3]
                [] conv = "o" -> [base |-> 8, x |-> FALSE, group |-> 3]
                [] conv \in {"x", "p"} -> [base |-> 16, x |-> TRUE, group |-> 4]

\* The digits, last one first, with the commas of the ' flag.
RECURSIVE DigitsReversed(_, _, _, _)
DigitsReversed(value, b, grouped, cnt) ==
  IF value = 0 THEN <<>>
  ELSE (IF grouped /\ cnt > 0 /\ cnt % b.group = 0 THEN <<",">> ELSE <<>>)
       \o <<HexDigits[(value % b.base) + 1]>>
       \o DigitsReversed(value \div b.base, b, grouped, cnt + 1)

Padding(c, cp, x, sign) ==
  LET pad == c.width - Len(cp) - (IF x THEN 2 ELSE 0) - Len(sign) IN IF pad < 0 THEN 0 ELSE pad

format_integer(value, sign, b, c) ==
  LET x == "#" \in c.flags /\ value > 0 /\ b.x
      digits == DigitsReversed(value, b, "'" \in c.flags, 0)
      wanted == IF c.precision < 0 THEN 1 ELSE c.precision
      most == IF wanted < BufChars - 1 THEN wanted ELSE BufChars - 1
      padded == digits \o output_dup("0", IF most > Len(digits) THEN most - Len(digits) ELSE 0)
      octal == "#" \in c.flags /\ b.base = 8 /\ (padded = <<>> \/ padded[Len(padded)] # "0")
      cp == IF octal THEN Append(padded, "0") ELSE padded
      pad_cnt == Padding(c, cp, x, sign)
  IN (IF c.flags \cap {"-", "0"} = {} THEN output_dup(" ", pad_cnt) ELSE <<>>)
     \o sign \o (IF x THEN <<"0", "x">> ELSE <<>>)
     \o (IF "0" \in c.flags THEN output_dup("0", pad_cnt) ELSE <<>>)
     \o [i \in 1 .. Len(cp) |-> cp[Len(cp) + 1 - i]]
     \o (IF "-" \in c.flags THEN output_dup(" ", pad_cnt) ELSE <<>>)

format_string(string, length, c) ==
  LET pad == IF c.width > length THEN c.width - length ELSE 0
  IN (IF "-" \notin c.flags THEN output_dup(" ", pad) ELSE <<>>)
     \o SubSeq(string, 1, length)
     \o (IF "-" \in c.flags THEN output_dup(" ", pad) ELSE <<>>)

SignedOf(v, type) == LET m == TypeMod[type] IN ((v + m \div 2) % m) - m \div 2
UnsignedOf(v, type) == v % TypeMod[type]

\* A signed conversion's sign character.
Sign(negative, flags) ==
  IF negative THEN <<"-">> ELSE IF "+" \in flags THEN <<"+">>
  ELSE IF " " \in flags THEN <<" ">> ELSE <<>>

\* One conversion: what it writes and the arguments left.
Convert(conv, c, args) ==
  CASE conv \in {"d", "i"} ->
         LET v == SignedOf(Head(args), c.type)
         IN [out |-> format_integer(IF v < 0 THEN -v ELSE v, Sign(v < 0, c.flags), Base("d"), c),
             args |-> Tail(args)]
    [] conv \in {"o", "u", "x"} ->
         [out |-> format_integer(UnsignedOf(Head(args), c.type), <<>>, Base(conv), c),
          args |-> Tail(args)]
    [] conv = "c" -> [out |-> format_string(<<Head(args)>>, 1, c), args |-> Tail(args)]
    [] conv = "s" ->
         LET s == Head(args)
         IN [out |-> format_string(s, IF c.precision >= 0 /\ c.precision < Len(s)
                                      THEN c.precision ELSE Len(s), c), args |-> Tail(args)]
    [] conv = "p" ->
         [out |-> format_integer(UnsignedOf(Head(args), "LONG"), <<>>, Base("p"),
                                 [c EXCEPT !.flags = {"#"}]), args |-> Tail(args)]
    [] conv \in {"f", "e", "E", "g", "G", "n"} ->
         [out |-> <<"<<no %", conv, " in kernel>>">>, args |-> args]
    [] OTHER -> [out |-> <<"<<no %", conv, " conversion>>">>, args |-> args]

RECURSIVE vprintfFrom(_, _)
vprintfFrom(format, args) ==
  CASE format = <<>> -> <<>>
    [] Head(format) # "%" -> <<Head(format)>> \o vprintfFrom(Tail(format), args)
    [] Peek(Tail(format)) = "%" -> <<"%">> \o vprintfFrom(Tail(Tail(format)), args)
    [] OTHER ->
         LET p == parse_conversion(Tail(format), args)
             done == Convert(Head(p.f), p.c, p.args)
         IN done.out \o vprintfFrom(Tail(p.f), done.args)

-----------------------------------------------------------------------------
(* Where the output goes *)

\* vsnprintf: what is stored, a terminator included, and the length returned.
vsnprintf(buf_size, out) ==
  LET max_length == IF buf_size > 0 THEN buf_size - 1 ELSE 0
  IN [stored |-> SubSeq(out, 1, IF Len(out) < max_length THEN Len(out) ELSE max_length)
                 \o (IF buf_size > 0 THEN <<"end">> ELSE <<>>),
      returned |-> Len(out)]

\* vhprintf: add_char flushes a full buffer, the end of the call what is left.
flush(buf) == IF buf = <<>> THEN <<>> ELSE <<buf>>
RECURSIVE vhprintf(_, _)
vhprintf(out, buf) ==
  CASE out = <<>> -> flush(buf)
    [] Len(buf) + 1 >= OutChars -> <<Append(buf, Head(out))>> \o vhprintf(Tail(out), <<>>)
    [] OTHER -> vhprintf(Tail(out), Append(buf, Head(out)))

\* hex_dump: a line is its offset and its cells, -1 for a blank one.
LineEnd(start, n) == IF PerLine - start > n THEN start + n ELSE PerLine
RECURSIVE hex_dump(_, _)
hex_dump(ofs, buf) ==
  IF buf = <<>> THEN <<>>
  ELSE LET start == ofs % PerLine
           end == LineEnd(start, Len(buf))
           n == end - start
       IN <<[ofs |-> (ofs \div PerLine) * PerLine,
             cells |-> [i \in 1 .. PerLine |->
                          IF i - 1 \in start .. end - 1 THEN buf[i - start] ELSE -1]]>>
          \o hex_dump(ofs + n, SubSeq(buf, n + 1, Len(buf)))

Factors == <<"bytes", "kB", "MB", "GB", "TB">>
RECURSIVE HumanFrom(_, _)
HumanFrom(size, k) ==
  IF size >= Kilo /\ k < Len(Factors) THEN HumanFrom(size \div Kilo, k + 1)
  ELSE [number |-> size, unit |-> k]
print_human_readable_size(size) == HumanFrom(size, 1)

-----------------------------------------------------------------------------

PfInit == request \in Calls /\ result = [done |-> FALSE]

Printf ==
  /\ request.op = "printf"
  /\ LET out == vprintfFrom(request.format, request.args)
     IN result' = [done |-> TRUE, out |-> out, buffer |-> vsnprintf(request.size, out),
                   writes |-> vhprintf(out, <<>>)]
HexDump ==
  request.op = "dump" /\ result' = [done |-> TRUE, lines |-> hex_dump(request.ofs, request.buf)]
HumanSize ==
  request.op = "size" /\ result' = [done |-> TRUE, human |-> print_human_readable_size(request.size)]

PfNext == ~result.done /\ (Printf \/ HexDump \/ HumanSize) /\ UNCHANGED request

-----------------------------------------------------------------------------
(* Properties *)

Printed == request.op = "printf" /\ result.done

\* The number a field of digits shows, in the conversion's base, whatever its padding.
RECURSIVE ShownFrom(_, _, _)
ShownFrom(out, b, n) ==
  IF out = <<>> THEN n
  ELSE LET h == Head(out)
           d == {k \in 1 .. b : HexDigits[k] = h}
       IN ShownFrom(Tail(out), b, IF d = {} THEN n ELSE n * b + (CHOOSE k \in d : TRUE) - 1)

\* An integer field reads back as the argument reduced to its type, and is as wide as the
\* format asks for, whatever combination of flags, width, precision and sign was used.
IntegersReadBack ==
  (Printed /\ "shows" \in DOMAIN request) =>
    LET out == result.out
        neg == \E i \in DOMAIN out : out[i] = "-"
        n == ShownFrom(out, request.base, 0)
    IN /\ request.shows = IF neg THEN -n ELSE n
       /\ Len(out) >= request.wide
       /\ Len(out) > request.wide => out[1] # " " \/ request.spaced

\* snprintf stores a terminated prefix of the output that fits the buffer and returns the
\* length of the whole.
SnprintfBounded ==
  Printed =>
    LET b == result.buffer
    IN /\ Len(b.stored) <= request.size
       /\ request.size > 0 => b.stored[Len(b.stored)] = "end"
       /\ \A i \in 1 .. Len(b.stored) - 1 : b.stored[i] = result.out[i]
       /\ b.returned = Len(result.out)

\* The write calls of a user program's printf carry the output once and in order, none of
\* them longer than the buffer.
WritesComplete ==
  Printed =>
    LET joined[i \in 0 .. Len(result.writes)] ==
          IF i = 0 THEN <<>> ELSE joined[i - 1] \o result.writes[i]
    IN /\ joined[Len(result.writes)] = result.out
       /\ \A i \in DOMAIN result.writes : Len(result.writes[i]) \in 1 .. OutChars

\* hex_dump shows every byte once, in the line and the column of its address.
DumpInColumns ==
  (request.op = "dump" /\ result.done) =>
    \A i \in DOMAIN request.buf :
      LET a == request.ofs + i - 1
          line == (a \div PerLine) - (request.ofs \div PerLine) + 1
      IN /\ line \in DOMAIN result.lines
         /\ result.lines[line].ofs = (a \div PerLine) * PerLine
         /\ result.lines[line].cells[(a % PerLine) + 1] = request.buf[i]

\* The size shown is the size rounded down to the unit, below Kilo unless units ran out.
HumanSizeBelow ==
  (request.op = "size" /\ result.done) =>
    LET h == result.human
    IN /\ h.number * Kilo ^ (h.unit - 1) <= request.size
       /\ request.size < (h.number + 1) * Kilo ^ (h.unit - 1)
       /\ h.number < Kilo \/ h.unit = Len(Factors)
=============================================================================
