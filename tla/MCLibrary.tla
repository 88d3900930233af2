------------------------------ MODULE MCLibrary ------------------------------
(* The kernel's and the C library, the screen, the keyboard and the clock,  *)
(* the archive of the scratch device and the console relays: parts that     *)
(* share no variable, explored in one run.  part is the part that runs; the *)
(* others stay as they start.                                               *)
EXTENDS KernelList, KernelHash, KernelBitmap, Keyboard, VgaText, Clock,
        CString, CStdlib, CPrintf, SquishRelay, ScratchArchive, KernelInterrupts,
        SystemCalls, TLC

CONSTANTS t1, t2

VARIABLE part

(* Two elements that hash_find takes for equal, and a hash function that    *)
(* spreads them, one that skips buckets and one that collides.              *)
MCValue == [e \in 1 .. 5 |-> IF e = 5 THEN 4 ELSE e]
MCHashes == {[v \in 1 .. 4 |-> v], [v \in 1 .. 4 |-> 4 * v + 1], [v \in 1 .. 4 |-> v % 2]}

(* The second before the end of a century's year, of a February with and    *)
(* without its 29th, and two ordinary ones.                                 *)
MCStarts == {<<58, 59, 23, 31, 12, 99>>, <<59, 59, 23, 28, 2, 72>>, <<59, 59, 23, 28, 2, 1>>,
             <<59, 59, 9, 5, 7, 36>>, <<0, 10, 11, 15, 3, 70>>}

MCTexts == UNION {[1 .. n -> {" ", "-", "+", "1", "8", "x"}] : n \in 0 .. 4}
MCSeeds == {<<1, 0>>, <<2, 3>>}

(* printf: every pair of flags, three widths, three precisions, plain and   *)
(* char arguments, four conversions.                                        *)
MCMod == [t \in {"CHAR", "SHORT", "INT", "INTMAX", "LONG", "LONGLONG", "PTRDIFFT", "SIZET"} |->
            CASE t = "CHAR" -> 16 [] t = "SHORT" -> 256 [] OTHER -> 65536]
ArgType(mods) == IF mods = <<>> THEN "INT" ELSE "CHAR"
Widths == {<<0, <<>>>>, <<3, <<"3">>>>, <<12, <<"1", "2">>>>}
Precisions == {<<>>, <<".">>, <<".", "5">>}
FlagSeqs == {<<>>} \cup {<<f>> : f \in Flags} \cup {<<f, g>> : f, g \in Flags}
IntCall(fl, w, p, mods, conv, v) ==
  [op |-> "printf", format |-> <<"%">> \o fl \o w[2] \o p \o mods \o <<conv>>, args |-> <<v>>,
   size |-> 4, base |-> Base(conv).base, wide |-> w[1],
   shows |-> IF conv = "d" THEN SignedOf(v, ArgType(mods)) ELSE UnsignedOf(v, ArgType(mods)),
   spaced |-> \E i \in DOMAIN fl : fl[i] = " "]
IntCalls == {IntCall(fl, w, p, mods, conv, v) :
   fl \in FlagSeqs, w \in Widths, p \in Precisions, mods \in {<<>>, <<"h", "h">>},
   conv \in {"d", "u", "o", "x"}, v \in {-40, 0, 7, 12345}}
Plain(f, args, n) == [op |-> "printf", format |-> f, args |-> args, size |-> n]
OtherCalls ==
  {Plain(<<"a", "%", "%", "%", "s", "b">>, <<<<"x", "y">>>>, n) : n \in 0 .. 6}
  \cup {Plain(<<"%", "*", ".", "*", "s">>, <<w, p, <<"x", "y", "z">>>>, 3) :
          w \in {-5, 0, 5}, p \in {-1, 0, 2, 9}}
  \cup {Plain(<<"%", "p", "%", "c", "%", "l", "d", "%", "j", "u", "%", "z", "d", "%", "t", "x",
                "%", "l", "l", "i", "%", "h", "d", "%", "f", "%", "q">>,
              <<255, "c", -5, 6, 65535, -1, 3, 300>>, 20)}
DumpCalls == {[op |-> "dump", ofs |-> o, buf |-> [i \in 1 .. n |-> i]] : o \in 0 .. 9, n \in 0 .. 9}
SizeCalls == {[op |-> "size", size |-> n] : n \in 0 .. 2000}
MCCalls == IntCalls \cup OtherCalls \cup DumpCalls \cup SizeCalls

(* What a program has on its stack: _start's frame, alone or below another. *)
MCArgWords == {-1, 0, 2, 130}
MCFrames == {<<1, 2, 3>>, <<9, 1, 2, 3>>}

MCStdIn == <<"x", "y", "z">>

(* Archives with an empty file, a directory, a name to be stripped and one  *)
(* that is too long.                                                        *)
LongName == <<"a", "b", "c", "a", "b", "c">>
MCNames == {<<"a">>, <<"b">>, LongName}
Member(n, t, c) == [name |-> n, typeflag |-> t, content |-> c]
MCArchives ==
  {<<Member(<<"a">>, 0, <<1, 2, 3>>), Member(<<".", "/", "b">>, 0, <<>>)>>,
   <<Member(<<"c">>, 5, <<>>), Member(<<"a">>, 0, <<0, 0>>),
     Member(<<"/", ".", ".", "/", "c">>, 0, <<7>>)>>,
   <<Member(LongName, 0, <<1>>)>>}

(* The two threads beside the idle one are alike. *)
Alike == Permutations({t1, t2})

(* The initial values of the parts that have several, when they do not run. *)
LsOne == key = [e \in Elems |-> 1] /\ LsInit
HaOne == hash = [v \in 1 .. 4 |-> v] /\ HaInit
BmOne == bmap = (CHOOSE b \in Created(0) : TRUE) /\ BmInit
VgOne == regs = <<0, 0>> /\ VgInit
CkOne == clock = <<0, 10, 11, 15, 3, 70>> /\ CkInit
StrOne == mem = [a \in Address |-> 0] /\ StrInit
LibOne == job = [op |-> "random"] /\ LibInit
PfOne == request = [op |-> "size", size |-> 0] /\ PfInit
KiOne == idt = (CHOOSE i \in BootTables : TRUE) /\ KiInit
SyOne == ustack = <<1, 2, 3>> /\ SyInit
SqOne == kind = "pty" /\ SqInit

LibraryInit ==
  /\ part \in {"list", "hash", "bitmap", "kbd", "vga", "clock", "string", "stdlib",
               "printf", "relay", "archive", "intr", "syscall"}
  /\ KbInit /\ SaInit
  /\ part # "list" => LsOne
  /\ part # "hash" => HaOne
  /\ part # "bitmap" => BmOne
  /\ part # "vga" => VgOne
  /\ part # "clock" => CkOne
  /\ part # "string" => StrOne
  /\ part # "stdlib" => LibOne
  /\ part # "printf" => PfOne
  /\ part # "relay" => SqOne
  /\ part # "intr" => KiOne
  /\ part # "syscall" => SyOne
  /\ part = "syscall" => SyInit
  /\ part = "list" => LsInit
  /\ part = "hash" => HaInit
  /\ part = "bitmap" => BmInit
  /\ part = "vga" => VgInit
  /\ part = "clock" => CkInit
  /\ part = "string" => StrInit
  /\ part = "stdlib" => LibInit
  /\ part = "printf" => PfInit
  /\ part = "relay" => SqInit
  /\ part = "intr" => KiInit

Only(p) ==
  /\ part = p /\ UNCHANGED part
  /\ p # "list" => UNCHANGED LsVars
  /\ p # "hash" => UNCHANGED HaVars
  /\ p # "bitmap" => UNCHANGED BmVars
  /\ p # "kbd" => UNCHANGED KbVars
  /\ p # "vga" => UNCHANGED VgVars
  /\ p # "clock" => UNCHANGED CkVars
  /\ p # "string" => UNCHANGED strvars
  /\ p # "stdlib" => UNCHANGED libvars
  /\ p # "printf" => UNCHANGED pfvars
  /\ p # "relay" => UNCHANGED sqvars
  /\ p # "archive" => UNCHANGED savars
  /\ p # "intr" => UNCHANGED kiVars
  /\ p # "syscall" => UNCHANGED SyVars

LibraryNext ==
  \/ Only("list") /\ LsNext
  \/ Only("hash") /\ HaNext
  \/ Only("bitmap") /\ BmNext
  \/ Only("kbd") /\ KbNext
  \/ Only("vga") /\ VgNext
  \/ Only("clock") /\ CkNext
  \/ Only("string") /\ StrNext
  \/ Only("stdlib") /\ LibNext
  \/ Only("printf") /\ PfNext
  \/ Only("relay") /\ SqNext
  \/ Only("archive") /\ SaNext
  \/ Only("intr") /\ KiNext
  \/ Only("syscall") /\ SyNext

\* Lists, hash tables and bitmaps (lib/kernel) stay the sequences and sets they
\* stand for, whatever calls came before.
ContainersAgree ==
  /\ PointersAgree /\ ExtremesEarliest /\ FindsMembers /\ IterationComplete /\ BitsAgree
  /\ ScanFindsFirst

\* The functions of lib/string.c, stdlib.c, arithmetic.c, random.c and stdio.c
\* give what their reference definitions give, which are their comments but for three: what
\* memmove returns, remainders of more than a word, a second random_init.
FunctionsAgree ==
  /\ ReadersAgree /\ BlocksMoved /\ CopiesBounded /\ TokensComplete /\ SortsAll
  /\ SearchFinds /\ AtoiParses /\ DivisionExact /\ TableIsPermutation /\ FirstSeedStays
  /\ IntegersReadBack /\ SnprintfBounded /\ WritesComplete /\ DumpInColumns /\ HumanSizeBelow

\* Keyboard, screen and clocks (kbd.c, vga.c, rtc.c, pit.c, timer.c) give what was
\* typed, printed and shown by the hardware, which moves while it is read.
DevicesTruthful ==
  /\ CharsAsTyped /\ ScreenShowsPaper /\ RtcNotTorn /\ PitCountNearest
  /\ CalibratedBelowTick
=============================================================================
