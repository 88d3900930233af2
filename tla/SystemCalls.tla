---------------------------- MODULE SystemCalls -----------------------------
(***************************************************************************)
(* A system call between a user program and the kernel: the stubs of the   *)
(* user library (lib/user/syscall.c) push the number and the arguments,    *)
(* syscall_handler (userprog/syscall.c) finds them on the user's stack,    *)
(* checks them and calls the kernel's function; the stub takes them away   *)
(* again.  A program may also trap without the library.  The stack is a    *)
(* sequence of words, esp first; it ends at PHYS_BASE.  The trap enters    *)
(* through the gate that syscall_init registers in KernelInterrupts; the   *)
(* two modules share no variable.                                          *)
(***************************************************************************)
EXTENDS Integers, Sequences, KernelInterrupts

CONSTANTS ArgWords,   \* arguments of calls, in a word
          Frames,     \* what is on the stack before a call: sequences of words
          WordValues  \* 2^32

\* An argument fits in a word; under a call there is at least _start's frame.
ASSUME SyAssumption ==
  /\ WordValues \in Nat \ {0} /\ ArgWords \subseteq Int /\ \A a \in ArgWords : a < WordValues
  /\ Frames \subseteq Seq(Int) \ {<<>>}

VARIABLES ustack,  \* the user's stack
          before,  \* what it was before the call
          upc,     \* "user", "trap", "return", "dead" or "off"
          ucall,   \* the call the program made: [name, args]; "raw" without the library
          kcall,   \* the call the kernel understood, and the words it read for it
          ustatus  \* exit_status

SyVars == <<ustack, before, upc, ucall, kcall, ustatus>>

NoCall == [name |-> "none", args |-> <<>>]
SyInit ==
  /\ ustack \in Frames /\ before = ustack /\ upc = "user" /\ ucall = NoCall /\ kcall = NoCall /\ ustatus = 0

\* The numbers, from 0 on.
SYS == <<"halt", "exit", "exec", "wait", "create", "remove", "open", "filesize", "read", "write", "seek",
         "tell", "close", "sleep", "mmap", "munmap", "chdir", "mkdir", "readdir", "isdir", "inumber">>
NumberOf(name) == (CHOOSE i \in DOMAIN SYS : SYS[i] = name) - 1

-----------------------------------------------------------------------------
\* syscall0 to syscall3: how many arguments a stub pushes.
StubArgs(name) ==
  CASE name = "halt" -> 0
    [] name \in {"create", "seek", "mmap", "readdir"} -> 2
    [] name \in {"read", "write"} -> 3
    [] OTHER -> 1

\* The stubs that end the program themselves.
StubExits(name, args) ==
  \/ name = "wait" /\ args[1] <= -1
  \/ name \in {"filesize", "read", "write", "seek", "tell"} /\ args[1] < 0
  \/ name = "close" /\ (args[1] < 2 \/ args[1] >= 130)

Push(name, args) == <<NumberOf(name)>> \o args \o ustack

syscall(name, args) ==
  /\ ucall' = [name |-> name, args |-> args]
  /\ ustack' = Push(name, args) /\ upc' = "trap"

Stub(name, args) ==
  /\ upc = "user" /\ before' = ustack
  /\ CASE StubExits(name, args) -> syscall("exit", <<-1>>)
       [] name = "sleep" /\ args[1] <= 0 -> UNCHANGED <<ustack, upc, ucall>>
       [] OTHER -> syscall(name, args)
  /\ UNCHANGED <<kcall, ustatus>>

\* int $0x30 with any stack below PHYS_BASE or at it.
Raw ==
  /\ upc = "user" /\ before' = ustack /\ ucall' = [NoCall EXCEPT !.name = "raw"]
  /\ \/ ustack' = <<>>
     \/ \E n \in -1 .. Len(SYS), k \in 1 .. Len(ustack) + 1 : ustack' = <<n>> \o SubSeq(ustack, k, Len(ustack))
  /\ upc' = "trap" /\ UNCHANGED <<kcall, ustatus>>

-----------------------------------------------------------------------------
\* validate_buffer of n words from word i of the stack (from 0).
OnStack(i, n) == i < Len(ustack) /\ i + n <= Len(ustack)

\* The bytes after the number that the handler checks, in words, and those it uses.
Checked(name) ==
  CASE name = "halt" -> 0
    [] name \in {"exit", "create", "seek"} -> 2
    [] name \in {"read", "write"} -> 3
    [] OTHER -> 1
Used(name) == IF name = "exit" THEN 1 ELSE IF name = "sleep" THEN 2 ELSE Checked(name)
Handled == {SYS[i] : i \in 1 .. 14}

\* Calls with a string or a buffer, which validate_string and validate_buffer may refuse.
Pointers == {"create", "remove", "open", "exec", "read", "write"}

Refused == upc' = "dead" /\ ustatus' = -1 /\ kcall' = NoCall

\* sleep takes 64 bits; what is past the stack is the kernel's.
StackWord(i) == IF i <= Len(ustack) THEN ustack[i] ELSE 0
ArgsOf(name) ==
  IF name = "sleep" THEN <<(StackWord(2) % WordValues) + WordValues * StackWord(3)>>
  ELSE [i \in 1 .. Used(name) |-> ustack[i + 1]]

syscall_handler ==
  /\ upc = "trap"
  /\ IF ~OnStack(0, 1) \/ (OnStack(0, 1) /\ ustack[1] \notin 0 .. Len(SYS) - 1) THEN Refused
     ELSE LET name == SYS[ustack[1] + 1]
          IN \/ /\ name \notin Handled \/ (Checked(name) > 0 /\ ~OnStack(1, Checked(name))) \/ name \in Pointers
                /\ Refused
             \/ /\ name \in Handled /\ (Checked(name) > 0 => OnStack(1, Checked(name)))
                /\ kcall' = [name |-> name, args |-> ArgsOf(name), words |-> 1 + Used(name)]
                /\ upc' = CASE name = "halt" -> "off" [] name = "exit" -> "dead" [] OTHER -> "return"
                /\ ustatus' = IF name = "exit" THEN ustack[2] ELSE ustatus
  /\ UNCHANGED <<ustack, before, ucall>>

\* addl to esp; a program without the library sees to its stack itself.
StubReturns ==
  /\ upc = "return" /\ upc' = "user"
  /\ ustack' = IF ucall.name = "raw" THEN before ELSE SubSeq(ustack, 2 + Len(ucall.args), Len(ustack))
  /\ UNCHANGED <<before, ucall, kcall, ustatus>>

SyNext ==
  \/ \E name \in {SYS[i] : i \in DOMAIN SYS} : \E args \in [1 .. StubArgs(name) -> ArgWords] : Stub(name, args)
  \/ Raw \/ syscall_handler \/ StubReturns

SySpec == SyInit /\ [][SyNext]_SyVars

-----------------------------------------------------------------------------
ByLibrary == ucall.name \notin {"none", "raw"}

\* The function of the kernel gets the arguments the program gave, in their
\* order, and a program that ends has the status it gave.  Of sleep's argument
\* this holds of the low word only: the handler takes eight bytes where the stub
\* has pushed four.
ArgumentsArrive ==
  /\ ByLibrary /\ upc = "return" /\ ucall.name # "sleep"
       => kcall.name = ucall.name /\ kcall.args = ucall.args
  /\ ByLibrary /\ upc = "return" /\ ucall.name = "sleep"
       => kcall.name = "sleep" /\ kcall.args[1] % WordValues = ucall.args[1]
  /\ ByLibrary /\ upc = "dead" => ustatus = IF ucall.name = "exit" THEN ucall.args[1] ELSE -1

\* The handler uses no word that is not on the user's stack, whatever the program
\* has put there, but for sleep's high word.
WordsOnStack ==
  kcall # NoCall /\ upc \in {"return", "dead"} /\ kcall.name # "sleep" => kcall.words <= Len(ustack)

\* A stub takes from the stack what it has pushed.
StackRestored == ByLibrary /\ upc = "user" => ustack = before

\* Interrupts, faults and system calls enter the kernel and leave it with the
\* interrupt level, the controllers, the fault address and the arguments right,
\* wherever they fall (interrupt.c, exception.c, syscall.c).
KernelEntered ==
  /\ HandlersAssert /\ NoLineShutOut /\ FaultAddressOwn /\ LevelsRestored
  /\ ArgumentsArrive /\ WordsOnStack /\ StackRestored

=============================================================================
