---------------------------- MODULE SquishRelay -----------------------------
(***************************************************************************)
(* The programs that run an emulator with its console on their own         *)
(* standard input and output: squish-pty (one pseudoterminal, SIGCHLD      *)
(* reported through a pipe) and squish-unix (a socket the emulator         *)
(* connects to, again after each reset; SIGCHLD interrupts pselect).  Both *)
(* take every SIGCHLD for the child's death, also that of a stop.          *)
(* The emulator and the kernel's streams are external.                     *)
(***************************************************************************)
EXTENDS Integers, Sequences

CONSTANTS
  Kinds,          \* which of the two programs: a subset of {"pty", "unix"}
  BUFSIZ,         \* size of a pipe's buffer
  StdIn,          \* what standard input holds, then its end
  MaxOut,         \* bytes the emulator writes, 1, 2, ...
  MaxConns        \* connections the emulator makes to the socket

ASSUME SqAssumption ==
  /\ Kinds \subseteq {"pty", "unix"} /\ BUFSIZ \in Nat \ {0} /\ MaxOut \in Nat /\ MaxConns \in Nat \ {0}
  /\ StdIn \in Seq({StdIn[i] : i \in DOMAIN StdIn})

VARIABLES
  kind,
  sqpc,           \* "main", "accept", "select", an operation of the loop, "final", "done";
                  \* then how it ended: "like_child", "zero" or "failed"
  pipes,          \* pipes[0]: standard input to the link, pipes[1]: the link to standard output
  ready,          \* the operations select found possible
  taken,          \* bytes of standard input read
  shown,            \* bytes written on standard output
  link,           \* the connection: written by the emulator, read by it, whether it is open
  emu,            \* the emulator: "none", "runs", "stopped", "closed" (its descriptors are) or "dead"
  notice,         \* SIGCHLD is pending, or its handler's byte lies in the pipe
  stopped,        \* history: the emulator was stopped, so that SIGCHLD came while it lived
  written, conns  \* bytes the emulator wrote, connections it made
sqvars == <<kind, sqpc, pipes, ready, taken, shown, link, emu, notice, stopped, written, conns>>

Pipe(in, to) == [in |-> in, out |-> to, buf |-> <<>>, ofs |-> 0, active |-> FALSE]
NewPipes == [p \in 0 .. 1 |-> IF p = 0 THEN Pipe("stdin", "link") ELSE Pipe("link", "stdout")]
NewLink == [up |-> <<>>, down |-> <<>>, open |-> TRUE]

SqInit ==
  /\ kind \in Kinds
  /\ sqpc = "main"
  /\ pipes = NewPipes /\ ready = {} /\ taken = 0 /\ shown = <<>>
  /\ link = [NewLink EXCEPT !.open = (kind = "pty")]
  /\ emu = "none" /\ notice = FALSE /\ stopped = FALSE /\ written = 0 /\ conns = 0

\* The two main: the terminal or the socket, then the handler (squish-unix also blocks the
\* signal), and only then the child, which may be dead before the parent runs again.
Forked(next) ==
  /\ sqpc = "main" /\ sqpc' = next /\ emu' = "runs"
  /\ UNCHANGED <<kind, pipes, ready, taken, shown, link, notice, stopped, written, conns>>
main_pty == kind = "pty" /\ Forked("select")
main_unix == kind = "unix" /\ Forked("accept")

-----------------------------------------------------------------------------
(* The emulator *)

\* The end of the program closes its side of the link.
RelayEnded == {"like_child", "zero", "failed"}

Write ==
  /\ emu = "runs" /\ link.open /\ sqpc \notin RelayEnded /\ written < MaxOut
  /\ written' = written + 1 /\ link' = [link EXCEPT !.up = Append(@, written + 1)]
  /\ UNCHANGED <<kind, sqpc, pipes, ready, taken, shown, emu, notice, stopped, conns>>

\* A reset closes the emulator's end of the connection; it connects again.
Reset ==
  /\ kind = "unix" /\ emu = "runs" /\ link.open /\ link' = [link EXCEPT !.open = FALSE]
  /\ UNCHANGED <<kind, sqpc, pipes, ready, taken, shown, emu, notice, stopped, written, conns>>

\* It ends: its descriptors are closed, then its parent is told.
Close ==
  /\ emu \in {"runs", "stopped"} /\ emu' = "closed" /\ link' = [link EXCEPT !.open = FALSE]
  /\ UNCHANGED <<kind, sqpc, pipes, ready, taken, shown, notice, stopped, written, conns>>

\* Neither program asks for SA_NOCLDSTOP: SIGCHLD comes when the child dies, and also when it
\* is stopped (by a terminal's stop key, say) and when it goes on.
ChildChanges ==
  \/ emu = "closed" /\ emu' = "dead" /\ UNCHANGED stopped
  \/ emu = "runs" /\ emu' = "stopped" /\ stopped' = TRUE
  \/ emu = "stopped" /\ emu' = "runs" /\ UNCHANGED stopped

\* sigchld_handler of squish-pty writes a byte; squish-unix keeps the signal blocked.
sigchld_handlerLost ==                           \* a mistake: seen only when it comes in select
  /\ ChildChanges /\ notice' = (notice \/ sqpc \in {"select", "accept"})
  /\ UNCHANGED <<kind, sqpc, pipes, ready, taken, shown, link, written, conns>>
sigchld_handler ==
  /\ ChildChanges /\ notice' = TRUE
  /\ UNCHANGED <<kind, sqpc, pipes, ready, taken, shown, link, written, conns>>

-----------------------------------------------------------------------------
(* relay *)

\* A new connection: lseek goes back to the beginning of standard input, a file.
accept ==
  /\ kind = "unix" /\ sqpc = "accept" /\ emu = "runs" /\ conns < MaxConns
  /\ conns' = conns + 1 /\ link' = NewLink /\ pipes' = NewPipes /\ sqpc' = "select" /\ taken' = 0
  /\ UNCHANGED <<kind, ready, shown, emu, notice, stopped, written>>
accept_interrupted ==
  /\ kind = "unix" /\ sqpc = "accept" /\ notice /\ sqpc' = "done"
  /\ UNCHANGED <<kind, pipes, ready, taken, shown, link, emu, notice, stopped, written, conns>>

Order == <<"read0", "write0", "read1", "write1">>
Reads == [p \in 0 .. 1 |-> Order[2 * p + 1]]
Writes == [p \in 0 .. 1 |-> Order[2 * p + 2]]
Source(p) == pipes[p].in
Wanted(p) ==
  LET q == pipes[p]
  IN IF p = 0 /\ ~pipes[1].active THEN {}
     ELSE (IF q.in # "none" /\ Len(q.buf) + q.ofs < BUFSIZ THEN {Reads[p]} ELSE {})
          \cup (IF q.out # "none" /\ q.buf # <<>> THEN {Writes[p]} ELSE {})

\* Standard input is always readable, a link when there is data or it was closed.
Readable(p) == Source(p) = "stdin" \/ link.up # <<>> \/ ~link.open

After(op, ops) ==
  LET from == IF op = "select" THEN 0 ELSE CHOOSE k \in 1 .. 4 : Order[k] = op
      later == {i \in from + 1 .. 4 : Order[i] \in ops}
  IN IF later = {} THEN "select" ELSE Order[CHOOSE i \in later : \A j \in later : i <= j]

LoopEnds == kind = "pty" /\ pipes[1].in = "none"

\* Whether the streams that can be written are writable is up to their readers.
select ==
  /\ sqpc = "select"
  /\ UNCHANGED <<kind, pipes, taken, shown, link, emu, notice, stopped, written, conns>>
  /\ \/ LoopEnds /\ sqpc' = "final" /\ UNCHANGED ready
     \/ ~LoopEnds /\ notice /\ sqpc' = "final" /\ UNCHANGED ready
     \/ /\ ~LoopEnds /\ (kind = "pty" => ~notice)
        /\ LET wanted == Wanted(0) \cup Wanted(1)
               reads == {Reads[p] : p \in {q \in 0 .. 1 : Reads[q] \in wanted /\ Readable(q)}}
           IN \E w \in SUBSET (wanted \cap {Writes[0], Writes[1]}) :
                /\ reads \cup w # {}
                /\ ready' = reads \cup w /\ sqpc' = After("select", ready')

Goon == sqpc' = After(sqpc, ready)

\* The buffer is never moved: a full buffer starts at its beginning.
Filled(q, data) ==
  LET size == Len(q.buf) + Len(data)
  IN [q EXCEPT !.buf = @ \o data, !.active = TRUE, !.ofs = IF size = BUFSIZ THEN 0 ELSE @]
Room(q) == BUFSIZ - q.ofs - Len(q.buf)

\* End of file or an error on a pipe's stream: its side of the pipe is given up (the input
\* at its end, the pty on EIO), relay returns at the end of the connection, and the program
\* fails when it cannot write to the socket, or read from it: an emulator that leaves input
\* unread resets the connection.
handle_error(p, side) ==
  LET stream == IF side = "in" THEN pipes[p].in ELSE pipes[p].out
  IN IF kind = "pty" \/ stream # "link"
     THEN /\ pipes' = IF side = "in" THEN [pipes EXCEPT ![p].in = "none"] ELSE [pipes EXCEPT ![p].out = "none"]
          /\ Goon
     ELSE /\ UNCHANGED pipes
          /\ \/ side = "in" /\ sqpc' = "accept"
             \/ (side = "in" => link.down # <<>>) /\ sqpc' = "failed"

read(p) ==
  /\ sqpc = Reads[p]
  /\ LET q == pipes[p]
         data == IF Source(p) = "stdin" THEN SubSeq(StdIn, taken + 1, Len(StdIn)) ELSE link.up
     IN \/ \E n \in 1 .. Len(data) :
             /\ n <= Room(q) /\ pipes' = [pipes EXCEPT ![p] = Filled(q, SubSeq(data, 1, n))]
             /\ IF Source(p) = "stdin" THEN taken' = taken + n /\ UNCHANGED link
                ELSE link' = [link EXCEPT !.up = SubSeq(@, n + 1, Len(@))] /\ UNCHANGED taken
             /\ Goon
        \/ data = <<>> /\ handle_error(p, "in") /\ UNCHANGED <<taken, link>>
  /\ UNCHANGED <<kind, ready, shown, emu, notice, stopped, written, conns>>

Written(q, n) ==
  [q EXCEPT !.buf = SubSeq(@, n + 1, Len(@)), !.ofs = IF n = Len(q.buf) THEN 0 ELSE @ + n]

write(p) ==
  /\ sqpc = Writes[p]
  /\ \/ \E n \in 1 .. Len(pipes[p].buf) :
          LET data == SubSeq(pipes[p].buf, 1, n)
          IN /\ p = 0 => link.open
             /\ IF p = 1 THEN shown' = shown \o data /\ UNCHANGED link
                ELSE link' = [link EXCEPT !.down = @ \o data] /\ UNCHANGED shown
             /\ pipes' = [pipes EXCEPT ![p] = Written(@, n)] /\ Goon
     \/ p = 0 /\ ~link.open /\ handle_error(p, "out") /\ UNCHANGED <<shown, link>>
  /\ UNCHANGED <<kind, ready, taken, emu, notice, stopped, written, conns>>

\* After SIGCHLD: standard output blocks again, and what the buffer and the link hold is
\* written, until the link has no more at that moment.
final ==
  /\ sqpc = "final"
  /\ shown' = shown \o pipes[1].buf
  /\ LET data == IF pipes[1].in = "none" THEN <<>> ELSE link.up
         n == IF Len(data) <= BUFSIZ THEN Len(data) ELSE BUFSIZ
     IN /\ pipes' = [pipes EXCEPT ![1] = [@ EXCEPT !.buf = SubSeq(data, 1, n), !.ofs = 0]]
        /\ link' = [link EXCEPT !.up = SubSeq(@, n + 1, Len(@))]
        /\ sqpc' = IF n = 0 THEN "done" ELSE "final"
  /\ UNCHANGED <<kind, ready, taken, emu, notice, stopped, written, conns>>

\* squish-pty ends as the child did, if waitpid (WNOHANG) finds it dead.
main_ends ==
  /\ sqpc = "done" /\ sqpc' = IF kind = "pty" /\ emu = "dead" THEN "like_child" ELSE "zero"
  /\ UNCHANGED <<kind, pipes, ready, taken, shown, link, emu, notice, stopped, written, conns>>

SqNext ==
  \/ main_pty \/ main_unix \/ main_ends
  \/ Write \/ Reset \/ Close \/ sigchld_handler
  \/ accept \/ accept_interrupted \/ select \/ final
  \/ \E p \in 0 .. 1 : read(p) \/ write(p)

SqSpec == SqInit /\ [][SqNext]_sqvars

-----------------------------------------------------------------------------
(* Properties *)

Over == {"done"} \cup RelayEnded

\* Nothing is lost, doubled or reordered between the emulator and standard output of
\* squish-pty, and when it ends everything the emulator wrote was shown: unless the emulator
\* was stopped, which ends relay while it lives and may write on.
ConsoleComplete ==
  kind = "pty" =>
    /\ shown \o pipes[1].buf \o link.up = [i \in 1 .. written |-> i]
    /\ sqpc \in Over => Len(shown) = written \/ stopped

\* The emulator reads the beginning of standard input, from its start on every connection,
\* and nothing before it has written something itself.
InputOnceAsked ==
  /\ (sqpc \notin {"accept"} \cup Over /\ pipes[0].out # "none")
       => link.down \o pipes[0].buf = SubSeq(StdIn, 1, taken)
  /\ link.down # <<>> => pipes[1].active

\* The child's death is never missed: whoever waits with the child dead has its notice, and
\* squish-pty leaves out the child's status only when the terminal was closed before, or
\* when the child was stopped and not dead.
DeathNoticed ==
  /\ emu = "dead" /\ sqpc \in {"select", "accept"} => notice \/ LoopEnds
  /\ kind = "pty" /\ sqpc = "zero" => pipes[1].in = "none" \/ stopped

\* Output, input and the end of the emulator come through, whenever it dies; of an emulator
\* that is stopped on the way, what it wrote before relay ended
\* (squish-pty.c, squish-unix.c).
RelayFaithful == ConsoleComplete /\ InputOnceAsked /\ DeathNoticed

=============================================================================
