------------------------------- MODULE Console -------------------------------
(***************************************************************************)
(* The kernel's console (lib/kernel/console.c) over the serial port        *)
(* (devices/serial.c), its transmit queue and the input buffer             *)
(* (devices/intq.c, input.c).  Threads print strings and read keys,        *)
(* interrupt handlers print and store keys.  What runs with interrupts off *)
(* is one step, up to where the thread blocks.                             *)
(***************************************************************************)
EXTENDS Integers, Sequences, FiniteSets

CONSTANTS Writers, Readers, \* threads that print, threads that read keys
          TxRoom, RxRoom,   \* INTQ_BUFSIZE - 1, for the two queues
          Lengths,          \* lengths of the strings printed
          MaxDepth,         \* bound: printf inside printf
          MaxOut,           \* bound: characters printed
          MaxKeys           \* bound: keys pressed or received

Nobody == "nobody"

ASSUME CoAssumption ==
  /\ {TxRoom, RxRoom} \subseteq Nat \ {0} /\ {MaxDepth, MaxOut, MaxKeys} \subseteq Nat
  /\ Lengths \subseteq Nat \ {0}
  /\ Writers # {} /\ Writers \cap Readers = {} /\ Nobody \notin Writers \cup Readers

VARIABLES mode,          \* "UNINIT", "POLL", "QUEUE"; "SWITCH": QUEUE, before write_ier
          txq, rxq,      \* struct intq: [buf, lock, not_full, not_empty]
          console_lock,  \* its holder and console_lock_depth
          left,          \* per writer: what is left to print, innermost first
          waits,         \* per thread: "no", "lock", "blocked" or "woken"
          ier,           \* the UART: interrupts enabled,
          thr, rbr,      \* transmitter busy, byte received,
          sent,          \* characters on the wire, numbered as printed
          put,           \* how many were handed to serial_putc
          keys,          \* how many keys arrived
          asserted       \* an ASSERT failed

CoVars == <<mode, txq, rxq, console_lock, left, waits, ier, thr, rbr, sent, put, keys, asserted>>

initial_thread == CHOOSE w \in Writers : TRUE   \* the thread that boots, alone until QUEUE
Empty == [buf |-> <<>>, lock |-> Nobody, not_full |-> Nobody, not_empty |-> Nobody]

\* After console_init; the first character printed calls init_poll.
CoInit ==
  /\ mode = "UNINIT" /\ txq = Empty /\ rxq = Empty /\ console_lock = [holder |-> Nobody, depth |-> 0]
  /\ left = [w \in Writers |-> <<>>] /\ waits = [t \in Writers \cup Readers |-> "no"]
  /\ ier = {} /\ thr = FALSE /\ rbr = 0 /\ sent = <<>> /\ put = 0
  /\ keys = 0 /\ asserted = FALSE

-----------------------------------------------------------------------------
intq_empty(q) == q.buf = <<>>
intq_full(q, room) == Len(q.buf) = room

write_ier(tx, rx) ==
  ier' = (IF intq_empty(tx) THEN {} ELSE {"xmit"}) \cup (IF intq_full(rx, RxRoom) THEN {} ELSE {"recv"})

\* serial_notify, for the input buffer.
serial_notify(rx) == IF mode \in {"SWITCH", "QUEUE"} THEN write_ier(txq, rx) ELSE UNCHANGED ier

\* mistake: nobody is woken
WokenNot(q, who) == waits

\* signal: who waits is woken.
Woken(q, who) == IF q[who] = Nobody THEN waits ELSE [waits EXCEPT ![q[who]] = "woken"]

\* intq_getc of a queue that is not empty, and intq_putc of one that is not full
\* (with Woken (q, "not_full") and Woken (q, "not_empty")).
intq_getc(q) == [q EXCEPT !.buf = Tail(@), !.not_full = Nobody]
intq_putc(q, byte) == [q EXCEPT !.buf = Append(@, byte), !.not_empty = Nobody]

-----------------------------------------------------------------------------
\* A thread in input_getc.  It takes a key, or waits under the queue's lock; the
\* lock may be another reader's.
TakeKey(r) ==
  waits' = [Woken(rxq, "not_full") EXCEPT ![r] = "no"]

input_getc(r) ==
  /\ mode = "QUEUE" /\ waits[r] = "no"
  /\ IF ~intq_empty(rxq) THEN TakeKey(r) /\ rxq' = intq_getc(rxq) /\ serial_notify(rxq')
     ELSE /\ \/ /\ rxq.lock = Nobody /\ rxq' = [rxq EXCEPT !.lock = r, !.not_empty = r]
                /\ waits' = [waits EXCEPT ![r] = "blocked"]
             \/ rxq.lock # Nobody /\ waits' = [waits EXCEPT ![r] = "lock"] /\ UNCHANGED rxq
          /\ UNCHANGED ier
  /\ UNCHANGED <<mode, txq, console_lock, left, thr, rbr, sent, put, keys, asserted>>

\* lock_acquire returns, then wait's ASSERT that the queue is (still) empty.
input_lock(r) ==
  /\ waits[r] = "lock" /\ rxq.lock = Nobody
  /\ rxq' = [rxq EXCEPT !.lock = r, !.not_empty = r]
  /\ waits' = [waits EXCEPT ![r] = "blocked"] /\ asserted' = (asserted \/ ~intq_empty(rxq))
  /\ UNCHANGED <<mode, txq, console_lock, left, ier, thr, rbr, sent, put, keys>>

\* It runs again: lock_release, and the loop's test.
input_woken(r) ==
  /\ waits[r] = "woken"
  /\ IF intq_empty(rxq)
     THEN /\ rxq' = [rxq EXCEPT !.not_empty = r] /\ waits' = [waits EXCEPT ![r] = "blocked"]
          /\ UNCHANGED ier
     ELSE TakeKey(r) /\ rxq' = [intq_getc(rxq) EXCEPT !.lock = Nobody] /\ serial_notify(rxq')
  /\ UNCHANGED <<mode, txq, console_lock, left, thr, rbr, sent, put, keys, asserted>>

\* keyboard_interrupt stores a key unless the buffer is full.
keyboard_interrupt ==
  /\ keys < MaxKeys /\ keys' = keys + 1
  /\ IF intq_full(rxq, RxRoom) THEN UNCHANGED <<rxq, waits, ier>>
     ELSE rxq' = intq_putc(rxq, 1) /\ waits' = Woken(rxq, "not_empty") /\ serial_notify(rxq')
  /\ UNCHANGED <<mode, txq, console_lock, left, thr, rbr, sent, put, asserted>>

-----------------------------------------------------------------------------
release_console(w) ==
  console_lock' = IF console_lock.depth > 0 THEN [console_lock EXCEPT !.depth = @ - 1]
                  ELSE [console_lock EXCEPT !.holder = Nobody]

\* puts, putbuf, putchar, vprintf: acquire_console, then a character at a time.
\* A thread that holds the lock may get here again.
acquire_console(w) ==
  /\ mode = "QUEUE" \/ (mode # "SWITCH" /\ w = initial_thread)
  /\ waits[w] = "no" /\ Len(left[w]) < MaxDepth
  /\ \/ /\ console_lock.holder = w /\ console_lock' = [console_lock EXCEPT !.depth = @ + 1]
     \/ /\ console_lock.holder = Nobody /\ console_lock' = [console_lock EXCEPT !.holder = w]
  /\ \E n \in Lengths : /\ put + n <= MaxOut /\ left' = [left EXCEPT ![w] = <<n>> \o @]
  /\ UNCHANGED <<mode, txq, rxq, waits, ier, thr, rbr, sent, put, keys, asserted>>

print_done(w) ==
  /\ waits[w] = "no" /\ left[w] # <<>> /\ Head(left[w]) = 0
  /\ left' = [left EXCEPT ![w] = Tail(@)] /\ release_console(w)
  /\ UNCHANGED <<mode, txq, rxq, waits, ier, thr, rbr, sent, put, keys, asserted>>

-----------------------------------------------------------------------------
\* The UART takes a character that is polled out when it is ready.
putc_poll(byte) == ~thr /\ thr' = TRUE /\ sent' = Append(sent, byte)

init_poll == mode' = IF mode = "UNINIT" THEN "POLL" ELSE mode

\* The queue is in use before the interrupts are turned on.
serial_init_queue ==
  \/ /\ mode \in {"UNINIT", "POLL"} /\ left[initial_thread] = <<>> /\ mode' = "SWITCH"
     /\ UNCHANGED <<txq, rxq, console_lock, left, waits, ier, thr, rbr, sent, put, keys, asserted>>
  \/ /\ mode = "SWITCH" /\ mode' = "QUEUE" /\ write_ier(txq, rxq)
     /\ UNCHANGED <<txq, rxq, console_lock, left, waits, thr, rbr, sent, put, keys, asserted>>

\* serial_putc by a thread, with interrupts on before: a full queue is waited
\* for, under its lock, which no other thread wants (they have not the console's).
serial_putc(w) ==
  /\ waits[w] \in {"no", "woken"} /\ left[w] # <<>> /\ Head(left[w]) > 0
  /\ \/ /\ mode \in {"UNINIT", "POLL"} /\ init_poll
        /\ put' = put + 1 /\ putc_poll(put') /\ left' = [left EXCEPT ![w][1] = @ - 1]
        /\ UNCHANGED <<txq, waits, ier>>
     \/ /\ mode = "QUEUE" /\ intq_full(txq, TxRoom) /\ txq' = [txq EXCEPT !.lock = w, !.not_full = w]
        /\ waits' = [waits EXCEPT ![w] = "blocked"]
        /\ UNCHANGED <<left, put, ier, mode, thr, sent>>
     \/ /\ mode = "QUEUE" /\ ~intq_full(txq, TxRoom)
        /\ put' = put + 1 /\ txq' = [intq_putc(txq, put') EXCEPT !.lock = Nobody]
        /\ waits' = [Woken(txq, "not_empty") EXCEPT ![w] = "no"]
        /\ left' = [left EXCEPT ![w][1] = @ - 1]
        /\ write_ier(txq', rxq) /\ UNCHANGED <<mode, thr, sent>>
  /\ UNCHANGED <<rxq, console_lock, rbr, keys, asserted>>

\* serial_putc with interrupts off, by a handler: a full queue makes room by
\* polling its first character out.
serial_putc_off ==
  /\ mode \in {"SWITCH", "QUEUE"} /\ put < MaxOut /\ put' = put + 1
  /\ IF intq_full(txq, TxRoom)
     THEN /\ putc_poll(Head(txq.buf))
          /\ waits' = Woken(txq, "not_full")
          /\ txq' = intq_putc(intq_getc(txq), put')
     ELSE /\ txq' = intq_putc(txq, put') /\ waits' = Woken(txq, "not_empty")
          /\ UNCHANGED <<sent, thr>>
  /\ write_ier(txq', rxq)
  /\ UNCHANGED <<mode, rxq, console_lock, left, rbr, keys, asserted>>

\* serial_flush polls the whole queue out, and leaves the interrupts as they are.
serial_flush ==
  /\ ~intq_empty(txq) /\ ~thr /\ thr' = TRUE
  /\ sent' = sent \o txq.buf /\ txq' = [txq EXCEPT !.buf = <<>>, !.not_full = Nobody]
  /\ waits' = Woken(txq, "not_full")
  /\ UNCHANGED <<mode, rxq, console_lock, left, ier, rbr, put, keys, asserted>>

\* serial_interrupt: receive while there is room, transmit while the hardware
\* takes a character.
serial_interrupt ==
  LET receive == rbr # 0 /\ ~intq_full(rxq, RxRoom)
      send == ~intq_empty(txq) /\ ~thr
      woken1 == IF receive THEN Woken(rxq, "not_empty") ELSE waits
  IN /\ ("recv" \in ier /\ rbr # 0) \/ ("xmit" \in ier /\ ~thr)
     /\ rxq' = IF receive THEN intq_putc(rxq, rbr) ELSE rxq
     /\ rbr' = IF receive THEN 0 ELSE rbr
     /\ txq' = IF send THEN intq_getc(txq) ELSE txq
     /\ sent' = IF send THEN Append(sent, Head(txq.buf)) ELSE sent
     /\ thr' = (thr \/ send)
     /\ waits' = IF send /\ txq.not_full # Nobody THEN [woken1 EXCEPT ![txq.not_full] = "woken"] ELSE woken1
     /\ write_ier(txq', rxq')
     /\ UNCHANGED <<mode, console_lock, left, put, keys, asserted>>

\* The UART (external): a character leaves, a character comes in.
Transmitted == thr /\ thr' = FALSE
               /\ UNCHANGED <<mode, txq, rxq, console_lock, left, waits, ier, rbr, sent, put, keys, asserted>>
Received == /\ rbr = 0 /\ keys < MaxKeys /\ keys' = keys + 1 /\ rbr' = 1
            /\ UNCHANGED <<mode, txq, rxq, console_lock, left, waits, ier, thr, sent, put, asserted>>

WriterStep(w) == acquire_console(w) \/ serial_putc(w) \/ print_done(w)
ReaderStep(r) == input_getc(r) \/ input_lock(r) \/ input_woken(r)

CoNext ==
  /\ ~asserted
  /\ \/ \E w \in Writers : WriterStep(w)
     \/ \E r \in Readers : ReaderStep(r)
     \/ keyboard_interrupt \/ serial_init_queue \/ serial_putc_off \/ serial_flush \/ serial_interrupt
     \/ Transmitted \/ Received

CoSpec == CoInit /\ [][CoNext]_CoVars

-----------------------------------------------------------------------------
\* What goes out on the wire is what was printed, in that order, whether it
\* went by polling before the queue was set up, by the queue, by polling from
\* a handler or by the last flush.
SerialInOrder == sent \o txq.buf = [i \in 1 .. put |-> i]

\* The strings of two threads are not mixed: from a thread's first character
\* to its last, only handlers print in between.
LinesWhole ==
  \A w, v \in Writers : w # v /\ left[w] # <<>> => left[v] = <<>>

\* No interrupt is missed once the queue is in use: while a character is to be
\* sent the transmit interrupt is on, and the receive interrupt is on exactly
\* while there is room, whoever filled or emptied the queues last.
InterruptsArmed == mode = "QUEUE" =>
  /\ ~intq_empty(txq) => "xmit" \in ier
  /\ "recv" \in ier <=> ~intq_full(rxq, RxRoom)

\* No thread sleeps on a queue that has what it waits for.
NoSleeperForgotten == ~asserted =>
  /\ \A r \in Readers : waits[r] = "blocked" => rxq.not_empty = r /\ intq_empty(rxq)
  /\ \A w \in Writers : waits[w] = "blocked" => txq.not_full = w /\ intq_full(txq, TxRoom)

\* Output leaves in order and unmixed, and nobody sleeps on a queue that has
\* what it waits for (console.c, serial.c, intq.c).
ConsoleSound == SerialInOrder /\ LinesWhole /\ InterruptsArmed /\ NoSleeperForgotten

==============================================================================
