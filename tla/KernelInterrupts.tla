--------------------------- MODULE KernelInterrupts ---------------------------
(***************************************************************************)
(* Interrupt dispatch of the Pintos kernel: threads/interrupt.c with the   *)
(* gates that userprog/exception.c, userprog/syscall.c and                 *)
(* userprog/slowdown.c register.  One CPU runs the threads; a thread is a  *)
(* stack of interrupt frames over its user code (the idle thread: over     *)
(* its kernel loop).  The devices raise their lines at any time, the two   *)
(* 8259A controllers and the gates of the CPU are modelled from how        *)
(* interrupt.c programs them.                                              *)
(***************************************************************************)
EXTENDS Naturals, Sequences, FiniteSets

CONSTANTS IThreads,   \* the threads
          IIdle,      \* the idle thread, one of IThreads
          Lines       \* lines that devices raise, as vectors 0x20..0x2f

ASSUME InterruptAssumption == IIdle \in IThreads /\ Lines \subseteq 32..47

VARIABLES core,       \* [on: Thread, if, tf: flags IF and TF, cr2: Thread]
          stacks,    \* thread -> its interrupt frames, innermost last
          level,     \* thread -> IF that intr_set_level restores on resumption
          idt,       \* vector -> its gate and handler
          ext,       \* [in: in_external_intr, yield: yield_on_return]
          pic,       \* [pending: vectors, master, slave: levels in service]
          fault,     \* thread -> what page_fault read from CR2
          failed     \* a kernel assertion has failed

kiVars == <<core, stacks, level, idt, ext, pic, fault, failed>>

NoThread == "nobody"
Syscall == 48
External(v) == v >= 32 /\ v < 48

---------------------------------------------------------------------------
(* Registration.  An interrupt gate (INTR_OFF) clears IF on entry, a trap  *)
(* gate does not.                                                          *)
make_gate(dpl, lvl, handler) == [dpl |-> dpl, off |-> lvl = "INTR_OFF",
                                 handler |-> handler]

(* intr_init: an interrupt gate without handler for every vector. *)
intr_init == [v \in {1, 3, 13, 14, Syscall} \cup (32..47) |->
                 make_gate(0, "INTR_OFF", "NULL")]

register_handler(t, v, dpl, lvl, h) == [t EXCEPT ![v] = make_gate(dpl, lvl, h)]

intr_register_ext(t, v, h) == register_handler(t, v, 0, "INTR_OFF", h)
intr_register_int(t, v, dpl, lvl, h) == register_handler(t, v, dpl, lvl, h)

exception_init(t) ==
    intr_register_int(intr_register_int(intr_register_int(intr_register_int(t,
        3, 3, "INTR_ON", "kill"), 1, 0, "INTR_ON", "kill"),
        13, 0, "INTR_ON", "kill"), 14, 0, "INTR_OFF", "page_fault")

syscall_init(t) == intr_register_int(t, Syscall, 3, "INTR_ON", "syscall_handler")

(* slowdown_init: vector 1 cleared and registered anew, the system call    *)
(* handler bypassed; the gate of the system call stays as it was.          *)
intr_bypass_int(t, v, handler) == [t EXCEPT ![v].handler = handler]
slowdown_init(t) ==
    intr_bypass_int(intr_register_int(t, 1, 0, "INTR_OFF", "trap_interrupt"),
                    Syscall, "trap_syscall")

(* Up to thread_start, the table that main sets up (with -S or without).   *)
BootTables == LET t == syscall_init(exception_init(intr_register_ext(
                       intr_register_ext(intr_init, 32, "timer"), 33, "kbd")))
          IN  {t, slowdown_init(t)}

KiInit == /\ core = [on |-> IIdle, if |-> TRUE, tf |-> FALSE, cr2 |-> NoThread]
          /\ stacks = [t \in IThreads |-> <<>>]
          /\ level = [t \in IThreads |-> TRUE]
          /\ idt \in BootTables
          /\ ext = [in |-> FALSE, yield |-> FALSE]
          /\ pic = [pending |-> {}, master |-> {}, slave |-> {}]
          /\ fault = [t \in IThreads |-> t]
          /\ failed = FALSE

(* serial_init_queue and ide_init register with the interrupts on already. *)
RegisterLate == \E v \in {36, 46} \cap Lines :
    /\ idt[v].handler = "NULL"
    /\ idt' = intr_register_ext(idt, v, "device")
    /\ UNCHANGED <<core, stacks, level, ext, pic, fault, failed>>

---------------------------------------------------------------------------
(* The controllers.  The slave is cascaded on line 2 of the master; an     *)
(* interrupt in service holds back those of its own and lower priority.    *)
MasterLevel(v) == IF v < 40 THEN v - 32 ELSE 2
Presentable(v) ==
    /\ \A s \in pic.master : MasterLevel(v) < s
    /\ v >= 40 => \A s \in pic.slave : v - 40 < s

(* pic_end_of_interrupt: a non-specific EOI ends the highest in service.   *)
Ended(service) == service \ {CHOOSE s \in service : \A r \in service : s <= r}
EndIf(service) == IF service = {} THEN {} ELSE Ended(service)

(* A mistake: the slave controller is not told. *)
pic_end_of_interruptMaster(v) == [pic EXCEPT !.master = EndIf(@)]

pic_end_of_interrupt(v) ==
    [pic EXCEPT !.master = EndIf(@), !.slave = IF v >= 40 THEN EndIf(@) ELSE @]

Raise == \E v \in Lines : /\ v \notin pic.pending
                          /\ pic' = [pic EXCEPT !.pending = @ \cup {v}]
                          /\ UNCHANGED <<core, stacks, level, idt, ext, fault, failed>>

---------------------------------------------------------------------------
me == core.on
Top(t) == stacks[t][Len(stacks[t])]

(* The CPU enters vector v: flags saved in the frame, TF cleared, IF by    *)
(* the kind of gate.                                                       *)
Enter(v, at) ==
    /\ stacks' = [stacks EXCEPT ![me] = Append(@, [vec |-> v, if |-> core.if,
                                                    tf |-> core.tf, at |-> at])]
    /\ core' = [core EXCEPT !.if = @ /\ ~idt[v].off, !.tf = FALSE,
                          !.cr2 = IF v = 14 THEN me ELSE @]

(* intr_handler up to the handler, for an interrupt of the controller. *)
EnterExternal(v) ==
    /\ Enter(v, "handler")
    /\ failed' = (core'.if \/ ext.in)
    /\ ext' = [in |-> TRUE, yield |-> FALSE]

Deliver == \E v \in pic.pending :
    /\ core.if /\ ~failed /\ Presentable(v)
    /\ pic' = [pic EXCEPT !.pending = @ \ {v}, !.master = @ \cup {MasterLevel(v)},
                          !.slave = IF v >= 40 THEN @ \cup {v - 40} ELSE @]
    /\ EnterExternal(v)
    /\ UNCHANGED <<level, idt, fault>>

(* A line that drops before it is acknowledged: vector 0x27, and nothing   *)
(* comes into service.                                                     *)
Spurious == /\ core.if /\ ~failed /\ pic.master = {}
            /\ EnterExternal(39)
            /\ UNCHANGED <<level, idt, pic, fault>>

---------------------------------------------------------------------------
(* schedule and switch_threads: EFLAGS is not switched; the thread that    *)
(* comes back restores the level it had saved (a new one enables).         *)
Switch(t, back) == /\ level' = back
                   /\ core' = [core EXCEPT !.on = t, !.if = back[t]]

(* The body of an external handler.  The level it may have lowered *)
(* (sema_up) is back when it returns; the timer may ask for a yield; a     *)
(* vector without handler is counted and ignored.                          *)
ExternalBody ==
    LET f == Top(me) IN
    /\ ~failed /\ stacks[me] # <<>> /\ f.at = "handler" /\ External(f.vec)
    /\ failed' = (core.if \/ ~ext.in)
    /\ \E y \in IF idt[f.vec].handler = "timer" THEN BOOLEAN ELSE {FALSE} :
           ext' = [ext EXCEPT !.yield = y]
    /\ stacks' = [stacks EXCEPT ![me][Len(stacks[me])].at = "handled"]
    /\ UNCHANGED <<core, level, idt, pic, fault>>

Leave(f) == /\ stacks' = [stacks EXCEPT ![me] = SubSeq(@, 1, Len(@) - 1)]
            /\ core' = [core EXCEPT !.if = f.if, !.tf = f.tf]

(* The rest of intr_handler: EOI, then thread_yield if it was asked for.   *)
ExternalEnd ==
    LET f == Top(me) IN
    /\ ~failed /\ stacks[me] # <<>> /\ f.at = "handled"
    /\ ext' = [ext EXCEPT !.in = FALSE]
    /\ pic' = pic_end_of_interrupt(f.vec)
    /\ stacks' = [stacks EXCEPT ![me][Len(stacks[me])].at = "exit"]
    /\ \/ ~ext.yield /\ UNCHANGED <<core, level>>
       \/ ext.yield /\ \E t \in IThreads : Switch(t, [level EXCEPT ![me] = core.if])
    /\ UNCHANGED <<idt, fault, failed>>

(* intr_exit: iret restores the flags of the frame. *)
Iret == /\ ~failed /\ stacks[me] # <<>> /\ Top(me).at = "exit"
        /\ Leave(Top(me))
        /\ UNCHANGED <<level, idt, ext, pic, fault, failed>>

---------------------------------------------------------------------------
(* User code: a system call, an exception, a page fault, or INT with a     *)
(* vector its gate does not let user code invoke (general protection).     *)
UserTrap ==
    /\ ~failed /\ me # IIdle /\ stacks[me] = <<>>
    /\ \E v \in {1, 3, 14, Syscall} : \E asked \in BOOLEAN :
           LET w == IF asked /\ idt[v].dpl < 3 THEN 13 ELSE v
           IN  Enter(w, idt[w].handler)
    /\ UNCHANGED <<level, idt, ext, pic, fault, failed>>

slowdown_disable == [core EXCEPT !.tf = FALSE]

(* trap_interrupt returns at once; syscall_handler ends, with TF set       *)
(* around it by trap_syscall.                                              *)
TrapReturns ==
    /\ ~failed /\ stacks[me] # <<>>
    /\ Top(me).at \in {"trap_interrupt", "syscall_handler", "in_syscall"}
    /\ stacks' = [stacks EXCEPT ![me][Len(stacks[me])].at = "exit"]
    /\ core' = slowdown_disable
    /\ UNCHANGED <<level, idt, ext, pic, fault, failed>>

slowdown_enable ==
    /\ ~failed /\ stacks[me] # <<>> /\ Top(me).at = "trap_syscall"
    /\ stacks' = [stacks EXCEPT ![me][Len(stacks[me])].at = "in_syscall"]
    /\ core' = [core EXCEPT !.tf = TRUE]
    /\ UNCHANGED <<level, idt, ext, pic, fault, failed>>

(* A system call that blocks: sema_down, with the level saved; whoever is  *)
(* ready runs next, and that may be the same thread later.                 *)
SyscallBlocks ==
    /\ ~failed /\ stacks[me] # <<>> /\ Top(me).at \in {"syscall_handler", "in_syscall"}
    /\ \E t \in IThreads \ {me} : Switch(t, [level EXCEPT ![me] = core.if])
    /\ UNCHANGED <<stacks, idt, ext, pic, fault, failed>>

(* page_fault: CR2 is read, then the interrupts come back on; a fault of   *)
(* user code ends the process.                                             *)
page_fault ==
    /\ ~failed /\ stacks[me] # <<>> /\ Top(me).at = "page_fault"
    /\ fault' = [fault EXCEPT ![me] = core.cr2]
    /\ core' = [core EXCEPT !.if = TRUE]
    /\ failed' = ext.in
    /\ stacks' = [stacks EXCEPT ![me][Len(stacks[me])].at = "kill"]
    /\ UNCHANGED <<level, idt, ext, pic>>

(* kill and thread_exit: the thread is gone and the next one resumes.  Its *)
(* place is taken by a process that starts: kernel_thread enables.         *)
kill == /\ ~failed /\ stacks[me] # <<>> /\ Top(me).at = "kill"
        /\ stacks' = [stacks EXCEPT ![me] = <<>>]
        /\ fault' = [fault EXCEPT ![me] = me]
        /\ \E t \in IThreads \ {me} : Switch(t, [level EXCEPT ![me] = TRUE])
        /\ UNCHANGED <<idt, ext, pic, failed>>

(* The idle thread blocks with the interrupts off until there is something *)
(* to run, then sti; hlt.                                                  *)
idle == /\ ~failed /\ me = IIdle /\ stacks[me] = <<>>
        /\ \E t \in IThreads \ {me} : Switch(t, [level EXCEPT ![me] = TRUE])
        /\ UNCHANGED <<stacks, idt, ext, pic, fault, failed>>

KiNext == \/ RegisterLate \/ Raise \/ Deliver \/ Spurious \/ ExternalBody
          \/ ExternalEnd \/ Iret \/ UserTrap \/ TrapReturns \/ slowdown_enable
          \/ SyscallBlocks \/ page_fault \/ kill \/ idle

KiSpec == KiInit /\ [][KiNext]_kiVars

---------------------------------------------------------------------------
(* External interrupts never nest and never run with interrupts on: the    *)
(* assertions of intr_handler, intr_enable and intr_yield_on_return hold   *)
(* in every interleaving of devices, traps and thread switches.            *)
HandlersAssert == ~failed

(* Outside an external handler neither controller holds an interrupt in    *)
(* service, so that no device is shut out, whatever thread is switched to: *)
(* each interrupt is acknowledged, on both controllers, before the yield.  *)
NoLineShutOut == ~ext.in => pic.master = {} /\ pic.slave = {}

(* A process that faults is told its own fault address: no other thread    *)
(* faults between the fault and the reading of CR2.                        *)
FaultAddressOwn == \A t \in IThreads : fault[t] = t

(* User code and system calls run with the interrupts on, through any      *)
(* number of nested interrupts and switches: every thread comes back at    *)
(* the level it left.                                                      *)
LevelsRestored ==
    \/ core.if
    \/ stacks[me] # <<>> /\ Top(me).at \notin {"syscall_handler", "trap_syscall",
                                               "in_syscall", "kill"}

=============================================================================
