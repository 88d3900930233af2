------------------------------ MODULE KernelBoot ------------------------------
(***************************************************************************)
(* The life of the Pintos machine from main to power-off: the kernel       *)
(* command line, the order in which main brings the subsystems up          *)
(* (threads/init.c; the file system's own steps: filesys/filesys.c and     *)
(* filesys/free-map.c), the actions it runs, the ways to stop              *)
(* (devices/shutdown.c) and a kernel panic (lib/kernel/debug.c), which may *)
(* strike any thread or interrupt handler and which itself goes through    *)
(* shutdown.  What the subsystems and the actions do is in their own       *)
(* modules.                                                                *)
(***************************************************************************)
EXTENDS Naturals, Sequences

CONSTANTS CommandLines,  \* sequences of words: [name, value]
          BootDisks,         \* names of the block devices found
          MaxPanics      \* bound on the nesting of panics

NULL == "NULL"

ASSUME BtAssumption == CommandLines \subseteq Seq([name : STRING, value : STRING])

VARIABLES boot,   \* [at: what comes next, up: subsystems up, context: of a panic]
          opts,   \* [how, slow, format, roles]: what parse_options sets
          line,   \* the command line
          argv,   \* what is left of it
          ran,    \* the actions run, with their arguments
          panics, \* level of debug_panic; 0: no panic
          free_map_file, \* the pointer: NULL, "open", or to a file that was "freed"
          inode_list, \* who holds the inode list lock: "free", "mine", "other"
          machine \* "on", "off", "rebooted", "hung"

btVars == <<boot, opts, line, argv, ran, panics, free_map_file, inode_list, machine>>

---------------------------------------------------------------------------
(* main, in order; the steps of filesys_init are given one by one.  With   *)
(* -f, do_format creates the free map's file, writes it, makes the root    *)
(* directory and closes the file; the pointer to it stays.                 *)
InitOrder == <<"thread_init", "console_init", "palloc_init", "malloc_init",
    "paging_init", "tss_init", "gdt_init", "intr_init", "timer_init",
    "kbd_init", "input_init", "exception_init", "syscall_init",
    "slowdown_init", "thread_start", "serial_init_queue", "timer_calibrate",
    "ide_init", "locate_block_devices", "inode_init", "free_map_init",
    "free_map_create", "bitmap_write", "dir_create", "free_map_close",
    "free_map_open", "bitmap_read">>
do_format == {"free_map_create", "bitmap_write", "dir_create", "free_map_close"}
filesys_init == {"inode_init", "free_map_init", "free_map_open", "bitmap_read"} \cup do_format

(* What a step asserts or uses: a page (palloc), a block (malloc), the TSS *)
(* (gdt_init), the descriptor table, the handlers slowdown_init takes      *)
(* over, the handlers that run from thread_start on, interrupts that are   *)
(* on and a scheduler that can block (calibration, the disks), the disks.  *)
Needs == [s \in {InitOrder[i] : i \in DOMAIN InitOrder} |->
    CASE s = "console_init" -> {"thread_init"}
      [] s \in {"paging_init", "tss_init"} -> {"palloc_init"}
      [] s = "gdt_init" -> {"tss_init"}
      [] s \in {"timer_init", "kbd_init", "exception_init", "syscall_init"} -> {"intr_init"}
      [] s = "slowdown_init" -> {"exception_init", "syscall_init"}
      [] s = "thread_start" -> {"thread_init", "paging_init", "timer_init",
                                "kbd_init", "input_init", "exception_init"}
      [] s = "serial_init_queue" -> {"intr_init", "console_init"}
      [] s = "timer_calibrate" -> {"thread_start", "timer_init"}
      [] s = "ide_init" -> {"thread_start", "malloc_init", "timer_calibrate"}
      [] s = "locate_block_devices" -> {"ide_init"}
      [] s = "free_map_init" -> {"locate_block_devices", "malloc_init"}
      [] s \in do_format \cup {"free_map_open", "bitmap_read"} ->
           {"locate_block_devices", "malloc_init", "inode_init", "free_map_init"}
      [] OTHER -> {}]

(* run_actions: the table of actions and their argument counts. *)
Argc == [run |-> 2, ls |-> 1, cat |-> 2, rm |-> 2, extract |-> 1, append |-> 2]
Valued == {"-F", "-rs", "-ul", "-fl", "-tcl"}
Runnable(words) == /\ words # <<>>
                   /\ words[1].name \in DOMAIN Argc
                   /\ Len(words) >= Argc[words[1].name]
IsOption(w) == w.name \in Valued \cup {"-h", "-q", "-r", "-S", "-f", "-filesys",
                                       "-scratch", "-mlfqs", "-x"}

BtInit == /\ boot = [at |-> "parse_options", up |-> {}, context |-> "thread"]
          /\ opts = [how |-> "none", slow |-> FALSE, format |-> FALSE,
                     roles |-> [filesys |-> NULL, scratch |-> NULL]]
          /\ line \in CommandLines /\ argv = line
          /\ ran = <<>> /\ panics = 0 /\ free_map_file = NULL /\ inode_list = "free"
          /\ machine = "on"

---------------------------------------------------------------------------
Panicking(context) == /\ boot' = [boot EXCEPT !.at = "debug_panic", !.context = context]
                      /\ UNCHANGED <<panics, machine>>

(* shutdown_power_off: filesys_done closes the free map's file once there  *)
(* is one, and that takes the lock of the inode list - an assertion in an  *)
(* interrupt handler or when the thread has it, and a wait when another    *)
(* thread has it.  A file that was freed may hold anything: it is closed   *)
(* again or the kernel faults.  Then the serial queue is flushed and the   *)
(* power goes.                                                             *)
PowerOff(context) ==
    \/ /\ free_map_file # NULL =>
            context = "thread" /\ (inode_list = "free" \/ free_map_file = "freed")
       /\ machine' = "off"
       /\ boot' = [boot EXCEPT !.at = "stopped"]
       /\ UNCHANGED panics
    \/ /\ free_map_file # NULL /\ context = "thread" /\ inode_list = "other"
       /\ boot' = [boot EXCEPT !.at = "waits"]
       /\ UNCHANGED <<panics, machine>>
    \/ /\ free_map_file # NULL
       /\ context = "interrupt" \/ inode_list = "mine" \/ free_map_file = "freed"
       /\ Panicking(context)

shutdown(context) ==
    CASE opts.how = "off" -> PowerOff(context)
      [] opts.how = "reboot" -> /\ machine' = "rebooted"
                                /\ boot' = [boot EXCEPT !.at = "stopped"]
                                /\ UNCHANGED <<panics>>
      [] OTHER -> /\ machine' = IF panics > 0 THEN "hung" ELSE machine
                  /\ boot' = [boot EXCEPT !.at = "stopped"]
                  /\ UNCHANGED <<panics>>

(* debug_panic: counts its level, says so (levels 1 and 2), shuts down. *)
DebugPanic ==
    /\ boot.at = "debug_panic" /\ panics < MaxPanics
    /\ panics' = panics + 1
    /\ boot' = [boot EXCEPT !.at = "shutdown"]
    /\ UNCHANGED <<opts, argv, ran, free_map_file, inode_list, machine>>
PanicShutdown ==
    /\ boot.at = "shutdown" /\ shutdown(boot.context)
    /\ UNCHANGED <<opts, argv, ran, free_map_file, inode_list>>

---------------------------------------------------------------------------
(* parse_options, one word a time; usage() powers the machine off. *)
parse_options ==
    /\ boot.at = "parse_options"
    /\ \/ /\ argv # <<>> /\ IsOption(Head(argv))
          /\ argv' = Tail(argv)
          /\ LET w == Head(argv) IN
             \/ w.name = "-h" /\ PowerOff("thread") /\ UNCHANGED opts
             \/ /\ w.name = "-x" \/ (w.name \in Valued /\ w.value = NULL)
                /\ Panicking("thread") /\ UNCHANGED opts
             \/ /\ w.name # "-h" /\ w.name # "-x" /\ (w.name \in Valued => w.value # NULL)
                /\ opts' = [how |-> CASE w.name = "-q" -> "off"
                                      [] w.name = "-r" -> "reboot"
                                      [] OTHER -> opts.how,
                            slow |-> opts.slow \/ w.name = "-S",
                            format |-> opts.format \/ w.name = "-f",
                            roles |-> [filesys |-> IF w.name = "-filesys" THEN w.value
                                                   ELSE opts.roles.filesys,
                                       scratch |-> IF w.name = "-scratch" THEN w.value
                                                   ELSE opts.roles.scratch]]
                /\ UNCHANGED <<boot, panics, machine>>
       \/ /\ argv # <<>> => ~IsOption(Head(argv))
          /\ boot' = [boot EXCEPT !.at = "init"]
          /\ UNCHANGED <<opts, argv, panics, machine>>
    /\ UNCHANGED <<ran, free_map_file, inode_list>>

(* The steps of main that are left; slowdown_init only with -S, do_format  *)
(* only with -f.                                                           *)
StepsLeft == {i \in DOMAIN InitOrder : /\ InitOrder[i] \notin boot.up
                                       /\ InitOrder[i] = "slowdown_init" => opts.slow
                                       /\ InitOrder[i] \in do_format => opts.format}
FirstLeft == InitOrder[CHOOSE i \in StepsLeft : \A j \in StepsLeft : i <= j]

(* A mistake: the slowed-down system calls installed before there are any. *)
NextStepEarly == IF StepsLeft = {} THEN "run_actions"
                 ELSE IF "intr_init" \in boot.up /\ opts.slow /\ "slowdown_init" \notin boot.up
                 THEN "slowdown_init" ELSE FirstLeft

NextStep == IF StepsLeft = {} THEN "run_actions" ELSE FirstLeft

(* A device named on the command line that was not found.                  *)
DeviceMissing == \E role \in {"filesys", "scratch"} :
                     opts.roles[role] \notin BootDisks \cup {NULL}

(* The steps that open or close the free map's file hold the lock of the   *)
(* inode list for a while, inode_open while it reads the disk.             *)
HoldsList == {"free_map_create", "free_map_close", "free_map_open"}

(* One step of main.  locate_block_device panics when the device named on  *)
(* the command line is not there, filesys_init when there is none, and any *)
(* of its steps when memory or the disk fails; an attempt to open the free *)
(* map that fails leaves the pointer null.                                 *)
InitStep ==
    /\ boot.at = "init"
    /\ \/ /\ NextStep = "locate_block_devices"
          /\ DeviceMissing
          /\ Panicking("thread") /\ UNCHANGED free_map_file
       \/ /\ NextStep \in filesys_init
          /\ Panicking("thread")
          /\ free_map_file' = IF NextStep = "free_map_open" THEN NULL ELSE free_map_file
       \/ /\ NextStep # "run_actions"
          /\ NextStep = "locate_block_devices" => ~DeviceMissing
          /\ NextStep \in filesys_init => BootDisks # {} /\ inode_list = "free"
          /\ boot' = [boot EXCEPT !.up = @ \cup {NextStep}]
          /\ free_map_file' = CASE NextStep \in {"free_map_create", "free_map_open"} -> "open"
                               [] NextStep = "free_map_close" -> "freed"
                               [] OTHER -> free_map_file
          /\ UNCHANGED <<panics, machine>>
       \/ /\ NextStep = "run_actions"
          /\ boot' = [boot EXCEPT !.at = "run_actions"]
          /\ UNCHANGED <<panics, free_map_file, machine>>
    /\ UNCHANGED <<opts, argv, ran, inode_list>>

Advance(words) == SubSeq(words, Argc[words[1].name] + 1, Len(words))

(* run_actions: an unknown action or a missing argument panics, after the  *)
(* actions before it have run; then shutdown and the exit of main.         *)
run_actions ==
    /\ boot.at = "run_actions"
    /\ \/ /\ argv = <<>>
          /\ shutdown("thread")
          /\ UNCHANGED <<argv, ran>>
       \/ /\ argv # <<>> /\ ~Runnable(argv)
          /\ Panicking("thread")
          /\ UNCHANGED <<argv, ran>>
       \/ /\ Runnable(argv)
          /\ ran' = Append(ran, SubSeq(argv, 1, Argc[argv[1].name]))
          /\ argv' = Advance(argv)
          /\ UNCHANGED <<boot, panics, machine>>
    /\ UNCHANGED <<opts, free_map_file, inode_list>>

(* SYS_HALT of a process an action runs. *)
Halt == /\ boot.at = "run_actions" /\ ran # <<>>
        /\ PowerOff("thread")
        /\ UNCHANGED <<opts, argv, ran, free_map_file, inode_list>>

(* Meanwhile threads take and leave the lock of the inode list, and an     *)
(* assertion may fail in a thread or in an interrupt handler.              *)
ListLock == /\ machine = "on"
            /\ \/ boot.at = "run_actions" /\ inode_list' \in {"free", "mine", "other"} \ {inode_list}
               \/ /\ boot.at = "init" /\ NextStep \in HoldsList
                  /\ inode_list' \in {"free", "mine"} \ {inode_list}
            /\ UNCHANGED <<boot, opts, argv, ran, panics, free_map_file, machine>>
Crash == /\ boot.at = "run_actions" \/ (boot.at = "init" /\ "thread_start" \in boot.up)
         /\ \E c \in {"thread", "interrupt"} : Panicking(c)
         /\ UNCHANGED <<opts, argv, ran, free_map_file, inode_list>>

BtNext == /\ \/ parse_options \/ InitStep \/ run_actions \/ Halt \/ ListLock
             \/ Crash \/ DebugPanic \/ PanicShutdown
          /\ UNCHANGED line

BtSpec == BtInit /\ [][BtNext]_btVars

---------------------------------------------------------------------------
(* Every subsystem finds what it uses up already, with -S and without: the *)
(* order of main respects the assertions of the steps.                     *)
BootOrder == boot.at = "init" /\ NextStep # "run_actions" => Needs[NextStep] \subseteq boot.up

(* The actions run are those of the command line after its options, whole  *)
(* and in order, each with its own arguments: no argument is taken for an  *)
(* action, and what main has left to run is the rest of the line.  The     *)
(* i-th action starts at word cut[i].                                      *)
AsGiven(cut) ==
    /\ \A k \in 1..(cut[1] - 1) : IsOption(line[k])
    /\ cut[1] <= Len(line) => ~IsOption(line[cut[1]])
    /\ \A i \in DOMAIN ran : /\ ran[i] = SubSeq(line, cut[i], cut[i + 1] - 1)
                             /\ ran[i][1].name \in DOMAIN Argc
                             /\ cut[i + 1] - cut[i] = Argc[ran[i][1].name]
    /\ argv = SubSeq(line, cut[Len(ran) + 1], Len(line))
ActionsAsGiven ==
    ran # <<>> \/ boot.at \in {"init", "run_actions"} =>
        \E cut \in [1..(Len(ran) + 1) -> 1..(Len(line) + 1)] : AsGiven(cut)

(* A panic stops the machine the configured way, at any point from main's  *)
(* first step on: it never panics again nor waits, unless powering off     *)
(* meets the free map's file, set by then, in an interrupt handler, with   *)
(* the lock of the inode list held, or after do_format has freed the file  *)
(* and before it is opened again.                                          *)
PanicStops ==
    /\ panics > 1 => opts.how = "off"
    /\ panics > 1 \/ boot.at = "waits" =>
          /\ free_map_file # NULL
          /\ boot.context = "interrupt" \/ inode_list # "free" \/ free_map_file = "freed"

\* The machine comes up in an order that works, runs what it was told to, and
\* stops when it panics (init.c, filesys.c, free-map.c, debug.c, shutdown.c).
BootSound == BootOrder /\ ActionsAsGiven /\ PanicStops

=============================================================================
