# Verification of the coding-projects repository

TLA+ models, TLC runs and TLAPS proofs for the repository's C and C++ programs:
the shared-memory transport of `SPSC/`, the kernel and library of `Pintos/`, and
the two microcontrollers of `Lagerrobot/`.

## 1. The repository and what is hard in it

The repository is a collection of independent projects. `PROJECT.json`
("components") lists all of their parts with their status.

**SPSC** is the published part of an out-of-process trading-strategy runtime.

| Part | State | Operations | Hard about it |
|---|---|---|---|
| `ShmSpscRing` | `head`, `tail` (free-running 64-bit words), slots, in shared memory | `tryPush` (optionally overwriting the oldest frame), `tryPop`, `size`, `capacity`; `create`, `open`, `reset` | two processes without locks; order of index and slot accesses; wrap; two writers of `tail` when overwriting; names that outlive a process |
| `ShmStrategyTransport` | an event ring, an action ring, two eventfds | `make`, `sendEvent`, `sendAction`, `tryRecv*`, `drainWakeups`, `notifyPeer` | lost wakeups; a send or a `make` that fails half way; frames that do not decode |
| `StrategyTransportCodec` | none | two encoding and two decoding switches | switches kept apart that must agree |
| worker (`worker-main.cpp`) | event and heartbeat counters, the strategy, `g_keepRunning` | open, start, poll, drain, dispatch, ack, heartbeat, exit codes | starvation of timer and termination by events; the order of WorkerReady, acks and heartbeats; being killed anywhere |
| `WorkerStrategyServices` | caches of subscriptions, exchanges, accounts, wallets | `handleEvent`, `subscribe`, `unsubscribe`, `setupExchange`, orders, queries | caches that answer for an engine that has not caught up |

The parts interact through the rings (events one way, actions the other) and
the eventfds; a service call of the strategy is an action; the strategy runs in
the worker's thread as callbacks. The engine's own source is not published.

**Pintos** is a teaching kernel with the students' processes, file system locks
and system calls.

| Part | State | Operations | Hard about it |
|---|---|---|---|
| `userprog/process.c` | `struct shared`, `struct parent_child`, the children lists, `pc_ref`, `exit_status` | `process_execute`, `start_process`, `process_wait`, `process_exit`, `kill` | who frees the shared block, and when; exec, wait and exit in any order; loads that fail |
| address spaces (`process.c`, `pagedir.c`, `syscall.c`) | page directories and tables, frames, CR3, the TLB | `load`, the argument stack, `pagedir_*`, `validate_*` | a context switch between two steps of exit; a load that fails at any page; addresses that wrap |
| system call interface (`lib/user/syscall.c`, `userprog/syscall.c`) | the user's stack | stubs, trap, handler | two sides that agree by convention; any stack |
| `filesys/inode.c` transfers | `rw_lock` (lock, semaphore, reader count), sectors, bounce buffers | `inode_read_at`, `inode_write_at` | readers and writers over many sectors; read-modify-write of a part of a sector; sleeping with the lock held |
| `inode.c` table, `directory.c`, `free-map.c`, `filesys.c`, `file.c` | open inodes and their counts, directory entries, the free map, file tables | open, close, remove, create, seek, read, write | races of open, remove and close; steps that fail half way; disk and memory that run out |
| `threads/thread.c`, `synch.c`, `devices/timer.c` | run queue, semaphores, lock, condition, sleep list | scheduling, `sema_*`, `lock_*`, `cond_*`, `timer_sleep` | preemption between any two steps |
| `threads/palloc.c`, `malloc.c` | page maps, arenas, free lists | `palloc_*`, `malloc`, `calloc`, `realloc`, `free` | arenas made and taken apart while others allocate |
| `threads/interrupt.c`, `exception.c`, `slowdown.c` | gates, the two controllers, levels | registration, dispatch, faults | nesting, and threads switched inside a handler |
| `devices/` | disk channels, serial queues, screen, keyboard, clocks | transfers, output and input, reading clocks | the device moves by itself; an interrupt between a test and a sleep |
| `threads/init.c`, `shutdown.c`, `debug.c` | what is up | the command line, boot, actions, panic | a panic in a machine half up |
| `lib/` | lists, hash tables, bitmaps, buffers | the C library and the kernel's | boundaries |
| `filesys/fsutil.c`, `lib/ustar.c` | the scratch device | `extract`, `append`, `rm` | power loss; names |
| `utils/squish-*.c` | pipes, a terminal, a child | relay, accept, exit | the child dies, stops and goes on at any moment |

**Lagerrobot** is a warehouse robot: a control module and a sensor module (AVR
microcontrollers, each a main loop, a bus interrupt and a few shared variables)
and a Python controller that talks to them over I2C. Hard about it: an interrupt
anywhere in the main loop, on an 8-bit processor.

**AI_Image_Matching** (a web service), **Capture_The_Flag** (a game),
**Calendar** (a desktop program) and **Snake** (a processor in VHDL) are not
modelled; the reasons are in section 6 and in `PROJECT.json`.

What makes the modelled parts correct, in a sentence each: the ring is a bounded
first-in-first-out queue; no wakeup is lost and what the worker believes agrees
with what it told the engine; a wait returns the child's status, once, and
memory is freed once; a read sees one state of a file, a write changes its range
and nothing else; every sector, frame, page and block has one owner and comes
back; locks exclude, nobody sleeps on what is already there, whoever is ready
runs; transfers, characters and commands arrive once, whole and in order.

## 2. Modules

| Module | Models | Notes |
|---|---|---|
| `BoundedFifo` | what a ring promises | abstract specification, no steps inside an operation |
| `ShmSpscRing` | `ShmSpscRing.cpp`: `tryPush`, `tryPop`, `popDiscardOldest` | implements `BoundedFifo` when nobody overwrites |
| `RingLifecycle` | `create`, `open`, `reset`, `unlink`, `make` on both sides | either process killed alone and anywhere, orphaned workers, objects left over |
| `WireCodec` | `StrategyTransportCodec.cpp` | all 31 kinds of message; torn frames |
| `StrategyWorker` | `ShmStrategyTransport.cpp`, `worker-main.cpp`, `WorkerStrategyServices.cpp`, and the engine's side of the transport | its rings are the queues of `BoundedFifo` |
| `ProcessLifecycle` | `process.c` (exec, wait, exit), `kill` of `exception.c`, `malloc` and `free` as they use them | |
| `UserMemory` | `load`, the argument stack, `pagedir.c`, context switches, `validate_*` | |
| `SystemCalls` | the stubs and `syscall_handler` | what the calls do is in the modules around it |
| `InodeRwLock` | `inode_read_at`, `inode_write_at`, `rw_lock` | |
| `FileSystem` | the open-inode table, directory, free map, `filesys_*`, `file_*`, the file calls | contents of files are in `InodeRwLock` |
| `KernelThreads` | `thread.c`, `synch.c`, `timer_sleep` | |
| `KernelMemory` | `palloc.c`, `malloc.c` | |
| `KernelInterrupts` | `interrupt.c`, `exception.c`, `slowdown.c` | |
| `KernelBoot` | `init.c`, `filesys_init` and `do_format`, `shutdown.c`, `debug.c` | |
| `BlockDevices` | `ide.c`, `block.c`, `partition.c` | |
| `Console` | `lib/kernel/console.c`, `serial.c`, `intq.c`, `input.c` | |
| `Keyboard`, `VgaText`, `Clock` | `kbd.c`; `vga.c`; `rtc.c`, `pit.c`, `timer_calibrate` | |
| `KernelList`, `KernelHash`, `KernelBitmap` | `lib/kernel/` | |
| `CString`, `CStdlib`, `CPrintf` | `lib/string.c`; `stdlib.c`, `arithmetic.c`, `random.c`; `stdio.c`, `lib/user/console.c` | |
| `ScratchArchive` | `fsutil.c`, `ustar.c` | power may go at any sector |
| `SquishRelay` | `squish-pty.c`, `squish-unix.c` | |
| `RobotControl`, `RobotSensor` | the two modules of the robot | |
| `ModuloLemmas` | | lemmas on remainders, for the proofs |
| `TransportProofs` | | proofs about `ShmSpscRing`, `RingLifecycle`, `StrategyWorker` and `WireCodec` |
| `ProcessLifecycleProofs`, `UserMemoryProofs`, `DeviceProofs` | | proofs about the module they are named for and `SquishRelay`; about it and `KernelInterrupts` and `SystemCalls`; about `RobotSensor`, `Console`, `RobotControl`, `BlockDevices` and `KernelBoot` |
| `InodeRwLockProofs`, `KernelThreadsProofs`, `FileSystemProofs` | | proofs about the module they are named for; `KernelThreadsProofs` also about `KernelMemory` |
| `MC...` | | constants of the TLC runs, and compositions |

`MCTransport`, `MCServicesFiles`, `MCKernelCalls`, `MCMachine` and `MCLibrary` put modules that share
no variable into one run: a variable `part` says which of them runs, the others stay as they
start, and so the run's states are the sum of theirs, not the product.

A definition marked as a mistake in a module is a wrong form of the definition
after it; it is used only to show that a property notices the mistake.

### ShmSpscRing

Every access to memory that the other process also uses is an action: the loads
and stores of `head` and `tail`, the size word, and each `memcpy` as a beginning
and an end, so that the other side can run in the middle of it. The producer is
`TryPush` (the load of `tail` and the full test), `DiscardLoad`/`DiscardStore`
(`popDiscardOldest`), `WriteSize`, `CopyIn`, `CopiedIn`, `Publish`; the consumer
is `TryPop`, `LoadHead`, `ReadSize`, `CopyOut`, `CopiedOut`, `Release`. A copy
that overlaps the other's copy of the same slot yields `Torn` bytes. The
acquire/release pairs of the code make the interleaving of these steps what the
hardware can show. The words have `IndexMod` values (2^64 in the code) and wrap.
Both `tryPop` overloads are the same steps. `sent` and `received` are history.

### RingLifecycle

An object in shared memory is a region with a header whose fields are written
one by one, in the order of `create`; a name refers to a region or to none.
Engine and worker each walk through `make`; every system call may fail where the
code looks at its result. Either process may be killed between any two steps, and
alone: nothing in the repository ties a worker's life to its engine's, so
`KillEngine` makes the worker an orphan that goes on where it is, in the middle of
`open` too, while the next engine creates rings of the same names. `MaxKills`
bounds the engines killed; workers are killed at will, and there is one orphan at
a time. `ClearName` is the removal of a name that a killed engine left, which the
code leaves to its caller. The arithmetic of slot count, stride and mapping is done on small numbers (`CacheLine`,
`HeaderBytes`, `SlotHeaderBytes`).

### WireCodec

Encoder and decoder are separate tables, as the source has separate chains:
`EventVisit` and `ActionVisit` for the `std::visit` of the encoders, `EventSwitch`
and `ActionSwitch` for the `switch` of the decoders, and the enumeration's numbers
between them. A frame is its number and its payload; one that is cut is refused.
`MaxMessages` bounds the messages of both directions together.

### StrategyWorker

A send is two actions, the push (`EngineSend`, `SendAction`) and the
eventfd_write (`EngineNotify`, `NotifyPeer`), and anything may happen between
them. `wpc` follows `runWorker`: `open`, `start` (the strategy's `start()`, with
service calls), `ready`, `poll`, `drain`, `recv` (the inner loop), `callback`,
`ack`, `timer`, `beat`, `exited` with its exit code. `Sent` is what each caller
does with the result of `sendAction`. The eventfd counter has a limit (`FdMax`)
at which a write is EAGAIN. `IntervalPasses` is the 250 ms timer,
`WorkerSignalHandler` SIGINT and SIGTERM, `Killed` a SIGKILL or crash at any
point. An event is a record of kind, exchange and account; the kinds are the
cases of `handleEvent`, and `undecodable` is a frame the codec rejects.

### ProcessLifecycle

Each access to a shared block is a step, because a kernel thread is preempted
anywhere. Blocks are memory: `free` clears a block (0xcc in the code) and puts
it on the free list, `Execute` takes any block that is there. A kernel thread
that follows a pointer in a cleared block panics the kernel, and so does
`process_execute` when it gets no page for `struct shared`, which it does not look
at (`ExecuteNoPage`); `panic` says which. `MayExec` bounds
which thread starts which. `waited`, `killed` and `raced` are history: `killed` is
who died by an exception, `raced` remembers
that two threads found the same count zero, after which both free the block,
malloc gives it to two children and these share a status. `Unspoiled` is that
neither this nor a failed load has happened; the properties about statuses are
stated for as long as it holds, since the code does not keep them afterwards
(section 4).

### InodeRwLock

Offsets are counted in chunks, `PerSector` to a sector, so that calls begin and
end inside sectors. A call takes the steps of the code: the lock, the first
reader's wait for the semaphore with the lock held, one step per sector, and the
way out; a write of a part of a sector is two steps, `FetchSector` and
`WriteBack`. The loop may also end for want of memory where the code calls
malloc. A chunk on the disk is known by the thread that wrote it last.

### FileSystem

`pc[t]` follows one call of process `t` through the functions it enters. What is
done under one lock, or one write to the disk, is a step. The locks that are held
over several steps are state: an inode's, which is the directory's too, and
`list_lock`, which only the failing `inode_open` keeps. `MemMayFail` lets every malloc fail, `BounceMayFail`
those inside `inode_read_at`; a process of `MayFault` may die by an exception,
which does not close its files. `Uses` and `Removes` say which process uses and
removes which names. A file is its sector, start and length.

### KernelThreads

One processor: `cpu` is the running thread. `timer_interrupt` may come between
any two steps at which the code has interrupts enabled; a section with
interrupts disabled is one step. `tpc` marks the places inside `sema_down`,
`lock_acquire`, `cond_wait` and `timer_sleep` at which a thread can be preempted
or blocked. There is one lock, one free semaphore, one condition, and the
semaphore each waiter of a condition makes for itself.

### UserMemory, KernelMemory, SystemCalls

`UserMemory` has frames, directories and tables as small numbers; a page of a
process is a frame that says which bytes of which file it holds. `load` gets
one page at a time from an allocator that may have none. The TLB holds entries
until CR3 is loaded. `KernelMemory` has byte addresses in pages of `PGSIZE`
bytes and the arena header at its place; words wrap at `WordMod`. The blocks of
a page that `free` gives back leave the free list in one step, as the code does it
under the descriptor's lock; which stay, in their order, is said by increasing
enumerations of the positions (`Without`). In
`SystemCalls` the user's stack is a sequence of words up to its top; `Frames`
are stacks that a program puts there without the library.

### Devices, interrupts, boot

`BlockDevices` has the registers the driver reads and writes (`bsy`, `drq`), the
pending interrupt, the channel's lock and semaphore, detection included.
`Console` has the transmit and receive queues, the interrupt enable register,
the console's lock with its depth, and prints by polling until the queue is set
up. `KernelInterrupts` keeps a stack of frames per thread and the interrupts in
service of both controllers. `KernelBoot` runs the steps of `main` with what each
of them needs (`Needs`, from the assertions and uses in the steps) and cuts the
command line into options and actions; `boot.context` says where a panic strikes.
`filesys_init` is as many steps as it has disk accesses and PANICs, those of
`do_format` among them; `free_map_file` is the pointer, null, open, or to a file
that `free_map_close` has freed while the pointer stayed. While a step opens or
closes the free map's file the inode list may be locked.
`Clock` lets the hardware tick between two reads of its registers.

### Libraries

The functions are translated as operators or as steps on pointers, buckets,
words of bits or bytes of memory, and compared with definitions on sequences
and sets that say what they are for. Widths (`WORD_BITS`, `INT_MOD`, `TypeMod`,
`ELEM_BITS`) are kept, and small.

### ScratchArchive, SquishRelay, RobotControl, RobotSensor

`ScratchArchive` writes and reads one sector a step; `boots` counts power
losses. `SquishRelay` has the pipes' states, `select`'s answers and the child, which
writes, stops, goes on, closes and dies when it likes; every change of the child
raises SIGCHLD, as neither program asks for SA_NOCLDSTOP. In the robot's modules
each access to a variable that main loop and interrupt share is a step; the
master's transfers on the bus are inputs.

In `RobotSensor` the 16-bit variables of which replies are made are stored a byte
at a time, in either order. The four bytes of `currentAngle` and `lastUpdateTime`
are one step: that the interrupt may tear them is not modelled. An interrupt is one
step until `gyrosGetMillis` executes `sei`; from there the rest of a reset is one
step per access (`ResetGoesOn`, `ResetEnds`), during which the timer and the bus
interrupt again, a second reset included: `fills` is the stack of resets that run.
Times are below `ClockMod` (2^32), and their difference wraps. The master reads at
most as many bytes as the buffer holds. `measured`, `turned`, `since`, `fresh` and
`quiet` are what the module would report if nothing interrupted the main loop;
`lost`, `crossed`, `unsure` and `deaf` mark the places where the code breaks its
own promise (section 4), each set by the one coincidence that its comment names.

## 3. Runs

| Run | Checks | Instance |
|---|---|---|
| `ring_fifo` | `InOrderDelivery`, `SlotExclusion`, `OneSlotReserved`, `CopyFitsBuffer`, `ImplementsBoundedFifo`, `EventuallyDelivered` | 4 slots, words of 8 values, 9 frames: the words wrap, all slots are reused; two lengths of payload and one too long |
| `transport` | `RingsShared`, `CodecFaithful`, `ReportsInOrder` | capacities and payloads that round up differently, two engines killed and workers killed at will; two messages of any kinds; a worker with undecodable frames, failing notifications and counters that wrap at 4 |
| `services_files` | `WakeupsKept`, `AnswersAgree`; `SectorsAccounted`, `FilesConsistent`, `FsNoDeadlock` | rings of 2, account events, one service call per callback; two processes, three names (one invalid), two directory entries, ten sectors, three inode blocks, two creates; memory runs out, one process may die |
| `ring_overwrite` | `NewestDelivered` | 2 slots, every push overwrites, 4 pushes |
| `worker_live` | `AccountReachesStrategy`, `AttendsWhenQuiet` | rings of 1 |
| `kernel_calls` | `ParentsToldTrue`, `WaitedOnlyOnce`, `WaitReturns`; `ReadsOneState`, `WriteIntact`, `WritesOnlyItsPart`, `CallsReturn` | a root that starts two processes, the first of which may start the second instead; two blocks, so that blocks are reused; loads may fail. Three threads on a file of one and a half sectors |
| `threads` | `QueuesSound`, `SynchronizationSound`, `EveryoneRuns` | three threads and the idle thread, slices of two ticks, sleeps of none and of two |
| `machine` | `AddressSpacesSound`, `HeapSound`, `DisksSound`, `ConsoleSound`, `BootSound`, `RobotObeys`, `SensorsTruthful` | see the comments of `MCMachine` |
| `library` | `ContainersAgree`, `FunctionsAgree`, `DevicesTruthful`, `KernelEntered`, `RelayFaithful`, `ArchivesCarryFiles` | see the comments of `MCLibrary` |
| `ring_overwrite_reserved` | `OneSlotReserved` is violated | 2 slots, every push overwrites |
| `process_double_free` | `FreedOnce` is violated | root and one child |
| `process_killed` | `KilledGivesMinusOne` is violated | root and one child |

Many of these properties are conjunctions of named parts, each with its own
comment in its module:

- `RingsShared`: an engine and its worker use the same, complete rings although
  `open` looks at magic and version only (`WorkerSeesEnginesRings`); an orphaned
  worker maps rings of full size, never one that is made anew under it
  (`OrphanSeesRings`); an engine that ends by itself leaves no name (`NoNameLeft`); slots lie in the mapping and do
  not overlap (`SlotsFit`). `CodecFaithful`: `MessagesArriveAsSent`,
  `DirectionsApart`.
- `WakeupsKept`: `NoStrandedEvent`, `NoStrandedAction`. `AnswersAgree`:
  `SubscriptionsAgree`, `CachesAgree`. `ReportsInOrder`: `SwTypeOK`,
  `AcksConsecutive`, `ReadyFirst`. `AttendsWhenQuiet`: `HeartbeatWhenQuiet`,
  `StopsWhenQuiet`.
- `ParentsToldTrue`: `PlTypeOK`, `OnlyLoadedChildren`, `WaitReturnsStatus`.
- `QueuesSound`: `ThTypeOK`, `QueuesAgree`. `SynchronizationSound`:
  `MutualExclusion`, `NoLostWakeup` (no semaphore value lies unused while a
  thread waits and nobody is about to look), `SignalsReachWaiters`.
- `SectorsAccounted`: `FsTypeOK`, `SectorsOwnedOnce`, `SectorsComeBack`.
  `FilesConsistent`: `InodeShared`, `NamesUnique`, `PositionsInFile`.
- `AddressSpacesSound`: frames have one owner and come back, the active
  directory is alive at every switch, the TLB is fresh, the image is the file,
  the arguments are in place, no assertion fails, and what `validate_*` accepts
  is mapped. `HeapSound`: `BlocksDisjoint`, `PagesComeBack`.
- `DisksSound`: transfers are exact, a free channel has no completion left over,
  partitions lie on the disk and are those described. `ConsoleSound`: characters
  leave in order, strings are not mixed, the interrupts are on when needed, no
  sleeper is forgotten. `BootSound`: `BootOrder`, `ActionsAsGiven`,
  `PanicStops`.
- `RobotObeys`: the last command is executed, the wheels do what it says, paired
  servos mirror each other after every packet. `SensorsTruthful`: a rotation is
  done when it has settled (`DoneMeansSettled`), the angle is followed until then
  (`AngleFollowed`), times are not torn (`TimeNotAhead`), the angle counts from the
  last reset (`AngleSinceReset`), the bytes the master reads are those measured
  (`ReplyIsMeasured`), the bus interface comes back on (`NeverDeaf`).
- `KernelEntered`: no handler's assertion fails, no interrupt line stays shut
  out, a fault's address is the thread's own, levels are restored, arguments
  arrive, the handler reads only words on the stack, the stub leaves it as it was.
- `RelayFaithful`, `ArchivesCarryFiles`, `ContainersAgree`, `FunctionsAgree`,
  `DevicesTruthful`: the parts are listed in their definitions.

Each property of a passing run has a mutant in `PROJECT.json`: a mistake in one
definition that TLC notices through it. For a conjunction it is a mistake that
one of its parts notices.

**Why the bounds are enough.** A ring of 4 slots holds 0 to 3 frames, so full,
empty and between are distinct; nine frames take both words once around. With
overwriting two slots are the tightest ring. Rings of two let an event or an
action be pushed behind one that is being handled; the action ring fills up, and
the eventfd reaches its limit. How events of several kinds fill the caches
is the theorem's (`AnswersCorrect`, for any events). Two killed engines let objects and workers left by
the first be met by the next two starts. Two messages can overtake one another. Three processes and two blocks are the least with which a
block freed for one child is in use for another. Three threads give two readers
and a writer, or two writers and a reader, and with the idle thread a holder, a
waiter and a third that steals. Ten sectors are the four that the format takes
and room for two files, so that allocation fails and freed sectors are reused;
two entries fill the directory; three inode blocks are the directory's and one
for each of two files. Two processes load into fewer frames than both
need. Two threads share a channel with disks of two sectors. The two processes of
`machine` and the two threads of `library` are interchangeable in everything the
modules say of them, which is where symmetry is used. Two writers, two readers and queues of 2 and 1 fill and empty. Library inputs are
all values of a small width, or texts chosen for the cases of the code. In `RobotSensor` one transfer, one
millisecond and readings that are quiet and not put a command anywhere in the main
loop and in its own reset; a second reset inside a reset is the theorem's only
(section 5). Lists are sorted over three keys and three elements, so that a second pass
merges runs of the first. Bounds on
behaviour are `MaxPushes`, `MaxCalls`, `MaxKills`, `MaxMessages`, `MayExec`,
`MaxCreates`, `MaxSema`, `MaxBlocks`, `MaxOut`, `MaxKeys`, `MaxDepth`,
`MaxPanics`, `MaxMillis`, `MaxTransfers`, `MaxLines`, `MaxTicks`, `MaxDraws`,
`MaxConns`, `MaxBoots`, `MaxActions`; all others are sizes.

**Fairness.** The ring: each side takes its next step (neither waits for the
other inside an operation). The worker: `poll` times out after 100 ms and no
call blocks, so the worker's next step and the second half of an engine send
happen; the engine is assumed to answer its eventfd however often it also
sends (strong fairness of `EngineDrain`). Arrivals of events, signals, crashes
and the timer are not fair. Pintos: in `threads` only the timer interrupt and
the idle thread's `hlt` loop are fair, and round robin follows from the code; in
`kernel_calls` the scheduler is taken to be what `threads` shows, so a thread in
the kernel that can go on does. User programs and new calls are not
fair.

**Deadlock** is checked in the ring's runs. In `kernel_calls` its place is taken by
`WaitReturns` and `CallsReturn`. The worker may exit,
processes may all have exited or wait for children that do not, kernel threads
may all wait for each other as their program says, and the parts of the composed
runs end; there it is off. `FsNoDeadlock` states for the file system what the
check would, up to the one path that is known to block.

## 4. What the code does otherwise than its text says

Kept as runs, each with the line it contradicts in `PROJECT.json` ("findings"):

- `ring_overwrite_reserved`: with `overwriteOldest` the consumer's late store
  takes `tail` back; the ring then holds more than its capacity.
- `process_killed`: a process killed by an exception leaves the status 0, which its
  parent's wait returns for the announced -1 (`process.c:187`, `exception.c:90`).
- `process_double_free`: parent and child can both free their block. With a third
  process the block then serves two children, and a wait returns a status that is
  not the child's (`WaitReturnsStatus` without `raced`).

Found with the same models, not kept as runs. Each is either what a stated
exception of a property leaves out, or a value of a constant at which the property
fails:

- Rings: a worker that outlives its engine may open a ring of the next engine whose
  header has magic and version and no slot count yet, and it and the next worker are
  then two consumers of one ring, against the "SPSC one-writer-one-reader guarantee"
  that `ShmStrategyTransport.cpp:10` rests on roles.
- Ring: with `overwriteOldest` the producer may write the slot the consumer
  copies from (`SlotExclusion` with `OverwriteArgs = {TRUE}`). A requested
  capacity above 2^31 rounds to 0 slots (`ShmSpscRing.cpp:134`).
- Worker: after a frame that does not decode, events already in the ring wait
  for the next send (`NoStrandedEvent` with `undecodable` events;
  `tryRecvEvent` returns false as if the ring were empty). While events keep
  coming no heartbeat is sent. An action whose eventfd_write fails is reported
  as not sent although it is in the ring (`SubscriptionsAgree` with
  `NotifyMayFail = TRUE`). A worker without a strategy reports WorkerReady.
- Processes: the block of a child whose load failed is freed while the child
  still writes to it, and a wait can then return another child's status
  (`AllLoaded` in `WaitReturnsStatus`). The page for `struct shared` is used
  without a test (`process.c:55`). Blocks of children nobody waits for are never freed. A process that
  dies by an exception, or by a call number without a case (`syscall.c:128`),
  does not close its files.
- File system: `inode_open` keeps `list_lock` when malloc fails (`inode.c:131`).
  A failing bounce buffer in a lookup lets two entries have the same name
  (`NamesUnique` with `BounceMayFail = TRUE`). When `dir_add` fails, the data
  sectors are lost (`filesys.c:53`). A file may be removed between the lookup and
  the open (`directory.c:118`; `MCRemoves` excludes it). Seek, tell and filesize
  on a closed descriptor, and a negative initial size, fail a kernel assertion.
- System calls: the handler reads sleep's argument as 64 bits where the stub
  pushes 32 (`syscall.c:52`), and validates eight bytes for exit's four. The
  end of a buffer may wrap in `validate_buffer`. A long command line overruns the
  stack page.
- Allocator: calloc's test for overflow is incomplete; malloc of almost 2^32
  bytes wraps; `palloc_init` underflows when the user limit exceeds memory.
- Devices: extended partitions read sector 0 of the disk; `expecting_interrupt`
  is never reset; two readers of an interrupt queue trip its assertion
  (`intq.c:84`); `mode` becomes QUEUE before the interrupts are armed
  (`serial.c:91`).
- Boot and interrupts: with `-q` a panic in shutdown panics again; an option
  without its value reaches `atoi (NULL)`; reboot skips `filesys_done`; the
  slowdown of one thread reaches another (`slowdown.c:51`).
- Boot: the free map's file, once `do_format` has freed it, is closed again by a
  panic that powers off; a panic in an interrupt handler, or with the inode list
  locked, panics again or waits, in `filesys_init` already (the exceptions of
  `PanicStops`).
- Library: `memmove` returns its destination plus the size when that lies below its
  source, for "Returns DST" (`string.c:20`); `umod64` and `smod64` keep the lower word of the
  remainder (`arithmetic.c:117`); `random_init` after the first draw does nothing
  (`random.c:33`). `BlocksMoved`, `DivisionExact` and `FirstSeedStays` state what
  these do. A format that ends in `%` is read past its end; `bitmap_scan_and_flip`
  with a count of zero returns `start` (`bitmap.c:290`).
- Archives: a power loss in the middle of an append leaves an archive without an
  end; a third extract in a boot reads past the marker; `./a` and `a` collide.
- Relays: a child that is stopped, or goes on, raises SIGCHLD too, and relay ends
  while it lives: squish-pty exits with 0 and no longer shows what it writes
  (`squish-pty.c:272`, `squish-unix.c:259`). `waitpid` with WNOHANG may come before the
  child is dead (`squish-pty.c:298`); squish-unix drops buffered output at the end of a
  connection, and does not give the interval timer to the child as its comment
  says.
- Robot control: command and argument may be torn by the interrupt; commands
  that arrive during arm movements are lost; a bus error executes the previous
  command again; `while (!TXC0)` tests a constant (`main.c:663`); a servo limit
  is 818 where its mirror is 819.
- Robot sensors: a reset that falls between reading and storing is undone: in
  `getRotationState` the rotation is then done without having settled (`lost`), in
  `gyrosUpdateAngle` the angle is overwritten or `currentTime - lastUpdateTime` wraps
  (`crossed`). `gyrosGetMillis` turns the interrupts on inside the interrupt, and the
  master may read before the reset has made its reply. 16-bit replies may be torn
  (`unsure`). After a bus error while the bus is busy the interface stays off and main
  waits for ever (`deaf`). The
  receive and transmit indices have no bound; one reply is a byte where the
  master reads a word.

## 5. Proofs

All theorems hold for every value of the constants under the assumptions named
in the modules, which TLC evaluates on the instances it runs. Each proof of an
invariant is one lemma per action, or per group of actions that change the same
things, under an inductive invariant that is larger than the property.

| Module | Theorems | Property of a run |
|---|---|---|
| `TransportProofs` | `TypeCorrect`, `RingInvariant`, `DeliveryInOrder`, `ExclusiveSlots`, `SlotReserved`, `CopyInBounds`, `RingIsBoundedFifo` | `InOrderDelivery`, `SlotExclusion`, `OneSlotReserved`, `CopyFitsBuffer`, `ImplementsBoundedFifo` |
| | `SwTypeCorrect`, `NoWakeupLost`, `AnswersCorrect`, `ReportsCorrect` | `WakeupsKept`, `AnswersAgree`, `ReportsInOrder` |
| | `CodecCorrect`, `RingsCorrect` | `CodecFaithful`, `RingsShared` |
| `ProcessLifecycleProofs` | `OnlyLoaded`, `ParentsTold`, `WaitedOnce`, `BlocksSafe` | `ParentsToldTrue`, `WaitedOnlyOnce` |
| | `RelayCorrect` | `RelayFaithful` |
| `InodeRwLockProofs` | `TypeCorrect`, `RwInvariant`, `ReadsAreAtomic`, `WritesStay`, `WritesAreLocal` | `ReadsOneState`, `WriteIntact`, `WritesOnlyItsPart` |
| `FileSystemProofs` | `FilesCorrect`, `FilesCorrectIfLinked` | `SectorsAccounted`, `FilesConsistent` |
| `KernelThreadsProofs` | `QueuesCorrect`, `SynchronizationCorrect` | `QueuesSound`, `SynchronizationSound` |
| | `HeapCorrect` | `HeapSound` |
| `UserMemoryProofs` | `AddressSpacesApart`, `ImagesLoaded`, `AddressSpacesCorrect` | `AddressSpacesSound` |
| | `EntryCorrect` | `KernelEntered` |
| `DeviceProofs` | `SensorsCorrect`, `ConsoleCorrect`, `RobotCorrect`, `DisksCorrect` | `SensorsTruthful`, `ConsoleSound`, `RobotObeys`, `DisksSound` |
| | `BootCorrect` | `BootSound` |

**The ring.** `TypeCorrect` holds however the ring is used. The rest is for
rings nobody overwrites (`NoOverwrite`) and at least two slots, with a word count
that is a multiple of the slot count, as 2^64 is of a power of two
(`RingAssumption`). The properties are not inductive: whether `Publish` delivers
the right frame depends on what the slots hold and where the other side is.
`RingInv` adds that the words are the wrapped counts of frames sent and received
(`WordsCountFrames`), that there is room while the producer writes
(`RoomForWriter`), that every frame on its way is whole in its slot
(`FramesInSlots`), and how far each side has got (`WriterProgress`,
`ReaderProgress`). That distinct counts less than `SlotCount` apart fall on
distinct slots, through both moduli, is in `ModuloLemmas`. `RingIsBoundedFifo`
says that every step of the ring is a step of `BoundedFifo` or leaves it alone,
with the frames sent and not yet received as the queue. This is what lets
`StrategyWorker` use queues.

**The worker.** `NoWakeupLost` and `AnswersCorrect` assume `Reliable`: an
eventfd_write fails only with EAGAIN, and every frame decodes. Section 4 says what
the code does otherwise; `ReportsCorrect` and the types need neither. For the
caches the invariant must hold in the middle of a `sendAction`, when the action is
in the ring and the cache does not know of it: `PromiseAgrees` compares the engine
with the cache as it will be when the call returns, and `SendingWhere` says in
which call that is. `ReportsInv` adds that WorkerReady is in the ring or read
before the loop is entered. That the counters wrap without two acks in the ring
carrying one number needs a counter larger than the ring (`WorkerAssumption`; 2^64
in the code).

**The codec.** `WcInv`: in each direction, what was handed to the ring is what was
received followed by what the frames still in it say (`Carried`), and a frame that
was torn while it was read says that it is refused. Behind it are facts about the
tables, which the code writes apart: the case of the enumerator with which a kind is
written reads that kind again (`SwitchUndoesVisit`), and no two enumerators have one
number, in one direction or in both (`NumbersApart`).

**The rings' life.** `LcInv` says which of its rings an engine has at each step of
`make` (`EngineHas`), that a name of a ring the engine has is that ring's or nobody's
(`NamesAre`), that the engine's own worker runs only while its transport is up and
maps nothing else (`WorkerHas`), what `open` has seen of a ring that a worker accepted
(`OpenedHas`), and that an object has its size before its header is begun
(`SizedFirst`). That `open` looks at two fields only is then no matter to the engine's
worker. An orphan may open what the next engine is still making; of it only
`OpenedHas` is left, with `SizedFirst` what `OrphanSeesRings` needs.
`LcAssumption` bounds the capacities by the largest power of two of `bit_ceil`.

**Processes.** What holds whatever fails is `RefsInv`: every running thread knows
its block, a parent in `exec` or `wait` has the block of the child it asks for,
a child being started has one such parent, and what is on a children list has
loaded. From it follows `OnlyLoaded`. The rest rests on `ProtocolInv`, kept while
`Unspoiled`: whose a block is (`StartingBlocks`, `ListedBlocks`, `NamedBlocks`,
`FreeBlocks`, `BlockUse`, `OwnBlock`), that `alive_count` and the semaphore count
what parent and child have still to do (`Counters`, `Waiting`, `Woken`), that one
of the two frees it (`Freers`), and that a returned status is one a child has
stored (`Returned`). `BlocksSafe` is the counterpart of the finding
`process_double_free`: without a failed load and a count that both sides find zero no
block is freed twice, and the one panic left in exec, wait and exit is that of a
`process_execute` that gets no page.

**The relay.** `SqInv` of `SquishRelay`: what a round of the loop has chosen to do
after `select` still holds when its turn comes, although earlier operations of the
round change the pipes (`Chosen`); which end of the link is closed when, and that a
notice means a child that is dead or was stopped (`Ends`); and what has been written, what is in a pipe and what is still in the link are, in
this order, the console's output (`ConsoleFlow`) and the input read so far
(`InputFlow`).

**The inode.** `RwInv` says who may be in the file: the lock is held where the
code holds it (`LockHeld`), the count counts (`ReadersCounted`), the semaphore
belongs to one writer, to the readers or to nobody (`SemaOwned`); and what follows
for the data: a fetched sector is still what is on the disk (`BounceFresh`), a call
stays within what it was asked (`WithinAsked`). `InodeAssumption`: finitely many
threads.

**The file system.** `FsInv` says who holds an inode: `open_cnt` is the number of
handles on it, that is of locals of calls and of descriptors, plus the
references a killed process left (`Counted`); for a step it is enough to know
which handle it gives or takes, so the numbers are compared as cardinalities of
sets of handles. It says what a call's locals are good for at each place
(`Shapes`), who holds the directory's lock and that what it found is still there
(`Dirs`, `Removals`), that an inode on the list is of a file with an entry unless
it is removed, and one off the list is being freed by one process (`Inodes`),
that no inode lies among its own data (`Apart`), that what `dir_add` names is on
the disk (`Written`), and that the claims of entries, inodes, calls in the middle
of a create, and the free map fill the device without an overlap (`Owned`). One
step breaks it, and does in the code: `dir_lookup` takes no lock, so the entry that
`filesys_open` found may be gone, and its sectors another file's, when the inode
is opened (section 4). `FilesCorrectIfLinked` therefore assumes that it is still
there (`OpensLinked`), and `FilesCorrect` proves this for programs in which nobody
removes a name that another process opens or creates (`NobodyElseRemoves`), which
`MCRemoves` satisfies. Both assume that the bounce buffer is got
(`~BounceMayFail`), without which two entries may have one name.

**Threads.** `ThInv` says which thread is on which queue, once, and that it is in
the step that puts it there (`RunQueue`, `WaitQueues`, `OwnSemas`); that the
semaphore of the lock is 1 or one thread is in it (`LockInv`), the holder being
unnamed for a moment on the way in and out; and that a waiter on the condition is
on its list exactly as long as its own semaphore is 0 (`CondInv`). `NoLostWakeup`
compares a value with a number of threads, so `Threads` is finite here
(`ThAssumption`). The walk of the timer interrupt over the sleepers is stated as
an increasing enumeration of the indices that are due, about which one can reason
without induction.

**The heap.** `HeapInv` gives every page in use an owner: the block that is held
and begins there, or the arena with one of its blocks held (`HeadPages`, `Extent`);
the owners' pages do not overlap and are exactly those in use (`PagesInv`). What is
held lies where its arena has a block, is no longer than that block, and is held
once (`HeldInv`); what is listed is a block of an arena of its size, listed once and
not held (`FreeInv`); and every block of an arena is one or the other, `free_cnt`
counting the listed ones (`ArenaInv`). That the last condition is an equality is
what makes `free` right: when `free_cnt` reaches `blocks_per_arena` no other block of
the page can be held, and before that one must be. Where blocks lie in their page is
arithmetic with a page and block size that are not literals (`SmallBlock`,
`BlocksApart`, `BigBlock`). `HeapCorrect` assumes `NoWrap`: what malloc adds to a
size, and what calloc multiplies, stays below `WordMod`; section 4 says what the
code does otherwise. `MCMachine` satisfies it (`HeapSizesFit`), with a product that
wraps and that calloc refuses.

**Address spaces.** `CoreInv` is about frames: directories, tables and pages are
owned by one process at one place and nothing in use is without a purpose
(`OwnInv`), CR3 is the running process's directory or the base one, never one that
is being destroyed (`CpuInv`), and what the TLB holds is what the tables say
(`TlbInv`). `LoadInv` follows `load` through the headers and, in the middle of a
segment, counts what is in memory against what is left (`Loading`). Program
headers are any words below `AddressMod`; the theorem shows that
`validate_segment` accepts only what `load_segment` can place. The assumption that
matters is that user space ends two pages below the top of the address space
(`UmAssumption`; the kernel's gigabyte in the code). The position of the
arguments on the stack is a function defined by recursion over them; the one fact
needed of it, that it goes down, is proved from a least counterexample, as no
induction theorem of the library can be applied.

**The ways into the kernel.** `KiInv` of `KernelInterrupts`: on every thread's
stack of interrupt frames only the innermost can have the interrupts off
(`StackOK`, `Masked`), the level that a thread gets back when it resumes is the one
its stack calls for (`Away`), and the controllers hold in service the line of the
handler that runs and no other (`InService`); that is why a nested fault reads its
own CR2. `SyInv` of `SystemCalls`: the stack is what it was before the call, with
the number and the arguments on it while the call is in the kernel, so that what
the handler takes off is what the stub put there. `SyAssumption`: arguments are
words, and a stack has at least one.

**Devices.** `RsInv` has a part for each promise of the sensors. What `stableCount`
says, or will say after the step that is due, is covered by quiet readings
(`SettleInv`, `Covered`). The tracking is off only where a rotation is done or a reset
is still about to turn it on (`FollowInv`, `Untracked`). No time read lies ahead of the
counter (`TimeInv`), and the stored time is the one up to which the angle is counted,
but while the main loop or a reset has still to store it (`AngleInv`). What is shown is
what was measured, but for the one value of which a byte is stored and the other not
(`ShownInv`). When the master starts to read, the reply is in the buffer or a single
reset is about to put it there (`ReplyInv`, `Acknowledging`), and the interface is off
only between transfers (`DeafInv`). Resets may interrupt resets to any depth in the
theorem: `fills` is any sequence. `CoInv`: the
characters sent, queued and being printed are what was printed, in that order
(`OutInv`); the console's lock is held once per string (`LockInv`); `not_full` and
`not_empty` name the one thread that sleeps, and it sleeps for a reason (`TxInv`,
`RxInv`). `RcInv`: while the bus is quiet, what the main loop has read is what is in
the receive buffer (`CommandReads`); between `DRIVE_FORWARD` and the end of a round
the wheels need not yet turn as told (`WheelsInv`); the packets queued mirror a
pair of servos once both are sent. `RcAssumption`: a message has a byte.
`DkInv`: who uses a channel holds its lock, except at boot (`DkLockInv`,
`BootInv`); at each place of a transfer the controller, the interrupt and the
semaphore agree on whether it is done (`ChannelInv`), so that `expecting_interrupt`
staying set does no harm; and the blocks registered are those the partition tables
of the disks looked at describe (`BlocksInv`). Tables are any that
`DkAssumption` gives a type to. As `read_partition_table` reads sector 0 whatever it
is asked for (`partition.c:94`), an extended partition whose table leads to another
place on the disk makes it call itself for ever; the boot then goes no further in
the model (`read_partition_tableReturns`). One of the disks of `MCMachine` has an
extended partition.

**Boot.** `BtInv`: while options are read nothing has run and what is left is the
line without its first words, all options (`OptionsFirst`); from then on there is a
place on the line for each action run, and what is left starts where the last one
ends (`ActionsAsGiven`); and a second panic, or one that waits, is of a machine that
powers off with a free map's file that cannot be closed where the first one struck
(`PanicInv`, `Excused`), in the middle of `filesys_init` as anywhere. That the order of `main`
respects `Needs` follows for any set of subsystems up, as the next step is the first
one missing (`OrderWorks`). Command lines are any sequences of words
(`BtAssumption`).

**Only model-checked.** Liveness under fairness (`EventuallyDelivered`,
`NewestDelivered`, `AccountReachesStrategy`, `AttendsWhenQuiet`, `WaitReturns`,
`CallsReturn`, `EveryoneRuns`): the prover does not do fairness. `FsNoDeadlock`
is about what is ENABLED, which it does not do either. The ring with overwriting,
whose `OneSlotReserved` is false; that a mask by a power of two less one is a
remainder (`MaskKeepsSlots` in `MCTransport`, which TLC evaluates). The library
modules, the clocks and keyboard, and `ScratchArchive` (`ContainersAgree`,
`DevicesTruthful`, `FunctionsAgree`, `ArchivesCarryFiles`) have recursive operators
over data; the prover does not work on those, and what they compute for every input
needs an induction that the installed provers cannot do. They stay with TLC.

## 6. Not modelled

- Weak-memory behaviour other than what acquire and release leave: the steps
  are interleaved. The `size()` of a third observer.
- The worker's command-line parsing, logging, the fields of messages, the
  contents of callbacks. The engine (not published) but for its side of the
  transport; the metrics recorder (not published).
- In Pintos: the loader and the entry stubs in assembly, speaker, segment and
  task descriptors (constant tables and port writes), statistics and messages,
  the standalone exercises, example programs and tests.
- `ProcessLifecycle` has blocks without arenas, `KernelMemory` has the arenas;
  `inode_length` is fixed, as files do not grow in this code.
- In the robot: delays, baud rates, port set-up and conversion factors; the
  Python controller (a web socket and a bus library with the routes on top),
  whose transfers are inputs of the two modules.
- `AI_Image_Matching`: calls to a database and a hosted model, in Python.
  `Capture_The_Flag`: one thread over a physics library with real numbers; its
  `ctf-env` is an installed virtual environment with vendored headers.
  `Calendar`: user interface. `Snake`: synchronous hardware in VHDL.

## 7. Plan

1. An abstract semaphore that `KernelThreads` implements, so that the modules
   that take semaphores as given rest on it.
2. The robot's Python controller over the two modules, for commands lost or
   repeated on the bus.
3. The instruction cycle of `Snake`'s processor against its instruction set.

The list of hazards in `PROJECT.json` says which property covers which line.
