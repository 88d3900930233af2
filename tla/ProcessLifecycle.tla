-------------------------- MODULE ProcessLifecycle --------------------------
(***************************************************************************)
(* Pintos/userprog/process.c: exec, wait and exit.  A parent and a child   *)
(* share two pieces of memory: a `struct shared' page, in which the child  *)
(* reports whether its program loaded, and a malloc'ed `struct             *)
(* parent_child', through which the parent learns its exit status and      *)
(* which the two of them, by counting alive_count down, agree to free.     *)
(*                                                                         *)
(* Kernel threads are preempted anywhere, so every access to a block that  *)
(* another thread may touch is a step of its own.  alive_lock is never     *)
(* contended for longer than the decrement it guards, which is one step.   *)
(* Memory is modelled: free fills a block with 0xcc and puts it back on    *)
(* the free list, from which malloc may hand it out again; other blocks of *)
(* its arena are in use, so that the arena stays.  A kernel thread that    *)
(* follows a 0xcc pointer faults, and page_fault and kill panic.           *)
(*                                                                         *)
(* The initial thread is a kernel thread.  It starts processes and waits   *)
(* for them (run_task) but makes no system call itself.                    *)
(***************************************************************************)
EXTENDS Integers, FiniteSets

CONSTANTS
    Proc,           \* threads, by tid
    Root,           \* the initial thread, which runs run_task
    Block,          \* addresses malloc can return
    NoBlock,        \* NULL
    ExitStatus,     \* statuses user programs exit with
    MayExec,        \* bound: which thread may start which
    LoadMayFail     \* whether load() can fail

ASSUME ProcessAssumption ==
    /\ Root \in Proc
    /\ NoBlock \notin Block \cup Proc
    /\ ExitStatus \subseteq Int
    /\ MayExec \subseteq Proc \X Proc
    /\ LoadMayFail \in BOOLEAN

VARIABLES
    ppc,        \* where each thread is
    block,      \* contents of each block
    onFreeList, \* how often each block is on malloc's free list
    children,   \* blocks on each thread's children list
    pcRef,      \* t->pc_ref
    exitStatus, \* t->exit_status
    shared,     \* the struct shared of each child being started
    arg,        \* exec: the child started; wait: the tid waited for
    target,     \* the block a running wait or exec uses
    status,     \* process_wait's local status
    waited,     \* history: what waits for a child returned: <<parent, tid, value>>
    killed,     \* history: threads an exception has ended
    raced,      \* history: two threads have found the same alive_count zero
    panic       \* why the kernel has stopped, "no" while it runs

plVars == <<ppc, block, onFreeList, children, pcRef, exitStatus, shared, arg, target,
          status, waited, killed, raced, panic>>

\* Why it may: process_execute uses a page it did not get, or a thread follows
\* a pointer out of a block that was freed.
Panics == {"no", "nopage", "freed"}

\* What free leaves behind, 0xcc everywhere: alive_count and the semaphore are
\* not zero, the waiters lists and the list element are bad pointers.
Cleared == [child |-> NoBlock, status |-> 204, alive |-> 204, sema |-> 204,
            waiters |-> FALSE, linked |-> FALSE]

\* a new struct parent_child; its list element is not yet written
NewParentChild == [child |-> NoBlock, status |-> -1, alive |-> 2, sema |-> 0,
                   waiters |-> TRUE, linked |-> FALSE]

NoShared == [status |-> FALSE, sema |-> 0, block |-> NoBlock]

PlInit ==
    /\ ppc = [p \in Proc |-> IF p = Root THEN "user" ELSE "unborn"]
    /\ block = [b \in Block |-> Cleared]
    /\ onFreeList = [b \in Block |-> 1]
    /\ children = [p \in Proc |-> {}]
    /\ pcRef = [p \in Proc |-> NoBlock]
    /\ exitStatus = [p \in Proc |-> 0]
    /\ shared = [p \in Proc |-> NoShared]
    /\ arg = [p \in Proc |-> p]
    /\ target = [p \in Proc |-> NoBlock]
    /\ status = [p \in Proc |-> 0]
    /\ waited = {} /\ killed = {}
    /\ raced = FALSE
    /\ panic = "no"

\* thread p is at l, and the kernel runs
At(p, l) == panic = "no" /\ ppc[p] = l

PlGoto(p, l) == ppc' = [ppc EXCEPT ![p] = l]

\* free(): the block is cleared and goes (back) on the free list
Free(b) ==
    /\ block' = [block EXCEPT ![b] = Cleared]
    /\ onFreeList' = [onFreeList EXCEPT ![b] = @ + 1]

\* thread q has found alive_count zero in block b and has not yet freed it
Freeing(q, b) ==
    \/ ppc[q] \in {"waitRemove", "waitFree"} /\ target[q] = b
    \/ ppc[q] \in {"exitRemove", "exitFree"} /\ pcRef[q] = b

\* a test of b's alive_count finds the zero that another thread has found
Races(b) == block[b].alive = 0 /\ \E q \in Proc : Freeing(q, b)

-----------------------------------------------------------------------------
(* process_execute                                                         *)

MayExecute(p, c) == At(p, "user") /\ At(c, "unborn") /\ <<p, c>> \in MayExec

\* The allocations and thread_create.  When one after the first fails, what was
\* allocated is freed and the call returns TID_ERROR with nothing changed.
Execute(p, c) ==
    /\ MayExecute(p, c)
    /\ \E b \in Block :
          /\ onFreeList[b] > 0
          /\ onFreeList' = [onFreeList EXCEPT ![b] = @ - 1]
          /\ block' = [block EXCEPT ![b] = NewParentChild]
          /\ shared' = [shared EXCEPT ![c] = [status |-> FALSE, sema |-> 0, block |-> b]]
          /\ target' = [target EXCEPT ![p] = b]
    /\ arg' = [arg EXCEPT ![p] = c]
    /\ ppc' = [ppc EXCEPT ![p] = "execWait", ![c] = "load"]
    /\ UNCHANGED <<children, pcRef, exitStatus, status, waited, killed, raced, panic>>

\* No page for struct shared: its semaphore is initialised all the same, at an
\* address nothing is mapped to.
ExecuteNoPage(p, c) ==
    /\ MayExecute(p, c)
    /\ panic' = "nopage"
    /\ UNCHANGED <<ppc, block, onFreeList, children, pcRef, exitStatus, shared, arg, target,
                   status, waited, killed, raced>>

\* sema_down(&shared->sema), then keep the block or, if load failed, free it
Executed(p) ==
    LET c == arg[p]
        b == target[p]
    IN  /\ At(p, "execWait")
        /\ shared[c].sema > 0
        /\ shared' = [shared EXCEPT ![c].sema = @ - 1]
        /\ \/ /\ shared[c].status
              /\ block' = [block EXCEPT ![b].child = c, ![b].linked = TRUE]
              /\ children' = [children EXCEPT ![p] = @ \cup {b}]
              /\ UNCHANGED onFreeList
           \/ /\ ~shared[c].status
              /\ Free(b)
              /\ UNCHANGED children
        /\ PlGoto(p, "user")
        /\ UNCHANGED <<pcRef, exitStatus, arg, target, status, waited, killed, raced, panic>>

\* start_process: load, report, and go on to the program or to thread_exit
StartProcess(c) ==
    /\ At(c, "load")
    /\ \E success \in {s \in BOOLEAN : s \/ LoadMayFail} :
          /\ shared' = [shared EXCEPT ![c].status = success, ![c].sema = @ + 1]
          /\ exitStatus' = [exitStatus EXCEPT ![c] = IF success THEN @ ELSE -1]
          /\ PlGoto(c, IF success THEN "user" ELSE "exitDec")
    /\ pcRef' = [pcRef EXCEPT ![c] = shared[c].block]
    /\ UNCHANGED <<block, onFreeList, children, arg, target, status, waited, killed, raced, panic>>

-----------------------------------------------------------------------------
(* process_wait                                                            *)

\* The search of the children list; without a match the call returns -1 and
\* nothing changes.
Wait(p, t) ==
    /\ At(p, "user")
    /\ \E b \in children[p] :
          /\ block[b].child = t
          /\ target' = [target EXCEPT ![p] = b]
    /\ arg' = [arg EXCEPT ![p] = t]
    /\ PlGoto(p, "waitSema")
    /\ UNCHANGED <<block, onFreeList, children, pcRef, exitStatus, shared, status,
                   waited, killed, raced, panic>>

\* sema_down(&pc->sema)
WaitSema(p) ==
    LET b == target[p]
    IN  /\ At(p, "waitSema")
        /\ block[b].sema > 0
        /\ block' = [block EXCEPT ![b].sema = @ - 1]
        /\ PlGoto(p, "waitDec")
        /\ UNCHANGED <<onFreeList, children, pcRef, exitStatus, shared, arg, target,
                       status, waited, killed, raced, panic>>

\* mistake: the parent does not count itself out
WaitDecForgotten(p) ==
    /\ At(p, "waitDec")
    /\ status' = [status EXCEPT ![p] = block[target[p]].status]
    /\ PlGoto(p, "waitTest")
    /\ UNCHANGED <<block, onFreeList, children, pcRef, exitStatus, shared, arg, target,
                   waited, killed, raced, panic>>

\* Read exit_status and, under alive_lock, count down.  In a block that was
\* freed lock_release finds a bad waiters list.
WaitDec(p) ==
    LET b == target[p]
    IN  /\ At(p, "waitDec")
        /\ status' = [status EXCEPT ![p] = block[b].status]
        /\ block' = [block EXCEPT ![b].alive = @ - 1]
        /\ panic' = IF block[b].waiters THEN "no" ELSE "freed"
        /\ PlGoto(p, "waitTest")
        /\ UNCHANGED <<onFreeList, children, pcRef, exitStatus, shared, arg, target,
                       waited, killed, raced>>

\* if (pc->alive_count == 0), without the lock
WaitTest(p) ==
    /\ At(p, "waitTest")
    /\ PlGoto(p, IF block[target[p]].alive = 0 THEN "waitRemove" ELSE "waitReturn")
    /\ raced' = (raced \/ Races(target[p]))
    /\ UNCHANGED <<block, onFreeList, children, pcRef, exitStatus, shared, arg, target,
                   status, waited, killed, panic>>

\* list_remove(&pc->e): once more on a block taken off the list already does
\* no harm, but a block that was freed since holds bad pointers.
Unlink(b) ==
    /\ children' = [q \in Proc |-> children[q] \ {b}]
    /\ panic' = IF block[b].linked THEN "no" ELSE "freed"

WaitRemove(p) ==
    /\ At(p, "waitRemove")
    /\ Unlink(target[p])
    /\ PlGoto(p, "waitFree")
    /\ UNCHANGED <<block, onFreeList, pcRef, exitStatus, shared, arg, target, status,
                   waited, killed, raced>>

WaitFree(p) ==
    /\ At(p, "waitFree")
    /\ Free(target[p])
    /\ PlGoto(p, "waitReturn")
    /\ UNCHANGED <<children, pcRef, exitStatus, shared, arg, target, status, waited, killed, raced, panic>>

WaitReturn(p) ==
    /\ At(p, "waitReturn")
    /\ waited' = waited \cup {<<p, arg[p], status[p]>>}
    /\ PlGoto(p, "user")
    /\ UNCHANGED <<block, onFreeList, children, pcRef, exitStatus, shared, arg, target,
                   status, killed, raced, panic>>

-----------------------------------------------------------------------------
(* thread_exit and process_exit                                            *)

\* The exit system call, with the status the program gives; a bad argument
\* or a page fault exits with -1.
SysExit(p, s) ==
    /\ At(p, "user") /\ p # Root
    /\ exitStatus' = [exitStatus EXCEPT ![p] = s]
    /\ PlGoto(p, "exitDec")
    /\ UNCHANGED <<block, onFreeList, children, pcRef, shared, arg, target, status,
                   waited, killed, raced, panic>>

\* exception.c kill(): any other exception in user mode; exit_status is left
\* at the 0 init_thread cleared it to.
Kill(p) ==
    /\ At(p, "user") /\ p # Root
    /\ killed' = killed \cup {p}
    /\ PlGoto(p, "exitDec")
    /\ UNCHANGED <<block, onFreeList, children, pcRef, exitStatus, shared, arg, target,
                   status, waited, raced, panic>>

\* mistake: the status is stored only after the parent has been woken
ExitDecNoStatus(p) ==
    LET b == pcRef[p]
    IN  /\ At(p, "exitDec")
        /\ block' = [block EXCEPT ![b].alive = @ - 1]
        /\ PlGoto(p, "exitUp")
        /\ UNCHANGED <<onFreeList, children, pcRef, exitStatus, shared, arg, target,
                       status, waited, killed, raced, panic>>

\* under alive_lock: store the status and count down
ExitDec(p) ==
    LET b == pcRef[p]
    IN  /\ At(p, "exitDec")
        /\ block' = [block EXCEPT ![b].status = exitStatus[p], ![b].alive = @ - 1]
        /\ panic' = IF block[b].waiters THEN "no" ELSE "freed"
        /\ PlGoto(p, "exitUp")
        /\ UNCHANGED <<onFreeList, children, pcRef, exitStatus, shared, arg, target,
                       status, waited, killed, raced>>

\* mistake: the parent is not woken
ExitUpForgotten(p) ==
    /\ At(p, "exitUp")
    /\ PlGoto(p, "exitTest")
    /\ UNCHANGED <<block, onFreeList, children, pcRef, exitStatus, shared, arg, target,
                   status, waited, killed, raced, panic>>

\* sema_up(&pc->sema)
ExitUp(p) ==
    LET b == pcRef[p]
    IN  /\ At(p, "exitUp")
        /\ block' = [block EXCEPT ![b].sema = @ + 1]
        /\ panic' = IF block[b].waiters THEN "no" ELSE "freed"
        /\ PlGoto(p, "exitTest")
        /\ UNCHANGED <<onFreeList, children, pcRef, exitStatus, shared, arg, target,
                       status, waited, killed, raced>>

\* if (pc->alive_count == 0), without the lock and after the parent may have
\* run: the block may be gone
ExitTest(p) ==
    /\ At(p, "exitTest")
    /\ PlGoto(p, IF block[pcRef[p]].alive = 0 THEN "exitRemove" ELSE "dead")
    /\ raced' = (raced \/ Races(pcRef[p]))
    /\ UNCHANGED <<block, onFreeList, children, pcRef, exitStatus, shared, arg, target,
                   status, waited, killed, panic>>

ExitRemove(p) ==
    /\ At(p, "exitRemove")
    /\ Unlink(pcRef[p])
    /\ PlGoto(p, "exitFree")
    /\ UNCHANGED <<block, onFreeList, pcRef, exitStatus, shared, arg, target, status,
                   waited, killed, raced>>

ExitFree(p) ==
    /\ At(p, "exitFree")
    /\ Free(pcRef[p])
    /\ PlGoto(p, "dead")
    /\ UNCHANGED <<children, pcRef, exitStatus, shared, arg, target, status, waited, killed, raced, panic>>

-----------------------------------------------------------------------------
\* what a thread does in the kernel once it has entered it
KernelStep(p) ==
    \/ Executed(p) \/ StartProcess(p)
    \/ WaitSema(p) \/ WaitDec(p) \/ WaitTest(p) \/ WaitRemove(p) \/ WaitFree(p) \/ WaitReturn(p)
    \/ ExitDec(p) \/ ExitUp(p) \/ ExitTest(p) \/ ExitRemove(p) \/ ExitFree(p)

\* what a user program does
UserStep(p) ==
    \/ \E c \in Proc : Execute(p, c) \/ ExecuteNoPage(p, c)
    \/ \E t \in Proc : Wait(p, t)
    \/ \E s \in ExitStatus : SysExit(p, s)
    \/ Kill(p)

PlNext == \E p \in Proc : KernelStep(p) \/ UserStep(p)

PlSpec == PlInit /\ [][PlNext]_plVars

\* The scheduler is round-robin and preemptive, so a thread that can run does.
PlFairSpec == PlSpec /\ \A p \in Proc : WF_plVars(KernelStep(p))

-----------------------------------------------------------------------------
\* Program counters, block references, semaphores and free-list counts have
\* their types.
PlTypeOK ==
    /\ ppc \in [Proc -> {"unborn", "load", "user", "execWait", "waitSema", "waitDec",
                        "waitTest", "waitRemove", "waitFree", "waitReturn", "exitDec",
                        "exitUp", "exitTest", "exitRemove", "exitFree", "dead"}]
    /\ onFreeList \in [Block -> Nat]
    /\ children \in [Proc -> SUBSET Block]
    /\ pcRef \in [Proc -> Block \cup {NoBlock}]
    /\ exitStatus \in [Proc -> Int]
    /\ shared \in [Proc -> [status : BOOLEAN, sema : 0 .. 1, block : Block \cup {NoBlock}]]
    /\ block \in [Block -> [child : Proc \cup {NoBlock}, status : Int, alive : Int, sema : Nat,
                           waiters : BOOLEAN, linked : BOOLEAN]]
    /\ arg \in [Proc -> Proc]
    /\ target \in [Proc -> Block \cup {NoBlock}]
    /\ status \in [Proc -> Int]
    /\ waited \subseteq Proc \X Proc \X Int
    /\ killed \subseteq Proc /\ raced \in BOOLEAN /\ panic \in Panics

Exiting == {"exitUp", "exitTest", "exitRemove", "exitFree", "dead"}

\* No load has failed so far.  process_execute frees the block of a child
\* whose load failed, and that child then still writes to it.
AllLoaded == \A p \in Proc : ppc[p] \in {"unborn", "load"} \/ p = Root \/ shared[p].status

\* The protocol of the shared block has been kept so far.  Once a block was
\* freed twice, malloc gives it to two children, which then share a status.
Unspoiled == AllLoaded /\ ~raced

\* process.c: process_wait "Waits for thread TID to die and returns its exit
\* status."  A wait that found the child on the children list returns the
\* status the child really exits with, after the child has stored it, and
\* only its own parent gets it, as long as no load has failed and no block was
\* freed from both sides.  Of a child killed by an exception that status is 0
\* (KilledGivesMinusOne is what process_wait says of it).
WaitReturnsStatus ==
    Unspoiled => \A w \in waited :
        /\ ppc[w[2]] \in Exiting
        /\ w[3] = IF w[2] \in killed THEN 0 ELSE exitStatus[w[2]]
        /\ <<w[1], w[2]>> \in MayExec

\* process.c: "If it was terminated by the kernel (i.e. killed due to an
\* exception), returns -1."
KilledGivesMinusOne == \A w \in waited : w[2] \in killed => w[3] = -1

\* process.c: "if process_wait() has already been successfully called for the
\* given TID, returns -1 immediately": the search of the children list does
\* not find a child whose status was already returned, though the block may
\* have been freed and reused since, under the same conditions.
WaitedOnlyOnce ==
    [][ Unspoiled => \A p \in Proc : ppc[p] = "user" /\ ppc'[p] = "waitSema" =>
            \A w \in waited : w[2] # arg'[p] ]_plVars

\* What exec reports as started has loaded: every child on a children list
\* has left load() and has told its parent that it succeeded.
OnlyLoadedChildren ==
    \A p \in Proc, b \in Block : b \in children[p] /\ block[b].child \in Proc =>
        /\ ppc[block[b].child] \notin {"unborn", "load"}
        /\ shared[block[b].child].status

\* What process_execute and process_wait tell a parent of a child is true.
ParentsToldTrue == PlTypeOK /\ OnlyLoadedChildren /\ WaitReturnsStatus

\* exec returns, and a parent in process_wait returns once its child has
\* exited, unless the kernel panics or, for the wait, a load has failed or a
\* block was freed from both sides.
WaitReturns ==
    \A p \in Proc :
        /\ (ppc[p] = "waitSema" /\ ppc[arg[p]] \in Exiting)
               ~> (ppc[p] = "user" \/ panic # "no" \/ ~Unspoiled)
        /\ (ppc[p] = "execWait") ~> (ppc[p] = "user" \/ panic # "no")

\* malloc.c: "Frees block P, which must have been previously allocated with
\* malloc()": no block is on the free list twice.
FreedOnce == \A b \in Block : onFreeList[b] <= 1

=============================================================================
