---------------------------- MODULE KernelThreads ----------------------------
(***************************************************************************)
(* Pintos threads on one processor (threads/thread.c), the semaphores,     *)
(* locks and condition variables made of them (threads/synch.c), and the   *)
(* timer with timer_sleep (devices/timer.c).  A step is what runs with     *)
(* interrupts off; between two steps the timer may interrupt and preempt.  *)
(***************************************************************************)
EXTENDS Integers, Sequences, FiniteSets, SequencesExt

CONSTANTS Threads,     \* kernel threads that may exist
          Main, Idle,  \* the initial thread, and the idle thread (not in Threads)
          TIME_SLICE,  \* ticks a thread may run
          Sleeps,      \* arguments of timer_sleep
          MaxSema      \* bound on the value of the free semaphore

ASSUME ThAssumption ==
  /\ Main \in Threads /\ Idle \notin Threads /\ IsFiniteSet(Threads)
  /\ Threads \cap {"lock", "free", "ready", "asleep"} = {}
  /\ TIME_SLICE \in Nat \ {0} /\ MaxSema \in Nat /\ Sleeps \subseteq Int

VARIABLES tstatus,       \* struct thread: its state; "none" when there is no such thread
          cpu,          \* the running thread
          ready_list,   \* the run queue
          thread_ticks, \* ticks since the last switch
          sema,         \* struct semaphore: value and waiters
          holder,       \* struct lock: the thread that holds the one lock
          cond,         \* struct condition: the waiting threads (one semaphore each)
          thread_list,  \* the sleeping threads, by time
          wake_up_tick, \* relative to now: ticks until the thread is due, 0 if it is
          tpc, want      \* where a thread is, and the semaphore it wants

ThVars == <<tstatus, cpu, ready_list, thread_ticks, sema, holder, cond, thread_list, wake_up_tick, tpc, want>>

\* The lock's semaphore, a free one, and the one of each waiter on the condition.
Semas == {"lock", "free"} \cup Threads
All == Threads \cup {Idle}

ThInit ==
  /\ tstatus = [t \in All |-> IF t = Main THEN "running" ELSE IF t = Idle THEN "blocked" ELSE "none"]
  /\ cpu = Main /\ ready_list = <<>> /\ thread_ticks = 0
  /\ sema = [s \in Semas |-> [value |-> IF s = "lock" THEN 1 ELSE 0, waiters |-> <<>>]]
  /\ holder = Idle /\ cond = <<>>       \* Idle stands for NULL
  /\ thread_list = <<>> /\ wake_up_tick = [t \in Threads |-> 0]
  /\ tpc = [t \in Threads |-> "run"] /\ want = [t \in Threads |-> "free"]

-----------------------------------------------------------------------------
(***************************************************************************)
(* The scheduler.                                                          *)
(***************************************************************************)
next_thread_to_run(list) == IF list = <<>> THEN Idle ELSE Head(list)

\* schedule and thread_schedule_tail: the running thread is now in state st,
\* and the run queue is list; a new time slice begins.
schedule(st, list) ==
  LET next == next_thread_to_run(list)
  IN /\ cpu' = next
     /\ ready_list' = IF list = <<>> THEN <<>> ELSE Tail(list)
     /\ tstatus' = [tstatus EXCEPT ![cpu] = st, ![next] = "running"]
     /\ thread_ticks' = 0

thread_block == schedule("blocked", ready_list)

\* mistake: the thread that yields is the next to run
RequeueFirst(list) == IF cpu = Idle THEN list ELSE <<cpu>> \o list

Requeue(list) == IF cpu = Idle THEN list ELSE Append(list, cpu)

thread_yield == schedule("ready", Requeue(ready_list))

\* The thread's page is freed by whoever runs next.
thread_exit == schedule("none", ready_list)

thread_unblock(t) ==
  /\ ready_list' = Append(ready_list, t)
  /\ tstatus' = [tstatus EXCEPT ![t] = "ready"]
  /\ UNCHANGED <<cpu, thread_ticks>>

KeepRunning == UNCHANGED <<tstatus, cpu, ready_list, thread_ticks>>

OnCpu(t, at) == cpu = t /\ tpc[t] = at
ThGoto(t, to) == tpc' = [tpc EXCEPT ![t] = to]

\* mistake: nobody is woken
sema_upForgets(s) == sema' = [sema EXCEPT ![s].value = @ + 1] /\ KeepRunning

\* mistake: the woken thread stays among the waiters
sema_upKeeps(s) ==
  /\ sema' = [sema EXCEPT ![s].value = @ + 1]
  /\ IF sema[s].waiters = <<>> THEN KeepRunning ELSE thread_unblock(Head(sema[s].waiters))

\* sema_up: wakes the first waiter; who takes the value is not decided yet.
sema_up(s) ==
  IF sema[s].waiters = <<>>
  THEN sema' = [sema EXCEPT ![s].value = @ + 1] /\ KeepRunning
  ELSE /\ sema' = [sema EXCEPT ![s] = [value |-> @.value + 1, waiters |-> Tail(@.waiters)]]
       /\ thread_unblock(Head(sema[s].waiters))

sema_try_down(s) ==
  /\ sema[s].value > 0
  /\ sema' = [sema EXCEPT ![s].value = @ - 1]
  /\ KeepRunning

\* One turn of sema_down's loop; a thread that waited looks again, and may
\* find that another was faster.
sema_down(t) ==
  LET s == want[t]
  IN /\ OnCpu(t, "down")
     /\ \/ /\ sema[s].value = 0
           /\ sema' = [sema EXCEPT ![s].waiters = Append(@, t)]
           /\ thread_block /\ UNCHANGED tpc
        \/ /\ sema_try_down(s)
           /\ ThGoto(t, IF s = "lock" THEN "locked" ELSE IF s = "free" THEN "run" ELSE "relock")
     /\ UNCHANGED <<holder, cond, thread_list, wake_up_tick, want>>

Down(t, s) == ThGoto(t, "down") /\ want' = [want EXCEPT ![t] = s]

-----------------------------------------------------------------------------
(***************************************************************************)
(* What a running thread may call.                                         *)
(***************************************************************************)
SemaDown(t) ==
  /\ OnCpu(t, "run") /\ Down(t, "free")
  /\ KeepRunning /\ UNCHANGED <<sema, holder, cond, thread_list, wake_up_tick>>

SemaUp(t) ==
  /\ OnCpu(t, "run") /\ sema["free"].value < MaxSema
  /\ sema_up("free")
  /\ UNCHANGED <<holder, cond, thread_list, wake_up_tick, tpc, want>>

\* lock_acquire: the semaphore, then the holder.
lock_acquire(t) ==
  /\ OnCpu(t, "run") /\ holder # t /\ Down(t, "lock")
  /\ KeepRunning /\ UNCHANGED <<sema, holder, cond, thread_list, wake_up_tick>>

lock_try_acquire(t) ==
  /\ OnCpu(t, "run") /\ holder # t
  /\ sema_try_down("lock") /\ ThGoto(t, "locked")
  /\ UNCHANGED <<holder, cond, thread_list, wake_up_tick, want>>

Locked(t) ==
  /\ OnCpu(t, "locked")
  /\ holder' = t /\ ThGoto(t, "run")
  /\ KeepRunning /\ UNCHANGED <<sema, cond, thread_list, wake_up_tick, want>>

\* lock_release: the holder, then the semaphore.
lock_release(t) ==
  /\ OnCpu(t, "run") /\ holder = t
  /\ holder' = Idle /\ ThGoto(t, "unlock")
  /\ KeepRunning /\ UNCHANGED <<sema, cond, thread_list, wake_up_tick, want>>

Unlock(t) ==
  /\ \/ OnCpu(t, "unlock") /\ ThGoto(t, "run") /\ UNCHANGED want
     \/ OnCpu(t, "cond_unlock") /\ Down(t, t)
  /\ sema_up("lock")
  /\ UNCHANGED <<holder, cond, thread_list, wake_up_tick>>

\* cond_wait: on the condition's list, lock released, down on the waiter's own
\* semaphore (sema_init makes it 0), lock acquired again.
cond_wait(t) ==
  /\ OnCpu(t, "run") /\ holder = t
  /\ cond' = Append(cond, t)
  /\ sema' = [sema EXCEPT ![t] = [value |-> 0, waiters |-> <<>>]]
  /\ holder' = Idle /\ ThGoto(t, "cond_unlock")
  /\ KeepRunning /\ UNCHANGED <<thread_list, wake_up_tick, want>>

Relock(t) ==
  /\ OnCpu(t, "relock") /\ Down(t, "lock")
  /\ KeepRunning /\ UNCHANGED <<sema, holder, cond, thread_list, wake_up_tick>>

\* cond_broadcast is as many signals as there are waiters, by one thread that
\* holds the lock.
cond_signal(t) ==
  /\ OnCpu(t, "run") /\ holder = t /\ cond # <<>>
  /\ sema_up(Head(cond)) /\ cond' = Tail(cond)
  /\ UNCHANGED <<holder, thread_list, wake_up_tick, tpc, want>>

Yield(t) ==
  /\ OnCpu(t, "run") /\ thread_yield
  /\ UNCHANGED <<sema, holder, cond, thread_list, wake_up_tick, tpc, want>>

\* Threads of this kernel do not exit with the lock held.
Exit(t) ==
  /\ OnCpu(t, "run") /\ holder # t
  /\ thread_exit
  /\ UNCHANGED <<sema, holder, cond, thread_list, wake_up_tick, tpc, want>>

\* thread_create: init_thread makes a blocked thread, which is unblocked at
\* once.  (When there is no page nothing happens.)
thread_create(t, new) ==
  /\ OnCpu(t, "run") /\ tstatus[new] = "none"
  /\ thread_unblock(new)
  /\ UNCHANGED <<sema, holder, cond, thread_list, wake_up_tick, tpc, want>>

-----------------------------------------------------------------------------
(***************************************************************************)
(* timer_sleep reads the time, and then, with interrupts off, enters the   *)
(* list and blocks; any number of ticks may come between the two.          *)
(***************************************************************************)
ReadTicks(t, ticks) ==
  /\ OnCpu(t, "run") /\ holder # t /\ ticks > 0
  /\ wake_up_tick' = [wake_up_tick EXCEPT ![t] = ticks] /\ ThGoto(t, "sleep")
  /\ KeepRunning /\ UNCHANGED <<sema, holder, cond, thread_list, want>>

\* list_insert_ordered: before the first that is later.
InsertOrdered(t) ==
  \E k \in 0..Len(thread_list) :
    /\ \A i \in 1..k : wake_up_tick[thread_list[i]] <= wake_up_tick[t]
    /\ k < Len(thread_list) => wake_up_tick[t] < wake_up_tick[thread_list[k + 1]]
    /\ thread_list' = SubSeq(thread_list, 1, k) \o <<t>> \o SubSeq(thread_list, k + 1, Len(thread_list))

timer_sleep(t) ==
  /\ OnCpu(t, "sleep")
  /\ InsertOrdered(t)
  /\ thread_block /\ ThGoto(t, "run")
  /\ UNCHANGED <<sema, holder, cond, wake_up_tick, want>>

Passed(n) == IF n > 0 THEN n - 1 ELSE 0
Due(t) == wake_up_tick'[t] = 0

\* A walk over the indices in S, in order.
Walks(S) ==
  {f \in [1..Cardinality(S) -> S] : S = {f[i] : i \in DOMAIN f} /\ \A i, j \in DOMAIN f : i < j => f[i] < f[j]}

\* The threads at the indices of a walk.
Visited(f) == [i \in DOMAIN f |-> thread_list[f[i]]]

\* thread_tick: whether the slice is used up and the interrupt is to end with a yield.
thread_tick == thread_ticks + 1 >= TIME_SLICE

\* timer_interrupt: those due become ready, in the order of the list; a thread
\* that has used its slice yields (idle is preempted without being queued).
timer_interrupt ==
  LET due == {i \in DOMAIN thread_list : Due(thread_list[i])}
  IN /\ wake_up_tick' = [t \in Threads |-> Passed(wake_up_tick[t])]
     /\ \E f \in Walks(due), g \in Walks(DOMAIN thread_list \ due) :
          LET woken == Visited(f)
              queue == ready_list \o woken
          IN /\ thread_list' = Visited(g)
             /\ IF thread_tick
                THEN LET list == Requeue(queue)
                         next == next_thread_to_run(list)
                     IN /\ cpu' = next /\ thread_ticks' = 0
                        /\ ready_list' = IF list = <<>> THEN <<>> ELSE Tail(list)
                        /\ tstatus' = [t \in All |-> IF t = next THEN "running"
                             ELSE IF t = cpu \/ t \in ToSet(woken) THEN "ready" ELSE tstatus[t]]
                ELSE /\ thread_ticks' = thread_ticks + 1 /\ ready_list' = queue
                     /\ tstatus' = [t \in All |-> IF t \in ToSet(woken) THEN "ready" ELSE tstatus[t]]
                     /\ UNCHANGED cpu
     /\ UNCHANGED <<sema, holder, cond, tpc, want>>

\* The idle thread, after the interrupt that ended its hlt: it blocks again,
\* and goes on with a new slice if nobody is ready.
idle ==
  /\ cpu = Idle /\ thread_block
  /\ UNCHANGED <<sema, holder, cond, thread_list, wake_up_tick, tpc, want>>

-----------------------------------------------------------------------------
\* A running thread inside a primitive goes on.
InPrimitive(t) == sema_down(t) \/ Locked(t) \/ Unlock(t) \/ Relock(t) \/ timer_sleep(t)

AnyCall(t) ==
  \/ SemaDown(t) \/ SemaUp(t) \/ Yield(t) \/ Exit(t)
  \/ lock_acquire(t) \/ lock_try_acquire(t) \/ lock_release(t)
  \/ cond_wait(t) \/ cond_signal(t)
  \/ \E new \in Threads : thread_create(t, new)
  \/ \E ticks \in Sleeps : ReadTicks(t, ticks)

ThNext ==
  \/ timer_interrupt
  \/ idle
  \/ \E t \in Threads : InPrimitive(t) \/ AnyCall(t)

\* The 8254 keeps interrupting, and hlt ends with an interrupt.
ThFairness == WF_ThVars(timer_interrupt) /\ WF_ThVars(idle)

ThSpec == ThInit /\ [][ThNext]_ThVars /\ ThFairness

ThTypeOK ==
  /\ tstatus \in [All -> {"none", "running", "ready", "blocked"}]
  /\ cpu \in All /\ thread_ticks \in 0..(TIME_SLICE - 1)
  /\ ready_list \in Seq(Threads) /\ cond \in Seq(Threads) /\ thread_list \in Seq(Threads)
  /\ sema \in [Semas -> [value : 0..(MaxSema + 1), waiters : Seq(Threads)]]
  /\ holder \in All /\ want \in [Threads -> Semas] /\ wake_up_tick \in [Threads -> Nat]
  /\ tpc \in [Threads -> {"run", "down", "locked", "unlock", "cond_unlock", "relock", "sleep"}]

\* The lists a thread may be on: struct thread's one `elem' is shared by the
\* run queue and the waiters of the semaphores.
Queue(q) == CASE q = "ready" -> ready_list [] q = "asleep" -> thread_list [] OTHER -> sema[q].waiters
Queues == {"ready", "asleep"} \cup Semas

\* A thread is on one list at most, and there once: on the run queue exactly
\* when it is ready and on a waiting list exactly when it is blocked; one
\* thread runs; the idle thread is never queued (thread_yield, thread_block,
\* thread_unblock, sema_down).
QueuesAgree ==
  /\ {t \in All : tstatus[t] = "running"} = {cpu}
  /\ \A q \in Queues : IsInjective(Queue(q))
  /\ \A q, r \in Queues : q # r => ToSet(Queue(q)) \cap ToSet(Queue(r)) = {}
  /\ ToSet(ready_list) = {t \in Threads : tstatus[t] = "ready"}
  /\ UNION {ToSet(Queue(q)) : q \in Queues \ {"ready"}} = {t \in Threads : tstatus[t] = "blocked"}

\* Run queue, waiting lists and thread states stay together (thread.c).
QueuesSound == ThTypeOK /\ QueuesAgree

\* The lock's semaphore is 0 exactly when one thread is between taking it and
\* giving it back, whether or not holder names it yet (lock_acquire writes
\* holder after sema_down, lock_release clears it before sema_up).
MutualExclusion ==
  LET in == {t \in Threads : holder = t \/ tpc[t] \in {"locked", "unlock", "cond_unlock"}}
  IN Cardinality(in) = 1 - sema["lock"].value

\* sema_up wakes one thread and does not hand it the value: another may take
\* it first, and the woken one looks again and waits again.  Even so no value
\* lies unused while a thread waits: as many threads as there are values are
\* awake and about to look.
NoLostWakeup ==
  \A s \in Semas : sema[s].waiters # <<>> =>
    sema[s].value <= Cardinality({t \in Threads : want[t] = s /\ tpc[t] = "down" /\ tstatus[t] # "blocked"})

\* A thread in cond_wait is still on the condition's list or has been signalled,
\* from before it lets go of the lock: no signal falls between the two.
SignalsReachWaiters ==
  \A t \in Threads : tpc[t] = "cond_unlock" \/ (tpc[t] = "down" /\ want[t] = t) =>
    ((t \in ToSet(cond)) # (sema[t].value = 1))

\* Semaphores, locks and conditions keep their promises under preemption
\* anywhere (synch.c).
SynchronizationSound == MutualExclusion /\ NoLostWakeup /\ SignalsReachWaiters

\* Round robin with preemption: a ready thread runs, whatever the others do,
\* and a thread in timer_sleep runs again.
EveryoneRuns ==
  \A t \in Threads : (tstatus[t] = "ready" \/ t \in ToSet(thread_list)) ~> (cpu = t)

=============================================================================
