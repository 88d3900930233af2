------------------------- MODULE KernelThreadsProofs -------------------------
(***************************************************************************)
(* Proofs about the scheduler and the synchronization primitives, for any  *)
(* finite set of threads, any time slice, any sleeps and any bound on the  *)
(* free semaphore; and about the heap that the threads share, for any page *)
(* size, pools and sizes that do not wrap.                                 *)
(***************************************************************************)
EXTENDS KernelThreads, KernelMemory, ModuloLemmas, FiniteSetTheorems, SequenceTheorems, TLAPS

\* One thread runs; a thread is on the run queue, once, exactly when it is ready.
RunQueue ==
  /\ \A t \in All : tstatus[t] = "running" <=> t = cpu
  /\ IsInjective(ready_list)
  /\ \A t \in Threads : t \in ToSet(ready_list) <=> tstatus[t] = "ready"

\* A blocked thread is asleep or waits for the semaphore it wants, once.
WaitQueues ==
  /\ IsInjective(thread_list)
  /\ \A t \in ToSet(thread_list) : tstatus[t] = "blocked" /\ tpc[t] = "run"
  /\ \A s \in Semas : IsInjective(sema[s].waiters)
  /\ \A s \in Semas : \A t \in ToSet(sema[s].waiters) :
       tstatus[t] = "blocked" /\ tpc[t] = "down" /\ want[t] = s
  /\ \A t \in Threads : tstatus[t] = "blocked" =>
       t \in ToSet(thread_list) \/ t \in ToSet(sema[want[t]].waiters)

\* A thread waits for the lock, the free semaphore, or its own on the condition.
OwnSemas ==
  /\ \A t \in Threads : want[t] \in {"lock", "free", t} /\ sema[t].value <= 1
  /\ sema["free"].value <= MaxSema

QueuesInv == ThTypeOK /\ RunQueue /\ WaitQueues /\ OwnSemas

InLock(t) == tpc[t] \in {"locked", "unlock", "cond_unlock"}

\* The lock's semaphore is 1, and nobody has the lock, or it is 0 and one
\* thread has it; that thread is the holder, or nobody is called so (yet, or
\* any longer).
LockInv ==
  /\ \A t \in Threads : InLock(t) => holder = Idle
  /\ \/ sema["lock"].value = 1 /\ holder = Idle /\ \A t \in Threads : ~InLock(t)
     \/ /\ sema["lock"].value = 0
        /\ \E t \in Threads : /\ holder = t \/ InLock(t)
                              /\ \A u \in Threads : holder = u \/ InLock(u) => u = t

InWait(t) == tpc[t] = "cond_unlock" \/ (tpc[t] = "down" /\ want[t] = t)

\* The condition's list holds threads in cond_wait, each once.
CondInv ==
  /\ IsInjective(cond)
  /\ \A t \in ToSet(cond) : InWait(t)
  /\ \A t \in Threads : InWait(t) => (t \in ToSet(cond) <=> sema[t].value = 0)

SyncInv == LockInv /\ CondInv /\ NoLostWakeup

ThInv == QueuesInv /\ SyncInv

-----------------------------------------------------------------------------
(* Lists.                                                                  *)

LEMMA EmptyList ==
  ASSUME NEW T, NEW s \in Seq(T)
  PROVE  /\ ToSet(s) \subseteq T /\ (s = <<>> <=> ToSet(s) = {})
         /\ ToSet(<<>>) = {} /\ IsInjective(<<>>) /\ <<>> \in Seq(T)
<1>1. s # <<>> => 1 \in DOMAIN s OBVIOUS
<1>2. s # <<>> => ToSet(s) # {} BY <1>1 DEF ToSet
<1> QED BY <1>2 DEF ToSet, IsInjective

\* list_push_back
LEMMA PushBack ==
  ASSUME NEW T, NEW s \in Seq(T), NEW x \in T, x \notin ToSet(s), IsInjective(s)
  PROVE  /\ Append(s, x) \in Seq(T) /\ ToSet(Append(s, x)) = ToSet(s) \cup {x}
         /\ IsInjective(Append(s, x))
<1>1. /\ Append(s, x) \in Seq(T) /\ Len(Append(s, x)) = Len(s) + 1 /\ Append(s, x)[Len(s) + 1] = x
      /\ \A i \in 1 .. Len(s) : Append(s, x)[i] = s[i]
  OBVIOUS
<1> DEFINE r == Append(s, x)
<1>2. DOMAIN r = 1 .. Len(s) + 1 /\ DOMAIN s = 1 .. Len(s) /\ Len(s) \in Nat BY <1>1
<1>3. \A i \in 1 .. Len(s) : r[i] = s[i] /\ r[Len(s) + 1] = x BY <1>1
<1>4. r[Len(s) + 1] = x BY <1>1
<1> HIDE DEF r
<1>5. ToSet(r) = ToSet(s) \cup {x} BY <1>2, <1>3, <1>4 DEF ToSet
<1>6. IsInjective(r)
  <2> SUFFICES ASSUME NEW i \in DOMAIN r, NEW j \in DOMAIN r, r[i] = r[j] PROVE i = j BY DEF IsInjective
  <2>1. \A k \in 1 .. Len(s) : s[k] # x BY <1>2 DEF ToSet
  <2> QED BY <1>2, <1>3, <1>4, <2>1 DEF IsInjective
<1> QED BY <1>1, <1>5, <1>6 DEF r

\* list_pop_front
LEMMA PopFront ==
  ASSUME NEW T, NEW s \in Seq(T), s # <<>>, IsInjective(s)
  PROVE  /\ Head(s) \in T /\ Head(s) \in ToSet(s) /\ Tail(s) \in Seq(T)
         /\ ToSet(Tail(s)) = ToSet(s) \ {Head(s)} /\ IsInjective(Tail(s))
<1> DEFINE r == Tail(s)
<1>1. /\ Head(s) = s[1] /\ Head(s) \in T /\ r \in Seq(T) /\ Len(r) = Len(s) - 1 /\ Len(s) \in Nat \ {0}
      /\ \A i \in 1 .. Len(r) : r[i] = s[i + 1]
  OBVIOUS
<1>2. DOMAIN r = 1 .. Len(r) /\ DOMAIN s = 1 .. Len(s) BY <1>1
<1> HIDE DEF r
<1>3. \A i \in DOMAIN s : i # 1 => s[i] # s[1] /\ i - 1 \in DOMAIN r /\ r[i - 1] = s[i]
  BY <1>1, <1>2 DEF IsInjective
<1>4. \A i \in DOMAIN r : r[i] = s[i + 1] /\ i + 1 \in DOMAIN s /\ i + 1 # 1 BY <1>1, <1>2
<1>5. ToSet(r) = ToSet(s) \ {s[1]} BY <1>3, <1>4 DEF ToSet
<1>6. s[1] \in ToSet(s) BY <1>1, <1>2 DEF ToSet
<1>7. IsInjective(r) BY <1>2, <1>4 DEF IsInjective
<1> QED BY <1>1, <1>5, <1>6, <1>7 DEF r

\* One list after another.
LEMMA Joined ==
  ASSUME NEW T, NEW s \in Seq(T), NEW r \in Seq(T), IsInjective(s), IsInjective(r),
         ToSet(s) \cap ToSet(r) = {}
  PROVE  /\ s \o r \in Seq(T) /\ ToSet(s \o r) = ToSet(s) \cup ToSet(r) /\ IsInjective(s \o r)
<1> DEFINE q == s \o r
<1>1. /\ q \in Seq(T) /\ Len(q) = Len(s) + Len(r) /\ Len(s) \in Nat /\ Len(r) \in Nat
      /\ \A i \in 1 .. Len(q) : q[i] = IF i <= Len(s) THEN s[i] ELSE r[i - Len(s)]
  OBVIOUS
<1>2. DOMAIN q = 1 .. Len(q) /\ DOMAIN s = 1 .. Len(s) /\ DOMAIN r = 1 .. Len(r) BY <1>1
<1> HIDE DEF q
<1>3. ToSet(q) = ToSet(s) \cup ToSet(r)
  <2>1. \A i \in DOMAIN s : i \in DOMAIN q /\ q[i] = s[i] BY <1>1, <1>2
  <2>2. \A i \in DOMAIN r : i + Len(s) \in DOMAIN q /\ q[i + Len(s)] = r[i] BY <1>1, <1>2
  <2>3. ASSUME NEW i \in DOMAIN q PROVE q[i] \in ToSet(s) \/ q[i] \in ToSet(r)
    <3>1. CASE i <= Len(s) BY <1>1, <1>2, <3>1 DEF ToSet
    <3>2. CASE ~(i <= Len(s))
      <4>1. i - Len(s) \in DOMAIN r /\ q[i] = r[i - Len(s)] BY <1>1, <1>2, <3>2
      <4> QED BY <4>1 DEF ToSet
    <3> QED BY <3>1, <3>2
  <2> QED BY <2>1, <2>2, <2>3 DEF ToSet
<1>4. IsInjective(q)
  <2> SUFFICES ASSUME NEW i \in DOMAIN q, NEW j \in DOMAIN q, q[i] = q[j] PROVE i = j BY DEF IsInjective
  <2>1. CASE i <= Len(s) /\ j <= Len(s) BY <1>1, <1>2, <2>1 DEF IsInjective
  <2>2. CASE ~(i <= Len(s)) /\ ~(j <= Len(s))
    <3>1. i - Len(s) \in DOMAIN r /\ j - Len(s) \in DOMAIN r /\ r[i - Len(s)] = r[j - Len(s)] BY <1>1, <1>2, <2>2
    <3> QED BY <1>1, <1>2, <3>1 DEF IsInjective
  <2>3. \A a \in DOMAIN s, b \in DOMAIN r : s[a] # r[b] BY DEF ToSet
  <2>4. CASE i <= Len(s) /\ ~(j <= Len(s))
    <3>1. i \in DOMAIN s /\ j - Len(s) \in DOMAIN r /\ q[i] = s[i] /\ q[j] = r[j - Len(s)] BY <1>1, <1>2, <2>4
    <3> QED BY <2>3, <3>1
  <2>5. CASE ~(i <= Len(s)) /\ j <= Len(s)
    <3>1. j \in DOMAIN s /\ i - Len(s) \in DOMAIN r /\ q[j] = s[j] /\ q[i] = r[i - Len(s)] BY <1>1, <1>2, <2>5
    <3> QED BY <2>3, <3>1
  <2> QED BY <2>1, <2>2, <2>4, <2>5
<1> QED BY <1>1, <1>3, <1>4 DEF q

\* list_insert
LEMMA Inserted ==
  ASSUME NEW T, NEW s \in Seq(T), NEW x \in T, x \notin ToSet(s), IsInjective(s), NEW k \in 0 .. Len(s)
  PROVE  LET r == SubSeq(s, 1, k) \o <<x>> \o SubSeq(s, k + 1, Len(s))
         IN  r \in Seq(T) /\ ToSet(r) = ToSet(s) \cup {x} /\ IsInjective(r)
<1> DEFINE r == SubSeq(s, 1, k) \o <<x>> \o SubSeq(s, k + 1, Len(s))
<1>1. /\ r \in Seq(T) /\ Len(r) = Len(s) + 1 /\ Len(s) \in Nat
      /\ \A i \in 1 .. Len(r) : r[i] = IF i <= k THEN s[i] ELSE IF i = k + 1 THEN x ELSE s[i - 1]
  <2> DEFINE a == SubSeq(s, 1, k)
             b == SubSeq(s, k + 1, Len(s))
             c == a \o <<x>>
  <2>1. a \in Seq(T) /\ Len(a) = k /\ \A i \in 1 .. k : a[i] = s[i] OBVIOUS
  <2>2. b \in Seq(T) /\ Len(b) = Len(s) - k /\ \A i \in 1 .. Len(b) : b[i] = s[k + i] OBVIOUS
  <2> HIDE DEF a, b
  <2>3. /\ c \in Seq(T) /\ Len(c) = k + 1 /\ c[k + 1] = x /\ \A i \in 1 .. k : c[i] = s[i] BY <2>1
  <2> HIDE DEF c
  <2>4. /\ c \o b \in Seq(T) /\ Len(c \o b) = Len(s) + 1 /\ Len(s) \in Nat
        /\ \A i \in 1 .. Len(s) + 1 : (c \o b)[i] = IF i <= k + 1 THEN c[i] ELSE b[i - (k + 1)]
    <3>1. /\ c \o b \in Seq(T) /\ Len(c \o b) = Len(c) + Len(b)
          /\ \A i \in 1 .. Len(c) + Len(b) : (c \o b)[i] = IF i <= Len(c) THEN c[i] ELSE b[i - Len(c)]
      BY <2>2, <2>3, ConcatProperties
    <3>2. Len(c) + Len(b) = Len(s) + 1 /\ Len(s) \in Nat
      BY <2>2, <2>3
    <3> QED BY <2>3, <3>1, <3>2
  <2>5. r = c \o b BY DEF a, b, c
  <2> HIDE DEF r
  <2>6. ASSUME NEW i \in 1 .. Len(s) + 1
        PROVE  r[i] = IF i <= k THEN s[i] ELSE IF i = k + 1 THEN x ELSE s[i - 1]
    <3>1. CASE i <= k + 1 BY <2>3, <2>4, <2>5, <3>1
    <3>2. CASE ~(i <= k + 1)
      <4>1. i - (k + 1) \in 1 .. Len(b) BY <2>2, <3>2
      <4>2. b[i - (k + 1)] = s[i - 1] BY <2>2, <4>1
      <4> QED BY <2>4, <2>5, <3>2, <4>2
    <3> QED BY <3>1, <3>2
  <2> QED BY <2>4, <2>5, <2>6
<1> HIDE DEF r
<1>2. DOMAIN r = 1 .. Len(s) + 1 /\ DOMAIN s = 1 .. Len(s) BY <1>1
<1>3. \A i \in DOMAIN s : s[i] # x BY DEF ToSet
<1>4. ToSet(r) = ToSet(s) \cup {x}
  <2>1. ASSUME NEW i \in DOMAIN r PROVE r[i] \in ToSet(s) \cup {x}
    <3>1. CASE i <= k BY <1>1, <1>2, <3>1 DEF ToSet
    <3>2. CASE i = k + 1 BY <1>1, <1>2, <3>2
    <3>3. CASE i > k + 1
      <4>1. i - 1 \in DOMAIN s /\ r[i] = s[i - 1] BY <1>1, <1>2, <3>3
      <4> QED BY <4>1 DEF ToSet
    <3> QED BY <1>2, <3>1, <3>2, <3>3
  <2>2. k + 1 \in DOMAIN r /\ r[k + 1] = x BY <1>1, <1>2
  <2>3. \A i \in DOMAIN s : IF i <= k THEN i \in DOMAIN r /\ r[i] = s[i] ELSE i + 1 \in DOMAIN r /\ r[i + 1] = s[i]
    BY <1>1, <1>2
  <2> QED BY <2>1, <2>2, <2>3 DEF ToSet
<1>5. IsInjective(r)
  <2> SUFFICES ASSUME NEW i \in DOMAIN r, NEW j \in DOMAIN r, r[i] = r[j] PROVE i = j BY DEF IsInjective
  <2> DEFINE at(m) == IF m <= k THEN m ELSE m - 1
  <2>1. ASSUME NEW m \in DOMAIN r PROVE r[m] = IF m = k + 1 THEN x ELSE s[at(m)] BY <1>1, <1>2
  <2>2. ASSUME NEW m \in DOMAIN r, m # k + 1 PROVE at(m) \in DOMAIN s BY <1>1, <1>2, <2>2
  <2>3. CASE i # k + 1 /\ j # k + 1
    <3>1. at(i) = at(j) BY <2>1, <2>2, <2>3 DEF IsInjective
    <3> QED BY <1>1, <1>2, <2>3, <3>1
  <2>4. CASE i = k + 1 /\ j # k + 1 BY <1>3, <2>1, <2>2, <2>4
  <2>5. CASE i # k + 1 /\ j = k + 1 BY <1>3, <2>1, <2>2, <2>5
  <2> QED BY <2>3, <2>4, <2>5
<1> QED BY <1>1, <1>4, <1>5 DEF r

\* A walk over some of the sleeping threads visits each of them once.
LEMMA Walked ==
  ASSUME thread_list \in Seq(Threads), IsInjective(thread_list), NEW S \in SUBSET DOMAIN thread_list,
         NEW f \in Walks(S)
  PROVE  /\ Visited(f) \in Seq(Threads) /\ IsInjective(Visited(f))
         /\ ToSet(Visited(f)) = {thread_list[i] : i \in S}
<1>1. IsFiniteSet(S)
  <2>1. DOMAIN thread_list = 1 .. Len(thread_list) /\ Len(thread_list) \in Nat OBVIOUS
  <2>2. IsFiniteSet(DOMAIN thread_list) BY <2>1, FS_Interval
  <2> QED BY <2>2, FS_Subset
<1>2. Cardinality(S) \in Nat BY <1>1, FS_CardinalityType
<1>3. /\ f \in [1 .. Cardinality(S) -> S] /\ DOMAIN f = 1 .. Cardinality(S) /\ S = {f[i] : i \in DOMAIN f}
      /\ \A i, j \in DOMAIN f : i < j => f[i] < f[j]
  BY DEF Walks
<1>4. \A i, j \in DOMAIN f : f[i] = f[j] => i = j BY <1>2, <1>3
<1>5. DOMAIN Visited(f) = 1 .. Cardinality(S) /\ \A i \in DOMAIN f : Visited(f)[i] = thread_list[f[i]]
  BY <1>3 DEF Visited
<1>6. \A i \in DOMAIN f : f[i] \in DOMAIN thread_list /\ thread_list[f[i]] \in Threads BY <1>3
<1>7. Visited(f) \in [1 .. Cardinality(S) -> Threads] BY <1>3, <1>6 DEF Visited
<1>8. Visited(f) \in Seq(Threads) BY <1>2, <1>7
<1>9. IsInjective(Visited(f))
  BY <1>3, <1>4, <1>5, <1>6 DEF IsInjective
<1>10. ToSet(Visited(f)) = {thread_list[i] : i \in S} BY <1>3, <1>5 DEF ToSet
<1> QED BY <1>8, <1>9, <1>10

-----------------------------------------------------------------------------
(* The run queue and the waiting lists.                                    *)

States == {"none", "running", "ready", "blocked"}

\* The types of what is changed one thread or one semaphore at a time.
LEMMA ThTypes ==
  ASSUME ThTypeOK
  PROVE  /\ tstatus \in [All -> States] /\ cpu \in All
         /\ ready_list \in Seq(Threads) /\ thread_list \in Seq(Threads) /\ cond \in Seq(Threads)
         /\ \A s \in Semas : /\ sema[s] \in [value : 0..(MaxSema + 1), waiters : Seq(Threads)]
                             /\ sema[s].value \in Nat /\ sema[s].waiters \in Seq(Threads)
         /\ \A t \in Threads : want[t] \in Semas
         /\ ToSet(ready_list) \subseteq Threads /\ ToSet(thread_list) \subseteq Threads
         /\ \A s \in Semas : ToSet(sema[s].waiters) \subseteq Threads
         /\ Threads \subseteq All /\ Threads \subseteq Semas /\ Idle \in All /\ Idle \notin Threads
<1>1. \A s \in Semas : /\ sema[s] \in [value : 0..(MaxSema + 1), waiters : Seq(Threads)]
                       /\ sema[s].value \in Nat /\ sema[s].waiters \in Seq(Threads)
  BY ThAssumption DEF ThTypeOK
<1>2. \A s \in Semas : ToSet(sema[s].waiters) \subseteq Threads BY <1>1, EmptyList
<1>3. ToSet(ready_list) \subseteq Threads /\ ToSet(thread_list) \subseteq Threads BY EmptyList DEF ThTypeOK
<1> QED BY <1>1, <1>2, <1>3, ThAssumption DEF ThTypeOK, All, Semas, States

\* The next thread runs and is off the run queue.
LEMMA NextRuns ==
  ASSUME ThTypeOK, NEW list \in Seq(Threads), IsInjective(list), cpu' = next_thread_to_run(list),
         ready_list' = IF list = <<>> THEN <<>> ELSE Tail(list),
         \A t \in All : tstatus'[t] = "running" <=> t = cpu',
         \A t \in Threads : t # cpu' => (tstatus'[t] = "ready" <=> t \in ToSet(list))
  PROVE  RunQueue' /\ ready_list' \in Seq(Threads)
<1>1. CASE list = <<>>
  <2>1. cpu' = Idle /\ ready_list' = <<>> BY <1>1 DEF next_thread_to_run
  <2>2. ToSet(list) = {} /\ ToSet(ready_list') = {} /\ IsInjective(ready_list') /\ ready_list' \in Seq(Threads)
    BY <1>1, <2>1, EmptyList
  <2>3. \A t \in Threads : t # cpu' BY <2>1, ThAssumption
  <2> QED BY <2>2, <2>3 DEF RunQueue
<1>2. CASE list # <<>>
  <2>1. cpu' = Head(list) /\ ready_list' = Tail(list) BY <1>2 DEF next_thread_to_run
  <2>2. /\ ready_list' \in Seq(Threads) /\ IsInjective(ready_list') /\ ToSet(ready_list') = ToSet(list) \ {cpu'}
        /\ cpu' \in Threads
    BY <1>2, <2>1, PopFront
  <2>3. tstatus'[cpu'] # "ready" BY <2>2, ThTypes
  <2> QED BY <2>2, <2>3 DEF RunQueue
<1> QED BY <1>1, <1>2

\* schedule() after the running thread was put into state st.
LEMMA Scheduled ==
  ASSUME QueuesInv, NEW st \in {"none", "ready", "blocked"}, NEW list \in Seq(Threads), IsInjective(list),
         ToSet(list) = ToSet(ready_list) \cup (IF st = "ready" THEN {cpu} \cap Threads ELSE {}),
         schedule(st, list)
  PROVE  /\ RunQueue' /\ ready_list' \in Seq(Threads) /\ cpu' \in All
         /\ thread_ticks' \in 0..(TIME_SLICE - 1) /\ tstatus' \in [All -> States]
         /\ \A t \in Threads : tstatus'[t] = "blocked" <=> IF t = cpu THEN st = "blocked" ELSE tstatus[t] = "blocked"
<1> USE DEF QueuesInv
<1> DEFINE next == next_thread_to_run(list)
<1>1. /\ cpu' = next /\ thread_ticks' = 0 /\ ready_list' = IF list = <<>> THEN <<>> ELSE Tail(list)
      /\ tstatus' = [tstatus EXCEPT ![cpu] = st, ![next] = "running"]
  BY DEF schedule
<1>2. next \in All /\ (next \in Threads => next \in ToSet(list))
  <2>1. CASE list = <<>> BY <2>1, ThTypes DEF next_thread_to_run
  <2>2. CASE list # <<>> BY <2>2, ThTypes, PopFront DEF next_thread_to_run
  <2> QED BY <2>1, <2>2
<1> HIDE DEF next
<1>3. /\ tstatus' \in [All -> States]
      /\ \A t \in All : tstatus'[t] = IF t = next THEN "running" ELSE IF t = cpu THEN st ELSE tstatus[t]
  BY <1>1, <1>2, ThTypes DEF States
<1>4. \A t \in All : tstatus'[t] = "running" <=> t = cpu' BY <1>1, <1>3 DEF RunQueue
<1>5. cpu \notin ToSet(ready_list)
  <2>1. tstatus[cpu] = "running" BY ThTypes DEF RunQueue
  <2> QED BY <2>1, ThTypes DEF RunQueue
<1>6. ASSUME NEW t \in Threads, t # cpu' PROVE tstatus'[t] = "ready" <=> t \in ToSet(list)
  <2>1. CASE t = cpu BY <1>1, <1>3, <1>5, <1>6, <2>1, ThTypes
  <2>2. CASE t # cpu BY <1>1, <1>3, <1>6, <2>2, ThTypes DEF RunQueue
  <2> QED BY <2>1, <2>2
<1>7. RunQueue' /\ ready_list' \in Seq(Threads) BY <1>1, <1>4, <1>6, NextRuns DEF next
<1>8. ASSUME NEW t \in Threads
      PROVE  tstatus'[t] = "blocked" <=> IF t = cpu THEN st = "blocked" ELSE tstatus[t] = "blocked"
  <2>1. CASE t = next
    <3>1. t = cpu => st = "ready" BY <1>2, <1>5, <2>1
    <3>2. t # cpu => tstatus[t] = "ready" BY <1>2, <2>1 DEF RunQueue
    <3> QED BY <1>3, <2>1, <3>1, <3>2, ThTypes
  <2>2. CASE t # next BY <1>3, <2>2, ThTypes
  <2> QED BY <2>1, <2>2
<1>9. 0 \in 0..(TIME_SLICE - 1) BY ThAssumption
<1> QED BY <1>1, <1>2, <1>3, <1>7, <1>8, <1>9

\* The waiting lists stay, and so do the threads on them.
LEMMA WaitsStay ==
  ASSUME QueuesInv, thread_list' = thread_list, \A s \in Semas : sema'[s].waiters = sema[s].waiters,
         \A t \in Threads : tstatus'[t] = "blocked" <=> tstatus[t] = "blocked",
         \A t \in Threads : tstatus[t] = "blocked" => tpc'[t] = tpc[t] /\ want'[t] = want[t]
  PROVE  WaitQueues'
<1> USE DEF QueuesInv
<1>1. IsInjective(thread_list') /\ \A s \in Semas : IsInjective(sema'[s].waiters) BY DEF WaitQueues
<1>2. \A t \in ToSet(thread_list') : tstatus'[t] = "blocked" /\ tpc'[t] = "run" BY ThTypes DEF WaitQueues
<1>3. ASSUME NEW s \in Semas, NEW t \in ToSet(sema'[s].waiters)
      PROVE  tstatus'[t] = "blocked" /\ tpc'[t] = "down" /\ want'[t] = s
  BY ThTypes DEF WaitQueues
<1>4. ASSUME NEW t \in Threads, tstatus'[t] = "blocked"
      PROVE  t \in ToSet(thread_list') \/ t \in ToSet(sema'[want'[t]].waiters)
  BY <1>4, ThTypes DEF WaitQueues
<1> QED BY <1>1, <1>2, <1>3, <1>4 DEF WaitQueues

\* A running thread goes on.
LEMMA KeptRunning ==
  ASSUME QueuesInv, KeepRunning, thread_list' = thread_list,
         \A s \in Semas : sema'[s].waiters = sema[s].waiters,
         \A t \in Threads \ {cpu} : tpc'[t] = tpc[t] /\ want'[t] = want[t]
  PROVE  RunQueue' /\ WaitQueues'
<1> USE DEF QueuesInv, KeepRunning
<1>1. RunQueue' BY DEF RunQueue
<1>2. tstatus[cpu] = "running" BY ThTypes DEF RunQueue
<1> QED BY <1>1, <1>2, WaitsStay

\* thread_unblock puts a thread that neither runs nor is ready on the run queue.
LEMMA Unblocked ==
  ASSUME QueuesInv, NEW t \in Threads, tstatus[t] \in {"none", "blocked"}, thread_unblock(t)
  PROVE  /\ RunQueue' /\ tstatus' \in [All -> States] /\ ready_list' \in Seq(Threads)
         /\ tstatus'[t] = "ready" /\ \A u \in All \ {t} : tstatus'[u] = tstatus[u]
<1> USE DEF QueuesInv
<1>1. /\ ready_list' = Append(ready_list, t) /\ tstatus' = [tstatus EXCEPT ![t] = "ready"] /\ cpu' = cpu
  BY DEF thread_unblock
<1>2. /\ tstatus' \in [All -> States] /\ tstatus'[t] = "ready" /\ \A u \in All \ {t} : tstatus'[u] = tstatus[u]
  BY <1>1, ThTypes DEF States
<1>3. t \notin ToSet(ready_list) /\ IsInjective(ready_list) BY DEF RunQueue
<1>4. /\ ready_list' \in Seq(Threads) /\ IsInjective(ready_list')
      /\ ToSet(ready_list') = ToSet(ready_list) \cup {t}
  BY <1>1, <1>3, ThTypes, PushBack
<1>5. t # cpu BY ThTypes DEF RunQueue
<1>6. RunQueue' BY <1>1, <1>2, <1>4, <1>5, ThTypes DEF RunQueue
<1> QED BY <1>2, <1>4, <1>6

\* sema_up wakes the first waiter.
LEMMA Woken ==
  ASSUME QueuesInv, NEW s \in Semas, sema[s].waiters # <<>>, thread_unblock(Head(sema[s].waiters)),
         sema'[s].waiters = Tail(sema[s].waiters), \A r \in Semas \ {s} : sema'[r].waiters = sema[r].waiters,
         thread_list' = thread_list, \A t \in Threads \ {cpu} : tpc'[t] = tpc[t] /\ want'[t] = want[t]
  PROVE  /\ RunQueue' /\ WaitQueues' /\ tstatus' \in [All -> States] /\ ready_list' \in Seq(Threads)
         /\ LET t == Head(sema[s].waiters)
            IN  /\ t \in Threads /\ tpc[t] = "down" /\ want[t] = s /\ tstatus[t] = "blocked" /\ tstatus'[t] = "ready"
                /\ t # cpu /\ \A u \in All \ {t} : tstatus'[u] = tstatus[u]
<1> USE DEF QueuesInv
<1>1. PICK t : t = Head(sema[s].waiters) OBVIOUS
<1>2. /\ t \in Threads /\ t \in ToSet(sema[s].waiters) /\ IsInjective(sema'[s].waiters)
      /\ ToSet(sema'[s].waiters) = ToSet(sema[s].waiters) \ {t}
  <2>1. sema[s].waiters \in Seq(Threads) /\ IsInjective(sema[s].waiters) BY ThTypes DEF WaitQueues
  <2> QED BY <1>1, <2>1, PopFront
<1>3. tstatus[t] = "blocked" /\ tpc[t] = "down" /\ want[t] = s BY <1>2 DEF WaitQueues
<1>4. /\ RunQueue' /\ tstatus' \in [All -> States] /\ ready_list' \in Seq(Threads)
      /\ tstatus'[t] = "ready" /\ \A u \in All \ {t} : tstatus'[u] = tstatus[u]
  BY <1>1, <1>2, <1>3, Unblocked
<1>5. tstatus[cpu] = "running" /\ t # cpu BY <1>3, ThTypes DEF RunQueue
<1>6. \A u \in Threads : tstatus'[u] = "blocked" <=> u # t /\ tstatus[u] = "blocked" BY <1>4, ThTypes
<1>7. WaitQueues'
  <2>1. IsInjective(thread_list') /\ \A r \in Semas : IsInjective(sema'[r].waiters) BY <1>2 DEF WaitQueues
  <2>2. ASSUME NEW u \in ToSet(thread_list') PROVE tstatus'[u] = "blocked" /\ tpc'[u] = "run"
    <3>1. u \in Threads /\ tstatus[u] = "blocked" /\ tpc[u] = "run" BY <2>2, ThTypes DEF WaitQueues
    <3> QED BY <1>3, <1>5, <1>6, <3>1
  <2>3. ASSUME NEW r \in Semas, NEW u \in ToSet(sema'[r].waiters)
        PROVE  tstatus'[u] = "blocked" /\ tpc'[u] = "down" /\ want'[u] = r
    <3>1. u \in ToSet(sema[r].waiters) /\ (r = s => u # t) BY <1>2, <2>3
    <3>2. u \in Threads /\ tstatus[u] = "blocked" /\ tpc[u] = "down" /\ want[u] = r BY <3>1, ThTypes DEF WaitQueues
    <3> QED BY <1>3, <1>5, <1>6, <3>1, <3>2
  <2>4. ASSUME NEW u \in Threads, tstatus'[u] = "blocked"
        PROVE  u \in ToSet(thread_list') \/ u \in ToSet(sema'[want'[u]].waiters)
    <3>1. u # t /\ tstatus[u] = "blocked" BY <1>6, <2>4
    <3>2. u \in ToSet(thread_list) \/ u \in ToSet(sema[want[u]].waiters) BY <3>1 DEF WaitQueues
    <3>3. want'[u] = want[u] /\ want[u] \in Semas BY <1>5, <3>1, ThTypes
    <3> QED BY <1>2, <3>1, <3>2, <3>3
  <2> QED BY <2>1, <2>2, <2>3, <2>4 DEF WaitQueues
<1> QED BY <1>1, <1>2, <1>3, <1>4, <1>5, <1>7

\* The running thread becomes a waiter of the semaphore it wants.
LEMMA Blocked ==
  ASSUME QueuesInv, NEW t \in Threads, OnCpu(t, "down"), thread_block,
         sema'[want[t]].waiters = Append(sema[want[t]].waiters, t),
         \A r \in Semas \ {want[t]} : sema'[r].waiters = sema[r].waiters,
         UNCHANGED <<thread_list, tpc, want>>
  PROVE  /\ RunQueue' /\ WaitQueues' /\ ready_list' \in Seq(Threads) /\ cpu' \in All
         /\ thread_ticks' \in 0..(TIME_SLICE - 1) /\ tstatus' \in [All -> States]
         /\ \A u \in Threads : tstatus'[u] = "blocked" <=> u = t \/ tstatus[u] = "blocked"
<1> USE DEF QueuesInv, OnCpu
<1>1. /\ RunQueue' /\ ready_list' \in Seq(Threads) /\ cpu' \in All
      /\ thread_ticks' \in 0..(TIME_SLICE - 1) /\ tstatus' \in [All -> States]
      /\ \A u \in Threads : tstatus'[u] = "blocked" <=> u = t \/ tstatus[u] = "blocked"
  <2>1. ready_list \in Seq(Threads) /\ IsInjective(ready_list) BY ThTypes DEF RunQueue
  <2> QED BY <2>1, Scheduled DEF thread_block
<1>2. tstatus[t] = "running" BY ThTypes DEF RunQueue
<1>3. PICK s \in Semas : s = want[t] BY ThTypes
<1>4. /\ IsInjective(sema'[s].waiters) /\ ToSet(sema'[s].waiters) = ToSet(sema[s].waiters) \cup {t}
  <2>1. sema[s].waiters \in Seq(Threads) /\ IsInjective(sema[s].waiters) BY ThTypes DEF WaitQueues
  <2>2. t \notin ToSet(sema[s].waiters) BY <1>2 DEF WaitQueues
  <2>3. sema'[s].waiters = Append(sema[s].waiters, t) BY <1>3
  <2>4. PICK w \in Seq(Threads) : w = sema[s].waiters BY <2>1
  <2>5. ToSet(Append(w, t)) = ToSet(w) \cup {t} /\ IsInjective(Append(w, t)) BY <2>1, <2>2, <2>4, PushBack
  <2> QED BY <2>3, <2>4, <2>5
<1>5. WaitQueues'
  <2>1. IsInjective(thread_list') /\ \A r \in Semas : IsInjective(sema'[r].waiters) BY <1>3, <1>4 DEF WaitQueues
  <2>2. ASSUME NEW u \in ToSet(thread_list') PROVE tstatus'[u] = "blocked" /\ tpc'[u] = "run"
    BY <1>1, ThTypes DEF WaitQueues
  <2>3. ASSUME NEW r \in Semas, NEW u \in ToSet(sema'[r].waiters)
        PROVE  tstatus'[u] = "blocked" /\ tpc'[u] = "down" /\ want'[u] = r
    <3>1. CASE r = s /\ u = t BY <1>1, <1>3, <3>1
    <3>2. CASE ~(r = s /\ u = t)
      <4>1. u \in ToSet(sema[r].waiters) BY <1>3, <1>4, <2>3, <3>2
      <4> QED BY <1>1, <4>1, ThTypes DEF WaitQueues
    <3> QED BY <3>1, <3>2
  <2>4. ASSUME NEW u \in Threads, tstatus'[u] = "blocked"
        PROVE  u \in ToSet(thread_list') \/ u \in ToSet(sema'[want'[u]].waiters)
    <3>1. CASE u = t BY <1>3, <1>4, <3>1
    <3>2. CASE u # t
      <4>1. u \in ToSet(thread_list) \/ u \in ToSet(sema[want[u]].waiters) BY <1>1, <2>4, <3>2 DEF WaitQueues
      <4> QED BY <1>3, <1>4, <4>1, ThTypes
    <3> QED BY <3>1, <3>2
  <2> QED BY <2>1, <2>2, <2>3, <2>4 DEF WaitQueues
<1> QED BY <1>1, <1>5

\* timer_sleep puts the running thread among the sleeping ones.
LEMMA Slept ==
  ASSUME QueuesInv, NEW t \in Threads, timer_sleep(t)
  PROVE  /\ RunQueue' /\ WaitQueues' /\ ready_list' \in Seq(Threads) /\ cpu' \in All
         /\ thread_list' \in Seq(Threads)
         /\ thread_ticks' \in 0..(TIME_SLICE - 1) /\ tstatus' \in [All -> States]
         /\ \A u \in Threads : tstatus'[u] = "blocked" <=> u = t \/ tstatus[u] = "blocked"
<1> USE DEF QueuesInv
<1>1. /\ cpu = t /\ tpc[t] = "sleep" /\ thread_block /\ UNCHANGED <<sema, want>> /\ InsertOrdered(t)
      /\ tpc'[t] = "run" /\ \A u \in Threads \ {t} : tpc'[u] = tpc[u]
  BY DEF timer_sleep, OnCpu, ThGoto, ThTypeOK
<1>2. /\ RunQueue' /\ ready_list' \in Seq(Threads) /\ cpu' \in All
      /\ thread_ticks' \in 0..(TIME_SLICE - 1) /\ tstatus' \in [All -> States]
      /\ \A u \in Threads : tstatus'[u] = "blocked" <=> u = t \/ tstatus[u] = "blocked"
  <2>1. ready_list \in Seq(Threads) /\ IsInjective(ready_list) BY ThTypes DEF RunQueue
  <2> QED BY <1>1, <2>1, Scheduled DEF thread_block
<1>3. tstatus[t] = "running" BY <1>1, ThTypes DEF RunQueue
<1>4. thread_list' \in Seq(Threads) /\ IsInjective(thread_list') /\ ToSet(thread_list') = ToSet(thread_list) \cup {t}
  <2>1. PICK k \in 0..Len(thread_list) :
          thread_list' = SubSeq(thread_list, 1, k) \o <<t>> \o SubSeq(thread_list, k + 1, Len(thread_list))
    BY <1>1 DEF InsertOrdered
  <2>2. t \notin ToSet(thread_list) /\ IsInjective(thread_list) BY <1>3 DEF WaitQueues
  <2> QED BY <2>1, <2>2, ThTypes, Inserted
<1>5. WaitQueues'
  <2>1. ASSUME NEW u \in ToSet(thread_list') PROVE tstatus'[u] = "blocked" /\ tpc'[u] = "run"
    <3>1. CASE u = t BY <1>1, <1>2, <3>1
    <3>2. CASE u # t
      <4>1. u \in ToSet(thread_list) BY <1>4, <2>1, <3>2
      <4>2. u \in Threads /\ tstatus[u] = "blocked" /\ tpc[u] = "run" BY <4>1, ThTypes DEF WaitQueues
      <4> QED BY <1>1, <1>2, <3>2, <4>2
    <3> QED BY <3>1, <3>2
  <2>2. \A s \in Semas : IsInjective(sema'[s].waiters) BY <1>1 DEF WaitQueues
  <2>3. ASSUME NEW r \in Semas, NEW u \in ToSet(sema'[r].waiters)
        PROVE  tstatus'[u] = "blocked" /\ tpc'[u] = "down" /\ want'[u] = r
    <3>1. u \in ToSet(sema[r].waiters) BY <1>1, <2>3
    <3>2. u \in Threads /\ tstatus[u] = "blocked" /\ tpc[u] = "down" /\ want[u] = r BY <3>1, ThTypes DEF WaitQueues
    <3> QED BY <1>1, <1>2, <1>3, <3>2
  <2>4. ASSUME NEW u \in Threads, tstatus'[u] = "blocked"
        PROVE  u \in ToSet(thread_list') \/ u \in ToSet(sema'[want'[u]].waiters)
    <3>1. CASE u = t BY <1>4, <3>1
    <3>2. CASE u # t
      <4>1. u \in ToSet(thread_list) \/ u \in ToSet(sema[want[u]].waiters) BY <1>2, <2>4, <3>2 DEF WaitQueues
      <4> QED BY <1>1, <1>4, <4>1
    <3> QED BY <3>1, <3>2
  <2> QED BY <1>4, <2>1, <2>2, <2>3, <2>4 DEF WaitQueues
<1> QED BY <1>2, <1>4, <1>5

\* timer_interrupt moves the threads that are due from one list to the other,
\* and may preempt.
LEMMA Ticked ==
  ASSUME QueuesInv, timer_interrupt
  PROVE  /\ RunQueue' /\ WaitQueues' /\ ready_list' \in Seq(Threads) /\ cpu' \in All
         /\ thread_list' \in Seq(Threads)
         /\ thread_ticks' \in 0..(TIME_SLICE - 1) /\ tstatus' \in [All -> States]
         /\ \A u \in Threads : tstatus'[u] = "blocked" => tstatus[u] = "blocked"
         /\ \A u \in Threads : tpc[u] = "down" /\ tstatus[u] = "blocked" => tstatus'[u] = "blocked"
<1> USE DEF QueuesInv
<1> DEFINE due == {i \in DOMAIN thread_list : Due(thread_list[i])}
<1>1. PICK f \in Walks(due), g \in Walks(DOMAIN thread_list \ due) :
          LET woken == Visited(f)
              queue == ready_list \o woken
          IN /\ thread_list' = Visited(g)
             /\ IF thread_tick
                THEN LET list == Requeue(queue)
                         next == next_thread_to_run(list)
                     IN /\ cpu' = next /\ thread_ticks' = 0
                        /\ ready_list' = IF list = <<>> THEN <<>> ELSE Tail(list)
                        /\ tstatus' = [t \in All |-> IF t = next THEN "running"
                             ELSE IF t = cpu \/ t \in ToSet(woken) THEN "ready" ELSE tstatus[t]]
                ELSE /\ thread_ticks' = thread_ticks + 1 /\ ready_list' = queue
                     /\ tstatus' = [t \in All |-> IF t \in ToSet(woken) THEN "ready" ELSE tstatus[t]]
                     /\ UNCHANGED cpu
  BY DEF timer_interrupt
<1>2. UNCHANGED <<sema, tpc, want>> BY DEF timer_interrupt
<1>3. due \in SUBSET DOMAIN thread_list /\ DOMAIN thread_list \ due \in SUBSET DOMAIN thread_list OBVIOUS
<1> HIDE DEF due
<1> DEFINE woken == Visited(f)
           queue == ready_list \o woken
           W == ToSet(woken)
<1>4. IsInjective(thread_list) /\ thread_list \in Seq(Threads) BY ThTypes DEF WaitQueues
<1>5. woken \in Seq(Threads) /\ IsInjective(woken) /\ W = {thread_list[i] : i \in due} BY <1>3, <1>4, Walked
<1>6. /\ thread_list' \in Seq(Threads) /\ IsInjective(thread_list')
      /\ ToSet(thread_list') = {thread_list[i] : i \in DOMAIN thread_list \ due}
  BY <1>1, <1>3, <1>4, Walked
<1>7. W \subseteq ToSet(thread_list) /\ ToSet(thread_list') = ToSet(thread_list) \ W
  <2> HIDE DEF W, woken
  <2>1. ToSet(thread_list) = {thread_list[i] : i \in DOMAIN thread_list} BY DEF ToSet
  <2>2. \A i, j \in DOMAIN thread_list : thread_list[i] = thread_list[j] => i = j BY <1>4 DEF IsInjective
  <2> QED BY <1>3, <1>5, <1>6, <2>1, <2>2
<1>8. \A t \in W : t \in Threads /\ tstatus[t] = "blocked" /\ tpc[t] = "run" BY <1>7, ThTypes DEF WaitQueues
<1>9. queue \in Seq(Threads) /\ IsInjective(queue) /\ ToSet(queue) = ToSet(ready_list) \cup W
  <2>1. ToSet(ready_list) \cap W = {} BY <1>8, ThTypes DEF RunQueue
  <2>2. ready_list \in Seq(Threads) /\ IsInjective(ready_list) BY ThTypes DEF RunQueue
  <2> QED BY <1>5, <2>1, <2>2, Joined
<1> HIDE DEF woken, queue, W
<1>10. /\ RunQueue' /\ ready_list' \in Seq(Threads) /\ cpu' \in All
       /\ thread_ticks' \in 0..(TIME_SLICE - 1) /\ tstatus' \in [All -> States]
       /\ \A u \in Threads : tstatus'[u] = "blocked" <=> tstatus[u] = "blocked" /\ u \notin W
  <2>1. CASE thread_tick
    <3> DEFINE list == Requeue(queue)
               next == next_thread_to_run(list)
    <3>1. /\ cpu' = next /\ thread_ticks' = 0
          /\ ready_list' = IF list = <<>> THEN <<>> ELSE Tail(list)
          /\ tstatus' = [t \in All |-> IF t = next THEN "running"
                             ELSE IF t = cpu \/ t \in W THEN "ready" ELSE tstatus[t]]
      BY <1>1, <2>1 DEF woken, queue, W
    <3>2. list \in Seq(Threads) /\ IsInjective(list) /\ ToSet(list) = ToSet(ready_list) \cup W \cup ({cpu} \cap Threads)
      <4>1. CASE cpu = Idle BY <1>9, <4>1, ThTypes DEF Requeue
      <4>2. CASE cpu # Idle
        <5>1. cpu \in Threads /\ list = Append(queue, cpu) BY <4>2, ThTypes DEF Requeue, All
        <5>2. tstatus[cpu] = "running" BY ThTypes DEF RunQueue
        <5>3. cpu \notin ToSet(queue) BY <1>8, <1>9, <5>1, <5>2 DEF RunQueue
        <5> QED BY <1>9, <5>1, <5>3, PushBack
      <4> QED BY <4>1, <4>2
    <3>3. next \in All /\ (next \in Threads => next \in ToSet(list))
      <4>1. CASE list = <<>> BY <4>1, ThTypes DEF next_thread_to_run
      <4>2. CASE list # <<>> BY <3>2, <4>2, ThTypes, PopFront DEF next_thread_to_run
      <4> QED BY <4>1, <4>2
    <3> HIDE DEF list, next
    <3>4. /\ tstatus' \in [All -> States]
          /\ \A t \in All : tstatus'[t] = IF t = next THEN "running"
                             ELSE IF t = cpu \/ t \in W THEN "ready" ELSE tstatus[t]
      BY <3>1, ThTypes DEF States
    <3>5. \A t \in All : tstatus'[t] = "running" <=> t = cpu' BY <3>1, <3>4, ThTypes DEF RunQueue
    <3>6. ASSUME NEW t \in Threads, t # cpu' PROVE tstatus'[t] = "ready" <=> t \in ToSet(list)
      BY <3>1, <3>2, <3>4, <3>6, ThTypes DEF RunQueue
    <3>7. RunQueue' /\ ready_list' \in Seq(Threads) BY <3>1, <3>2, <3>5, <3>6, NextRuns DEF next
    <3>8. ASSUME NEW u \in Threads PROVE tstatus'[u] = "blocked" <=> tstatus[u] = "blocked" /\ u \notin W
      <4>0. u = cpu => tstatus[u] = "running" BY ThTypes DEF RunQueue
      <4>1. CASE u = next
        <5>1. u \in ToSet(ready_list) \/ u \in W \/ u = cpu BY <3>2, <3>3, <4>1
        <5>2. u \in ToSet(ready_list) => tstatus[u] = "ready" BY DEF RunQueue
        <5> QED BY <3>4, <4>0, <4>1, <5>1, <5>2, ThTypes
      <4>2. CASE u # next BY <3>4, <4>0, <4>2, ThTypes
      <4> QED BY <4>1, <4>2
    <3>9. 0 \in 0..(TIME_SLICE - 1) BY ThAssumption
    <3> QED BY <3>1, <3>3, <3>4, <3>7, <3>8, <3>9
  <2>2. CASE ~thread_tick
    <3>1. /\ thread_ticks' = thread_ticks + 1 /\ ready_list' = queue /\ cpu' = cpu
          /\ tstatus' = [t \in All |-> IF t \in W THEN "ready" ELSE tstatus[t]]
      BY <1>1, <2>2 DEF woken, queue, W
    <3>2. /\ tstatus' \in [All -> States]
          /\ \A t \in All : tstatus'[t] = IF t \in W THEN "ready" ELSE tstatus[t]
      BY <3>1, ThTypes DEF States
    <3>3. thread_ticks' \in 0..(TIME_SLICE - 1) BY <2>2, <3>1, ThAssumption DEF thread_tick, ThTypeOK
    <3>4. \A t \in All : tstatus'[t] = "running" <=> t = cpu' BY <1>8, <3>1, <3>2 DEF RunQueue
    <3>5. \A t \in Threads : t \in ToSet(ready_list') <=> tstatus'[t] = "ready"
      BY <1>9, <3>1, <3>2, ThTypes DEF RunQueue
    <3>6. RunQueue' BY <1>9, <3>1, <3>4, <3>5 DEF RunQueue
    <3>7. \A u \in Threads : tstatus'[u] = "blocked" <=> tstatus[u] = "blocked" /\ u \notin W BY <3>2, ThTypes
    <3> QED BY <1>9, <3>1, <3>2, <3>3, <3>6, <3>7, ThTypes
  <2> QED BY <2>1, <2>2
<1>11. WaitQueues'
  <2>1. ASSUME NEW u \in ToSet(thread_list') PROVE tstatus'[u] = "blocked" /\ tpc'[u] = "run"
    <3>1. u \in Threads /\ u \notin W /\ tstatus[u] = "blocked" /\ tpc[u] = "run" BY <1>7, <2>1, ThTypes DEF WaitQueues
    <3> QED BY <1>2, <1>10, <3>1
  <2>2. \A s \in Semas : IsInjective(sema'[s].waiters) BY <1>2 DEF WaitQueues
  <2>3. ASSUME NEW r \in Semas, NEW u \in ToSet(sema'[r].waiters)
        PROVE  tstatus'[u] = "blocked" /\ tpc'[u] = "down" /\ want'[u] = r
    <3>1. u \in ToSet(sema[r].waiters) BY <1>2, <2>3
    <3>2. u \in Threads /\ tstatus[u] = "blocked" /\ tpc[u] = "down" /\ want[u] = r BY <3>1, ThTypes DEF WaitQueues
    <3> QED BY <1>2, <1>8, <1>10, <3>2
  <2>4. ASSUME NEW u \in Threads, tstatus'[u] = "blocked"
        PROVE  u \in ToSet(thread_list') \/ u \in ToSet(sema'[want'[u]].waiters)
    <3>1. tstatus[u] = "blocked" /\ u \notin W BY <1>10, <2>4
    <3>2. u \in ToSet(thread_list) \/ u \in ToSet(sema[want[u]].waiters) BY <3>1 DEF WaitQueues
    <3> QED BY <1>2, <1>7, <3>1, <3>2
  <2> QED BY <1>6, <2>1, <2>2, <2>3, <2>4 DEF WaitQueues
<1>12. \A u \in Threads : tpc[u] = "down" /\ tstatus[u] = "blocked" => u \notin W BY <1>8
<1> QED BY <1>6, <1>10, <1>11, <1>12

-----------------------------------------------------------------------------
(* The lock, the condition and the wakeups.                                *)

\* Threads awake and about to look at semaphore s.
Lookers(s) == {t \in Threads : want[t] = s /\ tpc[t] = "down" /\ tstatus[t] # "blocked"}

WakeOf(s) == sema[s].waiters # <<>> => sema[s].value <= Cardinality(Lookers(s))

LEMMA WakeUnfold == (NoLostWakeup <=> \A s \in Semas : WakeOf(s)) /\ (NoLostWakeup' <=> \A s \in Semas : WakeOf(s)')
BY DEF NoLostWakeup, WakeOf, Lookers

LEMMA LookersFinite == /\ \A s : IsFiniteSet(Lookers(s)) /\ Cardinality(Lookers(s)) \in Nat
                       /\ \A s : IsFiniteSet(Lookers(s)') /\ Cardinality(Lookers(s)') \in Nat
BY FS_Subset, FS_CardinalityType, ThAssumption DEF Lookers

\* The lookers of s stay, and nothing is added to s.
LEMMA WakeKeep ==
  ASSUME ThInv, ThTypeOK', NEW s \in Semas, sema'[s].waiters # <<>> => sema[s].waiters # <<>>,
         sema'[s].value <= sema[s].value,
         \A t \in Lookers(s) : want'[t] = s /\ tpc'[t] = "down" /\ tstatus'[t] # "blocked"
  PROVE  WakeOf(s)'
<1>1. Lookers(s) \subseteq Lookers(s)' BY DEF Lookers
<1>2. Cardinality(Lookers(s)) <= Cardinality(Lookers(s)') BY <1>1, LookersFinite, FS_Subset
<1>3. Cardinality(Lookers(s)) \in Nat /\ Cardinality(Lookers(s)') \in Nat BY LookersFinite
<1>4. sema[s].value \in Nat /\ sema'[s].value \in Nat BY ThAssumption DEF ThInv, QueuesInv, ThTypeOK
<1>5. WakeOf(s) BY WakeUnfold DEF ThInv, SyncInv
<1> QED BY <1>2, <1>3, <1>4, <1>5 DEF WakeOf

LEMMA LockKeep ==
  ASSUME ThInv, holder' = holder, sema'["lock"].value = sema["lock"].value,
         \A t \in Threads : InLock(t)' <=> InLock(t)
  PROVE  LockInv'
BY DEF ThInv, SyncInv, LockInv

LEMMA CondKeep ==
  ASSUME ThInv, cond' = cond, \A t \in Threads : InWait(t)' <=> InWait(t),
         \A t \in Threads : InWait(t) => sema'[t].value = sema[t].value
  PROVE  CondInv'
<1>1. ToSet(cond) \subseteq Threads BY ThTypes, EmptyList DEF ThInv, QueuesInv
<1> QED BY <1>1 DEF ThInv, SyncInv, CondInv

\* What a step may change without touching lock, condition and semaphores.
LEMMA SyncKeep ==
  ASSUME ThInv, ThTypeOK', UNCHANGED <<holder, cond, sema>>,
         \A t \in Threads : (InLock(t)' <=> InLock(t)) /\ (InWait(t)' <=> InWait(t)),
         \A t \in Threads : tpc[t] = "down" /\ tstatus[t] # "blocked" =>
           want'[t] = want[t] /\ tpc'[t] = "down" /\ tstatus'[t] # "blocked"
  PROVE  SyncInv'
<1>1. LockInv' BY LockKeep
<1>2. CondInv' BY CondKeep
<1>3. ASSUME NEW s \in Semas PROVE WakeOf(s)'
  <2>1. \A t \in Lookers(s) : want'[t] = s /\ tpc'[t] = "down" /\ tstatus'[t] # "blocked" BY DEF Lookers
  <2>2. sema'[s].value <= sema[s].value BY ThTypes DEF ThInv, QueuesInv
  <2> QED BY <2>1, <2>2, WakeKeep
<1> QED BY <1>1, <1>2, <1>3, WakeUnfold DEF SyncInv

\* Steps of the scheduler.
LEMMA StepScheduler ==
  ASSUME ThInv, \/ timer_interrupt \/ idle
                \/ \E t \in Threads : Yield(t) \/ Exit(t) \/ \E new \in Threads : thread_create(t, new)
  PROVE  ThInv'
<1> USE DEF ThInv
<1>1. /\ UNCHANGED <<sema, holder, cond, tpc, want>>
      /\ thread_list' \in Seq(Threads) /\ wake_up_tick' \in [Threads -> Nat]
  <2>1. CASE timer_interrupt
    <3>1. wake_up_tick' = [t \in Threads |-> Passed(wake_up_tick[t])] BY <2>1 DEF timer_interrupt
    <3>2. \A t \in Threads : wake_up_tick[t] \in Nat BY DEF QueuesInv, ThTypeOK
    <3>3. \A t \in Threads : Passed(wake_up_tick[t]) \in Nat BY <3>2 DEF Passed
    <3> QED BY <2>1, <3>1, <3>3, Ticked DEF timer_interrupt
  <2>2. CASE ~timer_interrupt
    BY <2>2 DEF idle, Yield, Exit, thread_create, QueuesInv, ThTypeOK
  <2> QED BY <2>1, <2>2
<1>2. /\ RunQueue' /\ WaitQueues' /\ ready_list' \in Seq(Threads) /\ cpu' \in All
      /\ thread_ticks' \in 0..(TIME_SLICE - 1) /\ tstatus' \in [All -> States]
      /\ \A t \in Threads : tpc[t] = "down" /\ tstatus[t] # "blocked" => tstatus'[t] # "blocked"
  <2>0. ready_list \in Seq(Threads) /\ IsInjective(ready_list) /\ tstatus[cpu] = "running"
    BY ThTypes DEF QueuesInv, RunQueue
  <2>1. CASE timer_interrupt BY <2>1, Ticked
  <2>2. CASE idle
    <3>1. cpu = Idle /\ schedule("blocked", ready_list) /\ thread_list' = thread_list BY <2>2 DEF idle, thread_block
    <3>2. /\ RunQueue' /\ ready_list' \in Seq(Threads) /\ cpu' \in All
          /\ thread_ticks' \in 0..(TIME_SLICE - 1) /\ tstatus' \in [All -> States]
          /\ \A t \in Threads : tstatus'[t] = "blocked" <=> IF t = cpu THEN "blocked" = "blocked" ELSE tstatus[t] = "blocked"
      BY <2>0, <3>1, Scheduled
    <3>3. \A t \in Threads : t # cpu BY <3>1, ThAssumption
    <3>4. \A t \in Threads : tstatus'[t] = "blocked" <=> tstatus[t] = "blocked" BY <3>2, <3>3
    <3>5. WaitQueues' BY <1>1, <3>1, <3>4, WaitsStay
    <3> QED BY <3>2, <3>4, <3>5
  <2>3. CASE \E t \in Threads : Yield(t)
    <3>1. schedule("ready", Requeue(ready_list)) /\ thread_list' = thread_list /\ cpu \in Threads
      BY <2>3 DEF Yield, thread_yield, OnCpu
    <3>2. Requeue(ready_list) = Append(ready_list, cpu) BY <3>1, ThAssumption DEF Requeue
    <3>3. cpu \notin ToSet(ready_list) BY <2>0, <3>1 DEF QueuesInv, RunQueue
    <3>4. /\ Requeue(ready_list) \in Seq(Threads) /\ IsInjective(Requeue(ready_list))
          /\ ToSet(Requeue(ready_list)) = ToSet(ready_list) \cup ({cpu} \cap Threads)
      BY <2>0, <3>1, <3>2, <3>3, PushBack
    <3>5. /\ RunQueue' /\ ready_list' \in Seq(Threads) /\ cpu' \in All
          /\ thread_ticks' \in 0..(TIME_SLICE - 1) /\ tstatus' \in [All -> States]
          /\ \A t \in Threads : tstatus'[t] = "blocked" <=> IF t = cpu THEN "ready" = "blocked" ELSE tstatus[t] = "blocked"
      BY <3>1, <3>4, Scheduled
    <3>6. \A t \in Threads : tstatus'[t] = "blocked" <=> tstatus[t] = "blocked" BY <2>0, <3>5
    <3>7. WaitQueues' BY <1>1, <3>1, <3>6, WaitsStay
    <3> QED BY <3>5, <3>6, <3>7
  <2>4. CASE \E t \in Threads : Exit(t)
    <3>1. schedule("none", ready_list) /\ thread_list' = thread_list BY <2>4 DEF Exit, thread_exit
    <3>2. /\ RunQueue' /\ ready_list' \in Seq(Threads) /\ cpu' \in All
          /\ thread_ticks' \in 0..(TIME_SLICE - 1) /\ tstatus' \in [All -> States]
          /\ \A t \in Threads : tstatus'[t] = "blocked" <=> IF t = cpu THEN "none" = "blocked" ELSE tstatus[t] = "blocked"
      BY <2>0, <3>1, Scheduled
    <3>3. \A t \in Threads : tstatus'[t] = "blocked" <=> tstatus[t] = "blocked" BY <2>0, <3>2
    <3>4. WaitQueues' BY <1>1, <3>1, <3>3, WaitsStay
    <3> QED BY <3>2, <3>3, <3>4
  <2>5. CASE \E t, new \in Threads : thread_create(t, new)
    <3>1. PICK new \in Threads : /\ tstatus[new] = "none" /\ thread_unblock(new) /\ thread_list' = thread_list
      BY <2>5 DEF thread_create
    <3>2. /\ RunQueue' /\ tstatus' \in [All -> States] /\ ready_list' \in Seq(Threads)
          /\ tstatus'[new] = "ready" /\ \A u \in All \ {new} : tstatus'[u] = tstatus[u]
      BY <3>1, Unblocked
    <3>3. \A t \in Threads : tstatus'[t] = "blocked" <=> tstatus[t] = "blocked" BY <3>1, <3>2, ThTypes DEF QueuesInv
    <3>4. WaitQueues' BY <1>1, <3>1, <3>3, WaitsStay
    <3>5. cpu' = cpu /\ thread_ticks' = thread_ticks BY <3>1 DEF thread_unblock
    <3> QED BY <3>2, <3>3, <3>4, <3>5 DEF QueuesInv, ThTypeOK
  <2> QED BY <2>1, <2>2, <2>3, <2>4, <2>5
<1>3. ThTypeOK' BY <1>1, <1>2 DEF QueuesInv, ThTypeOK, States
<1>4. OwnSemas' BY <1>1 DEF QueuesInv, OwnSemas
<1>5. SyncInv'
  <2>1. \A t \in Threads : (InLock(t)' <=> InLock(t)) /\ (InWait(t)' <=> InWait(t)) BY <1>1 DEF InLock, InWait
  <2> QED BY <1>1, <1>2, <1>3, <2>1, SyncKeep
<1> QED BY <1>2, <1>3, <1>4, <1>5 DEF QueuesInv

Pcs == {"run", "down", "locked", "unlock", "cond_unlock", "relock", "sleep"}

\* The running thread moves on, and only it.
Moves(t, to, s) ==
  /\ cpu = t /\ tpc'[t] = to /\ want'[t] = s /\ tpc' \in [Threads -> Pcs] /\ want' \in [Threads -> Semas]
  /\ \A u \in Threads \ {t} : tpc'[u] = tpc[u] /\ want'[u] = want[u]

\* Semaphore s changes its value, and only it.
Counts(s, n) ==
  /\ sema' \in [Semas -> [value : 0..(MaxSema + 1), waiters : Seq(Threads)]]
  /\ sema'[s].value = n /\ \A r \in Semas \ {s} : sema'[r] = sema[r]

LEMMA Moved ==
  ASSUME ThTypeOK, NEW t \in Threads, NEW at, OnCpu(t, at), NEW to \in Pcs, ThGoto(t, to)
  PROVE  /\ want' = want => Moves(t, to, want[t])
         /\ \A s \in Semas : want' = [want EXCEPT ![t] = s] => Moves(t, to, s)
BY DEF ThTypeOK, OnCpu, ThGoto, Moves, Pcs

\* The lock, the free semaphore and a waiter's own are different semaphores.
LEMMA SemaNames == /\ "lock" \in Semas /\ "free" \in Semas /\ "lock" # "free"
                   /\ \A t \in Threads : t \in Semas /\ t # "lock" /\ t # "free"
BY ThAssumption DEF Semas

\* The running thread enters a primitive that changes nothing yet.
LEMMA StepEnter ==
  ASSUME ThInv, NEW t \in Threads,
         SemaDown(t) \/ lock_acquire(t) \/ Relock(t) \/ \E ticks \in Sleeps : ReadTicks(t, ticks)
  PROVE  ThInv'
<1> USE DEF ThInv
<1>1. /\ KeepRunning /\ UNCHANGED <<sema, holder, cond, thread_list>> /\ tpc[t] \in {"run", "relock"}
      /\ wake_up_tick' \in [Threads -> Nat]
      /\ Moves(t, "down", "free") \/ Moves(t, "down", "lock") \/ Moves(t, "sleep", want[t])
  <2>0. ThTypeOK BY DEF QueuesInv
  <2>1. CASE SemaDown(t)
    <3>1. Moves(t, "down", "free") BY <2>0, <2>1, Moved, SemaNames DEF SemaDown, Down, Pcs
    <3> QED BY <2>0, <2>1, <3>1 DEF SemaDown, OnCpu, ThTypeOK
  <2>2. CASE lock_acquire(t)
    <3>1. Moves(t, "down", "lock") BY <2>0, <2>2, Moved, SemaNames DEF lock_acquire, Down, Pcs
    <3> QED BY <2>0, <2>2, <3>1 DEF lock_acquire, OnCpu, ThTypeOK
  <2>3. CASE Relock(t)
    <3>1. Moves(t, "down", "lock") BY <2>0, <2>3, Moved, SemaNames DEF Relock, Down, Pcs
    <3> QED BY <2>0, <2>3, <3>1 DEF Relock, OnCpu, ThTypeOK
  <2>4. CASE \E ticks \in Sleeps : ReadTicks(t, ticks)
    <3>1. PICK ticks \in Sleeps : ReadTicks(t, ticks) BY <2>4
    <3>2. Moves(t, "sleep", want[t]) BY <2>0, <3>1, Moved DEF ReadTicks, Pcs
    <3>3. ticks \in Nat BY <3>1, ThAssumption DEF ReadTicks
    <3>4. wake_up_tick' \in [Threads -> Nat] BY <2>0, <3>1, <3>3 DEF ReadTicks, ThTypeOK
    <3> QED BY <3>1, <3>2, <3>4 DEF ReadTicks, OnCpu
  <2> QED BY <2>1, <2>2, <2>3, <2>4
<1>2. /\ cpu = t /\ tpc' \in [Threads -> Pcs] /\ want' \in [Threads -> Semas]
      /\ \A u \in Threads \ {t} : tpc'[u] = tpc[u] /\ want'[u] = want[u]
      /\ tpc'[t] \in {"down", "sleep"} /\ (tpc'[t] = "down" => want'[t] \in {"lock", "free"})
      /\ want'[t] \in {"lock", "free", want[t]}
  BY <1>1 DEF Moves
<1>3. ThTypeOK' BY <1>1, <1>2 DEF QueuesInv, ThTypeOK, KeepRunning, Pcs
<1>4. RunQueue' /\ WaitQueues' BY <1>1, <1>2, KeptRunning
<1>5. OwnSemas' BY <1>1, <1>2 DEF QueuesInv, OwnSemas
<1>6. \A u \in Threads : (InLock(u)' <=> InLock(u)) /\ (InWait(u)' <=> InWait(u))
  BY <1>1, <1>2, SemaNames DEF InLock, InWait
<1>7. SyncInv'
  <2>1. tstatus' = tstatus BY <1>1 DEF KeepRunning
  <2>2. ASSUME NEW u \in Threads, tpc[u] = "down", tstatus[u] # "blocked"
        PROVE  want'[u] = want[u] /\ tpc'[u] = "down" /\ tstatus'[u] # "blocked"
    BY <1>1, <1>2, <2>1, <2>2
  <2> QED BY <1>1, <1>3, <1>6, <2>2, SyncKeep
<1> QED BY <1>3, <1>4, <1>5, <1>7 DEF QueuesInv

LEMMA StepSleep ==
  ASSUME ThInv, NEW t \in Threads, timer_sleep(t)
  PROVE  ThInv'
<1> USE DEF ThInv
<1>1. /\ UNCHANGED <<sema, holder, cond, wake_up_tick, want>> /\ tpc[t] = "sleep" /\ Moves(t, "run", want[t])
  BY Moved DEF timer_sleep, OnCpu, QueuesInv, Pcs
<1>2. /\ RunQueue' /\ WaitQueues' /\ ready_list' \in Seq(Threads) /\ cpu' \in All
      /\ thread_list' \in Seq(Threads)
      /\ thread_ticks' \in 0..(TIME_SLICE - 1) /\ tstatus' \in [All -> States]
      /\ \A u \in Threads : tstatus'[u] = "blocked" <=> u = t \/ tstatus[u] = "blocked"
  BY Slept
<1>3. ThTypeOK' BY <1>1, <1>2 DEF QueuesInv, ThTypeOK, Moves, Pcs, States
<1>4. OwnSemas' BY <1>1 DEF QueuesInv, OwnSemas
<1>5. \A u \in Threads : (InLock(u)' <=> InLock(u)) /\ (InWait(u)' <=> InWait(u))
  BY <1>1 DEF InLock, InWait, Moves
<1>6. SyncInv' BY <1>1, <1>2, <1>3, <1>5, SyncKeep DEF Moves
<1> QED BY <1>2, <1>3, <1>4, <1>6 DEF QueuesInv

\* The holder is written after the semaphore was taken, and cleared before it
\* is given back.
LEMMA StepHolder ==
  ASSUME ThInv, NEW t \in Threads, Locked(t) \/ lock_release(t)
  PROVE  ThInv'
<1> USE DEF ThInv
<1>1. /\ KeepRunning /\ UNCHANGED <<sema, cond, thread_list, wake_up_tick, want>>
      /\ \/ tpc[t] = "locked" /\ Moves(t, "run", want[t]) /\ holder' = t
         \/ tpc[t] = "run" /\ Moves(t, "unlock", want[t]) /\ holder = t /\ holder' = Idle
  BY Moved DEF Locked, lock_release, OnCpu, QueuesInv, Pcs
<1>2. ThTypeOK' BY <1>1, ThTypes DEF QueuesInv, ThTypeOK, Moves, Pcs, KeepRunning
<1>3. RunQueue' /\ WaitQueues' BY <1>1, KeptRunning DEF Moves
<1>4. OwnSemas' BY <1>1 DEF QueuesInv, OwnSemas
<1>5. CondInv'
  <2>1. \A u \in Threads : InWait(u)' <=> InWait(u) BY <1>1 DEF InWait, Moves
  <2> QED BY <1>1, <2>1, CondKeep
<1>6. LockInv'
  <2>1. \A u \in Threads \ {t} : InLock(u)' <=> InLock(u) BY <1>1 DEF InLock, Moves
  <2>2. \A u \in Threads \ {t} : ~InLock(u) /\ holder # u BY <1>1 DEF SyncInv, LockInv, InLock
  <2>3. sema'["lock"].value = 0 BY <1>1, ThAssumption DEF SyncInv, LockInv, InLock
  <2>4. CASE holder' = t
    <3>1. ~InLock(t)' BY <1>1, <2>4, ThAssumption DEF InLock, Moves
    <3> QED BY <2>1, <2>2, <2>3, <2>4, <3>1 DEF LockInv
  <2>5. CASE holder' = Idle
    <3>1. InLock(t)' BY <1>1, <2>5, ThAssumption DEF InLock, Moves
    <3> QED BY <2>1, <2>2, <2>3, <2>5, <3>1, ThAssumption DEF LockInv
  <2> QED BY <1>1, <2>4, <2>5
<1>7. ASSUME NEW s \in Semas PROVE WakeOf(s)'
  <2>1. \A u \in Lookers(s) : want'[u] = s /\ tpc'[u] = "down" /\ tstatus'[u] # "blocked"
    BY <1>1 DEF Lookers, Moves, KeepRunning
  <2>2. sema'[s].value <= sema[s].value BY <1>1, ThTypes DEF QueuesInv
  <2> QED BY <1>1, <1>2, <2>1, <2>2, WakeKeep
<1>8. SyncInv' BY <1>5, <1>6, <1>7, WakeUnfold DEF SyncInv
<1> QED BY <1>2, <1>3, <1>4, <1>8 DEF QueuesInv

SemaRec == [value : 0..(MaxSema + 1), waiters : Seq(Threads)]

\* Writing a field of a semaphore, or both.
LEMMA WriteSema ==
  ASSUME ThTypeOK, NEW s \in Semas, NEW n \in 0..(MaxSema + 1), NEW w \in Seq(Threads),
         sema' = [sema EXCEPT ![s] = [value |-> n, waiters |-> w]]
  PROVE  /\ sema' \in [Semas -> SemaRec] /\ sema'[s].value = n /\ sema'[s].waiters = w
         /\ \A r \in Semas \ {s} : sema'[r] = sema[r]
<1> DEFINE q == [value |-> n, waiters |-> w]
<1>1. q \in SemaRec /\ q.value = n /\ q.waiters = w BY DEF SemaRec
<1> HIDE DEF q
<1>2. sema' = [sema EXCEPT ![s] = q] BY DEF q
<1>3. sema \in [Semas -> SemaRec] BY DEF ThTypeOK, SemaRec
<1> QED BY <1>1, <1>2, <1>3

LEMMA WriteField ==
  ASSUME NEW r \in SemaRec
  PROVE  /\ \A n : [r EXCEPT !.value = n] = [value |-> n, waiters |-> r.waiters]
         /\ \A w : [r EXCEPT !.waiters = w] = [value |-> r.value, waiters |-> w]
BY DEF SemaRec

\* sema_try_down, and the turn of sema_down that finds a value.
LEMMA StepTake ==
  ASSUME ThInv, NEW t \in Threads, NEW s \in Semas, NEW to \in {"locked", "run", "relock"}, sema_try_down(s),
         \/ tpc[t] = "run" /\ s = "lock" /\ to = "locked"
         \/ tpc[t] = "down" /\ s = want[t] /\ to = IF s = "lock" THEN "locked" ELSE IF s = "free" THEN "run" ELSE "relock",
         cpu = t, ThGoto(t, to), UNCHANGED <<holder, cond, thread_list, wake_up_tick, want>>
  PROVE  ThInv'
<1> USE DEF ThInv
<1>1. Moves(t, to, want[t])
  BY DEF QueuesInv, ThTypeOK, ThGoto, Moves, Pcs
<1>2. /\ Counts(s, sema[s].value - 1) /\ sema[s].value > 0 /\ sema'[s].waiters = sema[s].waiters /\ KeepRunning
  <2>1. sema[s] \in SemaRec BY ThTypes DEF QueuesInv, SemaRec
  <2>2. sema[s].value > 0 /\ sema' = [sema EXCEPT ![s].value = @ - 1] /\ KeepRunning BY DEF sema_try_down
  <2>3. sema' = [sema EXCEPT ![s] = [sema[s] EXCEPT !.value = sema[s].value - 1]] BY <2>2 DEF QueuesInv, ThTypeOK
  <2>4. sema' = [sema EXCEPT ![s] = [value |-> sema[s].value - 1, waiters |-> sema[s].waiters]]
    BY <2>1, <2>3, WriteField
  <2>5. sema[s].value - 1 \in 0..(MaxSema + 1) /\ sema[s].waiters \in Seq(Threads)
    BY <2>1, <2>2, ThAssumption DEF SemaRec
  <2>6. /\ sema' \in [Semas -> SemaRec] /\ sema'[s].value = sema[s].value - 1
        /\ sema'[s].waiters = sema[s].waiters /\ \A r \in Semas \ {s} : sema'[r] = sema[r]
    BY <2>4, <2>5, WriteSema DEF QueuesInv
  <2> QED BY <2>2, <2>6 DEF Counts, SemaRec
<1>3. ThTypeOK' BY <1>1, <1>2 DEF QueuesInv, ThTypeOK, Moves, Pcs, KeepRunning, Counts
<1>4. \A r \in Semas : /\ sema'[r].waiters = sema[r].waiters /\ sema'[r].value <= sema[r].value
                       /\ sema'[r].value \in Nat /\ sema[r].value \in Nat
  <2> SUFFICES ASSUME NEW r \in Semas
               PROVE  /\ sema'[r].waiters = sema[r].waiters /\ sema'[r].value <= sema[r].value
                      /\ sema'[r].value \in Nat /\ sema[r].value \in Nat
    OBVIOUS
  <2>1. sema[r].value \in Nat BY ThTypes DEF QueuesInv
  <2>2. CASE r = s BY <1>2, <2>1, <2>2 DEF Counts
  <2>3. CASE r # s BY <1>2, <2>1, <2>3 DEF Counts
  <2> QED BY <2>2, <2>3
<1>5. RunQueue' /\ WaitQueues' BY <1>1, <1>2, <1>4, KeptRunning DEF Moves
<1>6. OwnSemas'
  <2>1. \A u \in Threads : want'[u] \in {"lock", "free", u} BY DEF QueuesInv, OwnSemas
  <2>2. \A u \in Threads : sema'[u].value <= 1 BY <1>4, SemaNames DEF QueuesInv, OwnSemas
  <2>3. sema'["free"].value <= MaxSema BY <1>4, SemaNames, ThAssumption DEF QueuesInv, OwnSemas
  <2> QED BY <2>1, <2>2, <2>3 DEF OwnSemas
<1>7. s \in {"lock", "free", t} BY DEF QueuesInv, OwnSemas
<1>8. LockInv'
  <2>1. \A u \in Threads \ {t} : InLock(u)' <=> InLock(u) BY <1>1 DEF InLock, Moves
  <2>2. ~InLock(t) BY DEF InLock
  <2>3. CASE s = "lock"
    <3>1. sema["lock"].value = 1 /\ holder = Idle /\ \A u \in Threads : ~InLock(u)
      BY <1>2, <2>3 DEF SyncInv, LockInv
    <3>2. InLock(t)' BY <1>1, <2>3 DEF InLock, Moves
    <3>3. sema'["lock"].value = 0 BY <1>2, <2>3, <3>1 DEF Counts
    <3> QED BY <2>1, <3>1, <3>2, <3>3, ThAssumption DEF LockInv
  <2>4. CASE s # "lock"
    <3>1. to # "locked" BY <2>4
    <3>2. ~InLock(t)' BY <1>1, <3>1 DEF InLock, Moves
    <3>3. sema'["lock"].value = sema["lock"].value BY <1>2, <2>4, SemaNames DEF Counts
    <3> QED BY <2>1, <2>2, <3>2, <3>3, LockKeep
  <2> QED BY <2>3, <2>4
<1>9. CondInv'
  <2>1. \A u \in Threads \ {t} : (InWait(u)' <=> InWait(u)) /\ sema'[u].value = sema[u].value
    BY <1>1, <1>2, <1>7, SemaNames DEF InWait, Moves, Counts
  <2>2. ~InWait(t)' BY <1>1 DEF InWait, Moves
  <2>3. t \notin ToSet(cond)
    <3>1. InWait(t) => s = t BY SemaNames DEF InWait
    <3>2. InWait(t) => sema[t].value # 0 BY <1>2, <3>1
    <3> QED BY <3>2 DEF SyncInv, CondInv
  <2>4. ToSet(cond) \subseteq Threads BY ThTypes, EmptyList DEF QueuesInv
  <2> QED BY <2>1, <2>2, <2>3, <2>4 DEF SyncInv, CondInv
<1>10. ASSUME NEW r \in Semas PROVE WakeOf(r)'
  <2>1. \A u \in Lookers(r) \ {t} : want'[u] = r /\ tpc'[u] = "down" /\ tstatus'[u] # "blocked"
    BY <1>1, <1>2 DEF Lookers, Moves, KeepRunning
  <2>2. CASE t \notin Lookers(r) BY <1>3, <1>4, <2>1, <2>2, WakeKeep
  <2>3. CASE t \in Lookers(r)
    <3>1. r = s BY <2>3 DEF Lookers
    <3>2. Lookers(r) \ {t} \subseteq Lookers(r)' BY <2>1 DEF Lookers
    <3>3. Cardinality(Lookers(r) \ {t}) = Cardinality(Lookers(r)) - 1 BY <2>3, LookersFinite, FS_RemoveElement
    <3>4. Cardinality(Lookers(r) \ {t}) <= Cardinality(Lookers(r)') BY <3>2, LookersFinite, FS_Subset
    <3>5. Cardinality(Lookers(r)) \in Nat /\ Cardinality(Lookers(r)') \in Nat BY LookersFinite
    <3>6. WakeOf(r) BY WakeUnfold DEF SyncInv
    <3>7. sema'[r].value = sema[r].value - 1 /\ sema[r].value \in Nat BY <1>2, <1>4, <3>1 DEF Counts
    <3> QED BY <1>4, <3>3, <3>4, <3>5, <3>6, <3>7 DEF WakeOf
  <2> QED BY <2>2, <2>3
<1>11. SyncInv' BY <1>8, <1>9, <1>10, WakeUnfold DEF SyncInv
<1> QED BY <1>3, <1>5, <1>6, <1>11 DEF QueuesInv

\* One turn of sema_down: the thread waits, or takes the value.
LEMMA StepDown ==
  ASSUME ThInv, NEW t \in Threads, sema_down(t)
  PROVE  ThInv'
<1> USE DEF ThInv
<1>1. PICK s \in Semas : s = want[t] BY ThTypes DEF QueuesInv
<1>2. cpu = t /\ tpc[t] = "down" /\ UNCHANGED <<holder, cond, thread_list, wake_up_tick, want>>
  BY DEF sema_down, OnCpu
<1>3. CASE /\ sema_try_down(s)
           /\ ThGoto(t, IF s = "lock" THEN "locked" ELSE IF s = "free" THEN "run" ELSE "relock")
  <2>1. PICK to \in {"locked", "run", "relock"} :
          to = IF s = "lock" THEN "locked" ELSE IF s = "free" THEN "run" ELSE "relock"
    OBVIOUS
  <2> QED BY <1>1, <1>2, <1>3, <2>1, StepTake
<1>4. CASE /\ sema[s].value = 0 /\ sema' = [sema EXCEPT ![s].waiters = Append(@, t)]
           /\ thread_block /\ UNCHANGED tpc
  <2>1. /\ sema' \in [Semas -> [value : 0..(MaxSema + 1), waiters : Seq(Threads)]]
        /\ sema'[s].waiters = Append(sema[s].waiters, t)
        /\ \A r \in Semas \ {s} : sema'[r] = sema[r]
        /\ \A r \in Semas : sema'[r].value = sema[r].value
    <3>1. sema[s] \in SemaRec BY ThTypes DEF QueuesInv, SemaRec
    <3>2. sema' = [sema EXCEPT ![s] = [sema[s] EXCEPT !.waiters = Append(sema[s].waiters, t)]]
      BY <1>4 DEF QueuesInv, ThTypeOK
    <3>3. sema' = [sema EXCEPT ![s] = [value |-> sema[s].value, waiters |-> Append(sema[s].waiters, t)]]
      BY <3>1, <3>2, WriteField
    <3>4. sema[s].value \in 0..(MaxSema + 1) /\ Append(sema[s].waiters, t) \in Seq(Threads) BY <3>1 DEF SemaRec
    <3>5. /\ sema' \in [Semas -> SemaRec] /\ sema'[s].value = sema[s].value
          /\ sema'[s].waiters = Append(sema[s].waiters, t) /\ \A r \in Semas \ {s} : sema'[r] = sema[r]
      BY <3>3, <3>4, WriteSema DEF QueuesInv
    <3> QED BY <3>5 DEF SemaRec
  <2>2. /\ RunQueue' /\ WaitQueues' /\ ready_list' \in Seq(Threads) /\ cpu' \in All
        /\ thread_ticks' \in 0..(TIME_SLICE - 1) /\ tstatus' \in [All -> States]
        /\ \A u \in Threads : tstatus'[u] = "blocked" <=> u = t \/ tstatus[u] = "blocked"
    <3>1. /\ sema'[want[t]].waiters = Append(sema[want[t]].waiters, t)
          /\ \A r \in Semas \ {want[t]} : sema'[r].waiters = sema[r].waiters
      BY <1>1, <2>1, Zenon
    <3>2. OnCpu(t, "down") /\ thread_block BY <1>2, <1>4 DEF OnCpu
    <3>3. UNCHANGED <<thread_list, tpc, want>> BY <1>2, <1>4
    <3> QED BY ONLY QueuesInv, t \in Threads, <3>1, <3>2, <3>3, Blocked
  <2>3. ThTypeOK' BY <1>2, <1>4, <2>1, <2>2 DEF QueuesInv, ThTypeOK, States
  <2>4. OwnSemas' BY <1>2, <2>1, SemaNames DEF QueuesInv, OwnSemas
  <2>5. \A u \in Threads : (InLock(u)' <=> InLock(u)) /\ (InWait(u)' <=> InWait(u))
    BY <1>2, <1>4 DEF InLock, InWait
  <2>6. LockInv' BY <1>2, <2>1, <2>5, SemaNames, LockKeep
  <2>7. CondInv' BY <1>2, <2>1, <2>5, SemaNames, CondKeep
  <2>8. ASSUME NEW r \in Semas PROVE WakeOf(r)'
    <3>1. CASE r = s
      <4>1. sema'[r].value = 0 BY <1>4, <2>1, <3>1
      <4>2. Cardinality(Lookers(r)') \in Nat BY LookersFinite
      <4> QED BY <4>1, <4>2 DEF WakeOf
    <3>2. CASE r # s
      <4>1. \A u \in Lookers(r) : want'[u] = r /\ tpc'[u] = "down" /\ tstatus'[u] # "blocked"
        BY <1>1, <1>2, <1>4, <2>2, <3>2 DEF Lookers
      <4>2. sema'[r].value <= sema[r].value BY <2>1, ThTypes DEF QueuesInv
      <4> QED BY <2>1, <2>3, <3>2, <4>1, <4>2, WakeKeep
    <3> QED BY <3>1, <3>2
  <2>9. SyncInv' BY <2>6, <2>7, <2>8, WakeUnfold DEF SyncInv
  <2> QED BY <2>2, <2>3, <2>4, <2>9 DEF QueuesInv
<1> QED BY <1>1, <1>3, <1>4 DEF sema_down

LEMMA StepTryAcquire ==
  ASSUME ThInv, NEW t \in Threads, lock_try_acquire(t)
  PROVE  ThInv'
<1>1. /\ cpu = t /\ tpc[t] = "run" /\ sema_try_down("lock") /\ ThGoto(t, "locked")
      /\ UNCHANGED <<holder, cond, thread_list, wake_up_tick, want>>
  BY DEF lock_try_acquire, OnCpu
<1> QED BY <1>1, StepTake, SemaNames

\* What sema_up does to the queues and to the wakeups of every semaphore.
LEMMA Upped ==
  ASSUME ThInv, NEW t \in Threads, cpu = t, tpc[t] # "down", NEW s \in Semas, sema[s].value <= MaxSema, sema_up(s),
         tpc' \in [Threads -> Pcs], want' \in [Threads -> Semas],
         \A u \in Threads \ {t} : tpc'[u] = tpc[u] /\ want'[u] = want[u],
         thread_list' = thread_list, wake_up_tick' = wake_up_tick, holder' = holder, cond' \in Seq(Threads)
  PROVE  /\ ThTypeOK' /\ RunQueue' /\ WaitQueues' /\ NoLostWakeup' /\ Counts(s, sema[s].value + 1)
<1> USE DEF ThInv
<1>1. sema[s] \in SemaRec /\ sema[s].value \in Nat BY ThTypes DEF QueuesInv, SemaRec
<1>2. sema[s].value + 1 \in 0..(MaxSema + 1) BY <1>1, ThAssumption
<1>3. CASE sema[s].waiters = <<>>
  <2>1. KeepRunning /\ sema' = [sema EXCEPT ![s].value = @ + 1] BY <1>3 DEF sema_up
  <2>2. sema' = [sema EXCEPT ![s] = [sema[s] EXCEPT !.value = sema[s].value + 1]] BY <2>1 DEF QueuesInv, ThTypeOK
  <2>3. sema' = [sema EXCEPT ![s] = [value |-> sema[s].value + 1, waiters |-> sema[s].waiters]]
    BY <1>1, <2>2, WriteField
  <2>4. sema[s].waiters \in Seq(Threads) BY <1>1 DEF SemaRec
  <2>5. /\ sema' \in [Semas -> SemaRec] /\ sema'[s].value = sema[s].value + 1
        /\ sema'[s].waiters = sema[s].waiters /\ \A r \in Semas \ {s} : sema'[r] = sema[r]
    BY <1>2, <2>3, <2>4, WriteSema DEF QueuesInv
  <2>6. Counts(s, sema[s].value + 1) BY <2>5 DEF Counts, SemaRec
  <2>7. ThTypeOK' BY <2>1, <2>5 DEF QueuesInv, ThTypeOK, KeepRunning, Pcs, SemaRec
  <2>8. RunQueue' /\ WaitQueues' BY <2>1, <2>5, KeptRunning
  <2>9. ASSUME NEW r \in Semas PROVE WakeOf(r)'
    <3>1. CASE r = s BY <1>3, <2>5, <3>1 DEF WakeOf
    <3>2. CASE r # s
      <4>1. \A u \in Lookers(r) : want'[u] = r /\ tpc'[u] = "down" /\ tstatus'[u] # "blocked"
        BY <2>1 DEF Lookers, KeepRunning
      <4>2. sema'[r].value <= sema[r].value BY <2>5, <3>2, ThTypes DEF QueuesInv
      <4> QED BY <2>5, <2>7, <3>2, <4>1, <4>2, WakeKeep
    <3> QED BY <3>1, <3>2
  <2> QED BY <2>6, <2>7, <2>8, <2>9, WakeUnfold
<1>4. CASE sema[s].waiters # <<>>
  <2>1. /\ thread_unblock(Head(sema[s].waiters))
        /\ sema' = [sema EXCEPT ![s] = [value |-> @.value + 1, waiters |-> Tail(@.waiters)]]
    BY <1>4 DEF sema_up
  <2>2. sema' = [sema EXCEPT ![s] = [value |-> sema[s].value + 1, waiters |-> Tail(sema[s].waiters)]]
    BY <2>1 DEF QueuesInv, ThTypeOK
  <2>3. Tail(sema[s].waiters) \in Seq(Threads)
    <3>1. sema[s].waiters \in Seq(Threads) BY <1>1 DEF SemaRec
    <3> QED BY <1>4, <3>1
  <2>4. /\ sema' \in [Semas -> SemaRec] /\ sema'[s].value = sema[s].value + 1
        /\ sema'[s].waiters = Tail(sema[s].waiters) /\ \A r \in Semas \ {s} : sema'[r] = sema[r]
    BY <1>2, <2>2, <2>3, WriteSema DEF QueuesInv
  <2>5. PICK h : h = Head(sema[s].waiters) OBVIOUS
  <2>6. /\ RunQueue' /\ WaitQueues' /\ tstatus' \in [All -> States] /\ ready_list' \in Seq(Threads)
        /\ h \in Threads /\ tpc[h] = "down" /\ want[h] = s /\ tstatus[h] = "blocked" /\ tstatus'[h] = "ready"
        /\ h # cpu /\ \A u \in All \ {h} : tstatus'[u] = tstatus[u]
    BY <1>4, <2>1, <2>4, <2>5, Woken
  <2>7. cpu' = cpu /\ thread_ticks' = thread_ticks BY <2>1 DEF thread_unblock
  <2>8. ThTypeOK' BY <2>4, <2>6, <2>7 DEF QueuesInv, ThTypeOK, Pcs, SemaRec, States
  <2>9. ASSUME NEW r \in Semas PROVE WakeOf(r)'
    <3>1. \A u \in Lookers(r) : want'[u] = r /\ tpc'[u] = "down" /\ tstatus'[u] # "blocked"
      BY <2>6, ThTypes DEF Lookers, QueuesInv
    <3>2. CASE r = s
      <4>1. h \notin Lookers(r) /\ h \in Lookers(r)' BY <2>6, <3>2 DEF Lookers
      <4>2. Lookers(r) \cup {h} \subseteq Lookers(r)' BY <3>1, <4>1 DEF Lookers
      <4>3. Cardinality(Lookers(r) \cup {h}) = Cardinality(Lookers(r)) + 1 BY <4>1, LookersFinite, FS_AddElement
      <4>4. Cardinality(Lookers(r) \cup {h}) <= Cardinality(Lookers(r)') BY <4>2, LookersFinite, FS_Subset
      <4>5. Cardinality(Lookers(r)) \in Nat /\ Cardinality(Lookers(r)') \in Nat BY LookersFinite
      <4>6. sema[r].value <= Cardinality(Lookers(r)) BY <1>4, <3>2, WakeUnfold DEF SyncInv, WakeOf
      <4>7. sema'[r].value = sema[r].value + 1 /\ sema[r].value \in Nat BY <1>1, <2>4, <3>2
      <4>8. sema'[r].value <= Cardinality(Lookers(r)') BY <4>3, <4>4, <4>5, <4>6, <4>7
      <4> QED BY <4>8 DEF WakeOf
    <3>3. CASE r # s
      <4>1. sema'[r].value <= sema[r].value BY <2>4, <3>3, ThTypes DEF QueuesInv
      <4> QED BY <2>4, <2>8, <3>1, <3>3, <4>1, WakeKeep
    <3> QED BY <3>2, <3>3
  <2>10. Counts(s, sema[s].value + 1) BY <2>4 DEF Counts, SemaRec
  <2> QED BY <2>6, <2>8, <2>9, <2>10, WakeUnfold
<1> QED BY <1>3, <1>4

\* sema_up on the free semaphore.
LEMMA StepUp ==
  ASSUME ThInv, NEW t \in Threads, SemaUp(t)
  PROVE  ThInv'
<1> USE DEF ThInv
<1>1. /\ cpu = t /\ tpc[t] = "run" /\ sema["free"].value < MaxSema /\ sema_up("free")
      /\ UNCHANGED <<holder, cond, thread_list, wake_up_tick, tpc, want>>
  BY DEF SemaUp, OnCpu
<1>2. tpc' \in [Threads -> Pcs] /\ want' \in [Threads -> Semas] /\ cond' \in Seq(Threads)
  BY <1>1 DEF QueuesInv, ThTypeOK, Pcs
<1>3. sema["free"].value \in Nat /\ sema["free"].value <= MaxSema BY <1>1, ThTypes, SemaNames, ThAssumption DEF QueuesInv
<1>4. ThTypeOK' /\ RunQueue' /\ WaitQueues' /\ NoLostWakeup' /\ Counts("free", sema["free"].value + 1)
  BY <1>1, <1>2, <1>3, Upped, SemaNames
<1>5. \A r \in Semas \ {"free"} : sema'[r] = sema[r] BY <1>4 DEF Counts
<1>6. sema'["free"].value <= MaxSema BY <1>1, <1>3, <1>4, ThAssumption DEF Counts
<1>7. OwnSemas' BY <1>1, <1>5, <1>6, SemaNames DEF QueuesInv, OwnSemas
<1>8. \A u \in Threads : (InLock(u)' <=> InLock(u)) /\ (InWait(u)' <=> InWait(u)) BY <1>1 DEF InLock, InWait
<1>9. LockInv' BY <1>1, <1>5, <1>8, SemaNames, LockKeep
<1>10. CondInv' BY <1>1, <1>5, <1>8, SemaNames, CondKeep
<1> QED BY <1>4, <1>7, <1>9, <1>10 DEF QueuesInv, SyncInv

\* The lock is given back; in cond_wait the thread goes on to its own semaphore.
LEMMA StepUnlock ==
  ASSUME ThInv, NEW t \in Threads, Unlock(t)
  PROVE  ThInv'
<1> USE DEF ThInv
<1>1. /\ cpu = t /\ sema_up("lock") /\ UNCHANGED <<holder, cond, thread_list, wake_up_tick>>
      /\ \/ tpc[t] = "unlock" /\ Moves(t, "run", want[t])
         \/ tpc[t] = "cond_unlock" /\ Moves(t, "down", t)
  <2>1. ThTypeOK BY DEF QueuesInv
  <2>2. CASE OnCpu(t, "unlock") /\ ThGoto(t, "run") /\ UNCHANGED want
    BY <2>1, <2>2, Moved DEF Unlock, OnCpu, Pcs
  <2>3. CASE OnCpu(t, "cond_unlock") /\ Down(t, t)
    <3>1. Moves(t, "down", t) BY <2>1, <2>3, Moved, SemaNames DEF Down, Pcs
    <3> QED BY <2>3, <3>1 DEF Unlock, OnCpu
  <2> QED BY <2>2, <2>3 DEF Unlock
<1>2. InLock(t) /\ holder = Idle BY <1>1 DEF InLock, SyncInv, LockInv
<1>3. sema["lock"].value = 0 /\ \A u \in Threads \ {t} : ~InLock(u) BY <1>2 DEF SyncInv, LockInv
<1>4. ThTypeOK' /\ RunQueue' /\ WaitQueues' /\ NoLostWakeup' /\ Counts("lock", sema["lock"].value + 1)
  <2>1. cond' \in Seq(Threads) BY <1>1 DEF QueuesInv, ThTypeOK
  <2>2. sema["lock"].value <= MaxSema BY <1>3, ThAssumption
  <2> QED BY <1>1, <2>1, <2>2, Upped, SemaNames DEF Moves
<1>5. sema'["lock"].value = 1 /\ \A r \in Semas \ {"lock"} : sema'[r] = sema[r] BY <1>3, <1>4 DEF Counts
<1>6. OwnSemas'
  <2>1. \A u \in Threads : want'[u] \in {"lock", "free", u} BY <1>1 DEF QueuesInv, OwnSemas, Moves
  <2> QED BY <1>5, <2>1, SemaNames DEF QueuesInv, OwnSemas
<1>7. LockInv'
  <2>1. \A u \in Threads : ~InLock(u)' BY <1>1, <1>3 DEF InLock, Moves
  <2> QED BY <1>1, <1>2, <1>5, <2>1 DEF LockInv
<1>8. CondInv'
  <2>1. \A u \in Threads : InWait(u)' <=> InWait(u) BY <1>1 DEF InWait, Moves
  <2> QED BY <1>1, <1>5, <2>1, SemaNames, CondKeep
<1> QED BY <1>4, <1>6, <1>7, <1>8 DEF QueuesInv, SyncInv

\* The first thread in cond_wait is signalled.
LEMMA StepSignal ==
  ASSUME ThInv, NEW t \in Threads, cond_signal(t)
  PROVE  ThInv'
<1> USE DEF ThInv
<1>1. /\ cpu = t /\ tpc[t] = "run" /\ cond # <<>> /\ sema_up(Head(cond)) /\ cond' = Tail(cond)
      /\ UNCHANGED <<holder, thread_list, wake_up_tick, tpc, want>>
  BY DEF cond_signal, OnCpu
<1>2. PICK h : h = Head(cond) OBVIOUS
<1>3. /\ h \in Threads /\ h \in ToSet(cond) /\ cond' \in Seq(Threads) /\ IsInjective(cond')
      /\ ToSet(cond') = ToSet(cond) \ {h}
  <2>1. cond \in Seq(Threads) /\ IsInjective(cond) BY DEF QueuesInv, ThTypeOK, SyncInv, CondInv
  <2> QED BY <1>1, <1>2, <2>1, PopFront
<1>4. InWait(h) /\ sema[h].value = 0 BY <1>3 DEF SyncInv, CondInv
<1>5. ThTypeOK' /\ RunQueue' /\ WaitQueues' /\ NoLostWakeup' /\ Counts(h, sema[h].value + 1)
  <2>1. tpc' \in [Threads -> Pcs] /\ want' \in [Threads -> Semas] BY <1>1 DEF QueuesInv, ThTypeOK, Pcs
  <2>2. sema[h].value <= MaxSema BY <1>4, ThAssumption
  <2> QED BY <1>1, <1>2, <1>3, <2>1, <2>2, Upped, SemaNames
<1>6. sema'[h].value = 1 /\ \A r \in Semas \ {h} : sema'[r] = sema[r] BY <1>4, <1>5 DEF Counts
<1>7. OwnSemas' BY <1>1, <1>3, <1>6, SemaNames DEF QueuesInv, OwnSemas
<1>8. \A u \in Threads : (InLock(u)' <=> InLock(u)) /\ (InWait(u)' <=> InWait(u)) BY <1>1 DEF InLock, InWait
<1>9. LockInv' BY <1>1, <1>3, <1>6, <1>8, SemaNames, LockKeep
<1>10. CondInv'
  <2>1. ToSet(cond) \subseteq Threads BY ThTypes, EmptyList DEF QueuesInv
  <2>2. \A u \in ToSet(cond') : InWait(u)' BY <1>3, <1>8, <2>1 DEF SyncInv, CondInv
  <2>3. ASSUME NEW u \in Threads, InWait(u)' PROVE u \in ToSet(cond') <=> sema'[u].value = 0
    <3>1. CASE u = h BY <1>3, <1>6, <3>1
    <3>2. CASE u # h BY <1>3, <1>6, <1>8, <2>3, <3>2, SemaNames DEF SyncInv, CondInv
    <3> QED BY <3>1, <3>2
  <2> QED BY <1>3, <2>2, <2>3 DEF CondInv
<1> QED BY <1>5, <1>7, <1>9, <1>10 DEF QueuesInv, SyncInv

\* The holder enters cond_wait.
LEMMA StepCondWait ==
  ASSUME ThInv, NEW t \in Threads, cond_wait(t)
  PROVE  ThInv'
<1> USE DEF ThInv
<1>1. /\ cpu = t /\ tpc[t] = "run" /\ holder = t /\ cond' = Append(cond, t) /\ holder' = Idle
      /\ sema' = [sema EXCEPT ![t] = [value |-> 0, waiters |-> <<>>]]
      /\ KeepRunning /\ UNCHANGED <<thread_list, wake_up_tick, want>> /\ Moves(t, "cond_unlock", want[t])
  BY Moved DEF cond_wait, OnCpu, QueuesInv, Pcs
<1>2. ~InWait(t) /\ t \notin ToSet(cond) BY <1>1 DEF InWait, SyncInv, CondInv
<1>3. cond' \in Seq(Threads) /\ IsInjective(cond') /\ ToSet(cond') = ToSet(cond) \cup {t}
  <2>1. cond \in Seq(Threads) /\ IsInjective(cond) BY DEF QueuesInv, ThTypeOK, SyncInv, CondInv
  <2> QED BY <1>1, <1>2, <2>1, PushBack
<1>4. /\ sema' \in [Semas -> SemaRec] /\ sema'[t].value = 0 /\ sema'[t].waiters = <<>>
      /\ \A r \in Semas \ {t} : sema'[r] = sema[r]
  <2>1. <<>> \in Seq(Threads) /\ 0 \in 0..(MaxSema + 1) BY ThAssumption
  <2> QED BY <1>1, <2>1, WriteSema, SemaNames DEF QueuesInv
<1>5. sema[t].waiters = <<>>
  <2>1. ASSUME NEW u \in ToSet(sema[t].waiters) PROVE FALSE
    <3>1. u \in Threads /\ tpc[u] = "down" /\ want[u] = t BY <2>1, ThTypes, SemaNames DEF QueuesInv, WaitQueues
    <3>2. u = t BY <3>1, SemaNames DEF QueuesInv, OwnSemas
    <3> QED BY <1>1, <3>1, <3>2
  <2> QED BY <2>1, ThTypes, EmptyList, SemaNames DEF QueuesInv
<1>6. \A r \in Semas : sema'[r].waiters = sema[r].waiters BY <1>4, <1>5
<1>7. ThTypeOK' BY <1>1, <1>3, <1>4, ThTypes DEF QueuesInv, ThTypeOK, KeepRunning, Moves, Pcs, SemaRec
<1>8. RunQueue' /\ WaitQueues' BY <1>1, <1>6, KeptRunning DEF Moves
<1>9. OwnSemas' BY <1>1, <1>4, SemaNames DEF QueuesInv, OwnSemas
<1>10. LockInv'
  <2>1. sema["lock"].value = 0 /\ \A u \in Threads \ {t} : ~InLock(u)
    BY <1>1, ThAssumption DEF SyncInv, LockInv
  <2>2. sema'["lock"].value = 0 BY <1>4, <2>1, SemaNames
  <2>3. InLock(t)' /\ \A u \in Threads \ {t} : ~InLock(u)' BY <1>1, <2>1 DEF InLock, Moves
  <2> QED BY <1>1, <2>2, <2>3, ThAssumption DEF LockInv
<1>11. CondInv'
  <2>1. InWait(t)' /\ \A u \in Threads \ {t} : InWait(u)' <=> InWait(u) BY <1>1 DEF InWait, Moves
  <2>2. ToSet(cond) \subseteq Threads BY ThTypes, EmptyList DEF QueuesInv
  <2>3. \A u \in ToSet(cond') : InWait(u)' BY <1>3, <2>1, <2>2 DEF SyncInv, CondInv
  <2>4. ASSUME NEW u \in Threads, InWait(u)' PROVE u \in ToSet(cond') <=> sema'[u].value = 0
    <3>1. CASE u = t BY <1>3, <1>4, <3>1
    <3>2. CASE u # t BY <1>3, <1>4, <2>1, <2>4, <3>2, SemaNames DEF SyncInv, CondInv
    <3> QED BY <3>1, <3>2
  <2> QED BY <1>3, <2>3, <2>4 DEF CondInv
<1>12. ASSUME NEW r \in Semas PROVE WakeOf(r)'
  <2>1. CASE r = t BY <1>4, <2>1 DEF WakeOf
  <2>2. CASE r # t
    <3>1. \A u \in Lookers(r) : want'[u] = r /\ tpc'[u] = "down" /\ tstatus'[u] # "blocked"
      BY <1>1 DEF Lookers, Moves, KeepRunning
    <3>2. sema'[r].value <= sema[r].value BY <1>4, <2>2, ThTypes DEF QueuesInv
    <3> QED BY <1>6, <1>7, <3>1, <3>2, WakeKeep
  <2> QED BY <2>1, <2>2
<1> QED BY <1>7, <1>8, <1>9, <1>10, <1>11, <1>12, WakeUnfold DEF QueuesInv, SyncInv

-----------------------------------------------------------------------------
LEMMA ThInvInit == ThInit => ThInv
<1> SUFFICES ASSUME ThInit PROVE ThInv OBVIOUS
<1>1. /\ ready_list = <<>> /\ thread_list = <<>> /\ cond = <<>> /\ cpu = Main /\ holder = Idle
      /\ \A s \in Semas : sema[s].waiters = <<>> /\ sema[s].value = IF s = "lock" THEN 1 ELSE 0
      /\ \A t \in Threads : tpc[t] = "run" /\ want[t] = "free"
      /\ \A t \in All : tstatus[t] = IF t = Main THEN "running" ELSE IF t = Idle THEN "blocked" ELSE "none"
  BY DEF ThInit
<1>2. <<>> \in Seq(Threads) /\ ToSet(<<>>) = {} /\ IsInjective(<<>>)
  <2>1. <<>> \in Seq(Threads) OBVIOUS
  <2> QED BY <2>1, EmptyList
<1>3. ThTypeOK
  <2>1. \A s \in Semas : [value |-> IF s = "lock" THEN 1 ELSE 0, waiters |-> <<>>] \in SemaRec
    BY <1>2, ThAssumption DEF SemaRec
  <2>2. sema \in [Semas -> SemaRec] BY <2>1 DEF ThInit
  <2>3. 0 \in 0..(TIME_SLICE - 1) BY ThAssumption
  <2> QED BY <1>2, <2>2, <2>3, ThAssumption, SemaNames DEF ThInit, ThTypeOK, SemaRec, All
<1>4. RunQueue BY <1>1, <1>2, ThAssumption DEF RunQueue, All
<1>5. WaitQueues
  <2>1. \A t \in Threads : tstatus[t] # "blocked" BY <1>1, ThAssumption DEF All
  <2> QED BY <1>1, <1>2, <2>1 DEF WaitQueues
<1>6. OwnSemas BY <1>1, SemaNames, ThAssumption DEF OwnSemas
<1>7. LockInv BY <1>1, SemaNames DEF LockInv, InLock
<1>8. CondInv
  <2>1. \A t \in Threads : ~InWait(t) BY <1>1 DEF InWait
  <2> QED BY <1>1, <1>2, <2>1 DEF CondInv
<1>9. NoLostWakeup BY <1>1 DEF NoLostWakeup
<1> QED BY <1>3, <1>4, <1>5, <1>6, <1>7, <1>8, <1>9 DEF ThInv, QueuesInv, SyncInv

LEMMA ThInvStep == ThInv /\ [ThNext]_ThVars => ThInv'
<1> SUFFICES ASSUME ThInv, [ThNext]_ThVars PROVE ThInv' OBVIOUS
<1>1. CASE UNCHANGED ThVars
  <2> USE <1>1 DEF ThVars, ThInv
  <2>1. ThTypeOK' BY DEF QueuesInv, ThTypeOK
  <2>2. RunQueue' /\ WaitQueues' /\ OwnSemas' BY DEF QueuesInv, RunQueue, WaitQueues, OwnSemas
  <2>3. \A t \in Threads : (InLock(t)' <=> InLock(t)) /\ (InWait(t)' <=> InWait(t)) BY DEF InLock, InWait
  <2>4. SyncInv' BY <2>1, <2>3, SyncKeep
  <2> QED BY <2>1, <2>2, <2>4 DEF QueuesInv
<1>2. CASE timer_interrupt \/ idle BY <1>2, StepScheduler
<1>3. ASSUME NEW t \in Threads, InPrimitive(t) \/ AnyCall(t) PROVE ThInv'
  <2>1. CASE InPrimitive(t)
    BY <2>1, StepDown, StepHolder, StepUnlock, StepEnter, StepSleep DEF InPrimitive
  <2>2. CASE AnyCall(t)
    <3>1. CASE Yield(t) \/ Exit(t) \/ \E new \in Threads : thread_create(t, new) BY <3>1, StepScheduler
    <3>2. CASE SemaDown(t) \/ lock_acquire(t) \/ \E ticks \in Sleeps : ReadTicks(t, ticks) BY <3>2, StepEnter
    <3>3. CASE SemaUp(t) \/ lock_try_acquire(t) \/ lock_release(t) BY <3>3, StepUp, StepTryAcquire, StepHolder
    <3>4. CASE cond_wait(t) \/ cond_signal(t) BY <3>4, StepCondWait, StepSignal
    <3> QED BY <2>2, <3>1, <3>2, <3>3, <3>4 DEF AnyCall
  <2> QED BY <1>3, <2>1, <2>2
<1> QED BY <1>1, <1>2, <1>3 DEF ThNext

LEMMA ThInvAlways == ThSpec => []ThInv
BY ThInvInit, ThInvStep, PTL DEF ThSpec

\* The scheduler keeps its books (thread.c, and the lists of synch.c and
\* timer.c): one thread runs, every other one that exists is on exactly one
\* list, once, and on the list its state says.
THEOREM QueuesCorrect == ThSpec => []QueuesSound
<1>1. ASSUME ThInv PROVE QueuesSound
  <2> USE <1>1
  <2> USE DEF ThInv, QueuesInv
  <2>1. {t \in All : tstatus[t] = "running"} = {cpu} BY ThTypes DEF RunQueue
  <2>2. "ready" \notin Semas /\ "asleep" \notin Semas BY ThAssumption DEF Semas
  <2>3. /\ Queue("ready") = ready_list /\ Queue("asleep") = thread_list
        /\ \A s \in Semas : Queue(s) = sema[s].waiters
    BY <2>2 DEF Queue
  <2>4. \A q \in Queues : IsInjective(Queue(q)) BY <2>3 DEF Queues, RunQueue, WaitQueues
  <2>5. /\ \A t \in ToSet(Queue("ready")) : tstatus[t] = "ready"
        /\ \A t \in ToSet(Queue("asleep")) : tstatus[t] = "blocked" /\ tpc[t] = "run"
        /\ \A s \in Semas : \A t \in ToSet(Queue(s)) : tstatus[t] = "blocked" /\ tpc[t] = "down" /\ want[t] = s
    BY <2>3, ThTypes DEF RunQueue, WaitQueues
  <2>6. \A q, r \in Queues : q # r => ToSet(Queue(q)) \cap ToSet(Queue(r)) = {}
    <3> SUFFICES ASSUME NEW q \in Queues, NEW r \in Queues, NEW t \in ToSet(Queue(q)), t \in ToSet(Queue(r))
                 PROVE  q = r
      OBVIOUS
    <3>1. CASE q = "ready" BY <2>5, <3>1 DEF Queues
    <3>2. CASE q = "asleep" BY <2>5, <3>2 DEF Queues
    <3>3. CASE q \in Semas BY <2>5, <3>3 DEF Queues
    <3> QED BY <3>1, <3>2, <3>3 DEF Queues
  <2>7. ToSet(ready_list) = {t \in Threads : tstatus[t] = "ready"} BY ThTypes DEF RunQueue
  <2>8. UNION {ToSet(Queue(q)) : q \in Queues \ {"ready"}} = {t \in Threads : tstatus[t] = "blocked"}
    <3>1. ASSUME NEW q \in Queues \ {"ready"}, NEW t \in ToSet(Queue(q))
          PROVE  t \in Threads /\ tstatus[t] = "blocked"
      <4>1. CASE q = "asleep" BY <2>3, <2>5, <3>1, <4>1, ThTypes
      <4>2. CASE q \in Semas BY <2>3, <2>5, <3>1, <4>2, ThTypes
      <4> QED BY <4>1, <4>2 DEF Queues
    <3>2. ASSUME NEW t \in Threads, tstatus[t] = "blocked"
          PROVE  \E q \in Queues \ {"ready"} : t \in ToSet(Queue(q))
      <4>1. "asleep" \in Queues \ {"ready"} /\ want[t] \in Queues \ {"ready"} /\ want[t] \in Semas
        BY <2>2, ThTypes DEF Queues
      <4>2. t \in ToSet(thread_list) \/ t \in ToSet(sema[want[t]].waiters) BY <3>2 DEF WaitQueues
      <4>3. t \in ToSet(Queue("asleep")) \/ t \in ToSet(Queue(want[t])) BY <2>3, <4>1, <4>2
      <4> QED BY <4>1, <4>3
    <3> QED BY <3>1, <3>2
  <2> QED BY <2>1, <2>4, <2>6, <2>7, <2>8 DEF QueuesSound, QueuesAgree
<1> QED BY <1>1, ThInvAlways, PTL

\* Semaphores, locks and conditions keep their promises with preemption
\* between any two steps (synch.c): the lock excludes, no value lies unused
\* while a thread waits for it, and no signal is lost.
THEOREM SynchronizationCorrect == ThSpec => []SynchronizationSound
<1>1. ASSUME ThInv PROVE SynchronizationSound
  <2> USE <1>1
  <2> USE DEF ThInv, SyncInv
  <2>1. MutualExclusion
    <3> DEFINE in == {t \in Threads : holder = t \/ tpc[t] \in {"locked", "unlock", "cond_unlock"}}
    <3>1. CASE sema["lock"].value = 1 /\ holder = Idle /\ \A t \in Threads : ~InLock(t)
      <4>1. in = {} BY <3>1, ThAssumption DEF InLock
      <4> QED BY <3>1, <4>1, FS_EmptySet DEF MutualExclusion
    <3>2. CASE /\ sema["lock"].value = 0
               /\ \E t \in Threads : /\ holder = t \/ InLock(t)
                                     /\ \A u \in Threads : holder = u \/ InLock(u) => u = t
      <4>1. PICK t \in Threads : in = {t} BY <3>2 DEF InLock
      <4> QED BY <3>2, <4>1, FS_Singleton DEF MutualExclusion
    <3> QED BY <3>1, <3>2 DEF LockInv
  <2>2. SignalsReachWaiters
    <3> SUFFICES ASSUME NEW t \in Threads, InWait(t) PROVE (t \in ToSet(cond)) # (sema[t].value = 1)
      BY DEF SignalsReachWaiters, InWait
    <3>1. sema[t].value \in Nat /\ sema[t].value <= 1 BY ThTypes, SemaNames DEF QueuesInv, OwnSemas
    <3>2. t \in ToSet(cond) <=> sema[t].value = 0 BY DEF CondInv
    <3>3. t \in ToSet(cond) <=> ~(sema[t].value = 1) BY <3>1, <3>2
    <3> QED BY <3>3, Zenon
  <2> QED BY <2>1, <2>2 DEF SynchronizationSound
<1> QED BY <1>1, ThInvAlways, PTL

-----------------------------------------------------------------------------
(* malloc and the page allocator.  Every page in use belongs to one block   *)
(* that is held: to a big block, or to the arena that a small one is in.    *)

Record == [p : Nat, size : Nat]
JobType == [step : {"idle", "copied", "page"}, old : [p : Nat \cup {NULLP}, size : Nat], new : Nat \cup {NULLP}]
StoreTypes ==
  /\ used_map = [pool \in {"kernel", "user"} |-> used_map[pool]]
  /\ used_map["kernel"] \subseteq 0 .. KernelPages - 1
  /\ arena \in [0 .. KernelPages - 1 -> [desc : Int, free_cnt : Int]]
  /\ free_list \in [DescSizes -> Seq(Nat)]
  /\ held \in [MThreads -> SUBSET Record] /\ \A t \in MThreads : IsFiniteSet(held[t])

\* Where a block lies that its arena takes for one of its own.
Placed(p) ==
  /\ PageOf(p) \in 0 .. KernelPages - 1
  /\ LET a == arena[PageOf(p)]
     IN \/ a.desc = 0 /\ a.free_cnt >= 1 /\ p = PageOf(p) * PGSIZE + ArenaBytes
        \/ a.desc \in DescSizes /\ p \in BlocksOf(PageOf(p), a.desc)

Elements(s) == {s[i] : i \in DOMAIN s}
FreeOn(pg) == {b \in Elements(free_list[arena[pg].desc]) : PageOf(b) = pg}
HeldAt(p) == \E x \in Live : x.p = p
HeadPages == {PageOf(x.p) : x \in Live}
Extent(pg) == IF arena[pg].desc = 0 THEN pg .. pg + arena[pg].free_cnt - 1 ELSE {pg}

HeldInv ==
  /\ \A x \in Live : Placed(x.p) /\ x.size >= 1 /\ x.size <= block_size(x.p)
  /\ \A x, y \in Live : x.p = y.p => x = y
  /\ \A t, u \in MThreads : t # u => held[t] \cap held[u] = {}

FreeInv ==
  \A d \in DescSizes :
    /\ \A i, j \in DOMAIN free_list[d] : free_list[d][i] = free_list[d][j] => i = j
    /\ \A b \in Elements(free_list[d]) :
         /\ PageOf(b) \in HeadPages /\ arena[PageOf(b)].desc = d /\ b \in BlocksOf(PageOf(b), d)
         /\ ~HeldAt(b)

ArenaInv ==
  \A pg \in HeadPages : arena[pg].desc \in DescSizes =>
    /\ \A b \in BlocksOf(pg, arena[pg].desc) : b \in FreeOn(pg) \/ HeldAt(b)
    /\ arena[pg].free_cnt = Cardinality(FreeOn(pg))

PagesInv ==
  /\ used_map["kernel"] = UNION {Extent(pg) : pg \in HeadPages}
  /\ \A pg, qg \in HeadPages : pg # qg => Extent(pg) \cap Extent(qg) = {}

\* A thread in the middle of realloc holds the old block, one with a page of the
\* user pool has it alone.
Pagers == {t \in MThreads : job[t].step = "page"}
JobsInv ==
  /\ job \in [MThreads -> JobType] /\ used_map["user"] \subseteq 0 .. UserPages - 1
  /\ \A t \in MThreads : job[t].step = "copied" => job[t].old \in held[t]
  /\ used_map["user"] = {job[t].old.p : t \in Pagers}
  /\ \A t, u \in Pagers : job[t].old.p = job[u].old.p => t = u

StoreInv == StoreTypes /\ HeldInv /\ FreeInv /\ ArenaInv /\ PagesInv
HeapInv == StoreInv /\ JobsInv

-----------------------------------------------------------------------------
(* Where blocks lie in a page.                                             *)

LEMMA Division ==
  ASSUME NEW n \in Int, NEW d \in Nat, d > 0
  PROVE  n \div d \in Int /\ n % d \in 0 .. d - 1 /\ n = (n \div d) * d + (n % d)
  BY SMT

LEMMA PoolSizes == KernelPages \in Int /\ UserPages \in Int
<1> DEFINE Lesser(a, b) == IF a < b THEN a ELSE b
           user_pages == Lesser(FreePages \div 2, user_page_limit)
           kernel_pages == Lesser(FreePages, free_page_limit) - user_pages
<1>1. FreePages \in Nat /\ free_page_limit \in Nat /\ user_page_limit \in Nat /\ PGSIZE \in Nat /\ PGSIZE > 0
  BY MeAssumption
<1>2. user_pages \in Int /\ kernel_pages \in Int
  BY <1>1
<1>3. ASSUME NEW n \in Int PROVE init_pool(n) \in Int
  <2>1. bitmap_buf_size(n) \in Int
    BY DEF bitmap_buf_size, DIV_ROUND_UP
  <2> QED BY <1>1, <2>1 DEF init_pool, DIV_ROUND_UP
<1>4. Pools = [kernel |-> init_pool(kernel_pages), user |-> init_pool(user_pages)]
  BY DEF Pools
<1> HIDE DEF user_pages, kernel_pages
<1> QED BY <1>2, <1>3, <1>4 DEF KernelPages, UserPages

\* A number and its page.
LEMMA PageOfIs ==
  ASSUME NEW pg \in Int, NEW r \in Int, 0 <= r, r < PGSIZE
  PROVE  PageOf(pg * PGSIZE + r) = pg /\ (pg * PGSIZE + r) % PGSIZE = r
<1>1. PGSIZE \in Nat /\ PGSIZE > 0
  BY MeAssumption
<1>2. PICK x \in Int : x = pg * PGSIZE + r
  BY <1>1
<1>3. x % PGSIZE = r
  BY <1>1, <1>2, ModUnique
<1>4. x \div PGSIZE \in Int /\ x = (x \div PGSIZE) * PGSIZE + (x % PGSIZE)
  BY <1>1, SMT
<1>5. PICK q \in Int : q = x \div PGSIZE /\ q * PGSIZE = pg * PGSIZE
  BY <1>1, <1>2, <1>3, <1>4
<1>6. q = pg
  <2>1. CASE q < pg
    <3>1. q * PGSIZE < pg * PGSIZE
      BY <1>1, <2>1
    <3> QED BY <1>1, <1>5, <3>1, SMT
  <2>2. CASE pg < q
    <3>1. pg * PGSIZE < q * PGSIZE
      BY <1>1, <2>2
    <3> QED BY <1>1, <1>5, <3>1, SMT
  <2> QED BY <1>5, <2>1, <2>2
<1> QED BY <1>2, <1>3, <1>5, <1>6 DEF PageOf

LEMMA PageIs ==
  ASSUME NEW q \in Int
  PROVE  PageOf(q) \in Int /\ PageOf(q) * PGSIZE <= q /\ q < PageOf(q) * PGSIZE + PGSIZE
<1>1. PGSIZE \in Nat /\ PGSIZE > 0
  BY MeAssumption
<1>2. q \div PGSIZE \in Int /\ q % PGSIZE \in 0 .. PGSIZE - 1 /\ q = (q \div PGSIZE) * PGSIZE + (q % PGSIZE)
  BY <1>1, SMT
<1>3. PICK d \in Int, r \in Int : d = q \div PGSIZE /\ r = q % PGSIZE
  BY <1>2
<1> QED BY <1>1, <1>2, <1>3 DEF PageOf

LEMMA Descriptor ==
  ASSUME NEW d \in DescSizes
  PROVE  /\ d \in Nat /\ d > 0 /\ ArenaBytes + d <= PGSIZE /\ ArenaBytes \in Nat /\ ArenaBytes < PGSIZE
         /\ blocks_per_arena(d) \in Nat /\ blocks_per_arena(d) >= 1
         /\ ArenaBytes + blocks_per_arena(d) * d <= PGSIZE
<1>1. PGSIZE \in Nat /\ PGSIZE > 0 /\ FirstBlock \in Nat /\ FirstBlock > 0 /\ ArenaBytes \in Nat
  BY MeAssumption
<1>2. d \in Nat /\ d > 0
  <2>1. PICK m \in {1, 2, 4, 8, 16, 32, 64, 128, 256} : d = FirstBlock * m
    BY DEF DescSizes
  <2>2. m \in Nat /\ m > 0
    OBVIOUS
  <2> QED BY <1>1, <2>1, <2>2
<1>3. d < PGSIZE \div 2 /\ ArenaBytes <= PGSIZE \div 2
  BY MeAssumption DEF DescSizes
<1>4. ArenaBytes + d <= PGSIZE
  BY <1>1, <1>2, <1>3
<1>5. PICK n \in Nat : n = PGSIZE - ArenaBytes /\ n >= d
  BY <1>1, <1>2, <1>4
<1>6. n \div d \in Int /\ n % d \in 0 .. d - 1 /\ n = (n \div d) * d + (n % d)
  BY <1>2, <1>5, Division
<1>7. PICK k \in Int, r \in Int : k = n \div d /\ r = n % d
  BY <1>6
<1>8. n = k * d + r /\ 0 <= r /\ r < d
  BY <1>2, <1>6, <1>7
<1>9. k >= 1
  <2> SUFFICES ASSUME k <= 0 PROVE FALSE
    BY <1>7
  <2>1. k * d <= 0
    BY <1>2, <1>7
  <2> QED BY <1>2, <1>5, <1>8, <2>1
<1>10. k * d <= n
  BY <1>7, <1>8, <1>2
<1> QED BY <1>1, <1>2, <1>4, <1>5, <1>7, <1>9, <1>10 DEF blocks_per_arena

\* A small block lies in its page, behind the arena's header.
LEMMA SmallBlock ==
  ASSUME NEW pg \in Nat, NEW d \in DescSizes, NEW b \in BlocksOf(pg, d)
  PROVE  /\ b \in Nat /\ PageOf(b) = pg
         /\ \A q \in BytesOf(b, d) : q \in Int /\ PageOf(q) = pg /\ q >= pg * PGSIZE + ArenaBytes
<1> DEFINE n == blocks_per_arena(d)
           base == pg * PGSIZE
<1>1. PICK i \in 0 .. n - 1 : b = base + ArenaBytes + i * d
  BY DEF BlocksOf, arena_to_block
<1>2. /\ d \in Nat /\ d > 0 /\ ArenaBytes \in Nat /\ n \in Nat /\ ArenaBytes + n * d <= PGSIZE
      /\ PGSIZE \in Nat /\ base \in Nat
  BY Descriptor, MeAssumption
<1> HIDE DEF n, base
<1>3. i \in Nat /\ i * d \in Nat /\ i * d + d <= n * d
  <2>1. i \in Nat /\ i + 1 <= n
    BY <1>2
  <2>2. (i + 1) * d <= n * d
    BY <1>2, <2>1
  <2> QED BY <1>2, <2>1, <2>2
<1>4. ASSUME NEW q \in BytesOf(b, d) PROVE q \in Int /\ PageOf(q) = pg /\ q >= base + ArenaBytes
  <2>1. q \in Int /\ b <= q /\ q <= b + d - 1
    BY <1>1, <1>2, <1>3 DEF BytesOf
  <2>2. q - base >= ArenaBytes /\ q - base < PGSIZE /\ q - base \in Int
    BY <1>1, <1>2, <1>3, <2>1
  <2>3. PICK r \in Int : r = q - base
    BY <2>2
  <2>4. PageOf(base + r) = pg
    BY <1>2, <2>2, <2>3, PageOfIs DEF base
  <2>5. q = base + r
    BY <1>2, <2>1, <2>3
  <2> QED BY <2>1, <2>2, <2>4, <2>5, <1>2
<1>5. b \in Nat /\ b \in BytesOf(b, d)
  BY <1>1, <1>2, <1>3 DEF BytesOf
<1> QED BY <1>4, <1>5 DEF base

\* The blocks of an arena do not overlap, and are as many as the descriptor says.
LEMMA BlocksApart ==
  ASSUME NEW pg \in Nat, NEW d \in DescSizes, NEW b \in BlocksOf(pg, d), NEW c \in BlocksOf(pg, d), b # c
  PROVE  BytesOf(b, d) \cap BytesOf(c, d) = {}
<1> DEFINE n == blocks_per_arena(d)
           base == pg * PGSIZE + ArenaBytes
<1>1. PICK i \in 0 .. n - 1 : b = base + i * d
  BY DEF BlocksOf, arena_to_block
<1>2. PICK j \in 0 .. n - 1 : c = base + j * d
  BY DEF BlocksOf, arena_to_block
<1>3. d \in Nat /\ d > 0 /\ n \in Nat /\ base \in Nat
  BY Descriptor, MeAssumption
<1> HIDE DEF n, base
<1>4. i \in Nat /\ j \in Nat /\ i # j /\ i * d \in Nat /\ j * d \in Nat
  BY <1>1, <1>2, <1>3
<1>5. CASE i < j
  <2>1. i * d + d <= j * d
    <3>1. (i + 1) * d <= j * d
      BY <1>3, <1>4, <1>5
    <3> QED BY <1>3, <1>4, <3>1
  <2> QED BY <1>1, <1>2, <1>3, <1>4, <2>1 DEF BytesOf
<1>6. CASE j < i
  <2>1. j * d + d <= i * d
    <3>1. (j + 1) * d <= i * d
      BY <1>3, <1>4, <1>6
    <3> QED BY <1>3, <1>4, <3>1
  <2> QED BY <1>1, <1>2, <1>3, <1>4, <2>1 DEF BytesOf
<1> QED BY <1>4, <1>5, <1>6

LEMMA BlockCount ==
  ASSUME NEW pg \in Nat, NEW d \in DescSizes
  PROVE  IsFiniteSet(BlocksOf(pg, d)) /\ Cardinality(BlocksOf(pg, d)) = blocks_per_arena(d)
<1> DEFINE n == blocks_per_arena(d)
           base == pg * PGSIZE + ArenaBytes
           f == [k \in 1 .. n |-> base + (k - 1) * d]
<1>1. d \in Nat /\ d > 0 /\ n \in Nat /\ base \in Nat
  BY Descriptor, MeAssumption
<1>2. BlocksOf(pg, d) = {base + i * d : i \in 0 .. n - 1}
  BY DEF BlocksOf, arena_to_block
<1> HIDE DEF n, base
<1>3. BlocksOf(pg, d) = {f[k] : k \in 1 .. n}
  <2>1. ASSUME NEW i \in 0 .. n - 1 PROVE i + 1 \in 1 .. n /\ f[i + 1] = base + i * d
    <3>1. i + 1 \in 1 .. n /\ (i + 1) - 1 = i
      BY <1>1
    <3> QED BY <3>1
  <2>2. ASSUME NEW k \in 1 .. n PROVE k - 1 \in 0 .. n - 1 /\ f[k] = base + (k - 1) * d
    BY <1>1
  <2> HIDE DEF f
  <2> QED BY <1>2, <2>1, <2>2
<1>4. ASSUME NEW k \in 1 .. n, NEW l \in 1 .. n, f[k] = f[l] PROVE k = l
  <2>1. (k - 1) * d = (l - 1) * d
    <3>1. base + (k - 1) * d = base + (l - 1) * d
      BY <1>4
    <3>2. (k - 1) * d \in Int /\ (l - 1) * d \in Int
      BY <1>1
    <3> QED BY <1>1, <3>1, <3>2
  <2>2. PICK x \in Int, y \in Int : x = k - 1 /\ y = l - 1
    BY <1>1
  <2>3. x * d = y * d
    BY <2>1, <2>2
  <2>4. CASE x < y
    <3>1. x * d < y * d
      BY <1>1, <2>4
    <3> QED BY <1>1, <2>3, <3>1, SMT
  <2>5. CASE y < x
    <3>1. y * d < x * d
      BY <1>1, <2>5
    <3> QED BY <1>1, <2>3, <3>1, SMT
  <2> QED BY <1>1, <2>2, <2>4, <2>5
<1>5. f \in Bijection(1 .. n, BlocksOf(pg, d))
  <2>1. f \in [1 .. n -> BlocksOf(pg, d)]
    BY <1>3
  <2> HIDE DEF f
  <2> QED BY <1>3, <1>4, <2>1 DEF Bijection, Injection, Surjection, IsInjective
<1>6. IsFiniteSet(1 .. n) /\ Cardinality(1 .. n) = n
  BY <1>1, FS_Interval
<1>7. IsFiniteSet(BlocksOf(pg, d)) /\ Cardinality(BlocksOf(pg, d)) = n
  <2> HIDE DEF f
  <2> QED BY <1>5, <1>6, FS_Bijection DEF ExistsBijection
<1> QED BY <1>7 DEF n

\* A big block begins behind the header of its first page and ends with its last.
LEMMA BigBlock ==
  ASSUME NEW pg \in Nat, NEW cnt \in Nat, cnt >= 1, NEW p, p = pg * PGSIZE + ArenaBytes
  PROVE  /\ p \in Nat /\ PageOf(p) = pg /\ p % PGSIZE = ArenaBytes /\ PGSIZE * cnt - ArenaBytes >= 1
         /\ \A q \in BytesOf(p, PGSIZE * cnt - ArenaBytes) :
              q \in Int /\ PageOf(q) \in pg .. pg + cnt - 1 /\ q >= pg * PGSIZE + ArenaBytes
         /\ \A k \in pg .. pg + cnt - 1 : \E q \in BytesOf(p, PGSIZE * cnt - ArenaBytes) : PageOf(q) = k
<1> DEFINE base == pg * PGSIZE
           room == PGSIZE * cnt
<1>1. PGSIZE \in Nat /\ PGSIZE > 0 /\ ArenaBytes \in Nat /\ ArenaBytes < PGSIZE
  BY MeAssumption
<1>2. base \in Nat /\ room \in Nat /\ room >= PGSIZE
  BY <1>1
<1>3. p \in Nat /\ PageOf(p) = pg /\ p % PGSIZE = ArenaBytes
  BY <1>1, <1>2, PageOfIs
<1>4. ASSUME NEW q \in BytesOf(p, room - ArenaBytes)
      PROVE q \in Int /\ PageOf(q) \in pg .. pg + cnt - 1 /\ q >= base + ArenaBytes
  <2>1. q \in Int /\ q >= base + ArenaBytes /\ q <= base + room - 1
    <3> HIDE DEF base, room
    <3> QED BY <1>1, <1>2, <1>3 DEF BytesOf, base
  <2>2. PICK k \in Int : k = PageOf(q) /\ k * PGSIZE <= q /\ q < k * PGSIZE + PGSIZE
    BY <2>1, PageIs
  <2>3. k >= pg
    <3> SUFFICES ASSUME k + 1 <= pg PROVE FALSE
      BY <2>2
    <3>1. (k + 1) * PGSIZE <= base
      BY <1>1, <2>2
    <3> HIDE DEF base
    <3> QED BY <1>1, <1>2, <2>1, <2>2, <3>1
  <2>4. k <= pg + cnt - 1
    <3> SUFFICES ASSUME k >= pg + cnt PROVE FALSE
      BY <2>2
    <3>1. k * PGSIZE >= (pg + cnt) * PGSIZE
      BY <1>1, <2>2
    <3>2. (pg + cnt) * PGSIZE = base + room
      BY <1>1
    <3> HIDE DEF base, room
    <3> QED BY <1>1, <1>2, <2>1, <2>2, <3>1, <3>2
  <2> QED BY <2>1, <2>2, <2>3, <2>4
<1>5. ASSUME NEW k \in pg .. pg + cnt - 1 PROVE \E q \in BytesOf(p, room - ArenaBytes) : PageOf(q) = k
  <2>1. k \in Nat /\ k * PGSIZE \in Nat /\ k * PGSIZE >= base /\ k * PGSIZE + PGSIZE <= base + room
    <3>1. k \in Nat /\ k >= pg /\ k + 1 <= pg + cnt
      OBVIOUS
    <3>2. k * PGSIZE >= base /\ (k + 1) * PGSIZE <= (pg + cnt) * PGSIZE
      BY <1>1, <3>1
    <3>3. (pg + cnt) * PGSIZE = base + room /\ (k + 1) * PGSIZE = k * PGSIZE + PGSIZE
      BY <1>1, <3>1
    <3> HIDE DEF base, room
    <3> QED BY <1>1, <1>2, <3>1, <3>2, <3>3
  <2>2. PageOf(k * PGSIZE + ArenaBytes) = k
    <3>1. k \in Int /\ ArenaBytes \in Int /\ 0 <= ArenaBytes
      BY <1>1, <2>1
    <3> QED BY ONLY <1>1, <3>1, PageOfIs
  <2> DEFINE q == k * PGSIZE + ArenaBytes
  <2>3. q \in BytesOf(p, room - ArenaBytes)
    <3>1. PICK z \in Nat : z = k * PGSIZE
      BY <2>1
    <3> HIDE DEF base, room
    <3> QED BY <1>1, <1>2, <2>1, <3>1 DEF BytesOf, base
  <2> QED BY <2>2, <2>3
<1> QED BY <1>1, <1>2, <1>3, <1>4, <1>5

LEMMA FiniteImage ==
  ASSUME NEW S, IsFiniteSet(S), NEW f
  PROVE  IsFiniteSet({f[x] : x \in S})
<1> DEFINE T == {f[x] : x \in S}
           g == [x \in S |-> f[x]]
<1>1. g \in Surjection(S, T)
  BY DEF Surjection
<1> HIDE DEF g, T
<1>2. IsFiniteSet(T)
  BY <1>1, FS_Surjection
<1> QED BY <1>2 DEF T

\* A set that a function numbers without repetition is as large as its domain.
LEMMA SameNumber ==
  ASSUME NEW S, IsFiniteSet(S), NEW f, \A x, y \in S : f[x] = f[y] => x = y
  PROVE  IsFiniteSet({f[x] : x \in S}) /\ Cardinality({f[x] : x \in S}) = Cardinality(S)
<1> DEFINE T == {f[x] : x \in S}
           g == [x \in S |-> f[x]]
<1>1. g \in Bijection(S, T)
  <2>1. g \in [S -> T] /\ \A x \in S : g[x] = f[x]
    OBVIOUS
  <2>2. \A y \in T : \E x \in S : g[x] = y
    OBVIOUS
  <2>3. \A x, y \in S : g[x] = g[y] => x = y
    BY <2>1
  <2> HIDE DEF g, T
  <2> QED BY <2>1, <2>2, <2>3 DEF Bijection, Injection, Surjection, IsInjective
<1> HIDE DEF g, T
<1>2. IsFiniteSet(T) /\ Cardinality(T) = Cardinality(S)
  BY <1>1, FS_Bijection DEF ExistsBijection
<1> QED BY <1>2 DEF T

LEMMA StoreFinite ==
  ASSUME StoreTypes
  PROVE  /\ IsFiniteSet(DescSizes) /\ IsFiniteSet(Live)
         /\ \A d \in DescSizes : IsFiniteSet(DOMAIN free_list[d]) /\ IsFiniteSet(Elements(free_list[d]))
<1>1. IsFiniteSet(DescSizes)
  <2> DEFINE M == {1, 2, 4, 8, 16, 32, 64, 128, 256}
             f == [m \in M |-> FirstBlock * m]
  <2>1. IsFiniteSet(M)
    <3>1. PICK n \in Nat : n = 256
      OBVIOUS
    <3>2. M \in SUBSET Nat /\ \A m \in M : m <= n
      BY <3>1
    <3> HIDE DEF M
    <3> QED BY <3>2, FS_BoundedSetOfNaturals
  <2>2. DescSizes \subseteq {f[m] : m \in M}
    BY DEF DescSizes
  <2> HIDE DEF M, f
  <2>3. IsFiniteSet({f[m] : m \in M})
    BY <2>1, FiniteImage
  <2> QED BY <2>2, <2>3, FS_Subset
<1>2. IsFiniteSet(Live)
  <2>1. IsFiniteSet({held[t] : t \in MThreads})
    BY MeAssumption, FiniteImage
  <2>2. \A T \in {held[t] : t \in MThreads} : IsFiniteSet(T)
    BY DEF StoreTypes
  <2> QED BY <2>1, <2>2, FS_UNION DEF Live
<1>3. ASSUME NEW d \in DescSizes PROVE IsFiniteSet(DOMAIN free_list[d]) /\ IsFiniteSet(Elements(free_list[d]))
  <2>1. free_list[d] \in Seq(Nat)
    BY DEF StoreTypes
  <2>2. DOMAIN free_list[d] = 1 .. Len(free_list[d]) /\ Len(free_list[d]) \in Int
    BY <2>1
  <2>3. IsFiniteSet(DOMAIN free_list[d])
    BY <2>2, FS_Interval
  <2> QED BY <2>3, FiniteImage DEF Elements
<1> QED BY <1>1, <1>2, <1>3

\* Bytes a held or a free block may have.
Fits(p, n) == Placed(p) /\ n <= block_size(p) /\ n \in Nat

LEMMA PagesOfPool == StoreTypes => Pools["kernel"] = KernelPages /\ Pools["user"] = UserPages
  BY DEF KernelPages, UserPages, Pools

\* The bytes of a block are on its own pages, behind the header.
LEMMA BytesPlaced ==
  ASSUME StoreTypes, NEW p, Placed(p)
  PROVE  /\ p \in Nat /\ PageOf(p) \in Nat /\ block_size(p) \in Nat /\ block_size(p) >= 1
         /\ \A n \in Nat : n <= block_size(p) =>
              \A q \in BytesOf(p, n) : q \in Int /\ PageOf(q) \in Extent(PageOf(p)) /\ q >= PageOf(p) * PGSIZE + ArenaBytes
         /\ {PageOf(q) : q \in BytesOf(p, block_size(p))} = Extent(PageOf(p))
<1> DEFINE pg == PageOf(p)
<1>1. pg \in 0 .. KernelPages - 1 /\ pg \in Nat
  BY PoolSizes DEF Placed
<1>2. arena[pg].desc \in Int /\ arena[pg].free_cnt \in Int
  BY <1>1 DEF StoreTypes
<1>3. block_size(p) = IF arena[pg].desc # 0 THEN arena[pg].desc ELSE PGSIZE * arena[pg].free_cnt - (p % PGSIZE)
  BY DEF block_size
<1>4. Extent(pg) = IF arena[pg].desc = 0 THEN pg .. pg + arena[pg].free_cnt - 1 ELSE {pg}
  BY DEF Extent
<1>5. ASSUME NEW size \in Nat, NEW n \in Nat, n <= size PROVE BytesOf(p, n) \subseteq BytesOf(p, size)
  <2>1. p \in Int \/ p \notin Int
    OBVIOUS
  <2>2. p \in Nat
    <3>1. CASE arena[pg].desc = 0 /\ p = pg * PGSIZE + ArenaBytes
      BY <1>1, <3>1, MeAssumption
    <3>2. CASE arena[pg].desc \in DescSizes /\ p \in BlocksOf(pg, arena[pg].desc)
      BY <1>1, <3>2, SmallBlock
    <3> QED BY <3>1, <3>2 DEF Placed
  <2> QED BY <1>5, <2>2 DEF BytesOf
<1>6. CASE arena[pg].desc = 0 /\ arena[pg].free_cnt >= 1 /\ p = pg * PGSIZE + ArenaBytes
  <2>1. PICK cnt \in Nat : cnt = arena[pg].free_cnt /\ cnt >= 1
    BY <1>2, <1>6
  <2> HIDE DEF pg
  <2>2. /\ p \in Nat /\ p % PGSIZE = ArenaBytes /\ PGSIZE * cnt - ArenaBytes >= 1
        /\ \A q \in BytesOf(p, PGSIZE * cnt - ArenaBytes) :
              q \in Int /\ PageOf(q) \in pg .. pg + cnt - 1 /\ q >= pg * PGSIZE + ArenaBytes
        /\ \A k \in pg .. pg + cnt - 1 : \E q \in BytesOf(p, PGSIZE * cnt - ArenaBytes) : PageOf(q) = k
    <3>1. cnt \in Nat /\ cnt >= 1 /\ pg \in Nat /\ p = pg * PGSIZE + ArenaBytes
      BY <1>1, <1>6, <2>1
    <3> QED BY ONLY <3>1, BigBlock
  <2>3. block_size(p) = PGSIZE * cnt - ArenaBytes /\ Extent(pg) = pg .. pg + cnt - 1
    BY <1>3, <1>4, <1>6, <2>1, <2>2
  <2>4. block_size(p) \in Nat
    <3>1. PGSIZE \in Nat /\ ArenaBytes \in Nat
      BY MeAssumption
    <3>2. PGSIZE * cnt \in Nat
      BY <3>1
    <3> QED BY <2>2, <2>3, <3>1, <3>2
  <2>5. {PageOf(q) : q \in BytesOf(p, block_size(p))} = Extent(pg)
    BY <2>2, <2>3
  <2>6. \A n \in Nat : n <= block_size(p) =>
          \A q \in BytesOf(p, n) : q \in Int /\ PageOf(q) \in Extent(pg) /\ q >= pg * PGSIZE + ArenaBytes
    BY <1>5, <2>2, <2>3, <2>4
  <2> QED BY <1>1, <2>2, <2>3, <2>4, <2>5, <2>6 DEF pg
<1>7. CASE arena[pg].desc \in DescSizes /\ p \in BlocksOf(pg, arena[pg].desc)
  <2>1. PICK d \in DescSizes : d = arena[pg].desc /\ p \in BlocksOf(pg, d)
    BY <1>7
  <2> HIDE DEF pg
  <2>2. d \in Nat /\ d > 0
    BY Descriptor
  <2>3. p \in Nat /\ \A q \in BytesOf(p, d) : q \in Int /\ PageOf(q) = pg /\ q >= pg * PGSIZE + ArenaBytes
    BY <1>1, <2>1, SmallBlock
  <2>4. block_size(p) = d /\ Extent(pg) = {pg}
    BY <1>3, <1>4, <2>1, <2>2
  <2>5. p \in BytesOf(p, d)
    BY <2>2, <2>3 DEF BytesOf
  <2>6. {PageOf(q) : q \in BytesOf(p, block_size(p))} = Extent(pg)
    BY <2>3, <2>4, <2>5
  <2>7. \A n \in Nat : n <= block_size(p) =>
          \A q \in BytesOf(p, n) : q \in Int /\ PageOf(q) \in Extent(pg) /\ q >= pg * PGSIZE + ArenaBytes
    BY <1>5, <2>2, <2>3, <2>4
  <2> QED BY <1>1, <2>2, <2>3, <2>4, <2>6, <2>7 DEF pg
<1> QED BY <1>6, <1>7 DEF Placed

\* The same, of two blocks.
LEMMA TwoBlocks ==
  ASSUME StoreTypes, NEW p, NEW q, Placed(p), Placed(q), p # q,
         PageOf(p) # PageOf(q) => Extent(PageOf(p)) \cap Extent(PageOf(q)) = {},
         NEW m \in Nat, NEW n \in Nat, m <= block_size(p), n <= block_size(q)
  PROVE  BytesOf(p, m) \cap BytesOf(q, n) = {}
<1> SUFFICES ASSUME NEW b, b \in BytesOf(p, m), b \in BytesOf(q, n) PROVE FALSE
  OBVIOUS
<1>1. PageOf(b) \in Extent(PageOf(p)) /\ PageOf(b) \in Extent(PageOf(q))
  BY BytesPlaced
<1>2. PageOf(p) = PageOf(q)
  BY <1>1
<1>3. CASE arena[PageOf(p)].desc = 0
  <2>1. 0 \notin DescSizes
    BY Descriptor
  <2> QED BY <1>2, <1>3, <2>1 DEF Placed
<1>4. CASE arena[PageOf(p)].desc # 0
  <2>1. PICK pg \in Nat, d \in DescSizes :
          /\ pg = PageOf(p) /\ d = arena[pg].desc
          /\ p \in BlocksOf(pg, d) /\ q \in BlocksOf(pg, d)
    BY <1>2, <1>4, BytesPlaced DEF Placed
  <2>2. d \in Nat /\ block_size(p) = d /\ block_size(q) = d
    BY <1>2, <1>4, <2>1, Descriptor DEF block_size
  <2>3. BytesOf(p, d) \cap BytesOf(q, d) = {}
    BY <2>1, BlocksApart
  <2>4. b \in BytesOf(p, d) /\ b \in BytesOf(q, d)
    <3>1. p \in Nat /\ q \in Nat
      BY BytesPlaced
    <3> QED BY <2>2, <3>1 DEF BytesOf
  <2> QED BY <2>3, <2>4
<1> QED BY <1>3, <1>4

\* A held or a free block, with the bytes it is counted for.
LEMMA Blocks ==
  ASSUME StoreInv
  PROVE  /\ \A x \in Live : x \in Record /\ Placed(x.p) /\ x.size \in Nat /\ x.size <= block_size(x.p) /\ PageOf(x.p) \in HeadPages
         /\ \A d \in DescSizes : \A b \in Elements(free_list[d]) :
              Placed(b) /\ d \in Nat /\ d = block_size(b) /\ PageOf(b) \in HeadPages /\ ~HeldAt(b)
<1>1. ASSUME NEW x \in Live
      PROVE x \in Record /\ Placed(x.p) /\ x.size \in Nat /\ x.size <= block_size(x.p) /\ PageOf(x.p) \in HeadPages
  <2>1. x \in Record
    BY DEF StoreInv, StoreTypes, Live
  <2>2. Placed(x.p) /\ x.size <= block_size(x.p)
    BY DEF StoreInv, HeldInv
  <2> QED BY <2>1, <2>2 DEF Record, HeadPages
<1>2. ASSUME NEW d \in DescSizes, NEW b \in Elements(free_list[d])
      PROVE Placed(b) /\ d \in Nat /\ d = block_size(b) /\ PageOf(b) \in HeadPages /\ ~HeldAt(b)
  <2>1. PageOf(b) \in HeadPages /\ arena[PageOf(b)].desc = d /\ b \in BlocksOf(PageOf(b), d) /\ ~HeldAt(b)
    BY DEF StoreInv, FreeInv
  <2>2. PageOf(b) \in 0 .. KernelPages - 1
    <3>1. PICK x \in Live : PageOf(x.p) = PageOf(b)
      BY <2>1 DEF HeadPages
    <3>2. Placed(x.p)
      BY <1>1
    <3> QED BY <3>1, <3>2 DEF Placed
  <2>3. d \in Nat /\ d > 0
    BY Descriptor
  <2> QED BY <2>1, <2>2, <2>3 DEF Placed, block_size
<1> QED BY <1>1, <1>2

LEMMA BlocksDisjointNow ==
  ASSUME StoreInv
  PROVE  BlocksDisjoint
<1> DEFINE Listed == UNION {{[p |-> free_list[d][i], size |-> d] : i \in DOMAIN free_list[d]} : d \in DescSizes}
           Held == {[p |-> x.p, size |-> x.size] : x \in Live}
           Taken == Held \cup Listed
           Heads == UNION {BytesOf(pg * PGSIZE, ArenaBytes) : pg \in {PageOf(x.p) : x \in Taken}}
           Places == UNION {{<<d, i>> : i \in DOMAIN free_list[d]} : d \in DescSizes}
<1>0. StoreTypes
  BY DEF StoreInv
<1>1. Held = Live
  <2>1. \A x \in Live : x = [p |-> x.p, size |-> x.size]
    BY Blocks DEF Record
  <2> QED BY <2>1
<1>2. \A x \in Listed : \E d \in DescSizes : \E i \in DOMAIN free_list[d] :
         x = [p |-> free_list[d][i], size |-> d] /\ x.p = free_list[d][i] /\ x.size = d /\ x.p \in Elements(free_list[d])
  BY DEF Elements
<1>3. Live \cap Listed = {}
  BY <1>2, Blocks DEF HeldAt
<1>4. \A x \in Taken : Placed(x.p) /\ x.size \in Nat /\ x.size <= block_size(x.p) /\ PageOf(x.p) \in HeadPages
  <2>1. \A x \in Live : Placed(x.p) /\ x.size \in Nat /\ x.size <= block_size(x.p) /\ PageOf(x.p) \in HeadPages
    BY Blocks
  <2>2. \A x \in Listed : Placed(x.p) /\ x.size \in Nat /\ x.size <= block_size(x.p) /\ PageOf(x.p) \in HeadPages
    <3> TAKE x \in Listed
    <3>1. PICK d \in DescSizes : x.size = d /\ x.p \in Elements(free_list[d])
      BY <1>2
    <3>2. PICK k \in Nat : k = d /\ k = x.size
      BY <3>1, Blocks
    <3> QED BY <3>1, <3>2, Blocks
  <2> QED BY <1>1, <2>1, <2>2
<1>5. ASSUME NEW x \in Taken
      PROVE {PageOf(q) : q \in BytesOf(x.p, x.size)} \subseteq used_map["kernel"] /\ BytesOf(x.p, x.size) \cap Heads = {}
  <2>1. Placed(x.p) /\ x.size \in Nat /\ x.size <= block_size(x.p) /\ PageOf(x.p) \in HeadPages
    BY <1>4
  <2>2. \A q \in BytesOf(x.p, x.size) :
           q \in Int /\ PageOf(q) \in Extent(PageOf(x.p)) /\ q >= PageOf(x.p) * PGSIZE + ArenaBytes
    BY <1>0, <2>1, BytesPlaced
  <2>3. {PageOf(q) : q \in BytesOf(x.p, x.size)} \subseteq used_map["kernel"]
    BY <2>1, <2>2 DEF StoreInv, PagesInv
  <2>4. ASSUME NEW q, q \in BytesOf(x.p, x.size), q \in Heads PROVE FALSE
    <3>1. PICK y \in Taken : q \in BytesOf(PageOf(y.p) * PGSIZE, ArenaBytes)
      BY <2>4
    <3>2. PageOf(y.p) \in HeadPages /\ Placed(y.p)
      BY <1>4
    <3>3. PICK pg \in Nat : pg = PageOf(y.p)
      BY <1>0, <3>2, BytesPlaced
    <3>4. pg \in Extent(pg)
      <4>1. \/ arena[pg].desc = 0 /\ arena[pg].free_cnt >= 1
            \/ arena[pg].desc # 0
        <5>1. 0 \notin DescSizes
          BY Descriptor
        <5> QED BY <3>2, <3>3, <5>1 DEF Placed
      <4>2. arena[pg].free_cnt \in Int
        BY <1>0, <3>2, <3>3 DEF StoreTypes, Placed
      <4> QED BY <3>3, <4>1, <4>2 DEF Extent
    <3>5. PICK base \in Int : base = pg * PGSIZE
      BY MeAssumption
    <3>6. q \in Int /\ base <= q /\ q < base + ArenaBytes
      BY <3>1, <3>3, <3>5, MeAssumption DEF BytesOf
    <3>7. PageOf(q) = pg
      <4>1. PICK r \in Int : r = q - base /\ 0 <= r /\ r < PGSIZE /\ q = base + r
        BY <3>5, <3>6, MeAssumption
      <4> QED BY <3>5, <4>1, PageOfIs
    <3>8. pg \in Extent(PageOf(x.p))
      BY <2>2, <2>4, <3>7
    <3>9. pg = PageOf(x.p)
      BY <2>1, <3>2, <3>3, <3>4, <3>8 DEF StoreInv, PagesInv
    <3>10. q >= base + ArenaBytes
      BY <2>2, <2>4, <3>5, <3>9
    <3> QED BY <3>5, <3>6, <3>10, MeAssumption
  <2> QED BY <2>3, <2>4
<1>6. ASSUME NEW x \in Taken, NEW y \in Taken, x.p # y.p PROVE BytesOf(x.p, x.size) \cap BytesOf(y.p, y.size) = {}
  <2>1. Placed(x.p) /\ x.size \in Nat /\ x.size <= block_size(x.p) /\ PageOf(x.p) \in HeadPages
    BY <1>4
  <2>2. Placed(y.p) /\ y.size \in Nat /\ y.size <= block_size(y.p) /\ PageOf(y.p) \in HeadPages
    BY <1>4
  <2>3. PageOf(x.p) # PageOf(y.p) => Extent(PageOf(x.p)) \cap Extent(PageOf(y.p)) = {}
    BY <2>1, <2>2 DEF StoreInv, PagesInv
  <2> QED BY <1>0, <1>6, <2>1, <2>2, <2>3, TwoBlocks
<1>7. Cardinality(Taken) = Cardinality(Live) + Cardinality(Places)
  <2> DEFINE f == [z \in Places |-> [p |-> free_list[z[1]][z[2]], size |-> z[1]]]
  <2>1. IsFiniteSet(Places)
    <3> DEFINE At(d) == {<<d, i>> : i \in DOMAIN free_list[d]}
               g == [d \in DescSizes |-> At(d)]
    <3>1. ASSUME NEW d \in DescSizes PROVE IsFiniteSet(At(d))
      <4> DEFINE h == [i \in DOMAIN free_list[d] |-> <<d, i>>]
      <4>1. IsFiniteSet(DOMAIN free_list[d])
        BY <1>0, StoreFinite
      <4>2. At(d) = {h[i] : i \in DOMAIN free_list[d]}
        OBVIOUS
      <4> HIDE DEF At, h
      <4> QED BY <4>1, <4>2, FiniteImage
    <3>2. IsFiniteSet({g[d] : d \in DescSizes})
      <4> HIDE DEF g
      <4> QED BY <1>0, StoreFinite, FiniteImage
    <3>3. Places = UNION {g[d] : d \in DescSizes} /\ \A T \in {g[d] : d \in DescSizes} : IsFiniteSet(T)
      BY <3>1
    <3> HIDE DEF g, Places
    <3> QED BY <3>2, <3>3, FS_UNION
  <2>2. Listed = {f[z] : z \in Places}
    <3>1. \A d \in DescSizes : \A i \in DOMAIN free_list[d] :
             <<d, i>> \in Places /\ f[<<d, i>>] = [p |-> free_list[d][i], size |-> d]
      OBVIOUS
    <3>2. \A z \in Places : \E d \in DescSizes : \E i \in DOMAIN free_list[d] : z = <<d, i>>
      OBVIOUS
    <3>3. \A r \in Listed : \E z \in Places : r = f[z]
      <4> TAKE r \in Listed
      <4>1. PICK d \in DescSizes : \E i \in DOMAIN free_list[d] : r = [p |-> free_list[d][i], size |-> d]
        OBVIOUS
      <4>2. PICK i \in DOMAIN free_list[d] : r = [p |-> free_list[d][i], size |-> d]
        BY <4>1
      <4> HIDE DEF f, Places
      <4> QED BY <3>1, <4>2
    <3>4. \A z \in Places : f[z] \in Listed
      <4> TAKE z \in Places
      <4>1. PICK d \in DescSizes : \E i \in DOMAIN free_list[d] : z = <<d, i>>
        BY <3>2
      <4>2. PICK i \in DOMAIN free_list[d] : z = <<d, i>>
        BY <4>1
      <4>3. f[z] = [p |-> free_list[d][i], size |-> d]
        <5> HIDE DEF f, Places
        <5> QED BY <3>1, <4>2
      <4> QED BY <4>3
    <3> HIDE DEF f, Places, Listed
    <3> QED BY <3>3, <3>4
  <2>3. \A y, z \in Places : f[y] = f[z] => y = z
    <3> SUFFICES ASSUME NEW y \in Places, NEW z \in Places, f[y] = f[z] PROVE y = z
      OBVIOUS
    <3>1. PICK d \in DescSizes : \E i \in DOMAIN free_list[d] : y = <<d, i>>
      OBVIOUS
    <3>2. PICK i \in DOMAIN free_list[d] : y = <<d, i>>
      BY <3>1
    <3>3. PICK e \in DescSizes : \E j \in DOMAIN free_list[e] : z = <<e, j>>
      OBVIOUS
    <3>4. PICK j \in DOMAIN free_list[e] : z = <<e, j>>
      BY <3>3
    <3>5. f[y] = [p |-> free_list[d][i], size |-> d] /\ f[z] = [p |-> free_list[e][j], size |-> e]
      BY <3>2, <3>4
    <3>6. d = f[y].size /\ e = f[z].size /\ free_list[d][i] = f[y].p /\ free_list[e][j] = f[z].p
      <4>1. PICK r, s : r = f[y] /\ s = f[z]
        OBVIOUS
      <4> HIDE DEF f
      <4>2. r = [p |-> free_list[d][i], size |-> d] /\ s = [p |-> free_list[e][j], size |-> e]
        BY <3>5, <4>1
      <4>3. d = r.size /\ e = s.size /\ free_list[d][i] = r.p /\ free_list[e][j] = s.p
        BY <4>2
      <4> QED BY <4>1, <4>3
    <3>7. d = e /\ free_list[d][i] = free_list[d][j]
      <4> HIDE DEF f, Places
      <4> QED BY <3>6
    <3>8. i = j
      BY <3>2, <3>4, <3>7 DEF StoreInv, FreeInv
    <3> QED BY <3>2, <3>4, <3>7, <3>8
  <2> HIDE DEF f, Places, Listed, Taken, Held
  <2>4. IsFiniteSet(Listed) /\ Cardinality(Listed) = Cardinality(Places) /\ Cardinality(Places) \in Nat
    BY <2>1, <2>2, <2>3, SameNumber, FS_CardinalityType
  <2>5. IsFiniteSet(Live) /\ Cardinality(Live) \in Nat
    BY <1>0, StoreFinite, FS_CardinalityType
  <2>6. Cardinality({}) = 0
    BY FS_EmptySet
  <2>7. Cardinality(Live \cup Listed) = Cardinality(Live) + Cardinality(Listed) - Cardinality(Live \cap Listed)
    BY <2>4, <2>5, FS_Union
  <2>8. Taken = Live \cup Listed
    BY <1>1 DEF Taken
  <2>9. Cardinality(Live \cap Listed) = 0
    BY <1>3, <2>6
  <2>10. PICK l \in Nat, f1 \in Nat : l = Cardinality(Live) /\ f1 = Cardinality(Listed)
    BY <2>4, <2>5
  <2>11. Cardinality(Taken) = l + f1
    BY <2>7, <2>8, <2>9, <2>10
  <2> QED BY <2>4, <2>10, <2>11
<1>8. \A x \in Live : block_size(x.p) >= x.size
  <2> TAKE x \in Live
  <2>1. Placed(x.p) /\ x.size \in Nat /\ x.size <= block_size(x.p)
    BY Blocks
  <2>2. block_size(x.p) \in Nat
    BY <1>0, <2>1, BytesPlaced
  <2> QED BY <2>1, <2>2
<1> HIDE DEF Places, Listed, Held
<1> QED BY <1>5, <1>6, <1>7, <1>8 DEF BlocksDisjoint, Places, Listed, Held

LEMMA PagesComeBackNow ==
  ASSUME StoreInv, JobsInv
  PROVE  PagesComeBack
<1>0. StoreTypes
  BY DEF StoreInv
<1>1. ASSUME NEW d \in DescSizes, NEW i \in DOMAIN free_list[d]
      PROVE LET pg == PageOf(free_list[d][i])
            IN arena[pg].desc = d /\ arena[pg].free_cnt = Cardinality({k \in DOMAIN free_list[d] : PageOf(free_list[d][k]) = pg})
  <2>1. PICK pg : pg = PageOf(free_list[d][i])
    OBVIOUS
  <2>2. free_list[d][i] \in Elements(free_list[d])
    BY DEF Elements
  <2>3. pg \in HeadPages /\ arena[pg].desc = d
    BY <2>1, <2>2 DEF StoreInv, FreeInv
  <2> DEFINE K == {k \in DOMAIN free_list[d] : PageOf(free_list[d][k]) = pg}
             f == free_list[d]
  <2>4. FreeOn(pg) = {f[k] : k \in K}
    BY <2>3 DEF FreeOn, Elements
  <2>5. IsFiniteSet(K)
    <3>1. IsFiniteSet(DOMAIN free_list[d]) /\ K \subseteq DOMAIN free_list[d]
      BY <1>0, StoreFinite
    <3> HIDE DEF K
    <3> QED BY <3>1, FS_Subset
  <2>6. \A k, l \in K : f[k] = f[l] => k = l
    BY DEF StoreInv, FreeInv
  <2>7. arena[pg].free_cnt = Cardinality(FreeOn(pg))
    BY <2>3 DEF StoreInv, ArenaInv
  <2>8. Cardinality(FreeOn(pg)) = Cardinality(K)
    <3> HIDE DEF K, f
    <3> QED BY <2>4, <2>5, <2>6, SameNumber
  <2> QED BY <2>1, <2>3, <2>7, <2>8
<1>2. used_map["kernel"] = UNION {{PageOf(q) : q \in BytesOf(x.p, block_size(x.p))} : x \in Live}
  <2>1. \A x \in Live : {PageOf(q) : q \in BytesOf(x.p, block_size(x.p))} = Extent(PageOf(x.p))
    <3> TAKE x \in Live
    <3>1. Placed(x.p)
      BY Blocks
    <3> QED BY <1>0, <3>1, BytesPlaced
  <2>2. used_map["kernel"] = UNION {Extent(PageOf(x.p)) : x \in Live}
    BY DEF StoreInv, PagesInv, HeadPages
  <2> QED BY <2>1, <2>2
<1>3. Cardinality(used_map["user"]) = Cardinality(Pagers)
  <2> DEFINE f == [t \in Pagers |-> job[t].old.p]
  <2>1. IsFiniteSet(Pagers)
    <3>1. Pagers \subseteq MThreads
      BY DEF Pagers
    <3> QED BY <3>1, MeAssumption, FS_Subset
  <2>2. used_map["user"] = {f[t] : t \in Pagers} /\ \A t, u \in Pagers : f[t] = f[u] => t = u
    BY DEF JobsInv
  <2> HIDE DEF f
  <2> QED BY <2>1, <2>2, SameNumber
<1> QED BY <1>1, <1>2, <1>3 DEF PagesComeBack, Pagers

\* The first element of a list, and the others.
LEMMA TailOf ==
  ASSUME NEW s \in Seq(Nat), s # <<>>, \A i, j \in DOMAIN s : s[i] = s[j] => i = j
  PROVE  /\ Head(s) \in Elements(s) /\ Tail(s) \in Seq(Nat) /\ Elements(Tail(s)) = Elements(s) \ {Head(s)}
         /\ \A i, j \in DOMAIN Tail(s) : Tail(s)[i] = Tail(s)[j] => i = j
<1> DEFINE n == Len(s)
           u == Tail(s)
<1>1. n \in Nat /\ n >= 1 /\ DOMAIN s = 1 .. n /\ Head(s) = s[1]
  BY EmptySeq, LenProperties
<1>2. u \in Seq(Nat) /\ DOMAIN u = 1 .. n - 1 /\ \A i \in 1 .. n - 1 : u[i] = s[i + 1]
  BY HeadTailProperties, LenProperties
<1> HIDE DEF u, n
<1>3. Elements(s) = {s[i] : i \in 1 .. n} /\ Elements(u) = {u[i] : i \in 1 .. n - 1}
  BY <1>1, <1>2 DEF Elements
<1>4. ASSUME NEW i \in 1 .. n - 1 PROVE i + 1 \in DOMAIN s /\ s[i + 1] # s[1] /\ u[i] = s[i + 1]
  <2>1. i + 1 \in DOMAIN s /\ 1 \in DOMAIN s /\ i + 1 # 1
    BY <1>1
  <2>2. s[i + 1] = s[1] => i + 1 = 1
    BY <2>1
  <2> QED BY <1>2, <2>1, <2>2
<1>5. ASSUME NEW i \in 1 .. n, s[i] # s[1] PROVE i - 1 \in 1 .. n - 1 /\ u[i - 1] = s[i]
  <2>1. i # 1
    BY <1>5
  <2>2. i - 1 \in 1 .. n - 1 /\ (i - 1) + 1 = i
    BY <1>1, <2>1
  <2> QED BY <1>2, <2>2
<1>6. Elements(u) = Elements(s) \ {s[1]}
  <2>1. ASSUME NEW b \in Elements(u) PROVE b \in Elements(s) /\ b # s[1]
    <3>1. PICK i \in 1 .. n - 1 : b = u[i]
      BY <1>3
    <3> QED BY <1>1, <1>3, <1>4, <3>1
  <2>2. ASSUME NEW b \in Elements(s), b # s[1] PROVE b \in Elements(u)
    <3>1. PICK i \in 1 .. n : b = s[i]
      BY <1>3
    <3> QED BY <1>3, <1>5, <2>2, <3>1
  <2> QED BY <2>1, <2>2
<1>7. ASSUME NEW i \in 1 .. n - 1, NEW j \in 1 .. n - 1, u[i] = u[j] PROVE i = j
  <2>1. i + 1 \in DOMAIN s /\ j + 1 \in DOMAIN s /\ s[i + 1] = s[j + 1]
    BY <1>4, <1>7
  <2>2. i + 1 = j + 1
    BY <2>1
  <2> QED BY <1>1, <2>2
<1>8. Head(s) \in Elements(s)
  <2>1. 1 \in 1 .. n /\ Head(s) = s[1]
    BY <1>1
  <2> QED BY <1>3, <2>1
<1>9. \A i, j \in DOMAIN u : u[i] = u[j] => i = j
  BY <1>2, <1>7
<1>10. u \in Seq(Nat) /\ Elements(u) = Elements(s) \ {Head(s)}
  BY <1>1, <1>2, <1>6
<1>11. u = Tail(s)
  BY DEF u
<1> QED BY ONLY <1>8, <1>9, <1>10, <1>11, Zenon

\* A block in front of a list.
LEMMA ConsOf ==
  ASSUME NEW s \in Seq(Nat), NEW p \in Nat, p \notin Elements(s), \A i, j \in DOMAIN s : s[i] = s[j] => i = j
  PROVE  /\ <<p>> \o s \in Seq(Nat) /\ Elements(<<p>> \o s) = Elements(s) \cup {p}
         /\ \A i, j \in DOMAIN (<<p>> \o s) : (<<p>> \o s)[i] = (<<p>> \o s)[j] => i = j
<1> DEFINE n == Len(s)
           u == <<p>> \o s
<1>1. n \in Nat /\ DOMAIN s = 1 .. n
  BY LenProperties
<1>2. <<p>> \in Seq(Nat) /\ Len(<<p>>) = 1 /\ <<p>>[1] = p
  OBVIOUS
<1>3. u \in Seq(Nat) /\ DOMAIN u = 1 .. n + 1 /\ \A i \in 1 .. n + 1 : u[i] = IF i <= 1 THEN p ELSE s[i - 1]
  <2>1. /\ u \in Seq(Nat) /\ Len(u) = 1 + n
        /\ \A i \in 1 .. 1 + n : u[i] = IF i <= 1 THEN <<p>>[i] ELSE s[i - 1]
    BY <1>2, ConcatProperties
  <2> HIDE DEF u, n
  <2>2. DOMAIN u = 1 .. n + 1
    BY <1>1, <2>1, LenProperties
  <2>3. ASSUME NEW i \in 1 .. n + 1 PROVE u[i] = IF i <= 1 THEN p ELSE s[i - 1]
    <3>1. i \in 1 .. 1 + n /\ (i <= 1 => i = 1)
      BY <1>1
    <3> QED BY <1>2, <2>1, <3>1
  <2> QED BY <2>1, <2>2, <2>3
<1> HIDE DEF u, n
<1>4. Elements(s) = {s[i] : i \in 1 .. n} /\ Elements(u) = {u[i] : i \in 1 .. n + 1}
  BY <1>1, <1>3 DEF Elements
<1>5. 1 \in 1 .. n + 1 /\ u[1] = p
  BY <1>1, <1>3
<1>6. ASSUME NEW i \in 1 .. n PROVE i + 1 \in 1 .. n + 1 /\ u[i + 1] = s[i]
  <2>1. i + 1 \in 1 .. n + 1 /\ ~(i + 1 <= 1) /\ (i + 1) - 1 = i
    BY <1>1
  <2> QED BY <1>3, <2>1
<1>7. ASSUME NEW i \in 1 .. n + 1, i # 1 PROVE i - 1 \in 1 .. n /\ u[i] = s[i - 1] /\ u[i] # p
  <2>1. i - 1 \in 1 .. n /\ ~(i <= 1)
    BY <1>1, <1>7
  <2>2. u[i] = s[i - 1]
    BY <1>3, <2>1
  <2> QED BY <1>4, <2>1, <2>2
<1>8. Elements(u) = Elements(s) \cup {p}
  <2>1. ASSUME NEW b \in Elements(u) PROVE b \in Elements(s) \cup {p}
    <3>1. PICK i \in 1 .. n + 1 : b = u[i]
      BY <1>4
    <3> QED BY <1>4, <1>5, <1>7, <3>1
  <2>2. ASSUME NEW b \in Elements(s) PROVE b \in Elements(u)
    <3>1. PICK i \in 1 .. n : b = s[i]
      BY <1>4
    <3> QED BY <1>4, <1>6, <3>1
  <2> QED BY <1>4, <1>5, <2>1, <2>2
<1>9. ASSUME NEW i \in 1 .. n + 1, NEW j \in 1 .. n + 1, u[i] = u[j] PROVE i = j
  <2>1. CASE i = 1
    BY <1>5, <1>7, <1>9, <2>1
  <2>2. CASE j = 1
    BY <1>5, <1>7, <1>9, <2>2
  <2>3. CASE i # 1 /\ j # 1
    <3>1. i - 1 \in DOMAIN s /\ j - 1 \in DOMAIN s /\ s[i - 1] = s[j - 1]
      BY <1>1, <1>7, <1>9, <2>3
    <3>2. i - 1 = j - 1
      BY <3>1
    <3> QED BY <1>1, <3>2
  <2> QED BY <2>1, <2>2, <2>3
<1> QED BY <1>3, <1>8, <1>9 DEF u

\* One more block is held.
LEMMA HeldGrows ==
  ASSUME StoreInv, NEW t \in MThreads, NEW p \in Nat, NEW size \in Nat, size >= 1, ~HeldAt(p),
         held' = [held EXCEPT ![t] = @ \cup {[p |-> p, size |-> size]}]
  PROVE  /\ held' \in [MThreads -> SUBSET Record] /\ \A u \in MThreads : IsFiniteSet(held'[u])
         /\ Live' = Live \cup {[p |-> p, size |-> size]} /\ HeadPages' = HeadPages \cup {PageOf(p)}
         /\ \A q : HeldAt(q)' <=> HeldAt(q) \/ q = p
         /\ \A x, y \in Live' : x.p = y.p => x = y
         /\ \A u, v \in MThreads : u # v => held'[u] \cap held'[v] = {}
<1> DEFINE r == [p |-> p, size |-> size]
<1>1. r \in Record /\ r.p = p /\ r.size = size
  BY DEF Record
<1>2. held \in [MThreads -> SUBSET Record] /\ \A u \in MThreads : IsFiniteSet(held[u])
  BY DEF StoreInv, StoreTypes
<1> HIDE DEF r
<1>3. held' = [held EXCEPT ![t] = held[t] \cup {r}]
  BY DEF r
<1>4. \A u \in MThreads : held'[u] = IF u = t THEN held[t] \cup {r} ELSE held[u]
  BY <1>2, <1>3
<1>5. held' \in [MThreads -> SUBSET Record]
  BY <1>1, <1>2, <1>3
<1>6. \A u \in MThreads : IsFiniteSet(held'[u])
  BY <1>2, <1>4, FS_AddElement
<1>7. Live' = Live \cup {r}
  <2>1. Live' = UNION {held'[u] : u \in MThreads}
    BY DEF Live
  <2> QED BY <1>4, <2>1 DEF Live
<1>8. HeadPages' = HeadPages \cup {PageOf(p)}
  BY <1>1, <1>7 DEF HeadPages
<1>9. \A q : HeldAt(q)' <=> HeldAt(q) \/ q = p
  BY <1>1, <1>7 DEF HeldAt
<1>10. \A x, y \in Live' : x.p = y.p => x = y
  <2>1. \A x, y \in Live : x.p = y.p => x = y
    BY DEF StoreInv, HeldInv
  <2>2. \A x \in Live : x.p # p
    BY DEF HeldAt
  <2> QED BY <1>1, <1>7, <2>1, <2>2
<1>11. \A u, v \in MThreads : u # v => held'[u] \cap held'[v] = {}
  <2>1. \A u, v \in MThreads : u # v => held[u] \cap held[v] = {}
    BY DEF StoreInv, HeldInv
  <2>2. \A u \in MThreads : r \notin held[u]
    BY <1>1 DEF HeldAt, Live
  <2> QED BY <1>4, <2>1, <2>2
<1> QED BY <1>5, <1>6, <1>7, <1>8, <1>9, <1>10, <1>11 DEF r

\* One block is given back.
LEMMA HeldShrinks ==
  ASSUME StoreInv, NEW t \in MThreads, NEW x \in held[t], held' = [held EXCEPT ![t] = @ \ {x}]
  PROVE  /\ held' \in [MThreads -> SUBSET Record] /\ \A u \in MThreads : IsFiniteSet(held'[u])
         /\ x \in Live /\ Live' = Live \ {x} /\ HeadPages' \cup {PageOf(x.p)} = HeadPages
         /\ \A q : HeldAt(q)' <=> HeldAt(q) /\ q # x.p
         /\ \A y, z \in Live' : y.p = z.p => y = z
         /\ \A u, v \in MThreads : u # v => held'[u] \cap held'[v] = {}
<1>1. held \in [MThreads -> SUBSET Record] /\ \A u \in MThreads : IsFiniteSet(held[u])
  BY DEF StoreInv, StoreTypes
<1>2. \A u \in MThreads : held'[u] = IF u = t THEN held[t] \ {x} ELSE held[u]
  BY <1>1
<1>3. held' \in [MThreads -> SUBSET Record]
  BY <1>1
<1>4. \A u \in MThreads : IsFiniteSet(held'[u])
  BY <1>1, <1>2, FS_RemoveElement
<1>5. \A y, z \in Live : y.p = z.p => y = z
  BY DEF StoreInv, HeldInv
<1>6. \A u, v \in MThreads : u # v => held[u] \cap held[v] = {}
  BY DEF StoreInv, HeldInv
<1>7. x \in Live /\ Live' = Live \ {x}
  <2>1. Live' = UNION {held'[u] : u \in MThreads}
    BY DEF Live
  <2>2. \A u \in MThreads : u # t => x \notin held[u]
    BY <1>6
  <2> QED BY <1>2, <2>1, <2>2 DEF Live
<1>8. HeadPages' \cup {PageOf(x.p)} = HeadPages
  BY <1>7 DEF HeadPages
<1>9. \A q : HeldAt(q)' <=> HeldAt(q) /\ q # x.p
  BY <1>5, <1>7 DEF HeldAt
<1>10. \A u, v \in MThreads : u # v => held'[u] \cap held'[v] = {}
  BY <1>2, <1>6
<1> QED BY <1>3, <1>4, <1>5, <1>7, <1>8, <1>9, <1>10

\* A block whose arena stays what it is stays where it is.
LEMMA StaysPlaced ==
  ASSUME NEW p, Placed(p), arena'[PageOf(p)].desc = arena[PageOf(p)].desc,
         arena[PageOf(p)].desc = 0 => arena'[PageOf(p)] = arena[PageOf(p)]
  PROVE  Placed(p)' /\ block_size(p)' = block_size(p) /\ Extent(PageOf(p))' = Extent(PageOf(p))
<1>1. 0 \notin DescSizes
  BY Descriptor
<1>2. block_size(p)' = block_size(p)
  BY DEF block_size
<1>3. Extent(PageOf(p))' = Extent(PageOf(p))
  BY DEF Extent
<1>4. Placed(p)'
  <2>1. CASE arena[PageOf(p)].desc = 0
    BY <1>1, <2>1 DEF Placed
  <2>2. CASE arena[PageOf(p)].desc # 0
    BY <1>1, <2>2 DEF Placed
  <2> QED BY <2>1, <2>2
<1> QED BY <1>2, <1>3, <1>4

\* The pages of what is held.
LEMMA PagesHeld ==
  ASSUME StoreInv, NEW pg \in HeadPages
  PROVE  /\ pg \in 0 .. KernelPages - 1 /\ pg \in Nat /\ pg \in Extent(pg) /\ Extent(pg) \subseteq used_map["kernel"]
         /\ arena[pg].desc = 0 \/ arena[pg].desc \in DescSizes
<1>1. PICK x \in Live : PageOf(x.p) = pg /\ Placed(x.p)
  BY Blocks DEF HeadPages
<1>2. pg \in 0 .. KernelPages - 1 /\ pg \in Nat
  BY <1>1, PoolSizes DEF Placed
<1>3. arena[pg].desc \in Int /\ arena[pg].free_cnt \in Int
  BY <1>2 DEF StoreInv, StoreTypes
<1>4. \/ arena[pg].desc = 0 /\ arena[pg].free_cnt >= 1
      \/ arena[pg].desc \in DescSizes
  BY <1>1 DEF Placed
<1>5. 0 \notin DescSizes
  BY Descriptor
<1>6. pg \in Extent(pg)
  BY <1>2, <1>3, <1>4, <1>5 DEF Extent
<1> QED BY <1>2, <1>4, <1>6 DEF StoreInv, PagesInv

\* What palloc_get_multiple takes is free.
LEMMA GroupFound ==
  ASSUME NEW pool, Pools[pool] \in Int, NEW cnt \in Nat, NEW i, palloc_get_multiple(pool, i, cnt)
  PROVE  i \in Groups(pool, cnt)
<1>1. Groups(pool, cnt) # {} /\ i = Least(Groups(pool, cnt))
  BY DEF palloc_get_multiple
<1>2. Groups(pool, cnt) \in SUBSET Nat
  BY DEF Groups
<1>3. \E k \in Groups(pool, cnt) : \A y \in Groups(pool, cnt) : k <= y
  BY <1>1, <1>2, LeastNat
<1> QED BY <1>1, <1>3 DEF Least

\* What palloc_get_multiple finds: cnt pages in a row that nothing is on.
LEMMA PagesFound ==
  ASSUME StoreInv, NEW cnt \in Nat, cnt >= 1, NEW i, palloc_get_multiple("kernel", i, cnt)
  PROVE  /\ i \in Nat /\ i .. i + cnt - 1 \subseteq 0 .. KernelPages - 1 /\ i \in i .. i + cnt - 1
         /\ (i .. i + cnt - 1) \cap used_map["kernel"] = {} /\ i \notin HeadPages
         /\ used_map'["kernel"] = used_map["kernel"] \cup (i .. i + cnt - 1)
         /\ used_map'["user"] = used_map["user"] /\ used_map' = [pool \in {"kernel", "user"} |-> used_map'[pool]]
<1> DEFINE G == Groups("kernel", cnt)
<1>1. G # {} /\ i = Least(G) /\ used_map' = [used_map EXCEPT !["kernel"] = @ \cup (i .. i + cnt - 1)]
  BY DEF palloc_get_multiple
<1>2. Pools["kernel"] = KernelPages /\ KernelPages \in Int
  BY PagesOfPool, PoolSizes DEF StoreInv
<1>3. G = {k \in 0 .. KernelPages - cnt : (k .. k + cnt - 1) \cap used_map["kernel"] = {}}
  BY <1>2 DEF Groups
<1>6. i \in G
  BY <1>2, GroupFound
<1>7. i \in 0 .. KernelPages - cnt /\ (i .. i + cnt - 1) \cap used_map["kernel"] = {}
  BY <1>3, <1>6
<1>8. i \in Nat /\ i .. i + cnt - 1 \subseteq 0 .. KernelPages - 1 /\ i \in i .. i + cnt - 1
  BY <1>2, <1>7
<1>9. i \notin HeadPages
  BY <1>7, <1>8, PagesHeld
<1>10. /\ used_map'["kernel"] = used_map["kernel"] \cup (i .. i + cnt - 1)
       /\ used_map'["user"] = used_map["user"] /\ used_map' = [pool \in {"kernel", "user"} |-> used_map'[pool]]
  <2>1. DOMAIN used_map = {"kernel", "user"}
    BY DEF StoreInv, StoreTypes
  <2>2. PICK S : S = i .. i + cnt - 1
    OBVIOUS
  <2>3. used_map' = [used_map EXCEPT !["kernel"] = used_map["kernel"] \cup S]
    BY <1>1, <2>2
  <2> QED BY <2>1, <2>2, <2>3
<1> QED BY <1>7, <1>8, <1>9, <1>10

-----------------------------------------------------------------------------
(* malloc.                                                                 *)

\* Thread t is given the block at p, of size bytes, on cnt pages from page i
\* on, whose first page gets the arena header a.
FreshPages(t, p, size, cnt, i, a) ==
  /\ t \in MThreads /\ p \in Nat /\ size \in Nat /\ size >= 1
  /\ cnt \in Nat /\ cnt >= 1 /\ palloc_get_multiple("kernel", i, cnt)
  /\ a \in [desc : Int, free_cnt : Int] /\ arena' = [arena EXCEPT ![i] = a]
  /\ PageOf(p) = i /\ Placed(p)' /\ size <= block_size(p)' /\ Extent(i)' = i .. i + cnt - 1
  /\ held' = [held EXCEPT ![t] = @ \cup {[p |-> p, size |-> size]}]

\* A block on pages that were free: what does not depend on the free lists.
LEMMA OnFreshPages ==
  ASSUME StoreInv, NEW t, NEW p, NEW size, NEW cnt, NEW i, NEW a, FreshPages(t, p, size, cnt, i, a)
  PROVE  /\ free_list' \in [DescSizes -> Seq(Nat)] => StoreTypes'
         /\ HeldInv' /\ PagesInv' /\ used_map'["user"] = used_map["user"]
         /\ HeadPages' = HeadPages \cup {i} /\ i \notin HeadPages /\ i \in Nat /\ i \in 0 .. KernelPages - 1
         /\ \A pg \in HeadPages : arena'[pg] = arena[pg]
         /\ \A q : HeldAt(q)' <=> HeldAt(q) \/ q = p
<1> USE DEF FreshPages
<1> DEFINE r == [p |-> p, size |-> size]
           new == i .. i + cnt - 1
<1>1. /\ i \in Nat /\ new \subseteq 0 .. KernelPages - 1 /\ i \in new
      /\ new \cap used_map["kernel"] = {} /\ i \notin HeadPages
      /\ used_map'["kernel"] = used_map["kernel"] \cup new
      /\ used_map'["user"] = used_map["user"] /\ used_map' = [pool \in {"kernel", "user"} |-> used_map'[pool]]
  BY PagesFound
<1>2. ~HeldAt(p)
  BY <1>1 DEF HeldAt, HeadPages
<1>3. /\ held' \in [MThreads -> SUBSET Record] /\ \A u \in MThreads : IsFiniteSet(held'[u])
      /\ Live' = Live \cup {r} /\ HeadPages' = HeadPages \cup {i}
      /\ \A q : HeldAt(q)' <=> HeldAt(q) \/ q = p
      /\ \A x, y \in Live' : x.p = y.p => x = y
      /\ \A u, v \in MThreads : u # v => held'[u] \cap held'[v] = {}
  BY <1>2, HeldGrows
<1>4. r.p = p /\ r.size = size
  OBVIOUS
<1>5. arena \in [0 .. KernelPages - 1 -> [desc : Int, free_cnt : Int]] /\ used_map["kernel"] \subseteq 0 .. KernelPages - 1
  BY DEF StoreInv, StoreTypes
<1> HIDE DEF r, new
<1>6. \A pg \in HeadPages : arena'[pg] = arena[pg]
  BY <1>1, <1>5, PagesHeld
<1>7. HeldInv'
  <2>1. ASSUME NEW x \in Live PROVE Placed(x.p)' /\ x.size >= 1 /\ x.size <= block_size(x.p)'
    <3>1. Placed(x.p) /\ x.size >= 1 /\ x.size <= block_size(x.p) /\ PageOf(x.p) \in HeadPages
      BY Blocks DEF StoreInv, HeldInv
    <3>2. arena'[PageOf(x.p)] = arena[PageOf(x.p)]
      BY <1>6, <3>1
    <3> QED BY <3>1, <3>2, StaysPlaced
  <2>2. \A x \in Live' : Placed(x.p)' /\ x.size >= 1 /\ x.size <= block_size(x.p)'
    BY <1>3, <1>4, <2>1
  <2> QED BY <1>3, <2>2 DEF HeldInv
<1>8. PagesInv'
  <2>1. ASSUME NEW pg \in HeadPages PROVE Extent(pg)' = Extent(pg) /\ Extent(pg) \cap new = {}
    BY <1>1, <1>6, PagesHeld DEF Extent
  <2>2. /\ used_map["kernel"] = UNION {Extent(pg) : pg \in HeadPages}
        /\ \A pg, qg \in HeadPages : pg # qg => Extent(pg) \cap Extent(qg) = {}
    BY DEF StoreInv, PagesInv
  <2>3. Extent(i)' = new
    BY DEF new
  <2>4. used_map'["kernel"] = UNION {Extent(pg)' : pg \in HeadPages'}
    BY <1>1, <1>3, <2>1, <2>2, <2>3
  <2>5. \A pg, qg \in HeadPages' : pg # qg => Extent(pg)' \cap Extent(qg)' = {}
    BY <1>3, <2>1, <2>2, <2>3
  <2> QED BY <2>4, <2>5 DEF PagesInv
<1>9. free_list' \in [DescSizes -> Seq(Nat)] => StoreTypes'
  <2>1. arena' \in [0 .. KernelPages - 1 -> [desc : Int, free_cnt : Int]]
    BY <1>5
  <2>2. used_map'["kernel"] \subseteq 0 .. KernelPages - 1
    BY <1>1, <1>5
  <2> QED BY <1>1, <1>3, <2>1, <2>2 DEF StoreTypes
<1>10. i \in 0 .. KernelPages - 1
  BY <1>1
<1> QED BY <1>1, <1>3, <1>6, <1>7, <1>8, <1>9, <1>10

\* How many pages a big block takes.
LEMMA BigPages ==
  ASSUME NEW size \in Nat, size >= 1, size + ArenaBytes < WordMod
  PROVE  big_pages(size) \in Nat /\ big_pages(size) >= 1 /\ PGSIZE * big_pages(size) - ArenaBytes >= size
<1>1. PGSIZE \in Nat /\ PGSIZE > 0 /\ ArenaBytes \in Nat /\ WordMod \in Nat /\ WordMod > 0
  BY MeAssumption
<1>2. PICK n \in Nat : n = size + ArenaBytes
  BY <1>1
<1>3. n % WordMod = n
  <2>1. n = 0 * WordMod + n /\ n \in 0 .. WordMod - 1 /\ 0 \in Int
    BY <1>1, <1>2
  <2> QED BY <1>1, <2>1, ModUnique
<1>4. PICK m \in Nat : m = n + PGSIZE - 1
  BY <1>1, <1>2
<1>5. big_pages(size) = m \div PGSIZE
  BY <1>2, <1>3, <1>4 DEF big_pages, DIV_ROUND_UP
<1>6. m \div PGSIZE \in Int /\ m % PGSIZE \in 0 .. PGSIZE - 1 /\ m = (m \div PGSIZE) * PGSIZE + (m % PGSIZE)
  BY <1>1, Division
<1>7. PICK k \in Int, r \in Int : k = m \div PGSIZE /\ r = m % PGSIZE
  BY <1>6
<1>8. m = k * PGSIZE + r /\ 0 <= r /\ r <= PGSIZE - 1
  BY <1>1, <1>6, <1>7
<1>9. PICK z \in Int : z = k * PGSIZE /\ z = PGSIZE * k
  BY <1>1
<1>10. z >= n
  BY <1>1, <1>4, <1>8, <1>9
<1>11. k >= 1
  <2> SUFFICES ASSUME k <= 0 PROVE FALSE
    OBVIOUS
  <2>1. k * PGSIZE <= 0
    BY <1>1
  <2> QED BY <1>1, <1>2, <1>9, <1>10, <2>1
<1> QED BY <1>1, <1>2, <1>5, <1>7, <1>9, <1>10, <1>11

\* malloc of a big block.
LEMMA BigTaken ==
  ASSUME StoreInv, NEW t \in MThreads, NEW size \in Nat, size >= 1, size + ArenaBytes < WordMod,
         NEW i, palloc_get_multiple("kernel", i, big_pages(size)),
         arena' = [arena EXCEPT ![i] = [desc |-> 0, free_cnt |-> big_pages(size)]], UNCHANGED free_list,
         NEW p, p = i * PGSIZE + ArenaBytes,
         held' = [held EXCEPT ![t] = @ \cup {[p |-> p, size |-> size]}]
  PROVE  StoreInv' /\ used_map'["user"] = used_map["user"] /\ p \in Nat
<1>1. PICK cnt \in Nat : cnt = big_pages(size) /\ cnt >= 1 /\ PGSIZE * cnt - ArenaBytes >= size
  BY BigPages
<1>2. i \in Nat /\ i .. i + cnt - 1 \subseteq 0 .. KernelPages - 1 /\ i \in i .. i + cnt - 1
  BY <1>1, PagesFound
<1>3. p \in Nat /\ PageOf(p) = i /\ p % PGSIZE = ArenaBytes
  BY ONLY <1>1, <1>2, p = i * PGSIZE + ArenaBytes, BigBlock
<1>4. PICK a : a = [desc |-> 0, free_cnt |-> cnt]
  OBVIOUS
<1>5. arena' = [arena EXCEPT ![i] = a] /\ a \in [desc : Int, free_cnt : Int] /\ a.desc = 0 /\ a.free_cnt = cnt
  BY <1>1, <1>4
<1>6. arena'[i] = a
  BY <1>2, <1>5 DEF StoreInv, StoreTypes
<1>7. Placed(p)'
  BY <1>1, <1>2, <1>3, <1>5, <1>6 DEF Placed
<1>8. size <= block_size(p)'
  <2>1. block_size(p)' = PGSIZE * cnt - ArenaBytes
    BY <1>3, <1>5, <1>6 DEF block_size
  <2>2. PICK z \in Int : z = PGSIZE * cnt - ArenaBytes
    BY MeAssumption
  <2> QED BY <1>1, <2>1, <2>2
<1>9. Extent(i)' = i .. i + cnt - 1
  BY <1>5, <1>6 DEF Extent
<1>10. palloc_get_multiple("kernel", i, cnt)
  BY <1>1
<1>11. /\ free_list' \in [DescSizes -> Seq(Nat)] => StoreTypes'
       /\ HeldInv' /\ PagesInv' /\ used_map'["user"] = used_map["user"]
       /\ HeadPages' = HeadPages \cup {i} /\ i \notin HeadPages /\ i \in Nat
       /\ \A pg \in HeadPages : arena'[pg] = arena[pg]
       /\ \A q : HeldAt(q)' <=> HeldAt(q) \/ q = p
  <2>1. PageOf(p) = i /\ p \in Nat
    BY <1>3
  <2>2. cnt \in Nat /\ cnt >= 1 /\ a \in [desc : Int, free_cnt : Int] /\ arena' = [arena EXCEPT ![i] = a]
    BY <1>1, <1>5
  <2>3. held' = [held EXCEPT ![t] = @ \cup {[p |-> p, size |-> size]}]
    OBVIOUS
  <2>4. FreshPages(t, p, size, cnt, i, a)
    BY <1>7, <1>8, <1>9, <1>10, <2>1, <2>2, <2>3, Zenon DEF FreshPages
  <2> QED BY ONLY StoreInv, <2>4, OnFreshPages
<1>12. StoreTypes'
  BY <1>11 DEF StoreInv, StoreTypes
<1>13. FreeInv'
  <2> SUFFICES ASSUME NEW d \in DescSizes
               PROVE  /\ \A k, l \in DOMAIN free_list[d] : free_list[d][k] = free_list[d][l] => k = l
                      /\ \A b \in Elements(free_list[d]) :
                           /\ PageOf(b) \in HeadPages' /\ arena'[PageOf(b)].desc = d /\ b \in BlocksOf(PageOf(b), d)
                           /\ ~HeldAt(b)'
    BY DEF FreeInv, Elements
  <2>1. \A k, l \in DOMAIN free_list[d] : free_list[d][k] = free_list[d][l] => k = l
    BY DEF StoreInv, FreeInv
  <2>2. ASSUME NEW b \in Elements(free_list[d])
        PROVE  PageOf(b) \in HeadPages' /\ arena'[PageOf(b)].desc = d /\ b \in BlocksOf(PageOf(b), d) /\ ~HeldAt(b)'
    <3>1. PageOf(b) \in HeadPages /\ arena[PageOf(b)].desc = d /\ b \in BlocksOf(PageOf(b), d) /\ ~HeldAt(b)
      BY DEF StoreInv, FreeInv
    <3> QED BY <1>3, <1>11, <3>1
  <2> QED BY <2>1, <2>2
<1>14. ArenaInv'
  <2> SUFFICES ASSUME NEW pg \in HeadPages', arena'[pg].desc \in DescSizes
               PROVE  /\ \A b \in BlocksOf(pg, arena'[pg].desc) : b \in FreeOn(pg)' \/ HeldAt(b)'
                      /\ arena'[pg].free_cnt = Cardinality(FreeOn(pg)')
    BY DEF ArenaInv
  <2>1. pg \in HeadPages
    <3>1. 0 \notin DescSizes
      BY Descriptor
    <3> QED BY <1>5, <1>6, <1>11, <3>1
  <2>2. FreeOn(pg)' = FreeOn(pg) /\ arena'[pg] = arena[pg]
    <3>1. arena'[pg] = arena[pg]
      BY <1>11, <2>1
    <3> QED BY <3>1 DEF FreeOn, Elements
  <2>3. /\ \A b \in BlocksOf(pg, arena[pg].desc) : b \in FreeOn(pg) \/ HeldAt(b)
        /\ arena[pg].free_cnt = Cardinality(FreeOn(pg))
    BY <2>1, <2>2 DEF StoreInv, ArenaInv
  <2> QED BY <1>11, <2>2, <2>3
<1> QED BY <1>3, <1>11, <1>12, <1>13, <1>14 DEF StoreInv

\* malloc of a small block, the first of a new arena: the others are listed.
LEMMA FirstOfArena ==
  ASSUME StoreInv, NEW t \in MThreads, NEW size \in Nat, size >= 1, NEW d \in DescSizes, size <= d, free_list[d] = <<>>,
         NEW i, palloc_get_multiple("kernel", i, 1), NEW p, p = arena_to_block(i, 0, d),
         arena' = [arena EXCEPT ![i] = [desc |-> d, free_cnt |-> blocks_per_arena(d) - 1]],
         free_list' = [free_list EXCEPT ![d] = [k \in 1 .. blocks_per_arena(d) - 1 |-> arena_to_block(i, k, d)]],
         held' = [held EXCEPT ![t] = @ \cup {[p |-> p, size |-> size]}]
  PROVE  StoreInv' /\ used_map'["user"] = used_map["user"] /\ p \in Nat
<1>1. d \in Nat /\ d > 0 /\ 0 \notin DescSizes
  BY Descriptor
<1>2. PICK n \in Nat : n = blocks_per_arena(d) /\ n >= 1
  BY Descriptor
<1>3. PICK a : a = [desc |-> d, free_cnt |-> n - 1]
  OBVIOUS
<1>4. PICK list : list = [k \in 1 .. n - 1 |-> arena_to_block(i, k, d)]
  OBVIOUS
<1>5. arena' = [arena EXCEPT ![i] = a] /\ a \in [desc : Int, free_cnt : Int] /\ a.desc = d /\ a.free_cnt = n - 1
  BY <1>1, <1>2, <1>3
<1>6. free_list' = [free_list EXCEPT ![d] = list]
  BY <1>2, <1>4
<1>7. i \in Nat /\ i \in 0 .. KernelPages - 1
  BY PagesFound
<1>8. BlocksOf(i, d) = {arena_to_block(i, k, d) : k \in 0 .. n - 1}
  BY <1>2 DEF BlocksOf
<1>9. p \in BlocksOf(i, d) /\ p \in Nat /\ PageOf(p) = i
  <2>1. 0 \in 0 .. n - 1
    BY <1>2
  <2>2. p \in BlocksOf(i, d)
    BY <1>8, <2>1
  <2> QED BY <1>7, <2>2, SmallBlock
<1>10. list \in Seq(Nat) /\ DOMAIN list = 1 .. n - 1 /\ Elements(list) = BlocksOf(i, d) \ {p}
       /\ \A k, l \in DOMAIN list : list[k] = list[l] => k = l
  <2>1. i * PGSIZE \in Nat /\ ArenaBytes \in Nat
    BY <1>7, MeAssumption
  <2>2. PICK base \in Nat : base = i * PGSIZE + ArenaBytes
    BY <2>1
  <2>3. \A k \in 0 .. n - 1 : arena_to_block(i, k, d) = base + k * d /\ k * d \in Nat
    BY <1>1, <1>2, <2>2 DEF arena_to_block
  <2>4. ASSUME NEW k \in 0 .. n - 1, NEW l \in 0 .. n - 1, arena_to_block(i, k, d) = arena_to_block(i, l, d) PROVE k = l
    <3>1. k * d = l * d /\ k \in Nat /\ l \in Nat
      BY <1>2, <2>2, <2>3, <2>4
    <3>2. CASE k < l
      <4>1. k * d < l * d
        BY <1>1, <3>1, <3>2
      <4> QED BY <1>1, <3>1, <4>1, SMT
    <3>3. CASE l < k
      <4>1. l * d < k * d
        BY <1>1, <3>1, <3>3
      <4> QED BY <1>1, <3>1, <4>1, SMT
    <3> QED BY <3>1, <3>2, <3>3
  <2>5. ASSUME NEW k \in 1 .. n - 1 PROVE k \in 0 .. n - 1 /\ list[k] = arena_to_block(i, k, d) /\ list[k] \in Nat
    <3>1. k \in 0 .. n - 1
      BY <1>2
    <3>2. arena_to_block(i, k, d) \in Nat
      BY <2>2, <2>3, <3>1
    <3> QED BY <1>4, <3>1, <3>2
  <2>6. DOMAIN list = 1 .. n - 1 /\ list \in [1 .. n - 1 -> Nat] /\ n - 1 \in Nat
    BY <1>2, <1>4, <2>5
  <2>7. list \in Seq(Nat)
    BY <2>6
  <2>8. \A k, l \in DOMAIN list : list[k] = list[l] => k = l
    BY <2>4, <2>5, <2>6
  <2>9. 0 \in 0 .. n - 1 /\ \A k \in 0 .. n - 1 : k # 0 => k \in 1 .. n - 1
    BY <1>2
  <2>10. Elements(list) \subseteq BlocksOf(i, d) \ {p}
    <3> SUFFICES ASSUME NEW b \in Elements(list) PROVE b \in BlocksOf(i, d) /\ b # p
      OBVIOUS
    <3>1. PICK k \in 1 .. n - 1 : b = list[k]
      BY <2>6 DEF Elements
    <3>2. k # 0
      BY <1>2
    <3> QED BY <1>8, <2>4, <2>5, <2>9, <3>1, <3>2
  <2>11. BlocksOf(i, d) \ {p} \subseteq Elements(list)
    <3> SUFFICES ASSUME NEW b \in BlocksOf(i, d), b # p PROVE b \in Elements(list)
      OBVIOUS
    <3>1. PICK k \in 0 .. n - 1 : b = arena_to_block(i, k, d)
      BY <1>8
    <3>2. k \in 1 .. n - 1
      BY <2>9, <3>1
    <3> QED BY <2>5, <2>6, <3>1, <3>2 DEF Elements
  <2> QED BY <2>6, <2>7, <2>8, <2>10, <2>11
<1>11. arena'[i] = a
  BY <1>5, <1>7 DEF StoreInv, StoreTypes
<1>12. Placed(p)' /\ Extent(i)' = i .. i + 1 - 1
  <2>1. i .. i + 1 - 1 = {i}
    BY <1>7
  <2> QED BY <1>1, <1>5, <1>7, <1>9, <1>11, <2>1 DEF Placed, Extent
<1>13. size <= block_size(p)'
  BY <1>1, <1>5, <1>9, <1>11 DEF block_size
<1>14. /\ free_list' \in [DescSizes -> Seq(Nat)] => StoreTypes'
       /\ HeldInv' /\ PagesInv' /\ used_map'["user"] = used_map["user"]
       /\ HeadPages' = HeadPages \cup {i} /\ i \notin HeadPages
       /\ \A pg \in HeadPages : arena'[pg] = arena[pg]
       /\ \A q : HeldAt(q)' <=> HeldAt(q) \/ q = p
  <2>1. PageOf(p) = i /\ p \in Nat
    BY <1>9
  <2>2. a \in [desc : Int, free_cnt : Int] /\ arena' = [arena EXCEPT ![i] = a]
    BY <1>5
  <2>3. held' = [held EXCEPT ![t] = @ \cup {[p |-> p, size |-> size]}]
    OBVIOUS
  <2>4. palloc_get_multiple("kernel", i, 1)
    OBVIOUS
  <2>5. PICK one \in Nat : one = 1 /\ one >= 1
    OBVIOUS
  <2>6. palloc_get_multiple("kernel", i, one) /\ Extent(i)' = i .. i + one - 1
    BY <1>12, <2>4, <2>5
  <2>7. one \in Nat /\ one >= 1
    BY <2>5
  <2>8. Placed(p)'
    BY <1>12
  <2>9. FreshPages(t, p, size, one, i, a)
    BY <1>13, <2>1, <2>2, <2>3, <2>6, <2>7, <2>8, Zenon DEF FreshPages
  <2> QED BY ONLY StoreInv, <2>9, OnFreshPages
<1>15. free_list \in [DescSizes -> Seq(Nat)]
  BY DEF StoreInv, StoreTypes
<1>16. free_list'[d] = list /\ \A e \in DescSizes : e # d => free_list'[e] = free_list[e]
  BY <1>6, <1>15
<1>17. StoreTypes'
  BY <1>6, <1>10, <1>14, <1>15
<1>18. FreeInv'
  <2>1. ASSUME NEW e \in DescSizes
        PROVE  /\ \A k, l \in DOMAIN free_list'[e] : free_list'[e][k] = free_list'[e][l] => k = l
               /\ \A b \in Elements(free_list'[e]) :
                    /\ PageOf(b) \in HeadPages' /\ arena'[PageOf(b)].desc = e /\ b \in BlocksOf(PageOf(b), e)
                    /\ ~HeldAt(b)'
    <3>1. CASE e = d
      <4>1. ASSUME NEW b \in Elements(list)
            PROVE  PageOf(b) \in HeadPages' /\ arena'[PageOf(b)].desc = d /\ b \in BlocksOf(PageOf(b), d) /\ ~HeldAt(b)'
        <5>1. b \in BlocksOf(i, d) /\ b # p
          BY <1>10
        <5>2. PageOf(b) = i
          BY <1>7, <5>1, SmallBlock
        <5>3. ~HeldAt(b)
          BY <1>14, <5>2 DEF HeldAt, HeadPages
        <5> QED BY <1>5, <1>11, <1>14, <5>1, <5>2, <5>3
      <4>2. free_list'[e] = list
        BY <1>16, <3>1
      <4>3. \A k, l \in DOMAIN list : list[k] = list[l] => k = l
        BY <1>10
      <4> QED BY <3>1, <4>1, <4>2, <4>3
    <3>2. CASE e # d
      <4>1. free_list'[e] = free_list[e]
        BY <1>16, <3>2
      <4>2. \A k, l \in DOMAIN free_list[e] : free_list[e][k] = free_list[e][l] => k = l
        BY DEF StoreInv, FreeInv
      <4>3. ASSUME NEW b \in Elements(free_list[e])
            PROVE  PageOf(b) \in HeadPages' /\ arena'[PageOf(b)].desc = e /\ b \in BlocksOf(PageOf(b), e) /\ ~HeldAt(b)'
        <5>1. PageOf(b) \in HeadPages /\ arena[PageOf(b)].desc = e /\ b \in BlocksOf(PageOf(b), e) /\ ~HeldAt(b)
          BY DEF StoreInv, FreeInv
        <5> QED BY <1>9, <1>14, <5>1
      <4> QED BY <4>1, <4>2, <4>3
    <3> QED BY <3>1, <3>2
  <2> QED BY <2>1 DEF FreeInv, Elements
<1>19. ArenaInv'
  <2> SUFFICES ASSUME NEW pg \in HeadPages', arena'[pg].desc \in DescSizes
               PROVE  /\ \A b \in BlocksOf(pg, arena'[pg].desc) : b \in FreeOn(pg)' \/ HeldAt(b)'
                      /\ arena'[pg].free_cnt = Cardinality(FreeOn(pg)')
    BY DEF ArenaInv
  <2>1. FreeOn(pg)' = {b \in Elements(free_list'[arena'[pg].desc]) : PageOf(b) = pg}
    BY DEF FreeOn, Elements
  <2>2. CASE pg = i
    <3>1. arena'[pg].desc = d
      BY <1>5, <1>11, <2>2
    <3>2. FreeOn(pg)' = BlocksOf(i, d) \ {p}
      <4>1. \A b \in BlocksOf(i, d) : PageOf(b) = i
        BY <1>7, SmallBlock
      <4> QED BY <1>10, <1>16, <2>1, <2>2, <3>1, <4>1
    <3>3. IsFiniteSet(BlocksOf(i, d)) /\ Cardinality(BlocksOf(i, d)) = n
      BY <1>2, <1>7, BlockCount
    <3>4. Cardinality(BlocksOf(i, d) \ {p}) = n - 1
      BY <1>9, <3>3, FS_RemoveElement
    <3> QED BY <1>5, <1>11, <1>14, <2>2, <3>1, <3>2, <3>4
  <2>3. CASE pg # i
    <3>1. pg \in HeadPages /\ arena'[pg] = arena[pg]
      BY <1>14, <2>3
    <3>2. PICK e \in DescSizes : e = arena[pg].desc
      BY <3>1
    <3>3. FreeOn(pg) = {b \in Elements(free_list[e]) : PageOf(b) = pg}
      BY <3>2 DEF FreeOn
    <3>4. FreeOn(pg)' = FreeOn(pg)
      <4>1. CASE e = d
        <5>1. FreeOn(pg)' = {}
          <6>1. \A b \in Elements(list) : PageOf(b) = i
            BY <1>7, <1>10, SmallBlock
          <6> QED BY <1>16, <2>1, <2>3, <3>1, <3>2, <4>1, <6>1
        <5>2. Elements(free_list[d]) = {}
          BY DEF Elements
        <5> QED BY <3>3, <4>1, <5>1, <5>2
      <4>2. CASE e # d
        BY <1>16, <2>1, <3>1, <3>2, <3>3, <4>2
      <4> QED BY <4>1, <4>2
    <3>5. /\ \A b \in BlocksOf(pg, arena[pg].desc) : b \in FreeOn(pg) \/ HeldAt(b)
          /\ arena[pg].free_cnt = Cardinality(FreeOn(pg))
      BY <3>1, <3>2 DEF StoreInv, ArenaInv
    <3> QED BY <1>14, <3>1, <3>4, <3>5
  <2> QED BY <2>2, <2>3
<1> QED BY <1>9, <1>14, <1>17, <1>18, <1>19 DEF StoreInv

\* malloc of a small block from the free list.
LEMMA FromTheList ==
  ASSUME StoreInv, NEW t \in MThreads, NEW size \in Nat, size >= 1, NEW d \in DescSizes, size <= d,
         free_list[d] # <<>>, NEW p, p = Head(free_list[d]),
         free_list' = [free_list EXCEPT ![d] = Tail(@)],
         arena' = [arena EXCEPT ![PageOf(p)].free_cnt = @ - 1], UNCHANGED used_map,
         held' = [held EXCEPT ![t] = @ \cup {[p |-> p, size |-> size]}]
  PROVE  StoreInv' /\ p \in Nat
<1>1. free_list \in [DescSizes -> Seq(Nat)] /\ arena \in [0 .. KernelPages - 1 -> [desc : Int, free_cnt : Int]]
  BY DEF StoreInv, StoreTypes
<1>2. PICK old, rest : old = free_list[d] /\ rest = Tail(free_list[d])
  OBVIOUS
<1>3. old \in Seq(Nat) /\ old # <<>> /\ p = Head(old) /\ rest = Tail(old) /\ \A k, l \in DOMAIN old : old[k] = old[l] => k = l
  BY <1>1, <1>2 DEF StoreInv, FreeInv
<1>4. /\ p \in Elements(old) /\ rest \in Seq(Nat) /\ Elements(rest) = Elements(old) \ {p}
      /\ \A k, l \in DOMAIN rest : rest[k] = rest[l] => k = l
  BY <1>3, TailOf
<1>5. PICK i : i = PageOf(p)
  OBVIOUS
<1>6. i \in HeadPages /\ arena[i].desc = d /\ p \in BlocksOf(i, d) /\ ~HeldAt(p)
  BY <1>2, <1>4, <1>5 DEF StoreInv, FreeInv
<1>7. i \in Nat /\ i \in 0 .. KernelPages - 1 /\ d # 0 /\ d \in Nat
  BY <1>6, PagesHeld, Descriptor
<1>8. p \in Nat
  BY <1>6, <1>7, SmallBlock
<1>9. /\ held' \in [MThreads -> SUBSET Record] /\ \A u \in MThreads : IsFiniteSet(held'[u])
      /\ Live' = Live \cup {[p |-> p, size |-> size]} /\ HeadPages' = HeadPages \cup {PageOf(p)}
      /\ \A q : HeldAt(q)' <=> HeldAt(q) \/ q = p
      /\ \A x, y \in Live' : x.p = y.p => x = y
      /\ \A u, v \in MThreads : u # v => held'[u] \cap held'[v] = {}
  BY <1>6, <1>8, HeldGrows
<1>10. HeadPages' = HeadPages
  BY <1>5, <1>6, <1>9
<1>11. free_list'[d] = rest /\ \A e \in DescSizes : e # d => free_list'[e] = free_list[e]
  BY <1>1, <1>2
<1>12. /\ arena' \in [0 .. KernelPages - 1 -> [desc : Int, free_cnt : Int]]
       /\ arena'[i].desc = d /\ arena'[i].free_cnt = arena[i].free_cnt - 1 /\ \A pg \in HeadPages : arena'[pg].desc = arena[pg].desc
       /\ \A pg \in HeadPages : pg # i => arena'[pg] = arena[pg]
  <2>1. PICK a : a = arena[i]
    OBVIOUS
  <2>2. PICK b : b = [a EXCEPT !.free_cnt = @ - 1]
    OBVIOUS
  <2>3. a \in [desc : Int, free_cnt : Int]
    BY <1>1, <1>7, <2>1
  <2>4. b \in [desc : Int, free_cnt : Int] /\ b.desc = a.desc /\ b.free_cnt = a.free_cnt - 1
    BY <2>2, <2>3
  <2>5. arena' = [arena EXCEPT ![i] = b]
    BY <1>5, <2>1, <2>2
  <2>6. \A pg \in HeadPages : pg \in 0 .. KernelPages - 1
    BY PagesHeld
  <2> QED BY <1>1, <1>6, <1>7, <2>1, <2>4, <2>5, <2>6
<1>13. StoreTypes'
  <2>1. free_list' \in [DescSizes -> Seq(Nat)]
    BY <1>1, <1>2, <1>4
  <2> QED BY <1>9, <1>12, <2>1 DEF StoreInv, StoreTypes
<1>14. ASSUME NEW q, Placed(q), PageOf(q) \in HeadPages
       PROVE  Placed(q)' /\ block_size(q)' = block_size(q) /\ Extent(PageOf(q))' = Extent(PageOf(q))
  <2>1. arena'[PageOf(q)].desc = arena[PageOf(q)].desc
    BY <1>12, <1>14
  <2>2. arena[PageOf(q)].desc = 0 => arena'[PageOf(q)] = arena[PageOf(q)]
    BY <1>6, <1>7, <1>12, <1>14
  <2> QED BY <1>14, <2>1, <2>2, StaysPlaced
<1>15. HeldInv'
  <2>1. ASSUME NEW x \in Live PROVE Placed(x.p)' /\ x.size >= 1 /\ x.size <= block_size(x.p)'
    <3>1. Placed(x.p) /\ x.size >= 1 /\ x.size <= block_size(x.p) /\ PageOf(x.p) \in HeadPages
      BY Blocks DEF StoreInv, HeldInv
    <3> QED BY <1>14, <3>1
  <2>2. Placed(p)' /\ size <= block_size(p)'
    <3>1. Placed(p)
      BY <1>5, <1>6, <1>7 DEF Placed
    <3>2. block_size(p) = d
      BY <1>5, <1>6, <1>7 DEF block_size
    <3> QED BY <1>5, <1>6, <1>14, <3>1, <3>2
  <2>3. PICK r : r = [p |-> p, size |-> size]
    OBVIOUS
  <2>4. r.p = p /\ r.size = size /\ Live' = Live \cup {r}
    BY <1>9, <2>3
  <2>5. \A x \in Live' : Placed(x.p)' /\ x.size >= 1 /\ x.size <= block_size(x.p)'
    BY <2>1, <2>2, <2>4
  <2> QED BY <1>9, <2>5 DEF HeldInv
<1>16. FreeInv'
  <2>1. ASSUME NEW e \in DescSizes
        PROVE  /\ \A k, l \in DOMAIN free_list'[e] : free_list'[e][k] = free_list'[e][l] => k = l
               /\ \A b \in Elements(free_list'[e]) :
                    /\ PageOf(b) \in HeadPages' /\ arena'[PageOf(b)].desc = e /\ b \in BlocksOf(PageOf(b), e)
                    /\ ~HeldAt(b)'
    <3>1. Elements(free_list'[e]) \subseteq Elements(free_list[e]) /\ p \notin Elements(free_list'[e])
      <4>1. CASE e = d
        BY <1>2, <1>4, <1>11, <4>1
      <4>2. CASE e # d
        <5>1. p \in Elements(free_list[e]) => arena[i].desc = e
          BY <1>5 DEF StoreInv, FreeInv
        <5> QED BY <1>6, <1>11, <4>2, <5>1
      <4> QED BY <4>1, <4>2
    <3>2. ASSUME NEW b \in Elements(free_list'[e])
          PROVE  PageOf(b) \in HeadPages' /\ arena'[PageOf(b)].desc = e /\ b \in BlocksOf(PageOf(b), e) /\ ~HeldAt(b)'
      <4>1. PageOf(b) \in HeadPages /\ arena[PageOf(b)].desc = e /\ b \in BlocksOf(PageOf(b), e) /\ ~HeldAt(b)
        BY <3>1 DEF StoreInv, FreeInv
      <4> QED BY <1>9, <1>10, <1>12, <3>1, <4>1
    <3>3. \A k, l \in DOMAIN free_list'[e] : free_list'[e][k] = free_list'[e][l] => k = l
      <4>1. CASE e = d
        BY <1>4, <1>11, <4>1
      <4>2. CASE e # d
        <5>1. free_list'[e] = free_list[e]
          BY <1>11, <4>2
        <5>2. \A k, l \in DOMAIN free_list[e] : free_list[e][k] = free_list[e][l] => k = l
          BY DEF StoreInv, FreeInv
        <5> QED BY <5>1, <5>2
      <4> QED BY <4>1, <4>2
    <3> QED BY <3>2, <3>3
  <2> QED BY <2>1 DEF FreeInv, Elements
<1>17. ArenaInv'
  <2> SUFFICES ASSUME NEW pg \in HeadPages', arena'[pg].desc \in DescSizes
               PROVE  /\ \A b \in BlocksOf(pg, arena'[pg].desc) : b \in FreeOn(pg)' \/ HeldAt(b)'
                      /\ arena'[pg].free_cnt = Cardinality(FreeOn(pg)')
    BY DEF ArenaInv
  <2>1. FreeOn(pg)' = {b \in Elements(free_list'[arena'[pg].desc]) : PageOf(b) = pg}
    BY DEF FreeOn, Elements
  <2>2. pg \in HeadPages /\ arena'[pg].desc = arena[pg].desc
    BY <1>10, <1>12
  <2>3. FreeOn(pg) = {b \in Elements(free_list[arena[pg].desc]) : PageOf(b) = pg}
    BY DEF FreeOn
  <2>4. FreeOn(pg)' = FreeOn(pg) \ {p}
    <3>1. CASE arena[pg].desc = d
      BY <1>2, <1>4, <1>11, <2>1, <2>2, <2>3, <3>1
    <3>2. CASE arena[pg].desc # d
      <4>1. free_list'[arena[pg].desc] = free_list[arena[pg].desc]
        BY <1>11, <2>2, <3>2
      <4>2. p \notin FreeOn(pg)
        BY <1>5, <1>6, <2>3, <3>2
      <4> QED BY <2>1, <2>2, <2>3, <4>1, <4>2
    <3> QED BY <3>1, <3>2
  <2>5. /\ \A b \in BlocksOf(pg, arena[pg].desc) : b \in FreeOn(pg) \/ HeldAt(b)
        /\ arena[pg].free_cnt = Cardinality(FreeOn(pg))
    BY <2>2 DEF StoreInv, ArenaInv
  <2>6. IsFiniteSet(FreeOn(pg))
    <3>1. IsFiniteSet(Elements(free_list[arena[pg].desc]))
      BY <2>2, StoreFinite DEF StoreInv
    <3>2. FreeOn(pg) \in SUBSET Elements(free_list[arena[pg].desc])
      BY <2>3
    <3> QED BY <3>1, <3>2, FS_Subset
  <2>7. Cardinality(FreeOn(pg) \ {p}) = IF p \in FreeOn(pg) THEN Cardinality(FreeOn(pg)) - 1 ELSE Cardinality(FreeOn(pg))
    BY <2>6, FS_RemoveElement
  <2>8. p \in FreeOn(pg) <=> pg = i
    BY <1>2, <1>4, <1>5, <1>6, <2>3
  <2>9. arena'[pg].free_cnt = IF pg = i THEN arena[pg].free_cnt - 1 ELSE arena[pg].free_cnt
    BY <1>12, <2>2
  <2>10. arena'[pg].free_cnt = Cardinality(FreeOn(pg)')
    BY <2>4, <2>5, <2>7, <2>8, <2>9
  <2> QED BY <1>9, <2>2, <2>4, <2>5, <2>10
<1>18. PagesInv'
  <2>1. ASSUME NEW pg \in HeadPages PROVE Extent(pg)' = Extent(pg)
    <3>1. PICK x \in Live : PageOf(x.p) = pg /\ Placed(x.p)
      BY Blocks DEF HeadPages
    <3> QED BY <1>14, <3>1
  <2> QED BY <1>10, <2>1 DEF StoreInv, PagesInv
<1> QED BY <1>8, <1>13, <1>15, <1>16, <1>17, <1>18 DEF StoreInv

\* A step that only touches the user pool.
LEMMA StoreKept ==
  ASSUME StoreInv, UNCHANGED <<arena, free_list, held>>,
         used_map'["kernel"] = used_map["kernel"], used_map' = [pool \in {"kernel", "user"} |-> used_map'[pool]]
  PROVE  StoreInv'
<1>1. Live' = Live
  BY DEF Live
<1>2. HeadPages' = HeadPages /\ \A q : HeldAt(q)' <=> HeldAt(q)
  BY <1>1 DEF HeadPages, HeldAt
<1>3. StoreTypes'
  BY DEF StoreInv, StoreTypes
<1>4. HeldInv'
  BY <1>1 DEF StoreInv, HeldInv, Placed, block_size
<1>5. FreeInv'
  BY <1>2 DEF StoreInv, FreeInv, Elements
<1>6. ArenaInv'
  <2>1. \A pg : FreeOn(pg)' = FreeOn(pg)
    BY DEF FreeOn, Elements
  <2> QED BY <1>2, <2>1 DEF StoreInv, ArenaInv
<1>7. PagesInv'
  BY <1>2 DEF StoreInv, PagesInv, Extent
<1> QED BY <1>3, <1>4, <1>5, <1>6, <1>7 DEF StoreInv

\* malloc, whatever it finds.
LEMMA Allocates ==
  ASSUME StoreInv, NEW t \in MThreads, NEW size \in Nat, size + ArenaBytes < WordMod, NEW p,
         malloc(size, p), Hold(t, p, size)
  PROVE  /\ StoreInv' /\ used_map'["user"] = used_map["user"] /\ p \in Nat \cup {NULLP}
         /\ held[t] \subseteq held'[t] /\ \A u \in MThreads : u # t => held'[u] = held[u]
<1>1. held \in [MThreads -> SUBSET Record]
  BY DEF StoreInv, StoreTypes
<1>2. NULLP \notin Nat
  BY DEF NULLP
<1>3. held[t] \subseteq held'[t] /\ \A u \in MThreads : u # t => held'[u] = held[u]
  BY <1>1 DEF Hold
<1>4. p # NULLP => held' = [held EXCEPT ![t] = @ \cup {[p |-> p, size |-> size]}]
  BY DEF Hold
<1>5. CASE p = NULLP /\ UNCHANGED <<used_map, arena, free_list>>
  <2>1. held' = held
    BY <1>1, <1>5 DEF Hold
  <2>2. StoreInv'
    <3>1. used_map' = [pool \in {"kernel", "user"} |-> used_map'[pool]]
      BY <1>5 DEF StoreInv, StoreTypes
    <3> QED BY <1>5, <2>1, <3>1, StoreKept
  <2> QED BY <1>3, <1>5, <2>2
<1>6. CASE size # 0 /\ Fitting(size) = {} /\ MallocBig(size, p)
  <2>1. CASE UNCHANGED <<used_map, arena, free_list>> /\ p = NULLP
    BY <1>5, <2>1
  <2>2. CASE \E i \in 0 .. KernelPages - 1 :
               /\ palloc_get_multiple("kernel", i, big_pages(size))
               /\ arena' = [arena EXCEPT ![i] = [desc |-> 0, free_cnt |-> big_pages(size)]]
               /\ p = i * PGSIZE + ArenaBytes /\ UNCHANGED free_list
    <3>1. PICK i \in 0 .. KernelPages - 1 :
               /\ palloc_get_multiple("kernel", i, big_pages(size))
               /\ arena' = [arena EXCEPT ![i] = [desc |-> 0, free_cnt |-> big_pages(size)]]
               /\ p = i * PGSIZE + ArenaBytes /\ UNCHANGED free_list
      BY <2>2
    <3>2. p # NULLP /\ size >= 1
      <4>1. i \in Nat /\ PGSIZE \in Nat /\ ArenaBytes \in Nat
        BY PoolSizes, MeAssumption
      <4>2. i * PGSIZE + ArenaBytes \in Nat
        BY <4>1
      <4> QED BY <1>2, <1>6, <3>1, <4>2
    <3>3. held' = [held EXCEPT ![t] = @ \cup {[p |-> p, size |-> size]}]
      BY <1>4, <3>2
    <3>4. StoreInv' /\ used_map'["user"] = used_map["user"] /\ p \in Nat
      BY <3>1, <3>2, <3>3, BigTaken
    <3> QED BY <1>3, <3>4
  <2> QED BY <1>6, <2>1, <2>2 DEF MallocBig
<1>7. CASE size # 0 /\ Fitting(size) # {} /\ MallocSmall(Least(Fitting(size)), p)
  <2>1. PICK d : d = Least(Fitting(size))
    OBVIOUS
  <2>2. Fitting(size) \in SUBSET Nat /\ Fitting(size) # {}
    BY <1>7, Descriptor DEF Fitting
  <2>3. \E k \in Fitting(size) : \A y \in Fitting(size) : k <= y
    BY <2>2, LeastNat
  <2>4. d \in Fitting(size)
    BY <2>1, <2>3 DEF Least
  <2>5. d \in DescSizes /\ d \in Nat /\ size <= d /\ size >= 1
    BY <1>7, <2>4, Descriptor DEF Fitting
  <2>6. MallocSmall(d, p)
    BY <1>7, <2>1
  <2>7. CASE /\ free_list[d] # <<>> /\ p = Head(free_list[d])
             /\ free_list' = [free_list EXCEPT ![d] = Tail(@)]
             /\ arena' = [arena EXCEPT ![PageOf(p)].free_cnt = @ - 1]
             /\ UNCHANGED used_map
    <3>1. p \in Nat
      <4>1. free_list[d] \in Seq(Nat)
        BY <2>5 DEF StoreInv, StoreTypes
      <4> QED BY <2>7, <4>1, HeadTailProperties
    <3>2. held' = [held EXCEPT ![t] = @ \cup {[p |-> p, size |-> size]}]
      BY <1>2, <1>4, <3>1
    <3>3. StoreInv'
      BY <2>5, <2>7, <3>2, FromTheList
    <3> QED BY <1>3, <2>7, <3>1, <3>3
  <2>8. CASE /\ free_list[d] = <<>>
             /\ \E i \in 0 .. KernelPages - 1 :
                  /\ palloc_get_multiple("kernel", i, 1)
                  /\ p = arena_to_block(i, 0, d)
                  /\ arena' = [arena EXCEPT ![i] = [desc |-> d, free_cnt |-> blocks_per_arena(d) - 1]]
                  /\ free_list' = [free_list EXCEPT ![d] =
                       [k \in 1 .. blocks_per_arena(d) - 1 |-> arena_to_block(i, k, d)]]
    <3>1. PICK i \in 0 .. KernelPages - 1 :
                  /\ palloc_get_multiple("kernel", i, 1)
                  /\ p = arena_to_block(i, 0, d)
                  /\ arena' = [arena EXCEPT ![i] = [desc |-> d, free_cnt |-> blocks_per_arena(d) - 1]]
                  /\ free_list' = [free_list EXCEPT ![d] =
                       [k \in 1 .. blocks_per_arena(d) - 1 |-> arena_to_block(i, k, d)]]
      BY <2>8
    <3>2. p \in Nat
      <4>1. i \in Nat /\ PGSIZE \in Nat /\ ArenaBytes \in Nat /\ 0 * d = 0
        BY <2>5, PoolSizes, MeAssumption
      <4>2. i * PGSIZE + ArenaBytes \in Nat
        BY <4>1
      <4> QED BY <3>1, <4>1, <4>2 DEF arena_to_block
    <3>3. held' = [held EXCEPT ![t] = @ \cup {[p |-> p, size |-> size]}]
      BY <1>2, <1>4, <3>2
    <3>4. StoreInv' /\ used_map'["user"] = used_map["user"]
      <4>1. t \in MThreads /\ size \in Nat /\ size >= 1 /\ d \in DescSizes /\ size <= d /\ free_list[d] = <<>>
        BY <2>5, <2>8
      <4> QED BY ONLY StoreInv, <4>1, <3>1, <3>3, FirstOfArena, ZenonT(60)
    <3> QED BY <1>3, <3>2, <3>4
  <2>9. CASE p = NULLP /\ UNCHANGED <<used_map, arena, free_list>>
    BY <1>5, <2>9
  <2> QED BY <2>6, <2>7, <2>8, <2>9 DEF MallocSmall
<1> QED BY <1>5, <1>6, <1>7 DEF malloc

-----------------------------------------------------------------------------
(* free.                                                                   *)

\* A list without the blocks of a page.
LEMMA ListWithout ==
  ASSUME NEW s \in Seq(Nat), \A i, j \in DOMAIN s : s[i] = s[j] => i = j, NEW pg, NEW rest \in Without(s, pg)
  PROVE  /\ rest \in Seq(Nat) /\ Elements(rest) = {b \in Elements(s) : PageOf(b) # pg}
         /\ \A i, j \in DOMAIN rest : rest[i] = rest[j] => i = j
<1> DEFINE K == {k \in DOMAIN s : PageOf(s[k]) # pg}
<1>1. PICK f \in Ascending(K) : rest = [i \in DOMAIN f |-> s[f[i]]]
  BY DEF Without
<1>2. DOMAIN s = 1 .. Len(s) /\ Len(s) \in Nat /\ \A k \in DOMAIN s : s[k] \in Nat
  BY LenProperties, ElementOfSeq
<1>3. IsFiniteSet(K)
  <2>1. IsFiniteSet(DOMAIN s) /\ K \in SUBSET DOMAIN s
    BY <1>2, FS_Interval
  <2> HIDE DEF K
  <2> QED BY <2>1, FS_Subset
<1>4. PICK n \in Nat : n = Cardinality(K)
  BY <1>3, FS_CardinalityType
<1>5. f \in [1 .. n -> K] /\ K = {f[i] : i \in 1 .. n} /\ \A i, j \in 1 .. n : i < j => f[i] < f[j]
  <2>1. f \in [1 .. n -> K] /\ K = {f[i] : i \in DOMAIN f} /\ \A i, j \in DOMAIN f : i < j => f[i] < f[j]
    <3> HIDE DEF K
    <3> QED BY <1>1, <1>4 DEF Ascending
  <2> HIDE DEF K
  <2>2. DOMAIN f = 1 .. n
    BY <2>1
  <2> QED BY <2>1, <2>2
<1>6. DOMAIN rest = 1 .. n /\ \A i \in 1 .. n : f[i] \in DOMAIN s /\ f[i] \in K /\ f[i] \in Nat /\ rest[i] = s[f[i]] /\ rest[i] \in Nat
  <2>1. DOMAIN f = 1 .. n
    BY <1>5
  <2>2. \A i \in 1 .. n : f[i] \in DOMAIN s /\ f[i] \in K
    BY <1>5
  <2> HIDE DEF K
  <2> QED BY <1>1, <1>2, <2>1, <2>2
<1>7. rest \in Seq(Nat)
  <2>1. rest = [i \in 1 .. n |-> rest[i]]
    BY <1>1, <1>6
  <2>2. rest \in [1 .. n -> Nat]
    BY <1>6, <2>1
  <2> QED BY <2>2
<1>8. Elements(rest) \subseteq {b \in Elements(s) : PageOf(b) # pg}
  <2> SUFFICES ASSUME NEW b \in Elements(rest) PROVE b \in Elements(s) /\ PageOf(b) # pg
    OBVIOUS
  <2>1. PICK i \in 1 .. n : b = rest[i]
    BY <1>6 DEF Elements
  <2>2. b = s[f[i]] /\ f[i] \in K
    BY <1>6, <2>1
  <2> QED BY <2>2 DEF Elements
<1>9. {b \in Elements(s) : PageOf(b) # pg} \subseteq Elements(rest)
  <2> SUFFICES ASSUME NEW b \in Elements(s), PageOf(b) # pg PROVE b \in Elements(rest)
    OBVIOUS
  <2>1. PICK k \in DOMAIN s : b = s[k]
    BY DEF Elements
  <2>2. k \in K
    BY <2>1
  <2>3. PICK i \in 1 .. n : k = f[i]
    BY <1>5, <2>2
  <2> QED BY <1>6, <2>1, <2>3 DEF Elements
<1>10. \A i, j \in DOMAIN rest : rest[i] = rest[j] => i = j
  <2> SUFFICES ASSUME NEW i \in 1 .. n, NEW j \in 1 .. n, rest[i] = rest[j] PROVE i = j
    BY <1>6
  <2>1. f[i] = f[j] /\ f[i] \in Nat /\ f[j] \in Nat
    BY <1>6
  <2>2. ~(i < j) /\ ~(j < i)
    BY <1>5, <2>1
  <2> QED BY <2>2
<1> QED BY <1>7, <1>8, <1>9, <1>10

\* The last block on its pages goes, and the pages with it.
LEMMA PagesGoBack ==
  ASSUME StoreInv, NEW t \in MThreads, NEW x \in held[t], held' = [held EXCEPT ![t] = @ \ {x}],
         NEW pg, pg = PageOf(x.p), \A y \in Live : PageOf(y.p) = pg => y = x,
         \A q \in HeadPages : q # pg => arena'[q] = arena[q],
         NEW S, S = Extent(pg), used_map' = [used_map EXCEPT !["kernel"] = @ \ S]
  PROVE  /\ (free_list' \in [DescSizes -> Seq(Nat)] /\ arena' \in [0 .. KernelPages - 1 -> [desc : Int, free_cnt : Int]]) => StoreTypes'
         /\ HeldInv' /\ PagesInv' /\ used_map'["user"] = used_map["user"]
         /\ HeadPages' = HeadPages \ {pg}
         /\ \A q : HeldAt(q)' <=> HeldAt(q) /\ q # x.p
<1>1. /\ held' \in [MThreads -> SUBSET Record] /\ \A u \in MThreads : IsFiniteSet(held'[u])
      /\ x \in Live /\ Live' = Live \ {x} /\ HeadPages' \cup {PageOf(x.p)} = HeadPages
      /\ \A q : HeldAt(q)' <=> HeldAt(q) /\ q # x.p
      /\ \A y, z \in Live' : y.p = z.p => y = z
      /\ \A u, v \in MThreads : u # v => held'[u] \cap held'[v] = {}
  BY HeldShrinks
<1>2. HeadPages' = HeadPages \ {pg} /\ pg \in HeadPages
  <2>1. HeadPages' = {PageOf(y.p) : y \in Live'}
    BY DEF HeadPages
  <2> QED BY <1>1, <2>1 DEF HeadPages
<1>3. /\ used_map["kernel"] \subseteq 0 .. KernelPages - 1 /\ DOMAIN used_map = {"kernel", "user"}
      /\ used_map = [pool \in {"kernel", "user"} |-> used_map[pool]]
  BY DEF StoreInv, StoreTypes
<1>4. /\ used_map'["kernel"] = used_map["kernel"] \ S /\ used_map'["user"] = used_map["user"]
      /\ used_map' = [pool \in {"kernel", "user"} |-> used_map'[pool]]
  BY <1>3
<1>5. (free_list' \in [DescSizes -> Seq(Nat)] /\ arena' \in [0 .. KernelPages - 1 -> [desc : Int, free_cnt : Int]]) => StoreTypes'
  BY <1>1, <1>3, <1>4 DEF StoreTypes
<1>6. HeldInv'
  <2>1. ASSUME NEW y \in Live' PROVE Placed(y.p)' /\ y.size >= 1 /\ y.size <= block_size(y.p)'
    <3>1. y \in Live /\ y # x
      BY <1>1
    <3>2. Placed(y.p) /\ y.size >= 1 /\ y.size <= block_size(y.p) /\ PageOf(y.p) \in HeadPages
      BY <3>1, Blocks DEF StoreInv, HeldInv
    <3>3. arena'[PageOf(y.p)] = arena[PageOf(y.p)]
      BY <3>1, <3>2
    <3> QED BY <3>2, <3>3, StaysPlaced
  <2> QED BY <1>1, <2>1 DEF HeldInv
<1>7. PagesInv'
  <2>1. \A q \in HeadPages' : q \in HeadPages /\ q # pg /\ Extent(q)' = Extent(q)
    BY <1>2 DEF Extent
  <2>2. /\ used_map["kernel"] = UNION {Extent(q) : q \in HeadPages}
        /\ \A q, r \in HeadPages : q # r => Extent(q) \cap Extent(r) = {}
    BY DEF StoreInv, PagesInv
  <2>3. used_map'["kernel"] = UNION {Extent(q) : q \in HeadPages'}
    BY <1>2, <1>4, <2>2
  <2>4. {Extent(q)' : q \in HeadPages'} = {Extent(q) : q \in HeadPages'}
    BY <2>1
  <2>5. \A q, r \in HeadPages' : q # r => Extent(q)' \cap Extent(r)' = {}
    BY <2>1, <2>2
  <2> QED BY <2>3, <2>4, <2>5 DEF PagesInv
<1> QED BY <1>1, <1>2, <1>4, <1>5, <1>6, <1>7

\* free of a big block.
LEMMA BigFreed ==
  ASSUME StoreInv, NEW t \in MThreads, NEW x \in held[t], held' = [held EXCEPT ![t] = @ \ {x}],
         NEW pg, pg = PageOf(x.p), arena[pg].desc = 0,
         palloc_free_multiple("kernel", pg, arena[pg].free_cnt), UNCHANGED <<arena, free_list>>
  PROVE  StoreInv' /\ used_map'["user"] = used_map["user"]
<1>1. x \in Live /\ 0 \notin DescSizes
  BY Descriptor DEF Live
<1>2. \A y \in Live : PageOf(y.p) = pg => y = x
  <2> SUFFICES ASSUME NEW y \in Live, PageOf(y.p) = pg PROVE y = x
    OBVIOUS
  <2>1. Placed(x.p) /\ Placed(y.p)
    BY <1>1, Blocks
  <2>2. x.p = y.p
    BY <1>1, <2>1 DEF Placed
  <2> QED BY <1>1, <2>2 DEF StoreInv, HeldInv
<1>3. PICK S : S = Extent(pg)
  OBVIOUS
<1>4. used_map' = [used_map EXCEPT !["kernel"] = @ \ S]
  BY <1>3 DEF palloc_free_multiple, Extent
<1>5. \A q \in HeadPages : q # pg => arena'[q] = arena[q]
  OBVIOUS
<1>6. /\ (free_list' \in [DescSizes -> Seq(Nat)] /\ arena' \in [0 .. KernelPages - 1 -> [desc : Int, free_cnt : Int]]) => StoreTypes'
      /\ HeldInv' /\ PagesInv' /\ used_map'["user"] = used_map["user"]
      /\ HeadPages' = HeadPages \ {pg}
      /\ \A q : HeldAt(q)' <=> HeldAt(q) /\ q # x.p
  BY ONLY StoreInv, t \in MThreads, x \in held[t], held' = [held EXCEPT ![t] = @ \ {x}], pg = PageOf(x.p),
          <1>2, <1>3, <1>4, <1>5, PagesGoBack, ZenonT(60)
<1>7. StoreTypes'
  BY <1>6 DEF StoreInv, StoreTypes
<1>8. FreeInv'
  <2>1. ASSUME NEW d \in DescSizes
        PROVE  /\ \A k, l \in DOMAIN free_list[d] : free_list[d][k] = free_list[d][l] => k = l
               /\ \A b \in Elements(free_list[d]) :
                    PageOf(b) \in HeadPages' /\ arena[PageOf(b)].desc = d /\ b \in BlocksOf(PageOf(b), d) /\ ~HeldAt(b)'
    <3>1. ASSUME NEW b \in Elements(free_list[d])
          PROVE PageOf(b) \in HeadPages' /\ arena[PageOf(b)].desc = d /\ b \in BlocksOf(PageOf(b), d) /\ ~HeldAt(b)'
      <4>1. PageOf(b) \in HeadPages /\ arena[PageOf(b)].desc = d /\ b \in BlocksOf(PageOf(b), d) /\ ~HeldAt(b)
        BY DEF StoreInv, FreeInv
      <4>2. PageOf(b) # pg
        BY <1>1, <4>1
      <4> QED BY <1>6, <4>1, <4>2
    <3>2. \A k, l \in DOMAIN free_list[d] : free_list[d][k] = free_list[d][l] => k = l
      BY DEF StoreInv, FreeInv
    <3> QED BY <3>1, <3>2
  <2> QED BY <2>1 DEF FreeInv, Elements
<1>9. ArenaInv'
  <2> SUFFICES ASSUME NEW q \in HeadPages', arena'[q].desc \in DescSizes
               PROVE  /\ \A b \in BlocksOf(q, arena'[q].desc) : b \in FreeOn(q)' \/ HeldAt(b)'
                      /\ arena'[q].free_cnt = Cardinality(FreeOn(q)')
    BY DEF ArenaInv
  <2>1. q \in HeadPages /\ q # pg /\ FreeOn(q)' = FreeOn(q)
    BY <1>6 DEF FreeOn, Elements
  <2>2. /\ \A b \in BlocksOf(q, arena[q].desc) : b \in FreeOn(q) \/ HeldAt(b)
        /\ arena[q].free_cnt = Cardinality(FreeOn(q))
    BY <2>1 DEF StoreInv, ArenaInv
  <2>3. \A b \in BlocksOf(q, arena[q].desc) : b # x.p
    BY <2>1, SmallBlock, PagesHeld
  <2> QED BY <1>6, <2>1, <2>2, <2>3
<1> QED BY <1>6, <1>7, <1>8, <1>9 DEF StoreInv

\* A held small block: its arena lists the free ones, and not this one.
LEMMA SmallHeld ==
  ASSUME StoreInv, NEW x \in Live, NEW pg, pg = PageOf(x.p), NEW d, d = arena[pg].desc, d # 0
  PROVE  /\ pg \in Nat /\ pg \in 0 .. KernelPages - 1 /\ pg \in HeadPages /\ d \in DescSizes
         /\ x.p \in Nat /\ x.p \in BlocksOf(pg, d)
         /\ FreeOn(pg) = {b \in Elements(free_list[d]) : PageOf(b) = pg} /\ FreeOn(pg) \subseteq BlocksOf(pg, d) /\ x.p \notin FreeOn(pg)
         /\ IsFiniteSet(FreeOn(pg)) /\ arena[pg].free_cnt = Cardinality(FreeOn(pg)) /\ arena[pg].free_cnt \in Nat
         /\ Cardinality(FreeOn(pg) \cup {x.p}) = arena[pg].free_cnt + 1
         /\ IsFiniteSet(FreeOn(pg) \cup {x.p}) /\ FreeOn(pg) \cup {x.p} \subseteq BlocksOf(pg, d)
         /\ \A y \in Live : PageOf(y.p) = pg => y.p \in BlocksOf(pg, d) /\ y.p \notin FreeOn(pg)
<1>1. pg \in HeadPages
  BY DEF HeadPages
<1>2. pg \in Nat /\ pg \in 0 .. KernelPages - 1 /\ d \in DescSizes
  BY <1>1, PagesHeld
<1>3. FreeOn(pg) = {b \in Elements(free_list[d]) : PageOf(b) = pg}
  BY DEF FreeOn
<1>4. \A b \in FreeOn(pg) : b \in BlocksOf(pg, d) /\ ~HeldAt(b)
  BY <1>2, <1>3 DEF StoreInv, FreeInv
<1>5. \A y \in Live : PageOf(y.p) = pg => y.p \in BlocksOf(pg, d) /\ y.p \notin FreeOn(pg)
  <2> SUFFICES ASSUME NEW y \in Live, PageOf(y.p) = pg PROVE y.p \in BlocksOf(pg, d) /\ y.p \notin FreeOn(pg)
    OBVIOUS
  <2>1. Placed(y.p)
    BY Blocks
  <2>2. HeldAt(y.p)
    BY DEF HeldAt
  <2> QED BY <1>2, <1>4, <2>1, <2>2 DEF Placed
<1>6. x.p \in Nat
  BY <1>2, <1>5, SmallBlock
<1>7. IsFiniteSet(FreeOn(pg))
  <2>1. IsFiniteSet(Elements(free_list[d]))
    BY <1>2, StoreFinite DEF StoreInv
  <2>2. FreeOn(pg) \in SUBSET Elements(free_list[d])
    BY <1>3
  <2> QED BY <2>1, <2>2, FS_Subset
<1>8. arena[pg].free_cnt = Cardinality(FreeOn(pg))
  BY <1>1, <1>2 DEF StoreInv, ArenaInv
<1>9. arena[pg].free_cnt \in Nat
  BY <1>7, <1>8, FS_CardinalityType
<1>10. Cardinality(FreeOn(pg) \cup {x.p}) = arena[pg].free_cnt + 1 /\ IsFiniteSet(FreeOn(pg) \cup {x.p})
  BY <1>5, <1>7, <1>8, FS_AddElement
<1> QED BY <1>1, <1>2, <1>3, <1>4, <1>5, <1>6, <1>7, <1>8, <1>9, <1>10

\* free of the last block of an arena: its page goes back, its blocks leave the list.
LEMMA LastFreed ==
  ASSUME StoreInv, NEW t \in MThreads, NEW x \in held[t], held' = [held EXCEPT ![t] = @ \ {x}],
         NEW pg, pg = PageOf(x.p), NEW d, d = arena[pg].desc, d # 0, arena[pg].free_cnt + 1 >= blocks_per_arena(d),
         arena' = [arena EXCEPT ![pg].free_cnt = @ + 1],
         NEW rest \in Without(free_list[d], pg), free_list' = [free_list EXCEPT ![d] = rest],
         palloc_free_multiple("kernel", pg, 1)
  PROVE  StoreInv' /\ used_map'["user"] = used_map["user"]
<1>1. x \in Live
  BY DEF Live
<1>2. /\ pg \in Nat /\ pg \in 0 .. KernelPages - 1 /\ pg \in HeadPages /\ d \in DescSizes
      /\ x.p \in Nat /\ x.p \in BlocksOf(pg, d)
      /\ arena[pg].free_cnt \in Nat
      /\ Cardinality(FreeOn(pg) \cup {x.p}) = arena[pg].free_cnt + 1
      /\ IsFiniteSet(FreeOn(pg) \cup {x.p}) /\ FreeOn(pg) \cup {x.p} \subseteq BlocksOf(pg, d)
      /\ \A y \in Live : PageOf(y.p) = pg => y.p \in BlocksOf(pg, d) /\ y.p \notin FreeOn(pg)
  BY <1>1, SmallHeld
<1>3. IsFiniteSet(BlocksOf(pg, d)) /\ Cardinality(BlocksOf(pg, d)) = blocks_per_arena(d) /\ blocks_per_arena(d) \in Nat
  BY <1>2, BlockCount, Descriptor
<1>4. FreeOn(pg) \cup {x.p} = BlocksOf(pg, d)
  <2>1. Cardinality(FreeOn(pg) \cup {x.p}) <= Cardinality(BlocksOf(pg, d))
    BY <1>2, <1>3, FS_Subset
  <2>2. Cardinality(FreeOn(pg) \cup {x.p}) = Cardinality(BlocksOf(pg, d))
    BY <1>2, <1>3, <2>1
  <2> QED BY <1>2, <1>3, <2>2, FS_Subset
<1>5. \A y \in Live : PageOf(y.p) = pg => y = x
  <2> SUFFICES ASSUME NEW y \in Live, PageOf(y.p) = pg PROVE y = x
    OBVIOUS
  <2>1. y.p = x.p
    BY <1>2, <1>4
  <2> QED BY <1>1, <2>1 DEF StoreInv, HeldInv
<1>6. /\ free_list \in [DescSizes -> Seq(Nat)] /\ arena \in [0 .. KernelPages - 1 -> [desc : Int, free_cnt : Int]]
      /\ \A e \in DescSizes : free_list[e] \in Seq(Nat) /\ \A k, l \in DOMAIN free_list[e] : free_list[e][k] = free_list[e][l] => k = l
  BY DEF StoreInv, StoreTypes, FreeInv
<1>7. /\ rest \in Seq(Nat) /\ Elements(rest) = {b \in Elements(free_list[d]) : PageOf(b) # pg}
      /\ \A i, j \in DOMAIN rest : rest[i] = rest[j] => i = j
  <2>1. PICK s \in Seq(Nat) : s = free_list[d] /\ \A i, j \in DOMAIN s : s[i] = s[j] => i = j
    BY <1>2, <1>6
  <2>2. rest \in Without(s, pg)
    BY <2>1
  <2>3. s \in Seq(Nat) /\ \A i, j \in DOMAIN s : s[i] = s[j] => i = j
    BY <2>1
  <2>4. /\ rest \in Seq(Nat) /\ Elements(rest) = {b \in Elements(s) : PageOf(b) # pg}
        /\ \A i, j \in DOMAIN rest : rest[i] = rest[j] => i = j
    BY ONLY <2>2, <2>3, ListWithout, Zenon
  <2> QED BY <2>1, <2>4
<1>8. free_list' \in [DescSizes -> Seq(Nat)] /\ free_list'[d] = rest /\ \A e \in DescSizes : e # d => free_list'[e] = free_list[e]
  BY <1>2, <1>6, <1>7
<1>9. /\ arena' \in [0 .. KernelPages - 1 -> [desc : Int, free_cnt : Int]]
      /\ \A q \in HeadPages : q # pg => arena'[q] = arena[q]
  <2>1. PICK a : a = arena[pg]
    OBVIOUS
  <2>2. PICK b : b = [a EXCEPT !.free_cnt = @ + 1]
    OBVIOUS
  <2>3. a \in [desc : Int, free_cnt : Int]
    BY <1>2, <1>6, <2>1
  <2>4. b \in [desc : Int, free_cnt : Int]
    BY <2>2, <2>3
  <2>5. arena' = [arena EXCEPT ![pg] = b]
    BY <2>1, <2>2
  <2>6. \A q \in HeadPages : q \in 0 .. KernelPages - 1
    BY PagesHeld
  <2> QED BY <1>6, <2>4, <2>5, <2>6
<1>10. PICK S : S = Extent(pg)
  OBVIOUS
<1>11. used_map' = [used_map EXCEPT !["kernel"] = @ \ S]
  <2>1. S = {pg} /\ pg .. pg + 1 - 1 = {pg}
    BY <1>2, <1>10 DEF Extent
  <2> QED BY <2>1 DEF palloc_free_multiple
<1>12. /\ (free_list' \in [DescSizes -> Seq(Nat)] /\ arena' \in [0 .. KernelPages - 1 -> [desc : Int, free_cnt : Int]]) => StoreTypes'
       /\ HeldInv' /\ PagesInv' /\ used_map'["user"] = used_map["user"]
       /\ HeadPages' = HeadPages \ {pg}
       /\ \A q : HeldAt(q)' <=> HeldAt(q) /\ q # x.p
  <2>1. \A q \in HeadPages : q # pg => arena'[q] = arena[q]
    BY <1>9
  <2> QED BY ONLY StoreInv, t \in MThreads, x \in held[t], held' = [held EXCEPT ![t] = @ \ {x}], pg = PageOf(x.p),
                  <1>5, <2>1, <1>10, <1>11, PagesGoBack, ZenonT(60)
<1>13. StoreTypes'
  BY <1>8, <1>9, <1>12
<1>14. FreeInv'
  <2>1. ASSUME NEW e \in DescSizes
        PROVE  /\ \A k, l \in DOMAIN free_list'[e] : free_list'[e][k] = free_list'[e][l] => k = l
               /\ \A b \in Elements(free_list'[e]) :
                    /\ PageOf(b) \in HeadPages' /\ arena'[PageOf(b)].desc = e /\ b \in BlocksOf(PageOf(b), e)
                    /\ ~HeldAt(b)'
    <3>1. \A k, l \in DOMAIN free_list'[e] : free_list'[e][k] = free_list'[e][l] => k = l
      <4>1. CASE e = d
        BY <1>7, <1>8, <4>1
      <4>2. CASE e # d
        <5>1. free_list'[e] = free_list[e]
          BY <1>8, <4>2
        <5> QED BY <1>6, <5>1
      <4> QED BY <4>1, <4>2
    <3>2. ASSUME NEW b \in Elements(free_list'[e])
          PROVE  /\ PageOf(b) \in HeadPages' /\ arena'[PageOf(b)].desc = e /\ b \in BlocksOf(PageOf(b), e)
                 /\ ~HeldAt(b)'
      <4>1. b \in Elements(free_list[e]) /\ PageOf(b) # pg
        <5>1. CASE e = d
          BY <1>7, <1>8, <5>1
        <5>2. CASE e # d
          <6>1. b \in Elements(free_list[e])
            BY <1>8, <5>2
          <6>2. arena[PageOf(b)].desc = e
            BY <6>1 DEF StoreInv, FreeInv
          <6> QED BY <5>2, <6>1, <6>2
        <5> QED BY <5>1, <5>2
      <4>2. PageOf(b) \in HeadPages /\ arena[PageOf(b)].desc = e /\ b \in BlocksOf(PageOf(b), e) /\ ~HeldAt(b)
        BY <4>1 DEF StoreInv, FreeInv
      <4> QED BY <1>9, <1>12, <4>1, <4>2
    <3> QED BY <3>1, <3>2
  <2> QED BY <2>1 DEF FreeInv, Elements
<1>15. ArenaInv'
  <2> SUFFICES ASSUME NEW q \in HeadPages', arena'[q].desc \in DescSizes
               PROVE  /\ \A b \in BlocksOf(q, arena'[q].desc) : b \in FreeOn(q)' \/ HeldAt(b)'
                      /\ arena'[q].free_cnt = Cardinality(FreeOn(q)')
    BY DEF ArenaInv
  <2>1. q \in HeadPages /\ q # pg /\ arena'[q] = arena[q] /\ arena[q].desc \in DescSizes
    BY <1>9, <1>12
  <2>2. FreeOn(q)' = FreeOn(q)
    <3>1. FreeOn(q)' = {b \in Elements(free_list'[arena[q].desc]) : PageOf(b) = q}
      BY <2>1 DEF FreeOn, Elements
    <3>2. FreeOn(q) = {b \in Elements(free_list[arena[q].desc]) : PageOf(b) = q}
      BY DEF FreeOn
    <3>3. CASE arena[q].desc = d
      BY <1>7, <1>8, <2>1, <3>1, <3>2, <3>3
    <3>4. CASE arena[q].desc # d
      BY <1>8, <2>1, <3>1, <3>2, <3>4
    <3> QED BY <3>3, <3>4
  <2>3. /\ \A b \in BlocksOf(q, arena[q].desc) : b \in FreeOn(q) \/ HeldAt(b)
        /\ arena[q].free_cnt = Cardinality(FreeOn(q))
    BY <2>1 DEF StoreInv, ArenaInv
  <2>4. \A b \in BlocksOf(q, arena[q].desc) : b # x.p
    BY <2>1, SmallBlock, PagesHeld
  <2> QED BY <1>12, <2>1, <2>2, <2>3, <2>4
<1> QED BY <1>12, <1>13, <1>14, <1>15 DEF StoreInv

\* free of a small block while others of its arena are held: it goes on the list.
LEMMA ListedAgain ==
  ASSUME StoreInv, NEW t \in MThreads, NEW x \in held[t], held' = [held EXCEPT ![t] = @ \ {x}],
         NEW pg, pg = PageOf(x.p), NEW d, d = arena[pg].desc, d # 0, ~(arena[pg].free_cnt + 1 >= blocks_per_arena(d)),
         arena' = [arena EXCEPT ![pg].free_cnt = @ + 1],
         free_list' = [free_list EXCEPT ![d] = <<x.p>> \o @], UNCHANGED used_map
  PROVE  StoreInv'
<1>1. x \in Live
  BY DEF Live
<1>2. /\ pg \in Nat /\ pg \in 0 .. KernelPages - 1 /\ pg \in HeadPages /\ d \in DescSizes
      /\ x.p \in Nat /\ x.p \in BlocksOf(pg, d) /\ x.p \notin FreeOn(pg)
      /\ IsFiniteSet(FreeOn(pg)) /\ arena[pg].free_cnt = Cardinality(FreeOn(pg)) /\ arena[pg].free_cnt \in Nat
      /\ Cardinality(FreeOn(pg) \cup {x.p}) = arena[pg].free_cnt + 1
      /\ IsFiniteSet(FreeOn(pg) \cup {x.p}) /\ FreeOn(pg) \cup {x.p} \subseteq BlocksOf(pg, d)
  BY <1>1, SmallHeld
<1>3. Cardinality(BlocksOf(pg, d)) = blocks_per_arena(d) /\ blocks_per_arena(d) \in Nat
  BY <1>2, BlockCount, Descriptor
<1>4. PICK b \in BlocksOf(pg, d) : b \notin FreeOn(pg) \cup {x.p}
  <2>1. FreeOn(pg) \cup {x.p} # BlocksOf(pg, d)
    <3> SUFFICES ASSUME FreeOn(pg) \cup {x.p} = BlocksOf(pg, d) PROVE FALSE
      OBVIOUS
    <3>1. arena[pg].free_cnt + 1 = blocks_per_arena(d) /\ arena[pg].free_cnt \in Nat
      BY <1>2, <1>3
    <3> QED BY <1>3, <3>1
  <2>2. FreeOn(pg) \cup {x.p} \subseteq BlocksOf(pg, d)
    BY <1>2
  <2> QED BY <2>1, <2>2
<1>5. /\ held' \in [MThreads -> SUBSET Record] /\ \A u \in MThreads : IsFiniteSet(held'[u])
      /\ x \in Live /\ Live' = Live \ {x} /\ HeadPages' \cup {PageOf(x.p)} = HeadPages
      /\ \A q : HeldAt(q)' <=> HeldAt(q) /\ q # x.p
      /\ \A y, z \in Live' : y.p = z.p => y = z
      /\ \A u, v \in MThreads : u # v => held'[u] \cap held'[v] = {}
  BY HeldShrinks
<1>6. HeadPages' = HeadPages
  <2>1. HeldAt(b)
    BY <1>2, <1>4 DEF StoreInv, ArenaInv
  <2>2. PICK y \in Live : y.p = b /\ y # x
    BY <1>4, <2>1 DEF HeldAt
  <2>3. PageOf(b) = pg
    BY <1>2, SmallBlock
  <2>4. pg \in HeadPages'
    BY <1>5, <2>2, <2>3 DEF HeadPages
  <2> QED BY <1>5, <2>4
<1>7. /\ free_list \in [DescSizes -> Seq(Nat)] /\ arena \in [0 .. KernelPages - 1 -> [desc : Int, free_cnt : Int]]
      /\ \A e \in DescSizes : free_list[e] \in Seq(Nat) /\ \A k, l \in DOMAIN free_list[e] : free_list[e][k] = free_list[e][l] => k = l
  BY DEF StoreInv, StoreTypes, FreeInv
<1>8. PICK list : list = <<x.p>> \o free_list[d]
  OBVIOUS
<1>9. /\ list \in Seq(Nat) /\ Elements(list) = Elements(free_list[d]) \cup {x.p}
      /\ \A i, j \in DOMAIN list : list[i] = list[j] => i = j
  <2>1. x.p \notin Elements(free_list[d])
    BY <1>2 DEF FreeOn
  <2>2. PICK s \in Seq(Nat) : s = free_list[d] /\ \A i, j \in DOMAIN s : s[i] = s[j] => i = j
    BY <1>2, <1>7
  <2>3. PICK p \in Nat : p = x.p
    BY <1>2
  <2>4. p \notin Elements(s)
    BY <2>1, <2>2, <2>3
  <2>5. list = <<p>> \o s
    BY <1>8, <2>2, <2>3
  <2>6. /\ <<p>> \o s \in Seq(Nat) /\ Elements(<<p>> \o s) = Elements(s) \cup {p}
        /\ \A i, j \in DOMAIN (<<p>> \o s) : (<<p>> \o s)[i] = (<<p>> \o s)[j] => i = j
    BY ONLY <2>2, <2>4, p \in Nat, s \in Seq(Nat), ConsOf
  <2>7. /\ list \in Seq(Nat) /\ Elements(list) = Elements(s) \cup {p}
        /\ \A i, j \in DOMAIN list : list[i] = list[j] => i = j
    BY ONLY <2>5, <2>6, Zenon
  <2> QED BY ONLY <2>2, <2>3, <2>7, Zenon
<1>10. free_list' \in [DescSizes -> Seq(Nat)] /\ free_list'[d] = list /\ \A e \in DescSizes : e # d => free_list'[e] = free_list[e]
  <2>1. free_list' = [free_list EXCEPT ![d] = list]
    BY <1>8
  <2>2. d \in DescSizes /\ list \in Seq(Nat) /\ free_list \in [DescSizes -> Seq(Nat)]
    BY <1>2, <1>7, <1>9
  <2> QED BY ONLY <2>1, <2>2
<1>11. /\ arena' \in [0 .. KernelPages - 1 -> [desc : Int, free_cnt : Int]]
       /\ arena'[pg].free_cnt = arena[pg].free_cnt + 1 /\ arena'[pg].desc = d
       /\ \A q \in HeadPages : arena'[q].desc = arena[q].desc /\ (q # pg => arena'[q] = arena[q])
  <2>1. PICK a : a = arena[pg]
    OBVIOUS
  <2>2. PICK c : c = [a EXCEPT !.free_cnt = @ + 1]
    OBVIOUS
  <2>3. a \in [desc : Int, free_cnt : Int]
    BY <1>2, <1>7, <2>1
  <2>4. c \in [desc : Int, free_cnt : Int] /\ c.desc = a.desc /\ c.free_cnt = a.free_cnt + 1
    BY <2>2, <2>3
  <2>5. arena' = [arena EXCEPT ![pg] = c]
    BY <2>1, <2>2
  <2>6. \A q \in HeadPages : q \in 0 .. KernelPages - 1
    BY PagesHeld
  <2> QED BY <1>2, <1>7, <2>1, <2>4, <2>5, <2>6
<1>12. StoreTypes'
  BY <1>5, <1>10, <1>11 DEF StoreInv, StoreTypes
<1>13. ASSUME NEW q, Placed(q), PageOf(q) \in HeadPages
       PROVE  Placed(q)' /\ block_size(q)' = block_size(q) /\ Extent(PageOf(q))' = Extent(PageOf(q))
  <2>1. arena'[PageOf(q)].desc = arena[PageOf(q)].desc
    BY <1>11, <1>13
  <2>2. arena[PageOf(q)].desc = 0 => arena'[PageOf(q)] = arena[PageOf(q)]
    BY <1>11, <1>13
  <2> QED BY <1>13, <2>1, <2>2, StaysPlaced
<1>14. HeldInv'
  <2>1. ASSUME NEW y \in Live' PROVE Placed(y.p)' /\ y.size >= 1 /\ y.size <= block_size(y.p)'
    <3>1. y \in Live
      BY <1>5
    <3>2. Placed(y.p) /\ y.size >= 1 /\ y.size <= block_size(y.p) /\ PageOf(y.p) \in HeadPages
      BY <3>1, Blocks DEF StoreInv, HeldInv
    <3> QED BY <1>13, <3>2
  <2> QED BY <1>5, <2>1 DEF HeldInv
<1>15. FreeInv'
  <2>1. ASSUME NEW e \in DescSizes
        PROVE  /\ \A k, l \in DOMAIN free_list'[e] : free_list'[e][k] = free_list'[e][l] => k = l
               /\ \A c \in Elements(free_list'[e]) :
                    /\ PageOf(c) \in HeadPages' /\ arena'[PageOf(c)].desc = e /\ c \in BlocksOf(PageOf(c), e)
                    /\ ~HeldAt(c)'
    <3>1. \A k, l \in DOMAIN free_list'[e] : free_list'[e][k] = free_list'[e][l] => k = l
      <4>1. CASE e = d
        <5>1. free_list'[e] = list
          BY ONLY <1>10, <4>1, Zenon
        <5> QED BY ONLY <1>9, <5>1, Zenon
      <4>2. CASE e # d
        <5>1. free_list'[e] = free_list[e]
          BY ONLY e \in DescSizes, <1>10, <4>2, Zenon
        <5>2. \A k, l \in DOMAIN free_list[e] : free_list[e][k] = free_list[e][l] => k = l
          BY ONLY e \in DescSizes, <1>7, Zenon
        <5> QED BY ONLY <5>1, <5>2, Zenon
      <4> QED BY <4>1, <4>2
    <3>2. ASSUME NEW c \in Elements(free_list'[e])
          PROVE  /\ PageOf(c) \in HeadPages' /\ arena'[PageOf(c)].desc = e /\ c \in BlocksOf(PageOf(c), e)
                 /\ ~HeldAt(c)'
      <4>1. CASE c \in Elements(free_list[e])
        <5>1. PageOf(c) \in HeadPages /\ arena[PageOf(c)].desc = e /\ c \in BlocksOf(PageOf(c), e) /\ ~HeldAt(c)
          BY <4>1 DEF StoreInv, FreeInv
        <5> QED BY <1>5, <1>6, <1>11, <5>1
      <4>2. CASE e = d /\ c = x.p
        BY <1>2, <1>5, <1>6, <1>11, <4>2
      <4>3. e # d => free_list'[e] = free_list[e]
        BY <1>10
      <4> QED BY <1>9, <1>10, <4>1, <4>2, <4>3
    <3> QED BY <3>1, <3>2
  <2> QED BY <2>1 DEF FreeInv, Elements
<1>16. ArenaInv'
  <2> SUFFICES ASSUME NEW q \in HeadPages', arena'[q].desc \in DescSizes
               PROVE  /\ \A c \in BlocksOf(q, arena'[q].desc) : c \in FreeOn(q)' \/ HeldAt(c)'
                      /\ arena'[q].free_cnt = Cardinality(FreeOn(q)')
    BY DEF ArenaInv
  <2>1. q \in HeadPages /\ arena'[q].desc = arena[q].desc /\ (q # pg => arena'[q] = arena[q]) /\ arena[q].desc \in DescSizes
    BY <1>6, <1>11
  <2>2. FreeOn(q)' = {c \in Elements(free_list'[arena[q].desc]) : PageOf(c) = q}
    BY <2>1 DEF FreeOn, Elements
  <2>3. FreeOn(q) = {c \in Elements(free_list[arena[q].desc]) : PageOf(c) = q}
    BY DEF FreeOn
  <2>4. /\ \A c \in BlocksOf(q, arena[q].desc) : c \in FreeOn(q) \/ HeldAt(c)
        /\ arena[q].free_cnt = Cardinality(FreeOn(q))
    BY <2>1 DEF StoreInv, ArenaInv
  <2>5. CASE q = pg
    <3>1. FreeOn(q)' = FreeOn(q) \cup {x.p}
      BY <1>9, <1>10, <2>2, <2>3, <2>5
    <3> QED BY <1>2, <1>5, <1>11, <2>1, <2>4, <2>5, <3>1
  <2>6. CASE q # pg
    <3>1. FreeOn(q)' = FreeOn(q)
      <4>1. CASE arena[q].desc = d
        <5>1. free_list'[arena[q].desc] = list /\ Elements(list) = Elements(free_list[arena[q].desc]) \cup {x.p}
          BY <1>9, <1>10, <4>1
        <5>2. PageOf(x.p) # q
          BY <2>6
        <5> QED BY <2>2, <2>3, <5>1, <5>2
      <4>2. CASE arena[q].desc # d
        BY <1>10, <2>1, <2>2, <2>3, <4>2
      <4> QED BY <4>1, <4>2
    <3>2. \A c \in BlocksOf(q, arena[q].desc) : c # x.p
      BY <2>1, <2>6, SmallBlock, PagesHeld
    <3> QED BY <1>5, <1>11, <2>1, <2>4, <2>6, <3>1, <3>2
  <2> QED BY <2>5, <2>6
<1>17. PagesInv'
  <2>1. ASSUME NEW q \in HeadPages PROVE Extent(q)' = Extent(q)
    <3>1. PICK y \in Live : PageOf(y.p) = q /\ Placed(y.p)
      BY Blocks DEF HeadPages
    <3> QED BY <1>13, <3>1
  <2> QED BY <1>6, <2>1 DEF StoreInv, PagesInv
<1> QED BY <1>12, <1>14, <1>15, <1>16, <1>17 DEF StoreInv

\* free, whatever the block.
LEMMA Releases ==
  ASSUME StoreInv, NEW t \in MThreads, NEW x \in held[t], free(x.p), held' = [held EXCEPT ![t] = @ \ {x}]
  PROVE  StoreInv' /\ used_map'["user"] = used_map["user"]
<1>1. PICK pg : pg = PageOf(x.p)
  OBVIOUS
<1>2. PICK d : d = arena[pg].desc
  OBVIOUS
<1>3. IF d = 0 THEN palloc_free_multiple("kernel", pg, arena[pg].free_cnt) /\ UNCHANGED <<arena, free_list>>
      ELSE /\ arena' = [arena EXCEPT ![pg].free_cnt = @ + 1]
           /\ IF arena[pg].free_cnt + 1 >= blocks_per_arena(d)
              THEN /\ \E rest \in Without(free_list[d], pg) : free_list' = [free_list EXCEPT ![d] = rest]
                   /\ palloc_free_multiple("kernel", pg, 1)
              ELSE free_list' = [free_list EXCEPT ![d] = <<x.p>> \o @] /\ UNCHANGED used_map
  BY <1>1, <1>2, Zenon DEF free
<1>4. CASE d = 0
  BY <1>1, <1>2, <1>3, <1>4, BigFreed
<1>5. CASE d # 0 /\ arena[pg].free_cnt + 1 >= blocks_per_arena(d)
  <2>1. PICK rest \in Without(free_list[d], pg) : free_list' = [free_list EXCEPT ![d] = rest]
    BY <1>3, <1>5
  <2>2. arena' = [arena EXCEPT ![pg].free_cnt = @ + 1] /\ palloc_free_multiple("kernel", pg, 1)
    BY <1>3, <1>5
  <2> QED BY <1>1, <1>2, <1>5, <2>1, <2>2, LastFreed, ZenonT(60)
<1>6. CASE d # 0 /\ ~(arena[pg].free_cnt + 1 >= blocks_per_arena(d))
  <2>1. /\ arena' = [arena EXCEPT ![pg].free_cnt = @ + 1]
        /\ free_list' = [free_list EXCEPT ![d] = <<x.p>> \o @] /\ UNCHANGED used_map
    BY <1>3, <1>6
  <2>2. StoreInv'
    BY <1>1, <1>2, <1>6, <2>1, ListedAgain, ZenonT(60)
  <2> QED BY <2>1, <2>2
<1> QED BY <1>4, <1>5, <1>6

-----------------------------------------------------------------------------
(* The invariant, and the theorem.                                         *)

LEMMA HeapInit == MeInit => HeapInv
<1> SUFFICES ASSUME MeInit PROVE HeapInv
  OBVIOUS
<1>1. used_map = [pool \in {"kernel", "user"} |-> {}]
  BY DEF MeInit, Pools
<1>2. Live = {} /\ HeadPages = {}
  BY DEF MeInit, Live, HeadPages
<1>3. \A d \in DescSizes : free_list[d] = <<>> /\ DOMAIN free_list[d] = {} /\ Elements(free_list[d]) = {}
  BY DEF MeInit, Elements
<1>4. StoreTypes
  <2>1. used_map = [pool \in {"kernel", "user"} |-> used_map[pool]] /\ used_map["kernel"] = {}
    BY <1>1
  <2>2. NoArena \in [desc : Int, free_cnt : Int]
    BY DEF NoArena
  <2>3. arena \in [0 .. KernelPages - 1 -> [desc : Int, free_cnt : Int]]
    BY <2>2 DEF MeInit
  <2>4. free_list \in [DescSizes -> Seq(Nat)]
    BY DEF MeInit
  <2>5. held \in [MThreads -> SUBSET Record] /\ \A t \in MThreads : IsFiniteSet(held[t])
    BY FS_EmptySet DEF MeInit
  <2> QED BY <2>1, <2>3, <2>4, <2>5 DEF StoreTypes
<1>5. HeldInv
  BY <1>2 DEF HeldInv, MeInit
<1>6. FreeInv
  BY <1>3 DEF FreeInv
<1>7. ArenaInv /\ PagesInv
  BY <1>1, <1>2 DEF ArenaInv, PagesInv
<1>8. JobsInv
  <2>1. Idling \in JobType /\ Idling.step = "idle"
    BY DEF Idling, JobType
  <2>2. \A t \in MThreads : job[t] = Idling
    BY DEF MeInit
  <2>3. Pagers = {}
    BY <2>1, <2>2 DEF Pagers
  <2> QED BY <1>1, <2>1, <2>2, <2>3 DEF JobsInv, MeInit
<1> QED BY <1>4, <1>5, <1>6, <1>7, <1>8 DEF HeapInv, StoreInv

\* What the jobs need of a step on the heap: the threads' own blocks stay.
LEMMA JobsKept ==
  ASSUME JobsInv, used_map'["user"] = used_map["user"], NEW t \in MThreads,
         \A u \in MThreads : u # t => held[u] \subseteq held'[u],
         NEW j \in JobType, job' = [job EXCEPT ![t] = j], job[t].step # "page", j.step # "page",
         j.step = "copied" => j.old \in held'[t]
  PROVE  JobsInv'
<1>1. job \in [MThreads -> JobType]
  BY DEF JobsInv
<1>2. job' \in [MThreads -> JobType] /\ job'[t] = j /\ \A u \in MThreads : u # t => job'[u] = job[u]
  BY <1>1
<1>3. Pagers' = Pagers /\ t \notin Pagers /\ \A u \in Pagers : job'[u] = job[u]
  BY <1>2 DEF Pagers
<1>4. \A u \in MThreads : job'[u].step = "copied" => job'[u].old \in held'[u]
  BY <1>2 DEF JobsInv
<1> QED BY <1>2, <1>3, <1>4 DEF JobsInv

\* A step that leaves the jobs alone, and takes no block of a job away.
LEMMA JobsSame ==
  ASSUME JobsInv, used_map'["user"] = used_map["user"], UNCHANGED job,
         \A u \in MThreads : job[u].step = "copied" => held[u] \subseteq held'[u]
  PROVE  JobsInv'
  BY DEF JobsInv, Pagers

LEMMA IdleJob == Idling \in JobType /\ Idling.step # "page" /\ Idling.step # "copied"
  BY DEF Idling, JobType

LEMMA HeapStep ==
  ASSUME NoWrap, HeapInv, [MeNext]_MeVars
  PROVE  HeapInv'
<1>1. StoreInv /\ JobsInv
  BY DEF HeapInv
<1>2. held \in [MThreads -> SUBSET Record] /\ job \in [MThreads -> JobType] /\ used_map = [pool \in {"kernel", "user"} |-> used_map[pool]]
  BY <1>1 DEF StoreInv, StoreTypes, JobsInv
<1>3. \A size \in MSizes : size \in Nat /\ size + ArenaBytes < WordMod
  BY MeAssumption DEF NoWrap
<1>4. CASE UNCHANGED MeVars
  <2>1. StoreInv'
    BY <1>1, <1>2, <1>4, StoreKept DEF MeVars
  <2>2. JobsInv'
    BY <1>1, <1>4, JobsSame DEF MeVars
  <2> QED BY <2>1, <2>2 DEF HeapInv
<1>5. ASSUME NEW t \in MThreads, NEW size \in MSizes, Malloc(t, size) PROVE HeapInv'
  <2>1. PICK p \in Addresses : malloc(size, p) /\ Hold(t, p, size)
    BY <1>5 DEF Malloc
  <2>2. /\ StoreInv' /\ used_map'["user"] = used_map["user"]
        /\ held[t] \subseteq held'[t] /\ \A u \in MThreads : u # t => held'[u] = held[u]
    BY <1>1, <1>3, <2>1, Allocates
  <2>3. JobsInv'
    BY <1>1, <1>5, <2>2, JobsSame DEF Malloc
  <2> QED BY <2>2, <2>3 DEF HeapInv
<1>6. ASSUME NEW t \in MThreads, NEW c \in Callocs, calloc(t, c[1], c[2]) PROVE HeapInv'
  <2>1. PICK m \in Nat, n \in Nat : m = c[1] /\ n = c[2]
    BY MeAssumption
  <2>2. PICK size : size = (m * n) % WordMod
    OBVIOUS
  <2>3. size >= m /\ size >= n /\ UNCHANGED job
    BY <1>6, <2>1, <2>2 DEF calloc
  <2>4. size = m * n /\ size + ArenaBytes < WordMod
    BY <2>1, <2>2, <2>3 DEF NoWrap
  <2>5. size \in Nat
    BY <2>1, <2>4
  <2>6. PICK p \in Addresses : malloc(size, p) /\ Hold(t, p, m * n)
    BY <1>6, <2>1, <2>2 DEF calloc
  <2>7. malloc(size, p) /\ Hold(t, p, size)
    BY <2>4, <2>6
  <2>8. /\ StoreInv' /\ used_map'["user"] = used_map["user"]
        /\ held[t] \subseteq held'[t] /\ \A u \in MThreads : u # t => held'[u] = held[u]
    BY <1>1, <2>4, <2>5, <2>7, Allocates
  <2>9. JobsInv'
    BY <1>1, <2>3, <2>8, JobsSame
  <2> QED BY <2>8, <2>9 DEF HeapInv
<1>7. ASSUME NEW t \in MThreads, Free(t) PROVE HeapInv'
  <2>1. PICK x \in held[t] : free(x.p) /\ held' = [held EXCEPT ![t] = @ \ {x}]
    BY <1>7 DEF Free
  <2>2. StoreInv' /\ used_map'["user"] = used_map["user"]
    BY <1>1, <2>1, Releases
  <2>3. job[t].step # "copied" /\ UNCHANGED job
    BY <1>7, IdleJob DEF Free, Ready
  <2>4. \A u \in MThreads : u # t => held'[u] = held[u]
    BY <1>2, <2>1
  <2>5. JobsInv'
    BY <1>1, <2>2, <2>3, <2>4, JobsSame
  <2> QED BY <2>2, <2>5 DEF HeapInv
<1>8. ASSUME NEW t \in MThreads, NEW size \in MSizes, ReallocNew(t, size) PROVE HeapInv'
  <2>1. PICK x \in held[t], p \in Addresses :
          /\ malloc(size, p) /\ Hold(t, p, size)
          /\ job' = [job EXCEPT ![t] = IF p = NULLP THEN @ ELSE [step |-> "copied", old |-> x, new |-> p]]
    BY <1>8 DEF ReallocNew
  <2>2. /\ StoreInv' /\ used_map'["user"] = used_map["user"] /\ p \in Nat \cup {NULLP}
        /\ held[t] \subseteq held'[t] /\ \A u \in MThreads : u # t => held'[u] = held[u]
    BY <1>1, <1>3, <2>1, Allocates
  <2>3. job[t] = Idling
    BY <1>8 DEF ReallocNew, MayHold, Ready
  <2>4. PICK j : j = IF p = NULLP THEN job[t] ELSE [step |-> "copied", old |-> x, new |-> p]
    OBVIOUS
  <2>5. job' = [job EXCEPT ![t] = j]
    BY <2>1, <2>4
  <2>6. j \in JobType /\ j.step # "page" /\ (j.step = "copied" => j.old \in held'[t])
    <3>1. CASE p = NULLP
      BY <2>3, <2>4, <3>1, IdleJob
    <3>2. CASE p # NULLP
      <4>1. x \in Record /\ p \in Nat
        BY <1>2, <2>2, <3>2
      <4>2. j = [step |-> "copied", old |-> x, new |-> p]
        BY <2>4, <3>2
      <4>3. x \in [p : Nat \cup {NULLP}, size : Nat]
        BY <4>1 DEF Record
      <4> QED BY <2>2, <4>1, <4>2, <4>3 DEF JobType
    <3> QED BY <3>1, <3>2
  <2>7. JobsInv'
    BY <1>1, <2>2, <2>3, <2>5, <2>6, IdleJob, JobsKept
  <2> QED BY <2>2, <2>7 DEF HeapInv
<1>9. ASSUME NEW t \in MThreads, ReallocFree(t) PROVE HeapInv'
  <2>1. PICK x : x = job[t].old
    OBVIOUS
  <2>2. /\ job[t].step = "copied" /\ job' = [job EXCEPT ![t] = Idling]
        /\ free(x.p) /\ held' = [held EXCEPT ![t] = @ \ {x}]
    BY <1>9, <2>1 DEF ReallocFree
  <2>3. x \in held[t]
    BY <1>1, <2>1, <2>2 DEF JobsInv
  <2>4. StoreInv' /\ used_map'["user"] = used_map["user"]
    BY <1>1, <2>2, <2>3, Releases
  <2>5. \A u \in MThreads : u # t => held[u] \subseteq held'[u]
    BY <1>2, <2>2
  <2>6. job[t].step # "page"
    BY <2>2
  <2>7. JobsInv'
    BY <1>1, <2>2, <2>4, <2>5, <2>6, IdleJob, JobsKept
  <2> QED BY <2>4, <2>7 DEF HeapInv
<1>10. ASSUME NEW t \in MThreads, palloc_get_page(t) PROVE HeapInv'
  <2>1. job[t] = Idling /\ UNCHANGED <<arena, free_list, held>>
    BY <1>10 DEF palloc_get_page, Ready
  <2>2. CASE UNCHANGED <<used_map, job>>
    <3>1. StoreInv'
      BY <1>1, <1>2, <2>1, <2>2, StoreKept
    <3>2. JobsInv'
      BY <1>1, <2>1, <2>2, JobsSame
    <3> QED BY <3>1, <3>2 DEF HeapInv
  <2>3. CASE \E i \in 0 .. UserPages - 1 :
               /\ palloc_get_multiple("user", i, 1)
               /\ job' = [job EXCEPT ![t] = [step |-> "page", old |-> [p |-> i, size |-> 0], new |-> NULLP]]
    <3>1. PICK i \in 0 .. UserPages - 1 :
               /\ palloc_get_multiple("user", i, 1)
               /\ job' = [job EXCEPT ![t] = [step |-> "page", old |-> [p |-> i, size |-> 0], new |-> NULLP]]
      BY <2>3
    <3>2. PICK j : j = [step |-> "page", old |-> [p |-> i, size |-> 0], new |-> NULLP]
      OBVIOUS
    <3>3. i \in Nat /\ i .. i + 1 - 1 = {i}
      BY PoolSizes
    <3>4. j \in JobType /\ j.step = "page" /\ j.old.p = i
      BY <3>2, <3>3 DEF JobType
    <3>5. i \notin used_map["user"]
      <4>1. Pools["user"] \in Int
        BY <1>1, PagesOfPool, PoolSizes DEF StoreInv
      <4>2. i \in Groups("user", 1)
        BY <3>1, <4>1, GroupFound
      <4> QED BY <3>3, <4>2 DEF Groups
    <3>6. used_map' = [used_map EXCEPT !["user"] = @ \cup {i}]
      BY <3>1, <3>3 DEF palloc_get_multiple
    <3>7. /\ used_map'["user"] = used_map["user"] \cup {i} /\ used_map'["kernel"] = used_map["kernel"]
          /\ used_map' = [pool \in {"kernel", "user"} |-> used_map'[pool]]
      <4>1. DOMAIN used_map = {"kernel", "user"}
        BY <1>2
      <4> QED BY <1>2, <3>6, <4>1
    <3>8. StoreInv'
      BY <1>1, <2>1, <3>7, StoreKept
    <3>9. job' = [job EXCEPT ![t] = j]
      BY <3>1, <3>2
    <3>10. job' \in [MThreads -> JobType] /\ job'[t] = j /\ \A u \in MThreads : u # t => job'[u] = job[u]
      BY <1>2, <3>4, <3>9
    <3>11. Pagers' = Pagers \cup {t} /\ t \notin Pagers
      BY <2>1, <3>4, <3>10, IdleJob DEF Pagers
    <3>12. \A u \in Pagers : job'[u] = job[u] /\ job[u].old.p \in used_map["user"]
      BY <1>1, <3>10, <3>11 DEF JobsInv, Pagers
    <3>13. used_map'["user"] = {job'[u].old.p : u \in Pagers'}
      BY <1>1, <3>4, <3>7, <3>10, <3>11, <3>12 DEF JobsInv
    <3>14. \A u, v \in Pagers' : job'[u].old.p = job'[v].old.p => u = v
      <4>1. \A u, v \in Pagers : job[u].old.p = job[v].old.p => u = v
        BY <1>1 DEF JobsInv
      <4> QED BY <3>4, <3>5, <3>10, <3>11, <3>12, <4>1
    <3>15. \A u \in MThreads : job'[u].step = "copied" => job'[u].old \in held'[u]
      BY <1>1, <2>1, <3>4, <3>10 DEF JobsInv
    <3>16. used_map'["user"] \subseteq 0 .. UserPages - 1
      BY <1>1, <3>7 DEF JobsInv
    <3> QED BY <3>8, <3>10, <3>13, <3>14, <3>15, <3>16 DEF HeapInv, JobsInv
  <2> QED BY <1>10, <2>2, <2>3 DEF palloc_get_page
<1>11. ASSUME NEW t \in MThreads, palloc_free_page(t) PROVE HeapInv'
  <2>1. /\ job[t].step = "page" /\ palloc_free_multiple("user", job[t].old.p, 1)
        /\ job' = [job EXCEPT ![t] = Idling] /\ UNCHANGED <<arena, free_list, held>>
    BY <1>11 DEF palloc_free_page
  <2>2. t \in Pagers
    BY <2>1 DEF Pagers
  <2>3. PICK i : i = job[t].old.p
    OBVIOUS
  <2>4. i \in Nat /\ i .. i + 1 - 1 = {i}
    <3>1. i \in used_map["user"] /\ used_map["user"] \subseteq 0 .. UserPages - 1
      BY <1>1, <2>2, <2>3 DEF JobsInv
    <3> QED BY <3>1, PoolSizes
  <2>5. used_map' = [used_map EXCEPT !["user"] = @ \ {i}]
    BY <2>1, <2>3, <2>4 DEF palloc_free_multiple
  <2>6. /\ used_map'["user"] = used_map["user"] \ {i} /\ used_map'["kernel"] = used_map["kernel"]
        /\ used_map' = [pool \in {"kernel", "user"} |-> used_map'[pool]]
    <3>1. DOMAIN used_map = {"kernel", "user"}
      BY <1>2
    <3> QED BY <1>2, <2>5, <3>1
  <2>7. StoreInv'
    BY <1>1, <2>1, <2>6, StoreKept
  <2>8. job' \in [MThreads -> JobType] /\ job'[t] = Idling /\ \A u \in MThreads : u # t => job'[u] = job[u]
    BY <1>2, <2>1, IdleJob
  <2>9. Pagers' = Pagers \ {t} /\ \A u \in Pagers' : job'[u] = job[u]
    BY <2>8, IdleJob DEF Pagers
  <2>10. used_map["user"] = {job[u].old.p : u \in Pagers} /\ \A u, v \in Pagers : job[u].old.p = job[v].old.p => u = v
    BY <1>1 DEF JobsInv
  <2>11. used_map'["user"] = {job'[u].old.p : u \in Pagers'}
    BY <2>2, <2>3, <2>6, <2>9, <2>10
  <2>12. \A u, v \in Pagers' : job'[u].old.p = job'[v].old.p => u = v
    BY <2>9, <2>10
  <2>13. \A u \in MThreads : job'[u].step = "copied" => job'[u].old \in held'[u]
    BY <1>1, <2>1, <2>8, IdleJob DEF JobsInv
  <2>14. used_map'["user"] \subseteq 0 .. UserPages - 1
    BY <1>1, <2>6 DEF JobsInv
  <2> QED BY <2>7, <2>8, <2>11, <2>12, <2>13, <2>14 DEF HeapInv, JobsInv
<1> QED BY <1>4, <1>5, <1>6, <1>7, <1>8, <1>9, <1>10, <1>11 DEF MeNext

\* Blocks and pages are handed out once and come back, however the threads
\* allocate and free, as long as no size wraps around (malloc.c, palloc.c).
THEOREM HeapCorrect ==
  ASSUME NoWrap
  PROVE  MeSpec => []HeapSound
<1>1. MeInit => HeapInv
  BY HeapInit
<1>2. HeapInv /\ [MeNext]_MeVars => HeapInv'
  BY HeapStep
<1>3. HeapInv => HeapSound
  BY BlocksDisjointNow, PagesComeBackNow DEF HeapInv, HeapSound
<1> QED BY <1>1, <1>2, <1>3, PTL DEF MeSpec

=============================================================================
