------------------------- MODULE InodeRwLockProofs -------------------------
(***************************************************************************)
(* Proofs about inode_read_at and inode_write_at, for any number of        *)
(* threads, any file and any calls.  The invariant has a part about the    *)
(* rw_lock, which says who may be in the file, and a part about the data,  *)
(* which follows from it.                                                  *)
(***************************************************************************)
EXTENDS InodeRwLock, FiniteSetTheorems, TLAPS

-----------------------------------------------------------------------------
\* chunk_size is a number and never more than what is left of the call.
LEMMA ChunkFacts ==
  ASSUME TypeOK, NEW t \in Thread
  PROVE  ChunkSize(t) \in Int /\ ChunkSize(t) <= asked[t] - done[t]
<1> DEFINE offset == from[t] + done[t]
           sectorLeft == PerSector - (offset % PerSector)
           inodeLeft == Length - offset
<1>1. /\ from[t] \in Nat /\ done[t] \in Nat /\ asked[t] \in Nat
      /\ PerSector \in Nat \ {0} /\ Length \in Nat
  BY InodeAssumption DEF TypeOK
<1>2. offset \in Nat BY <1>1
<1>3. offset % PerSector \in Nat BY <1>1, <1>2
<1>4. sectorLeft \in Int /\ inodeLeft \in Int BY <1>1, <1>2, <1>3
<1> HIDE DEF sectorLeft, inodeLeft
<1> QED BY <1>1, <1>4 DEF ChunkSize, offset, sectorLeft, inodeLeft

\* The set of threads that are reading is finite, so that it can be counted.
LEMMA ReadersFinite == IsFiniteSet(Readers)
BY InodeAssumption, FS_Subset DEF Readers

-----------------------------------------------------------------------------
(* Type correctness.                                                       *)

\* The new inode that inode_open leaves has the types.
LEMMA TypeInit == Init => TypeOK
BY DEF Init, TypeOK, Empty

\* Every step of a call to inode_read_at or inode_write_at preserves them; that
\* WriteBack puts no unread chunk on the disk needs BounceFresh.
LEMMA TypeStep == TypeOK /\ BounceFresh /\ WithinAsked /\ [Next]_vars => TypeOK'
<1> SUFFICES ASSUME TypeOK, BounceFresh, WithinAsked, [Next]_vars PROVE TypeOK' OBVIOUS
<1>e. Empty \in [Chunk -> Thread \cup {Nobody, Unread}] BY DEF Empty
<1>1. CASE UNCHANGED vars BY <1>1 DEF TypeOK, vars, locks, call
<1>2. ASSUME NEW t \in Thread, Read(t) \/ Write(t) PROVE TypeOK'
  <2>1. \A a \in Call : a[1] \in Nat /\ a[2] \in Nat BY InodeAssumption
  <2> QED BY <1>2, <2>1 DEF Read, Write, Start, Goto, TypeOK, locks
<1>3. ASSUME NEW t \in Thread, ReadLock(t) \/ ReadEnd(t) \/ ReadRelock(t) PROVE TypeOK'
  BY <1>3 DEF ReadLock, ReadEnd, ReadRelock, Goto, TypeOK, locks, call
<1>4. ASSUME NEW t \in Thread, FirstReader(t) \/ WriteDown(t) PROVE TypeOK'
  <2>1. /\ writeSema' \in Nat /\ readers' \in Int
        /\ lockHolder' \in Thread \cup {Nobody}
    BY <1>4 DEF FirstReader, WriteDown, TypeOK
  <2>2. pc' \in [Thread -> {"idle", "enter", "test", "read", "leave", "count", "down", "write", "back"}]
    BY <1>4 DEF FirstReader, WriteDown, Goto, TypeOK
  <2>3. UNCHANGED <<call, disk>> BY <1>4 DEF FirstReader, WriteDown
  <2> QED BY <2>1, <2>2, <2>3 DEF TypeOK, call
<1>5. ASSUME NEW t \in Thread, LastReader(t) \/ WriteEnd(t) PROVE TypeOK'
  <2>1. /\ writeSema' \in Nat /\ readers' \in Int
        /\ lockHolder' \in Thread \cup {Nobody}
        /\ UNCHANGED disk
        /\ Return(t)
    BY <1>5 DEF LastReader, WriteEnd, TypeOK
  <2>2. pc' \in [Thread -> {"idle", "enter", "test", "read", "leave", "count", "down", "write", "back"}]
    BY <2>1 DEF Return, Goto, TypeOK
  <2>3. from' \in [Thread -> Nat] /\ asked' \in [Thread -> Nat] /\ done' \in [Thread -> Nat]
    BY <2>1 DEF Return, TypeOK
  <2>4. /\ buffer' \in [Thread -> [Chunk -> Thread \cup {Nobody, Unread}]]
        /\ bounce' \in [Thread -> [Chunk -> Thread \cup {Nobody, Unread}]]
    BY <2>1, <1>e DEF Return, TypeOK
  <2> QED BY <2>1, <2>2, <2>3, <2>4 DEF TypeOK
<1>6. ASSUME NEW t \in Thread, ReadSector(t) PROVE TypeOK'
  <2>1. done' \in [Thread -> Nat] BY <1>6, ChunkFacts DEF ReadSector, Advance, TypeOK
  <2>2. buffer' \in [Thread -> [Chunk -> Thread \cup {Nobody, Unread}]] BY <1>6 DEF ReadSector, TypeOK
  <2> QED BY <1>6, <2>1, <2>2 DEF ReadSector, TypeOK, locks
<1>7. ASSUME NEW t \in Thread, WriteSector(t) PROVE TypeOK'
  <2>1. done' \in [Thread -> Nat] BY <1>7, ChunkFacts DEF WriteSector, Advance, TypeOK
  <2>2. disk' \in [Chunk -> Thread \cup {Nobody}] BY <1>7 DEF WriteSector, TypeOK
  <2> QED BY <1>7, <2>1, <2>2 DEF WriteSector, TypeOK, locks
<1>8. ASSUME NEW t \in Thread, FetchSector(t) PROVE TypeOK'
  <2>1. bounce' \in [Thread -> [Chunk -> Thread \cup {Nobody, Unread}]]
    BY <1>8 DEF FetchSector, TypeOK
  <2> QED BY <1>8, <2>1 DEF FetchSector, Goto, TypeOK, locks
<1>9. ASSUME NEW t \in Thread, WriteBack(t) PROVE TypeOK'
  <2>1. pc[t] = "back" /\ ChunkSize(t) > 0 BY <1>9 DEF WriteBack, WithinAsked
  <2>2. done' \in [Thread -> Nat] BY <1>9, <2>1, ChunkFacts DEF WriteBack, Advance, TypeOK
  <2>3. \A c \in SectorOf(t) : bounce[t][c] = disk[c] BY <2>1 DEF BounceFresh
  <2>4. disk' \in [Chunk -> Thread \cup {Nobody}] BY <1>9, <2>3 DEF WriteBack, TypeOK
  <2>5. bounce' \in [Thread -> [Chunk -> Thread \cup {Nobody, Unread}]] BY <1>9, <1>e DEF WriteBack, TypeOK
  <2> QED BY <1>9, <2>2, <2>4, <2>5 DEF WriteBack, Goto, TypeOK, locks
<1> QED BY <1>1, <1>2, <1>3, <1>4, <1>5, <1>6, <1>7, <1>8, <1>9 DEF Next, Running

-----------------------------------------------------------------------------
(* The rw_lock.                                                            *)

RwLockInv == LockHeld /\ ReadersCounted /\ SemaOwned

\* A thread that joins the readers makes one more of them, one that leaves
\* them one less.
LEMMA ReaderCount ==
  ASSUME TypeOK, NEW t \in Thread
  PROVE  /\ (Cardinality(Readers) = 0) <=> (Readers = {})
         /\ t \notin Readers => Cardinality(Readers \cup {t}) = Cardinality(Readers) + 1
         /\ t \in Readers => Cardinality(Readers \ {t}) = Cardinality(Readers) - 1
         /\ Cardinality(Readers) \in Nat
<1>1. IsFiniteSet(Readers) BY ReadersFinite
<1> QED BY <1>1, FS_EmptySet, FS_AddElement, FS_RemoveElement, FS_CardinalityType

\* Every step of the two functions keeps the lock, the count and the semaphore
\* in agreement with where the threads are.
LEMMA RwLockStep == TypeOK /\ RwLockInv /\ [Next]_vars => RwLockInv'
<1> SUFFICES ASSUME TypeOK, RwLockInv, [Next]_vars PROVE RwLockInv' OBVIOUS
<1> USE InodeAssumption
<1>p. pc \in [Thread -> {"idle", "enter", "test", "read", "leave", "count", "down", "write", "back"}]
  BY DEF TypeOK
\* steps that neither enter nor leave the file, nor touch the lock
<1>1. ASSUME NEW t \in Thread, NEW l \in {"enter", "down", "leave", "write", "back", "read"},
             Goto(t, l), UNCHANGED locks,
             \/ pc[t] = "idle" /\ l \in {"enter", "down"}
             \/ pc[t] = "read" /\ l \in {"read", "leave"}
             \/ pc[t] \in {"write", "back"} /\ l \in {"write", "back"}
      PROVE  RwLockInv'
  <2>1. Readers' = Readers /\ Writers' = Writers BY <1>1, <1>p DEF Goto, Readers, Writers
  <2>2. LockHeld' BY <1>1, <1>p DEF RwLockInv, LockHeld, Goto, locks
  <2>3. ReadersCounted' BY <1>1, <2>1 DEF RwLockInv, ReadersCounted, locks
  <2>4. SemaOwned' BY <1>1, <2>1 DEF RwLockInv, SemaOwned, locks
  <2> QED BY <2>2, <2>3, <2>4 DEF RwLockInv
<1>2. CASE UNCHANGED vars
  BY <1>2 DEF RwLockInv, LockHeld, ReadersCounted, SemaOwned, Readers, Writers, vars, locks
<1>3. ASSUME NEW t \in Thread, Read(t) \/ Write(t) \/ ReadEnd(t) \/ FetchSector(t) \/ WriteBack(t)
      PROVE  RwLockInv'
  BY <1>3, <1>1 DEF Read, Write, Start, ReadEnd, FetchSector, WriteBack
<1>4. ASSUME NEW t \in Thread, ReadSector(t) \/ WriteSector(t) PROVE RwLockInv'
  <2>1. UNCHANGED <<locks, pc>> BY <1>4 DEF ReadSector, WriteSector
  <2> QED BY <2>1 DEF RwLockInv, LockHeld, ReadersCounted, SemaOwned, Readers, Writers, locks
<1>5. ASSUME NEW t \in Thread, ReadLock(t) \/ ReadRelock(t) PROVE RwLockInv'
  <2>1. Readers' = Readers /\ Writers' = Writers
    BY <1>5, <1>p DEF ReadLock, ReadRelock, Goto, Readers, Writers
  <2>2. LockHeld' BY <1>5, <1>p DEF ReadLock, ReadRelock, Goto, RwLockInv, LockHeld
  <2>3. UNCHANGED <<writeSema, readers>> BY <1>5 DEF ReadLock, ReadRelock
  <2>4. ReadersCounted' /\ SemaOwned' BY <2>1, <2>3 DEF RwLockInv, ReadersCounted, SemaOwned
  <2> QED BY <2>2, <2>4 DEF RwLockInv
<1>6. ASSUME NEW t \in Thread, FirstReader(t) PROVE RwLockInv'
  <2>1. t \notin Readers /\ Readers' = Readers \cup {t} /\ Writers' = Writers
    BY <1>6, <1>p DEF FirstReader, Goto, Readers, Writers
  <2>2. LockHeld' BY <1>6, <1>p DEF FirstReader, Goto, RwLockInv, LockHeld
  <2>3. ReadersCounted' BY <1>6, <2>1, ReaderCount DEF FirstReader, RwLockInv, ReadersCounted
  <2>4. Writers = {} /\ writeSema' = 0
    <3>1. CASE readers = 0 BY <1>6, <3>1 DEF FirstReader, RwLockInv, SemaOwned
    <3>2. CASE readers # 0
      <4>1. Readers # {} BY <3>2, ReaderCount DEF RwLockInv, ReadersCounted
      <4> QED BY <1>6, <3>2, <4>1 DEF FirstReader, RwLockInv, SemaOwned
    <3> QED BY <3>1, <3>2
  <2>5. SemaOwned' BY <2>1, <2>4 DEF SemaOwned
  <2> QED BY <2>2, <2>3, <2>5 DEF RwLockInv
<1>7. ASSUME NEW t \in Thread, LastReader(t) PROVE RwLockInv'
  <2>1. t \in Readers /\ Readers' = Readers \ {t} /\ Writers' = Writers
    BY <1>7, <1>p DEF LastReader, Return, Goto, Readers, Writers
  <2>2. LockHeld' BY <1>7, <1>p DEF LastReader, Return, Goto, RwLockInv, LockHeld
  <2>3. ReadersCounted' BY <1>7, <2>1, ReaderCount DEF LastReader, RwLockInv, ReadersCounted
  <2>4. Writers = {} /\ writeSema = 0 BY <2>1 DEF RwLockInv, SemaOwned
  <2>5. writeSema' = 1 => Readers' = {}
    <3> SUFFICES ASSUME writeSema' = 1 PROVE Readers' = {} OBVIOUS
    <3>1. Cardinality(Readers) = 1
      BY <1>7, <2>4 DEF LastReader, RwLockInv, ReadersCounted
    <3>2. Cardinality(Readers \ {t}) = 0 BY <3>1, <2>1, ReaderCount
    <3>3. IsFiniteSet(Readers \ {t}) BY ReadersFinite, FS_Subset
    <3> QED BY <3>2, <3>3, <2>1, FS_EmptySet
  <2>6. writeSema' \in {0, 1} BY <1>7, <2>4 DEF LastReader
  <2>7. SemaOwned' BY <2>1, <2>4, <2>5, <2>6 DEF SemaOwned
  <2> QED BY <2>2, <2>3, <2>7 DEF RwLockInv
<1>8. ASSUME NEW t \in Thread, WriteDown(t) PROVE RwLockInv'
  <2>1. writeSema = 1 /\ writeSema' = 0 /\ Writers = {} /\ Readers = {}
    BY <1>8 DEF WriteDown, RwLockInv, SemaOwned
  <2>2. Readers' = Readers /\ Writers' = {t}
    BY <1>8, <1>p, <2>1 DEF WriteDown, Goto, Readers, Writers
  <2>3. LockHeld' BY <1>8, <1>p DEF WriteDown, Goto, RwLockInv, LockHeld
  <2>4. ReadersCounted' BY <1>8, <2>2 DEF WriteDown, RwLockInv, ReadersCounted
  <2>5. SemaOwned' BY <2>1, <2>2 DEF SemaOwned
  <2> QED BY <2>3, <2>4, <2>5 DEF RwLockInv
<1>9. ASSUME NEW t \in Thread, WriteEnd(t) PROVE RwLockInv'
  <2>1. t \in Writers BY <1>9 DEF WriteEnd, Writers
  <2>2. writeSema = 0 /\ Readers = {} /\ Writers = {t} BY <2>1 DEF RwLockInv, SemaOwned
  <2>3. Readers' = Readers /\ Writers' = {}
    BY <1>9, <1>p, <2>2 DEF WriteEnd, Return, Goto, Readers, Writers
  <2>4. LockHeld' BY <1>9, <1>p DEF WriteEnd, Return, Goto, RwLockInv, LockHeld
  <2>5. ReadersCounted' BY <1>9, <2>3 DEF WriteEnd, RwLockInv, ReadersCounted
  <2>6. writeSema' = 1 BY <1>9, <2>2 DEF WriteEnd
  <2>7. SemaOwned' BY <2>2, <2>3, <2>6 DEF SemaOwned
  <2> QED BY <2>4, <2>5, <2>7 DEF RwLockInv
<1> QED BY <1>2, <1>3, <1>4, <1>5, <1>6, <1>7, <1>8, <1>9 DEF Next, Running

-----------------------------------------------------------------------------
(* The data.                                                               *)

\* While a thread writes, no thread reads and no other thread writes.
LEMMA Alone ==
  ASSUME RwLockInv, NEW t \in Writers
  PROVE  Readers = {} /\ \A u \in Writers : u = t
BY DEF RwLockInv, SemaOwned

\* Every step of the two functions preserves what is known of the data: the
\* bounce buffer, the progress of the calls, and what they have read and
\* written.
LEMMA DataStep ==
  RwInv /\ [Next]_vars => BounceFresh' /\ WithinAsked' /\ ReadsOneState' /\ WriteIntact'
<1> SUFFICES ASSUME RwInv, [Next]_vars
             PROVE  BounceFresh' /\ WithinAsked' /\ ReadsOneState' /\ WriteIntact'
  OBVIOUS
<1> DEFINE Goal == BounceFresh' /\ WithinAsked' /\ ReadsOneState' /\ WriteIntact'
<1>i. TypeOK /\ RwLockInv /\ BounceFresh /\ WithinAsked /\ ReadsOneState /\ WriteIntact
  BY DEF RwInv, RwLockInv
<1>p. /\ pc \in [Thread -> {"idle", "enter", "test", "read", "leave", "count", "down", "write", "back"}]
      /\ from \in [Thread -> Nat] /\ asked \in [Thread -> Nat] /\ done \in [Thread -> Nat]
      /\ buffer \in [Thread -> [Chunk -> Thread \cup {Nobody, Unread}]]
      /\ bounce \in [Thread -> [Chunk -> Thread \cup {Nobody, Unread}]]
  BY <1>i DEF TypeOK
<1>k. \A u \in Thread : from'[u] = from[u] /\ asked'[u] = asked[u] /\ done'[u] = done[u]
                        => ChunkSize(u)' = ChunkSize(u) /\ SectorOf(u)' = SectorOf(u)
  BY DEF ChunkSize, SectorOf
\* steps that only move a thread, and not into the file as a writer
<1>1. ASSUME NEW t \in Thread,
             NEW l \in {"test", "read", "leave", "count"},
             Goto(t, l), UNCHANGED <<call, disk>>,
             \/ pc[t] \in {"enter", "test"}
             \/ pc[t] \in {"read", "leave"} /\ l \in {"leave", "count"}
      PROVE  Goal
  <2>1. BounceFresh' BY <1>1, <1>p, <1>i, <1>k DEF BounceFresh, Goto, call
  <2>2. WithinAsked' BY <1>1, <1>p, <1>i, <1>k DEF WithinAsked, Goto, call
  <2>3. ReadsOneState' BY <1>1, <1>p, <1>i DEF ReadsOneState, WithinAsked, Readers, Goto, call, Empty
  <2>4. WriteIntact' BY <1>1, <1>p, <1>i DEF WriteIntact, Writers, Goto, call
  <2> QED BY <2>1, <2>2, <2>3, <2>4
<1>2. CASE UNCHANGED vars
  BY <1>2, <1>i DEF BounceFresh, WithinAsked, ReadsOneState, WriteIntact, Readers, Writers, ChunkSize, SectorOf, vars, call
<1>3. ASSUME NEW t \in Thread, ReadLock(t) \/ FirstReader(t) \/ ReadEnd(t) \/ ReadRelock(t)
      PROVE  Goal
  BY <1>3, <1>1 DEF ReadLock, FirstReader, ReadEnd, ReadRelock
<1>4. ASSUME NEW t \in Thread, Read(t) \/ Write(t) PROVE Goal
  <2>1. /\ pc[t] = "idle" /\ pc'[t] \in {"enter", "down"}
        /\ \A u \in Thread \ {t} : pc'[u] = pc[u] /\ from'[u] = from[u] /\ asked'[u] = asked[u]
        /\ asked'[t] \in Nat
        /\ UNCHANGED <<done, buffer, bounce, disk>>
    <3>1. \A a \in Call : a[2] \in Nat BY InodeAssumption
    <3> QED BY <1>4, <1>p, <3>1 DEF Read, Write, Start, Goto
  <2>2. BounceFresh' BY <2>1, <1>i, <1>k DEF BounceFresh
  <2>3. WithinAsked' BY <2>1, <1>p, <1>i, <1>k DEF WithinAsked
  <2>4. ReadsOneState' BY <2>1, <1>i DEF ReadsOneState, Readers
  <2>5. WriteIntact' BY <2>1, <1>i DEF WriteIntact, Writers
  <2> QED BY <2>2, <2>3, <2>4, <2>5
<1>5. ASSUME NEW t \in Thread, LastReader(t) \/ WriteEnd(t) PROVE Goal
  <2>1. /\ pc'[t] = "idle" /\ done'[t] = 0 /\ asked'[t] = 0 /\ buffer'[t] = Empty
        /\ \A u \in Thread \ {t} :
              /\ pc'[u] = pc[u] /\ from'[u] = from[u] /\ asked'[u] = asked[u]
              /\ done'[u] = done[u] /\ buffer'[u] = buffer[u] /\ bounce'[u] = bounce[u]
        /\ UNCHANGED disk
    BY <1>5, <1>p DEF LastReader, WriteEnd, Return, Goto
  <2>2. BounceFresh' BY <2>1, <1>i, <1>k DEF BounceFresh
  <2>3. WithinAsked' BY <2>1, <1>p, <1>i, <1>k DEF WithinAsked, Empty
  <2>4. ReadsOneState' BY <2>1, <1>i DEF ReadsOneState, Readers
  <2>5. WriteIntact' BY <2>1, <1>i DEF WriteIntact, Writers
  <2> QED BY <2>2, <2>3, <2>4, <2>5
<1>6. ASSUME NEW t \in Thread, WriteDown(t) PROVE Goal
  <2>1. /\ pc[t] = "down" /\ pc'[t] = "write"
        /\ \A u \in Thread \ {t} : pc'[u] = pc[u]
        /\ UNCHANGED <<from, asked, done, buffer, bounce, disk>>
    BY <1>6, <1>p DEF WriteDown, Goto, call
  <2>2. BounceFresh' BY <2>1, <1>i, <1>k DEF BounceFresh
  <2>3. WithinAsked' BY <2>1, <1>i, <1>k DEF WithinAsked
  <2>4. ReadsOneState' BY <2>1, <1>i DEF ReadsOneState, Readers
  <2>5. done[t] = 0 BY <2>1, <1>i DEF WithinAsked
  <2>6. \A c \in Chunk : c \in Int BY DEF Chunk
  <2>7. WriteIntact' BY <2>1, <2>5, <2>6, <1>p, <1>i DEF WriteIntact, Writers
  <2> QED BY <2>2, <2>3, <2>4, <2>7
<1>7. ASSUME NEW t \in Thread, ReadSector(t) PROVE Goal
  <2>1. /\ pc[t] = "read"
        /\ done'[t] = done[t] + ChunkSize(t)
        /\ \A u \in Thread \ {t} : done'[u] = done[u] /\ buffer'[u] = buffer[u]
        /\ \A c \in Chunk : buffer'[t][c] \in {disk[c], buffer[t][c]}
        /\ UNCHANGED <<pc, from, asked, bounce, disk>>
    BY <1>7, <1>p DEF ReadSector, Advance
  <2>2. BounceFresh' BY <2>1, <1>i, <1>k DEF BounceFresh
  <2>3. WithinAsked' BY <2>1, <1>p, <1>i, <1>k, ChunkFacts DEF WithinAsked
  <2>4. ReadsOneState' BY <2>1, <1>i DEF ReadsOneState, Readers
  <2>5. WriteIntact' BY <2>1, <1>i DEF WriteIntact, Writers
  <2> QED BY <2>2, <2>3, <2>4, <2>5
<1>8. ASSUME NEW t \in Thread, FetchSector(t) PROVE Goal
  <2>1. /\ pc[t] = "write" /\ pc'[t] = "back" /\ ChunkSize(t) > 0
        /\ \A u \in Thread \ {t} : pc'[u] = pc[u] /\ bounce'[u] = bounce[u]
        /\ \A c \in Chunk : c \in SectorOf(t) => bounce'[t][c] = disk[c]
        /\ UNCHANGED <<from, asked, done, buffer, disk>>
    BY <1>8, <1>p DEF FetchSector, Goto
  <2>2. BounceFresh' BY <2>1, <1>i, <1>k DEF BounceFresh, SectorOf
  <2>3. WithinAsked' BY <2>1, <1>i, <1>k DEF WithinAsked
  <2>4. ReadsOneState' BY <2>1, <1>i DEF ReadsOneState, Readers
  <2>5. WriteIntact' BY <2>1, <1>i DEF WriteIntact, Writers
  <2> QED BY <2>2, <2>3, <2>4, <2>5
\* steps that change the disk: the writer is alone
<1>9. ASSUME NEW t \in Thread, WriteSector(t) \/ WriteBack(t) PROVE Goal
  <2>1. /\ pc[t] \in {"write", "back"} /\ pc'[t] = "write" /\ ChunkSize(t) > 0
        /\ done'[t] = done[t] + ChunkSize(t)
        /\ \A u \in Thread \ {t} : pc'[u] = pc[u] /\ done'[u] = done[u]
        /\ UNCHANGED <<from, asked, buffer>>
    BY <1>9, <1>p, <1>i DEF WriteSector, WriteBack, Advance, Goto, WithinAsked
  <2>2. t \in Writers BY <2>1 DEF Writers
  <2>3. Readers = {} /\ \A u \in Writers : u = t BY <2>2, <1>i, Alone
  <2>4. Readers' = {} /\ \A u \in Writers' : u = t
    BY <2>1, <2>3 DEF Readers, Writers
  <2>5. BounceFresh' BY <2>1, <2>4 DEF BounceFresh, Writers
  <2>6. WithinAsked' BY <2>1, <2>4, <1>p, <1>i, <1>k, ChunkFacts DEF WithinAsked, Writers
  <2>7. ReadsOneState' BY <2>4 DEF ReadsOneState
  <2>8. ASSUME NEW c \in Chunk, from[t] <= c, c < from[t] + (done[t] + ChunkSize(t))
        PROVE  disk'[c] = t
    <3>1. CASE c \in Part(t) BY <1>9, <3>1 DEF WriteSector, WriteBack
    <3>2. CASE c \notin Part(t)
      <4>1. c \in Int BY DEF Chunk
      <4>2. c < from[t] + done[t] BY <2>8, <3>2, <4>1, <1>p, <1>i, ChunkFacts DEF Part
      <4>3. disk[c] = t BY <2>2, <2>8, <4>2, <1>i DEF WriteIntact
      <4>4. disk'[c] = disk[c] BY <1>9, <3>2, <1>i DEF WriteSector, WriteBack, BounceFresh
      <4> QED BY <4>3, <4>4
    <3> QED BY <3>1, <3>2
  <2>9. WriteIntact' BY <2>1, <2>4, <2>8 DEF WriteIntact
  <2> QED BY <2>5, <2>6, <2>7, <2>9
<1> QED BY <1>2, <1>3, <1>4, <1>5, <1>6, <1>7, <1>8, <1>9 DEF Next, Running

-----------------------------------------------------------------------------
(* The theorems.                                                           *)

\* A new inode, which no thread reads or writes, satisfies the invariant.
LEMMA RwInit == Init => RwInv
<1> SUFFICES ASSUME Init PROVE RwInv OBVIOUS
<1>1. TypeOK BY TypeInit
<1>2. Readers = {} /\ Writers = {} BY DEF Init, Readers, Writers
<1>3. LockHeld BY InodeAssumption DEF Init, LockHeld
<1>4. ReadersCounted BY <1>2, FS_EmptySet DEF Init, ReadersCounted
<1>5. SemaOwned BY <1>2 DEF Init, SemaOwned
<1>6. BounceFresh /\ WithinAsked BY DEF Init, BounceFresh, WithinAsked
<1>7. ReadsOneState /\ WriteIntact BY <1>2 DEF ReadsOneState, WriteIntact
<1> QED BY <1>1, <1>3, <1>4, <1>5, <1>6, <1>7 DEF RwInv

\* The inductive invariant of inode_read_at and inode_write_at: it holds in
\* every state of every number of threads that use one inode.
THEOREM RwInvariant == Spec => []RwInv
<1>1. RwInv /\ [Next]_vars => RwInv'
  BY TypeStep, RwLockStep, DataStep DEF RwInv, RwLockInv
<1> QED BY RwInit, <1>1, PTL DEF Spec

\* Lock, semaphore, count and data keep their types; in particular no chunk
\* of the disk ever holds what nobody wrote.
THEOREM TypeCorrect == Spec => []TypeOK
<1>1. RwInv => TypeOK BY DEF RwInv
<1> QED BY RwInvariant, <1>1, PTL

\* inode_read_at returns one state of the file, whatever writers there are.
THEOREM ReadsAreAtomic == Spec => []ReadsOneState
<1>1. RwInv => ReadsOneState BY DEF RwInv
<1> QED BY RwInvariant, <1>1, PTL

\* Until inode_write_at returns, all that it has written is on the disk.
THEOREM WritesStay == Spec => []WriteIntact
<1>1. RwInv => WriteIntact BY DEF RwInv
<1> QED BY RwInvariant, <1>1, PTL

\* inode_write_at changes nothing outside the range it was asked to write,
\* although it reads whole sectors and writes them back.
THEOREM WritesAreLocal == Spec => WritesOnlyItsPart
<1> DEFINE A == \A c \in Chunk : disk'[c] # disk[c] =>
                    \E t \in Writers : /\ disk'[c] = t
                                       /\ from[t] <= c /\ c < from[t] + asked[t]
<1>1. RwInv /\ [Next]_vars => [A]_vars
  <2> SUFFICES ASSUME RwInv, Next PROVE A BY DEF vars
  <2>1. ASSUME NEW t \in Thread, WriteSector(t) \/ WriteBack(t) PROVE A
    <3> SUFFICES ASSUME NEW c \in Chunk, disk'[c] # disk[c]
                 PROVE  t \in Writers /\ disk'[c] = t /\ from[t] <= c /\ c < from[t] + asked[t]
      OBVIOUS
    <3>1. t \in Writers BY <2>1 DEF WriteSector, WriteBack, Writers
    <3>2. c \in Part(t) BY <2>1 DEF WriteSector, WriteBack, RwInv, BounceFresh
    <3>3. disk'[c] = t BY <2>1, <3>2 DEF WriteSector, WriteBack
    <3>4. c \in Int BY DEF Chunk
    <3>5. from[t] \in Nat /\ asked[t] \in Nat /\ done[t] \in Nat BY DEF RwInv, TypeOK
    <3>6. ChunkSize(t) \in Int /\ ChunkSize(t) <= asked[t] - done[t] BY ChunkFacts DEF RwInv
    <3>7. from[t] <= c /\ c < from[t] + asked[t] BY <3>2, <3>4, <3>5, <3>6 DEF Part
    <3> QED BY <3>1, <3>3, <3>7
  <2>2. ASSUME NEW t \in Thread,
               \/ Read(t) \/ Write(t) \/ ReadLock(t) \/ FirstReader(t) \/ ReadSector(t) \/ ReadEnd(t)
               \/ ReadRelock(t) \/ LastReader(t) \/ WriteDown(t) \/ FetchSector(t) \/ WriteEnd(t)
        PROVE  A
    <3>1. disk' = disk
      BY <2>2 DEF Read, Write, Start, ReadLock, FirstReader, ReadSector, ReadEnd, ReadRelock,
                  LastReader, WriteDown, FetchSector, WriteEnd
    <3> QED BY <3>1
  <2> QED BY <2>1, <2>2 DEF Next, Running
<1> QED BY RwInvariant, <1>1, PTL DEF Spec, WritesOnlyItsPart
=============================================================================
