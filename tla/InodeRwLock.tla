---------------------------- MODULE InodeRwLock ----------------------------
(***************************************************************************)
(* Pintos/filesys/inode.c: inode_read_at and inode_write_at on one inode,  *)
(* called by any number of threads, and the rw_lock they share: a lock     *)
(* around the count of readers, and a semaphore that the first reader      *)
(* takes and the last one gives back, or a writer for itself.              *)
(*                                                                         *)
(* Offsets and sizes are counted in chunks, PerSector of them to a sector, *)
(* so that a transfer may begin and end inside a sector.  A sector moves   *)
(* to or from the disk in one step (block_read, block_write); a thread is  *)
(* preempted between any two.  A chunk on the disk is known by the thread  *)
(* that wrote it last.                                                     *)
(***************************************************************************)
EXTENDS Integers, FiniteSets

CONSTANTS
    Thread,
    Nobody,      \* no thread: who wrote the zeros of a new file
    PerSector,   \* chunks in a sector
    Length,      \* inode_length, in chunks
    Call         \* the <<offset, size>> pairs callers use

ASSUME InodeAssumption ==
    /\ IsFiniteSet(Thread)
    /\ Nobody \notin Thread
    /\ PerSector \in Nat \ {0}
    /\ Length \in Nat
    /\ Call \subseteq Nat \X Nat

VARIABLES
    lockHolder,  \* rw_lock.lock
    writeSema,   \* rw_lock.write_sema
    readers,     \* rw_lock.readers
    pc,          \* where each thread is
    from, asked, \* arguments offset and size of the running call
    done,        \* bytes_read or bytes_written
    buffer,      \* what a reader has read, by chunk; Unread elsewhere
    bounce,      \* a writer's copy of the sector it changes a part of
    disk         \* the file's chunks, and the rest of its last sector

Unread == "unread"
locks == <<lockHolder, writeSema, readers>>
call == <<from, asked, done, buffer, bounce>>
vars == <<locks, pc, call, disk>>

\* the chunks of the sectors that hold the file
Chunk == 0 .. ((Length + PerSector - 1) \div PerSector) * PerSector - 1

\* the chunks of a buffer that holds nothing
Empty == [c \in Chunk |-> Unread]

Init ==
    /\ lockHolder = Nobody /\ writeSema = 1 /\ readers = 0
    /\ pc = [t \in Thread |-> "idle"]
    /\ from = [t \in Thread |-> 0] /\ asked = [t \in Thread |-> 0]
    /\ done = [t \in Thread |-> 0]
    /\ buffer = [t \in Thread |-> Empty]
    /\ bounce = [t \in Thread |-> Empty]
    /\ disk = [c \in Chunk |-> Nobody]

Goto(t, l) == pc' = [pc EXCEPT ![t] = l]

\* chunk_size: what is left of the call, of the file and of the sector, the
\* least of the three
ChunkSize(t) ==
    LET offset == from[t] + done[t]
        sectorLeft == PerSector - (offset % PerSector)
        inodeLeft == Length - offset
        minLeft == IF inodeLeft < sectorLeft THEN inodeLeft ELSE sectorLeft
    IN  IF asked[t] - done[t] < minLeft THEN asked[t] - done[t] ELSE minLeft

\* the chunks the next round of the loop transfers, and the sector they are in
Part(t) == {c \in Chunk : from[t] + done[t] <= c /\ c < from[t] + done[t] + ChunkSize(t)}
SectorOf(t) == {c \in Chunk : c \div PerSector = (from[t] + done[t]) \div PerSector}

\* sector_ofs == 0 && chunk_size == BLOCK_SECTOR_SIZE
WholeSector(t) == (from[t] + done[t]) % PerSector = 0 /\ ChunkSize(t) = PerSector

\* malloc fails: it is called in the first round that needs a bounce buffer
OutOfMemory(t) == ~WholeSector(t) /\ (done[t] = 0 \/ from[t] % PerSector = 0)

\* mistake: size is not counted down
AdvanceForgotten(t) == UNCHANGED done

Advance(t) == done' = [done EXCEPT ![t] = @ + ChunkSize(t)]

\* a call to read or write size chunks at offset
Start(t, l) ==
    /\ pc[t] = "idle"
    /\ \E a \in Call :
          /\ from' = [from EXCEPT ![t] = a[1]]
          /\ asked' = [asked EXCEPT ![t] = a[2]]
    /\ Goto(t, l)
    /\ UNCHANGED <<locks, done, buffer, bounce, disk>>

\* the call returns, and its variables are gone
Return(t) ==
    /\ Goto(t, "idle")
    /\ from' = [from EXCEPT ![t] = 0]
    /\ asked' = [asked EXCEPT ![t] = 0]
    /\ done' = [done EXCEPT ![t] = 0]
    /\ buffer' = [buffer EXCEPT ![t] = Empty]
    /\ bounce' = [bounce EXCEPT ![t] = Empty]

-----------------------------------------------------------------------------
(* inode_read_at                                                           *)

Read(t) == Start(t, "enter")

\* lock_acquire(&rw_lock.lock) on the way in
ReadLock(t) ==
    /\ pc[t] = "enter"
    /\ lockHolder = Nobody
    /\ lockHolder' = t
    /\ Goto(t, "test")
    /\ UNCHANGED <<writeSema, readers, call, disk>>

\* The first reader waits for the semaphore, with the lock held, so that the
\* readers behind it wait for the lock; then readers++ and lock_release.
FirstReader(t) ==
    /\ pc[t] = "test"
    /\ \/ readers = 0 /\ writeSema > 0 /\ writeSema' = writeSema - 1
       \/ readers # 0 /\ UNCHANGED writeSema
    /\ readers' = readers + 1
    /\ lockHolder' = Nobody
    /\ Goto(t, "read")
    /\ UNCHANGED <<call, disk>>

\* one round of the loop: block_read, into the buffer or through a bounce
\* buffer
ReadSector(t) ==
    /\ pc[t] = "read"
    /\ ChunkSize(t) > 0
    /\ buffer' = [buffer EXCEPT ![t] = [c \in Chunk |-> IF c \in Part(t) THEN disk[c] ELSE @[c]]]
    /\ Advance(t)
    /\ UNCHANGED <<locks, pc, from, asked, bounce, disk>>

\* the loop ends: all is read, the file ends, or there is no memory for a
\* bounce buffer
ReadEnd(t) ==
    /\ pc[t] = "read"
    /\ ChunkSize(t) <= 0 \/ OutOfMemory(t)
    /\ Goto(t, "leave")
    /\ UNCHANGED <<locks, call, disk>>

\* lock_acquire(&rw_lock.lock) on the way out
ReadRelock(t) ==
    /\ pc[t] = "leave"
    /\ lockHolder = Nobody
    /\ lockHolder' = t
    /\ Goto(t, "count")
    /\ UNCHANGED <<writeSema, readers, call, disk>>

\* mistake: every reader that leaves gives the semaphore back
LastReaderAnyReader(t) ==
    /\ pc[t] = "count"
    /\ readers' = readers - 1
    /\ writeSema' = writeSema + 1
    /\ lockHolder' = Nobody
    /\ Return(t)
    /\ UNCHANGED disk

\* readers--, the last one gives the semaphore back, lock_release
LastReader(t) ==
    /\ pc[t] = "count"
    /\ readers' = readers - 1
    /\ writeSema' = IF readers = 1 THEN writeSema + 1 ELSE writeSema
    /\ lockHolder' = Nobody
    /\ Return(t)
    /\ UNCHANGED disk

-----------------------------------------------------------------------------
(* inode_write_at                                                          *)

Write(t) == Start(t, "down")

\* mistake: a writer waits for the readers and not for the other writers
WriteDownIfNoReaders(t) ==
    /\ pc[t] = "down"
    /\ readers = 0
    /\ writeSema' = 0
    /\ Goto(t, "write")
    /\ UNCHANGED <<lockHolder, readers, call, disk>>

WriteDown(t) ==
    /\ pc[t] = "down"
    /\ writeSema > 0
    /\ writeSema' = writeSema - 1
    /\ Goto(t, "write")
    /\ UNCHANGED <<lockHolder, readers, call, disk>>

\* a whole sector goes straight to the disk
WriteSector(t) ==
    /\ pc[t] = "write"
    /\ ChunkSize(t) > 0 /\ WholeSector(t)
    /\ disk' = [c \in Chunk |-> IF c \in Part(t) THEN t ELSE disk[c]]
    /\ Advance(t)
    /\ UNCHANGED <<locks, pc, from, asked, buffer, bounce>>

\* for a part of one, block_read fetches the sector first (the other branch,
\* which clears the bounce buffer, is for a whole sector and so never taken)
FetchSector(t) ==
    /\ pc[t] = "write"
    /\ ChunkSize(t) > 0 /\ ~WholeSector(t)
    /\ bounce' = [bounce EXCEPT ![t] = [c \in Chunk |-> IF c \in SectorOf(t) THEN disk[c] ELSE Unread]]
    /\ Goto(t, "back")
    /\ UNCHANGED <<locks, from, asked, done, buffer, disk>>

\* mistake: the rest of the sector is cleared, as if it held no data
WriteBackCleared(t) ==
    /\ pc[t] = "back"
    /\ disk' = [c \in Chunk |-> IF c \in Part(t) THEN t
                                ELSE IF c \in SectorOf(t) THEN Nobody ELSE disk[c]]
    /\ Advance(t)
    /\ bounce' = [bounce EXCEPT ![t] = Empty]
    /\ Goto(t, "write")
    /\ UNCHANGED <<locks, from, asked, buffer>>

\* memcpy into the bounce buffer, and block_write of all of it
WriteBack(t) ==
    /\ pc[t] = "back"
    /\ disk' = [c \in Chunk |-> IF c \in Part(t) THEN t
                                ELSE IF c \in SectorOf(t) THEN bounce[t][c] ELSE disk[c]]
    /\ Advance(t)
    /\ bounce' = [bounce EXCEPT ![t] = Empty]
    /\ Goto(t, "write")
    /\ UNCHANGED <<locks, from, asked, buffer>>

\* the loop ends as in inode_read_at, and sema_up
WriteEnd(t) ==
    /\ pc[t] = "write"
    /\ ChunkSize(t) <= 0 \/ OutOfMemory(t)
    /\ writeSema' = writeSema + 1
    /\ Return(t)
    /\ UNCHANGED <<lockHolder, readers, disk>>

-----------------------------------------------------------------------------
Running(t) ==
    \/ ReadLock(t) \/ FirstReader(t) \/ ReadSector(t) \/ ReadEnd(t) \/ ReadRelock(t) \/ LastReader(t)
    \/ WriteDown(t) \/ WriteSector(t) \/ FetchSector(t) \/ WriteBack(t) \/ WriteEnd(t)

Next == \E t \in Thread : Read(t) \/ Write(t) \/ Running(t)

Spec == Init /\ [][Next]_vars

\* The scheduler is round-robin: a thread that can go on does.
FairSpec == Spec /\ \A t \in Thread : WF_vars(Running(t))

-----------------------------------------------------------------------------
\* Lock, semaphore, count, program counters, arguments and contents have their
\* types.
TypeOK ==
    /\ lockHolder \in Thread \cup {Nobody}
    /\ writeSema \in Nat /\ readers \in Int
    /\ pc \in [Thread -> {"idle", "enter", "test", "read", "leave", "count", "down",
                          "write", "back"}]
    /\ from \in [Thread -> Nat] /\ asked \in [Thread -> Nat] /\ done \in [Thread -> Nat]
    /\ buffer \in [Thread -> [Chunk -> Thread \cup {Nobody, Unread}]]
    /\ bounce \in [Thread -> [Chunk -> Thread \cup {Nobody, Unread}]]
    /\ disk \in [Chunk -> Thread \cup {Nobody}]

Readers == {t \in Thread : pc[t] \in {"read", "leave", "count"}}
Writers == {t \in Thread : pc[t] \in {"write", "back"}}

\* A read sees one state of the file: what it has read of it so far is what
\* is on the disk, however many sectors ago it read it, because no write comes
\* between the first of its block_reads and the last.
ReadsOneState ==
    \A t \in Readers, c \in Chunk : buffer[t][c] # Unread => buffer[t][c] = disk[c]

\* A write changes the chunks it was asked to and no others, although it
\* writes whole sectors: what it fetched into the bounce buffer is not stale
\* when it goes back to the disk.
WritesOnlyItsPart ==
    [][ \A c \in Chunk : disk'[c] # disk[c] =>
            \E t \in Writers : /\ disk'[c] = t
                               /\ from[t] <= c /\ c < from[t] + asked[t] ]_vars

\* What a write has written so far is there, all of it, until it ends: no other
\* write or read is in the file with it.
WriteIntact ==
    \A t \in Writers, c \in Chunk :
        from[t] <= c /\ c < from[t] + done[t] => disk[c] = t

\* When calls stop coming, every call under way returns: the first reader,
\* which waits for the semaphore with the lock held, holds up the others but
\* not the writer that will give the semaphore back.
CallsReturn ==
    <>[][\A t \in Thread : pc[t] = "idle" => pc'[t] = "idle"]_vars
        => \A t \in Thread : (pc[t] # "idle") ~> (pc[t] = "idle")

-----------------------------------------------------------------------------
(* The inductive invariant behind the proofs (InodeRwLockProofs).          *)

\* the lock is held exactly where the code holds it
LockHeld ==
    \A t \in Thread : (lockHolder = t) <=> (pc[t] \in {"test", "count"})

\* the count counts
ReadersCounted == readers = Cardinality(Readers)

\* the semaphore belongs to one writer, to the readers, or to nobody
SemaOwned ==
    /\ writeSema \in {0, 1}
    /\ writeSema = 1 => Writers = {} /\ Readers = {}
    /\ Writers # {} => Readers = {}
    /\ \A t, u \in Writers : t = u

\* what a writer fetched is still on the disk
BounceFresh ==
    \A t \in Thread : pc[t] = "back" =>
        \A c \in SectorOf(t) : bounce[t][c] = disk[c]

\* what a call has transferred lies within what it was asked to transfer, and
\* a writer that has fetched a sector has something to change in it
WithinAsked ==
    \A t \in Thread :
        /\ done[t] <= asked[t]
        /\ pc[t] \in {"idle", "down"} => done[t] = 0
        /\ pc[t] \in {"idle", "enter", "test"} => buffer[t] = Empty
        /\ pc[t] = "back" => ChunkSize(t) > 0

RwInv ==
    /\ TypeOK
    /\ LockHeld
    /\ ReadersCounted
    /\ SemaOwned
    /\ BounceFresh
    /\ WithinAsked
    /\ ReadsOneState
    /\ WriteIntact
=============================================================================
