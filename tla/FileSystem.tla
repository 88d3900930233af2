----------------------------- MODULE FileSystem -----------------------------
(***************************************************************************)
(* The Pintos file system as several processes use it: the free map, the   *)
(* table of open inodes, the root directory, create, open and remove, and  *)
(* the file tables (filesys/*.c, the file calls of userprog/syscall.c).    *)
(* A step is what happens under one lock, or one write to the disk; a      *)
(* thread may be preempted between any two of them.  The transfer of the   *)
(* bytes of a file is the subject of InodeRwLock.                          *)
(***************************************************************************)
EXTENDS Integers, FiniteSets

CONSTANTS Threads,      \* processes (one thread each)
          Names,        \* file names
          InvalidNames, \* the ones dir_add refuses
          Uses,         \* Uses[t]: the names thread t creates and opens
          Removes,      \* Removes[t]: the names it removes
          Sizes,        \* initial sizes of files, in sectors
          SectorCount,  \* sectors of the device
          DirSlots,     \* entries the root directory has room for
          Fds,          \* descriptors of a process (2..129 in the code)
          Blocks,       \* memory for struct inode (numbered)
          None,         \* no block, no thread, no name
          MaxCreates,   \* calls of create
          MayFault,     \* processes of which one dies of an exception
          MemMayFail,   \* malloc of a structure may return NULL
          BounceMayFail \* malloc of a bounce buffer in inode_read_at may

ASSUME FsAssumption ==
  /\ IsFiniteSet(Threads) /\ IsFiniteSet(Fds) /\ Fds \subseteq Nat
  /\ SectorCount \in Nat /\ SectorCount > 4 /\ DirSlots \in Nat \ {0}
  /\ MaxCreates \in Nat /\ MayFault \subseteq Threads /\ Blocks \subseteq Nat /\ Sizes \subseteq Nat /\ InvalidNames \subseteq Names
  /\ {Uses, Removes} \subseteq [Threads -> SUBSET Names] /\ None \notin Threads \cup Blocks \cup Names
  /\ MemMayFail \in BOOLEAN /\ BounceMayFail \in BOOLEAN

VARIABLES free_map,     \* the sectors marked in the free map
          disk,         \* struct inode_disk: what a sector means as an inode
          entries,      \* struct dir_entry of the root directory
          inode,        \* struct inode: the memory blocks
          open_inodes,  \* the blocks on the list
          list_lock,    \* who holds it for ever (see InodeOpen)
          pc, call,     \* where each thread is, its arguments and locals
          file_table,   \* per process: struct file by descriptor
          creates,      \* counts the calls of create
          lost,         \* history: sectors nobody can free any more
          orphans       \* history: opens of processes that died without closing

FsVars == <<free_map, disk, entries, inode, open_inodes, list_lock, pc, call, file_table, creates, lost, orphans>>

Sectors == 0 .. SectorCount - 1

\* The inodes of the map and of the root directory, marked by free_map_init; with
\* the data that free_map_create and dir_create gave the two, what do_format marks.
ROOT_DIR_SECTOR == 1
free_map_init == {0, ROOT_DIR_SECTOR}
Reserved == free_map_init \cup {2, 3}

\* The sectors of a file: that of its inode, and its data.
Extent(start, length) == start .. start + length - 1
SectorsOf(sector, d) == {sector} \cup Extent(d.start, d.length)

NoInode == [sector |-> 0, open_cnt |-> 0, removed |-> FALSE, start |-> 0, length |-> 0, lock |-> None]
NoFile == [inode |-> None, pos |-> 0]
NoCall == [op |-> "none", name |-> None, size |-> 0, dir |-> None, sector |-> 0, start |-> 0,
           ofs |-> 1, inode |-> None, closing |-> None, next |-> "user"]

FsInit ==
  /\ free_map = Reserved
  /\ disk = [s \in Sectors |-> CASE s = 0 -> [start |-> 2, length |-> 1]
                                 [] s = ROOT_DIR_SECTOR -> [start |-> 3, length |-> 1]
                                 [] OTHER -> [start |-> 0, length |-> 0]]
  /\ entries = [i \in 1 .. DirSlots |-> [name |-> None, inode_sector |-> 0, in_use |-> FALSE]]
  /\ inode = [b \in Blocks |-> NoInode]
  /\ open_inodes = {} /\ list_lock = None
  /\ pc = [t \in Threads |-> "user"] /\ call = [t \in Threads |-> NoCall]
  /\ file_table = [t \in Threads |-> [fd \in Fds |-> NoFile]]
  /\ creates = 0 /\ lost = {} /\ orphans = [b \in Blocks |-> 0]

-----------------------------------------------------------------------------
(***************************************************************************)
(* Control: a thread at `from' goes on at `to' with locals c.              *)
(***************************************************************************)
At(t, from) == pc[t] = from
Go(t, to, c) == pc' = [pc EXCEPT ![t] = to] /\ call' = [call EXCEPT ![t] = c]
Return(t) == Go(t, "user", NoCall)

\* inode_close(b), then `next'.  Closing a null pointer does nothing.
CloseThen(t, b, next, c) ==
  IF b = None THEN Go(t, next, c)
  ELSE Go(t, "close", [c EXCEPT !.closing = b, !.next = next])

\* dir_close at the end of a call.
dir_close(t) == CloseThen(t, call[t].dir, "user", NoCall)

(***************************************************************************)
(* The free map.  Allocation is first fit; zero sectors are allocated at 0.*)
(* It also fails when the map's file cannot be written for want of memory. *)
(***************************************************************************)
\* mistake: the last sector of a run is not looked at
bitmap_scanShort(cnt) == {s \in Sectors : s + cnt <= SectorCount /\ Extent(s, cnt - 1) \cap free_map = {}}

bitmap_scan(cnt) == {s \in Sectors : s + cnt <= SectorCount /\ Extent(s, cnt) \cap free_map = {}}

free_map_allocate(cnt, sector) ==
  /\ sector \in bitmap_scan(cnt) /\ \A s \in bitmap_scan(cnt) : sector <= s
  /\ free_map' = free_map \cup Extent(sector, cnt)

free_map_fails(cnt) ==
  /\ bitmap_scan(cnt) = {} \/ BounceMayFail
  /\ UNCHANGED free_map

free_map_release(sector, cnt) == free_map' = free_map \ Extent(sector, cnt)

-----------------------------------------------------------------------------
\* Memory for a struct inode.  Which block it is makes no difference.
Unused == {b \in Blocks : inode[b] = NoInode}
malloc(b) == b \in Unused /\ \A o \in Unused : b <= o

\* mistake: the list is not searched
inode_openAlways(t, sector, b) ==
  /\ list_lock = None /\ malloc(b)
  /\ inode' = [inode EXCEPT ![b] = [sector |-> sector, open_cnt |-> 1, removed |-> FALSE,
       start |-> disk[sector].start, length |-> disk[sector].length, lock |-> None]]
  /\ open_inodes' = open_inodes \cup {b} /\ UNCHANGED list_lock

(***************************************************************************)
(* inode_open, under list_lock: the open inode of that sector, or a new    *)
(* one read from the disk.  When malloc fails it returns NULL and keeps    *)
(* the lock: everyone who needs it then waits for ever (the thread itself  *)
(* fails an assertion of lock_acquire).                                    *)
(***************************************************************************)
inode_open(t, sector, b) ==
  /\ list_lock = None
  /\ \/ /\ b \in open_inodes /\ inode[b].sector = sector
        /\ inode' = [inode EXCEPT ![b].open_cnt = @ + 1]
        /\ UNCHANGED <<open_inodes, list_lock>>
     \/ /\ \A o \in open_inodes : inode[o].sector # sector
        /\ malloc(b)
        /\ inode' = [inode EXCEPT ![b] = [sector |-> sector, open_cnt |-> 1, removed |-> FALSE,
             start |-> disk[sector].start, length |-> disk[sector].length, lock |-> None]]
        /\ open_inodes' = open_inodes \cup {b} /\ UNCHANGED list_lock
     \/ /\ \A o \in open_inodes : inode[o].sector # sector
        /\ MemMayFail \/ Unused = {}
        /\ b = None
        /\ list_lock' = t /\ UNCHANGED <<inode, open_inodes>>

\* inode_close under list_lock; the last one takes the inode off the list, and
\* frees it, unless the file was removed and its sectors are freed first.
inode_close(t) ==
  LET b == call[t].closing
      c == [call[t] EXCEPT !.closing = None, !.next = "user"]
      last == inode[b].open_cnt = 1
      closed == [inode[b] EXCEPT !.open_cnt = @ - 1]
  IN /\ At(t, "close") /\ list_lock = None
     /\ open_inodes' = IF last THEN open_inodes \ {b} ELSE open_inodes
     /\ inode' = [inode EXCEPT ![b] = IF last /\ ~inode[b].removed THEN NoInode ELSE closed]
     /\ IF last /\ inode[b].removed THEN Go(t, "free_inode", call[t]) ELSE Go(t, call[t].next, c)
     /\ UNCHANGED <<free_map, disk, entries, list_lock, file_table, creates, lost, orphans>>

FreeInode(t) ==
  /\ At(t, "free_inode")
  /\ free_map_release(inode[call[t].closing].sector, 1)
  /\ Go(t, "free_data", call[t])
  /\ UNCHANGED <<disk, entries, inode, open_inodes, list_lock, file_table, creates, lost, orphans>>

FreeData(t) ==
  LET b == call[t].closing
  IN /\ At(t, "free_data")
     /\ free_map_release(inode[b].start, inode[b].length)
     /\ inode' = [inode EXCEPT ![b] = NoInode]
     /\ Go(t, call[t].next, [call[t] EXCEPT !.closing = None, !.next = "user"])
     /\ UNCHANGED <<disk, entries, open_inodes, list_lock, file_table, creates, lost, orphans>>

-----------------------------------------------------------------------------
(***************************************************************************)
(* Every call opens the root directory: dir_open_root, which takes the     *)
(* directory's lock for a moment, and closes its inode when calloc fails.  *)
(***************************************************************************)
dir_open_root(t, op, name, size) ==
  /\ At(t, "user")
  /\ op = "create" => creates < MaxCreates
  /\ creates' = IF op = "create" THEN creates + 1 ELSE creates
  /\ \E b \in Blocks \cup {None} :
       /\ inode_open(t, ROOT_DIR_SECTOR, b)
       /\ IF b = None THEN Return(t)
          ELSE Go(t, "dir_open", [NoCall EXCEPT !.op = op, !.name = name, !.size = size, !.dir = b])
  /\ UNCHANGED <<free_map, disk, entries, file_table, lost, orphans>>

dir_open(t) ==
  /\ At(t, "dir_open")
  /\ \/ inode[call[t].dir].lock = None /\ Go(t, call[t].op, call[t])
     \/ MemMayFail /\ CloseThen(t, call[t].dir, "user", NoCall)
  /\ UNCHANGED <<free_map, disk, entries, inode, open_inodes, list_lock, file_table, creates, lost, orphans>>

\* lookup: the entries that may be found for a name.  A read that comes out
\* short for want of memory ends the search.
Matches(i, name) == entries[i].in_use /\ entries[i].name = name
lookup(name) ==
  {i \in 1 .. DirSlots : Matches(i, name) /\ \A j \in 1 .. i - 1 : ~Matches(j, name)}
    \cup (IF BounceMayFail \/ \A i \in 1 .. DirSlots : ~Matches(i, name) THEN {0} ELSE {})

\* Where dir_add writes: the first entry not in use, or past the end; or where
\* a read came out short.
InUseUpTo(i) == \A j \in 1 .. i : entries[j].in_use
free_slot ==
  {i \in 1 .. DirSlots + 1 : InUseUpTo(i - 1) /\ (BounceMayFail \/ i > DirSlots \/ ~entries[i].in_use)}

-----------------------------------------------------------------------------
(***************************************************************************)
(* filesys_create: a sector for the inode, sectors for the data, the inode *)
(* and the zeros written, the entry added; on failure the inode's sector   *)
(* is released, and the data's sectors, if there are any, are lost.        *)
(***************************************************************************)
AllocateInode(t) ==
  /\ At(t, "create")
  /\ \/ \E s \in Sectors : free_map_allocate(1, s) /\ Go(t, "inode_create", [call[t] EXCEPT !.sector = s])
     \/ free_map_fails(1) /\ dir_close(t)
  /\ UNCHANGED <<disk, entries, inode, open_inodes, list_lock, file_table, creates, lost, orphans>>

AllocateData(t) ==
  /\ At(t, "inode_create")
  /\ \/ \E s \in Sectors : free_map_allocate(call[t].size, s) /\ Go(t, "write_inode", [call[t] EXCEPT !.start = s])
     \/ free_map_fails(call[t].size) /\ Go(t, "undo", call[t])
     \/ MemMayFail /\ Go(t, "undo", call[t]) /\ UNCHANGED free_map
  /\ UNCHANGED <<disk, entries, inode, open_inodes, list_lock, file_table, creates, lost, orphans>>

\* The inode is written, and the zeros.
WriteInode(t) ==
  /\ At(t, "write_inode")
  /\ disk' = [s \in Sectors |->
       IF s = call[t].sector THEN [start |-> call[t].start, length |-> call[t].size]
       ELSE IF s \in Extent(call[t].start, call[t].size) THEN [start |-> 0, length |-> 0] ELSE disk[s]]
  /\ Go(t, "dir_add", call[t])
  /\ UNCHANGED <<free_map, entries, inode, open_inodes, list_lock, file_table, creates, lost, orphans>>

\* dir_add, which holds the directory's lock from the search to the write.
dir_add(t) ==
  /\ At(t, "dir_add")
  /\ \/ /\ call[t].name \in InvalidNames
        /\ Go(t, "undo", call[t]) /\ UNCHANGED entries
     \/ /\ call[t].name \notin InvalidNames
        /\ inode[call[t].dir].lock = None
        /\ \E found \in lookup(call[t].name), i \in free_slot :
             IF found = 0 /\ i <= DirSlots
             THEN /\ entries' = [entries EXCEPT ![i] =
                       [name |-> call[t].name, inode_sector |-> call[t].sector, in_use |-> TRUE]]
                  /\ dir_close(t)
             ELSE Go(t, "undo", call[t]) /\ UNCHANGED entries
  /\ lost' = IF pc'[t] = "undo" THEN lost \cup Extent(call[t].start, call[t].size) ELSE lost
  /\ UNCHANGED <<free_map, disk, inode, open_inodes, list_lock, file_table, creates, orphans>>

Undo(t) ==
  /\ At(t, "undo")
  /\ free_map_release(call[t].sector, 1)
  /\ dir_close(t)
  /\ UNCHANGED <<disk, entries, inode, open_inodes, list_lock, file_table, creates, lost, orphans>>

-----------------------------------------------------------------------------
(***************************************************************************)
(* filesys_open: dir_lookup reads the entries one by one without the       *)
(* directory's lock, and then opens the inode of the sector it has read.   *)
(***************************************************************************)
LookupEntry(t) ==
  LET i == call[t].ofs
  IN /\ At(t, "open")
     /\ \/ /\ i > DirSlots \/ BounceMayFail
           /\ dir_close(t)
        \/ /\ i <= DirSlots /\ Matches(i, call[t].name)
           /\ Go(t, "open_found", [call[t] EXCEPT !.sector = entries[i].inode_sector])
        \/ /\ i <= DirSlots /\ ~Matches(i, call[t].name)
           /\ Go(t, "open", [call[t] EXCEPT !.ofs = i + 1])
     /\ UNCHANGED <<free_map, disk, entries, inode, open_inodes, list_lock, file_table, creates, lost, orphans>>

dir_lookup(t) ==
  /\ At(t, "open_found")
  /\ \E b \in Blocks \cup {None} :
       /\ inode_open(t, call[t].sector, b)
       /\ CloseThen(t, call[t].dir, "file_open", [call[t] EXCEPT !.inode = b, !.dir = None])
  /\ UNCHANGED <<free_map, disk, entries, file_table, creates, lost, orphans>>

\* file_open: the first descriptor not in use; without one, or without
\* memory, the inode is closed again.
file_open(t) ==
  LET unused == {fd \in Fds : file_table[t][fd] = NoFile}
  IN /\ At(t, "file_open")
     /\ \/ /\ call[t].inode # None
           /\ \E fd \in unused :
                /\ \A other \in unused : fd <= other
                /\ file_table' = [file_table EXCEPT ![t][fd] = [inode |-> call[t].inode, pos |-> 0]]
           /\ Return(t)
        \/ /\ call[t].inode = None \/ unused = {} \/ MemMayFail
           /\ CloseThen(t, call[t].inode, "user", NoCall)
           /\ UNCHANGED file_table
     /\ UNCHANGED <<free_map, disk, entries, inode, open_inodes, list_lock, creates, lost, orphans>>

-----------------------------------------------------------------------------
(***************************************************************************)
(* filesys_remove: dir_remove under the directory's lock, which is         *)
(* released before the inode is closed.                                    *)
(***************************************************************************)
RemoveLookup(t) ==
  /\ At(t, "remove") /\ inode[call[t].dir].lock = None
  /\ \E found \in lookup(call[t].name) :
       IF found = 0 THEN dir_close(t) /\ UNCHANGED inode
       ELSE /\ inode' = [inode EXCEPT ![call[t].dir].lock = t]
            /\ Go(t, "remove_open", [call[t] EXCEPT !.ofs = found, !.sector = entries[found].inode_sector])
  /\ UNCHANGED <<free_map, disk, entries, open_inodes, list_lock, file_table, creates, lost, orphans>>

RemoveOpen(t) ==
  /\ At(t, "remove_open")
  /\ \E b \in Blocks \cup {None} :
       /\ inode_open(t, call[t].sector, b)
       /\ Go(t, IF b = None THEN "remove_done" ELSE "remove_erase", [call[t] EXCEPT !.inode = b])
  /\ UNCHANGED <<free_map, disk, entries, file_table, creates, lost, orphans>>

inode_remove(b) == inode' = [inode EXCEPT ![b].removed = TRUE]

RemoveErase(t) ==
  /\ At(t, "remove_erase")
  /\ \/ entries' = [entries EXCEPT ![call[t].ofs].in_use = FALSE] /\ inode_remove(call[t].inode)
     \/ BounceMayFail /\ UNCHANGED <<entries, inode>>
  /\ Go(t, "remove_done", call[t])
  /\ UNCHANGED <<free_map, disk, open_inodes, list_lock, file_table, creates, lost, orphans>>

\* mistake: the directory's lock is kept when the file could be removed
RemoveDoneLocked(t) ==
  /\ At(t, "remove_done")
  /\ CloseThen(t, call[t].inode, "dir_close", [NoCall EXCEPT !.dir = call[t].dir])
  /\ UNCHANGED <<free_map, disk, entries, inode, open_inodes, list_lock, file_table, creates, lost, orphans>>

RemoveDone(t) ==
  /\ At(t, "remove_done")
  /\ inode' = [inode EXCEPT ![call[t].dir].lock = None]
  /\ CloseThen(t, call[t].inode, "dir_close", [NoCall EXCEPT !.dir = call[t].dir])
  /\ UNCHANGED <<free_map, disk, entries, open_inodes, list_lock, file_table, creates, lost, orphans>>

RemoveClosed(t) ==
  /\ At(t, "dir_close") /\ dir_close(t)
  /\ UNCHANGED <<free_map, disk, entries, inode, open_inodes, list_lock, file_table, creates, lost, orphans>>

-----------------------------------------------------------------------------
(***************************************************************************)
(* Calls on open files.  A read or a write moves the position by what it   *)
(* transferred, at most to the end of the file; a seek beyond the end is   *)
(* ignored.  A descriptor that is not open makes read, write and close do  *)
(* nothing (and the others fail an assertion of the kernel).               *)
(***************************************************************************)
Opened(t, fd) == At(t, "user") /\ file_table[t][fd] # NoFile

file_length(f) == inode[f.inode].length

Transfer(t, fd, size) ==
  /\ Opened(t, fd)
  /\ LET f == file_table[t][fd]
         end == file_length(f)
     IN file_table' = [file_table EXCEPT ![t][fd].pos = IF f.pos + size < end THEN f.pos + size ELSE end]
  /\ UNCHANGED <<free_map, disk, entries, inode, open_inodes, list_lock, pc, call, creates, lost, orphans>>

file_seek(t, fd, new_pos) ==
  /\ Opened(t, fd) /\ new_pos <= file_length(file_table[t][fd])
  /\ file_table' = [file_table EXCEPT ![t][fd].pos = new_pos]
  /\ UNCHANGED <<free_map, disk, entries, inode, open_inodes, list_lock, pc, call, creates, lost, orphans>>

file_close(t, fd, next) ==
  /\ file_table' = [file_table EXCEPT ![t][fd] = NoFile]
  /\ CloseThen(t, file_table[t][fd].inode, next, NoCall)
  /\ UNCHANGED <<free_map, disk, entries, inode, open_inodes, list_lock, creates, lost, orphans>>

Close(t, fd) == Opened(t, fd) /\ file_close(t, fd, "user")

\* The exit call, and a call with a bad pointer: close_all_files, then the
\* thread exits.  A new process takes its place in the model.
Exit(t) ==
  /\ At(t, "user") /\ \E fd \in Fds : file_table[t][fd] # NoFile
  /\ Go(t, "exit", NoCall)
  /\ UNCHANGED <<free_map, disk, entries, inode, open_inodes, list_lock, file_table, creates, lost, orphans>>

close_all_files(t) ==
  LET opened == {fd \in Fds : file_table[t][fd] # NoFile}
  IN /\ At(t, "exit")
     /\ \/ \E fd \in opened : (\A other \in opened : fd <= other) /\ file_close(t, fd, "exit")
        \/ /\ opened = {} /\ Return(t)
           /\ UNCHANGED <<free_map, disk, entries, inode, open_inodes, list_lock, file_table, creates, lost, orphans>>

\* What may hold an inode open: a local of a call, or a descriptor.
FileHandles(t) == {t} \X {"file"} \X Fds
Handles == (Threads \X {"dir", "inode", "closing"} \X {0}) \cup UNION {FileHandles(t) : t \in Threads}
Held(h) ==
  LET t == h[1]
  IN CASE h[2] = "dir" -> call[t].dir
       [] h[2] = "inode" -> call[t].inode
       [] h[2] = "closing" -> IF pc[t] = "close" THEN call[t].closing ELSE None
       [] h[2] = "file" -> file_table[t][h[3]].inode

\* A page fault or another exception, and an unknown call number: the thread
\* exits and nobody closes its files.
Fault(t) ==
  /\ At(t, "user") /\ \E fd \in Fds : file_table[t][fd] # NoFile
  /\ t \in MayFault /\ \A b \in Blocks : orphans[b] = 0
  /\ orphans' = [b \in Blocks |-> orphans[b] + Cardinality({h \in FileHandles(t) : Held(h) = b})]
  /\ file_table' = [file_table EXCEPT ![t] = [fd \in Fds |-> NoFile]]
  /\ UNCHANGED <<free_map, disk, entries, inode, open_inodes, list_lock, pc, call, creates, lost>>

KernelStep(t) ==
  \/ inode_close(t) \/ FreeInode(t) \/ FreeData(t)
  \/ dir_open(t)
  \/ AllocateInode(t) \/ AllocateData(t) \/ WriteInode(t) \/ dir_add(t) \/ Undo(t)
  \/ LookupEntry(t) \/ dir_lookup(t) \/ file_open(t)
  \/ RemoveLookup(t) \/ RemoveOpen(t) \/ RemoveErase(t) \/ RemoveDone(t) \/ RemoveClosed(t)
  \/ close_all_files(t)

UserStep(t) ==
  \/ \E name \in Uses[t] :
       \/ \E size \in Sizes : dir_open_root(t, "create", name, size)
       \/ dir_open_root(t, "open", name, 0)
  \/ \E name \in Removes[t] : dir_open_root(t, "remove", name, 0)
  \/ \E fd \in Fds :
       \/ Close(t, fd)
       \/ \E n \in Sizes : Transfer(t, fd, n)
       \/ \E n \in Sizes \cup {0} : file_seek(t, fd, n)
  \/ Exit(t) \/ Fault(t)

FsNext == \E t \in Threads : KernelStep(t) \/ UserStep(t)

FsSpec == FsInit /\ [][FsNext]_FsVars

-----------------------------------------------------------------------------
(***************************************************************************)
(* Who owns sectors: an entry of the directory; an open file that has no   *)
(* entry any more; a create on its way.                                    *)
(***************************************************************************)
Linked(sector) == \E i \in 1 .. DirSlots : entries[i].in_use /\ entries[i].inode_sector = sector

EntryClaim(i) ==
  IF entries[i].in_use THEN SectorsOf(entries[i].inode_sector, disk[entries[i].inode_sector]) ELSE {}

Closing(b, at) == \E t \in Threads : pc[t] = at /\ call[t].closing = b
InodeClaim(b) ==
  IF Closing(b, "free_data") THEN Extent(inode[b].start, inode[b].length)
  ELSE IF inode[b] = NoInode \/ inode[b].sector = ROOT_DIR_SECTOR \/ Linked(inode[b].sector) THEN {}
  ELSE SectorsOf(inode[b].sector, inode[b])

CreateClaim(t) ==
  (IF pc[t] \in {"inode_create", "write_inode", "dir_add", "undo"} THEN {call[t].sector} ELSE {})
  \cup (IF pc[t] \in {"write_inode", "dir_add"} THEN Extent(call[t].start, call[t].size) ELSE {})

Owners == ({"entry"} \X (1 .. DirSlots)) \cup ({"inode"} \X Blocks) \cup ({"create"} \X Threads)
Claim(o) == CASE o[1] = "entry" -> EntryClaim(o[2])
              [] o[1] = "inode" -> InodeClaim(o[2])
              [] o[1] = "create" -> CreateClaim(o[2])

References(b) == Cardinality({h \in Handles : Held(h) = b}) + orphans[b]

\* The state has the shape the code gives it; free_map stays within the device.
FsTypeOK ==
  /\ free_map \subseteq Sectors /\ open_inodes \subseteq Blocks
  /\ DOMAIN disk = Sectors /\ DOMAIN inode = Blocks
  /\ list_lock \in Threads \cup {None}
  /\ \A t \in Threads : call[t].sector \in Sectors /\ call[t].start \in Sectors

\* A sector belongs to one file, and is marked as long as it belongs to one:
\* whatever create, open, remove, close and exit do at the same time, no file
\* gets the sectors of another, and free_map_release never releases what is
\* not allocated (free-map.c: ASSERT(bitmap_all (...))).
SectorsOwnedOnce ==
  LET claims == {<<o, Claim(o)>> : o \in Owners}
  IN /\ \A c \in claims : c[2] \subseteq free_map \ Reserved
     /\ \A c, d \in claims : c[1] # d[1] => c[2] \cap d[2] = {}

\* Sectors come back: apart from the data of a create whose dir_add failed
\* (filesys.c:53 releases the inode's sector only), a marked sector has an owner.
SectorsComeBack == free_map = Reserved \cup lost \cup UNION {Claim(o) : o \in Owners}

\* Every sector of the device is free, or has one owner (free-map.c, inode.c).
SectorsAccounted == FsTypeOK /\ SectorsOwnedOnce /\ SectorsComeBack

\* Opening a sector twice gives the same struct inode (inode.c:56), whose
\* count is the number of opens not yet closed: no file is freed in use.
InodeShared ==
  /\ \A b, d \in open_inodes : inode[b].sector = inode[d].sector => b = d
  /\ \A b \in Blocks : inode[b].open_cnt = References(b)
  /\ \A b \in Blocks : inode[b].open_cnt > 0 <=> b \in open_inodes

\* Two entries in use have different names (directory.c:126).
NamesUnique ==
  \A i, j \in 1 .. DirSlots :
    entries[i].in_use /\ entries[j].in_use /\ entries[i].name = entries[j].name => i = j

\* What struct inode remembers of the disk is what is on it, so a descriptor
\* is never past the end of its file.
PositionsInFile ==
  /\ \A b \in open_inodes : inode[b].start = disk[inode[b].sector].start
                            /\ inode[b].length = disk[inode[b].sector].length
  /\ \A t \in Threads, fd \in Fds :
       file_table[t][fd] # NoFile => file_table[t][fd].pos <= file_length(file_table[t][fd])

\* Names, open inodes, descriptors and the disk say the same of a file
\* (directory.c, inode.c, file.c).
FilesConsistent == InodeShared /\ NamesUnique /\ PositionsInFile

\* The directory's lock, list_lock and an inode's locks are never waited for
\* in a circle: while some thread is in the kernel, one of them can go on.
\* The exception is inode.c:131: inode_open returns with list_lock held when
\* malloc fails, and every later open and close waits for ever.
FsNoDeadlock ==
  list_lock = None /\ (\E t \in Threads : pc[t] # "user")
    => \E t \in Threads : ENABLED KernelStep(t)

=============================================================================
