-------------------------- MODULE FileSystemProofs --------------------------
(***************************************************************************)
(* What is proved of FileSystem: every sector of the device is free, lost  *)
(* or has one owner, and names, open inodes, descriptors and the disk say  *)
(* the same of a file (SectorsAccounted, FilesConsistent), for any         *)
(* processes, names, device and directory.  FsInv is the inductive         *)
(* invariant; each step keeps it (the lemmas ...Step), and the step that   *)
(* opens what a lookup has found needs that the entry is still there.      *)
(***************************************************************************)
EXTENDS FileSystem, FiniteSetTheorems, TLAPS
-----------------------------------------------------------------------------
(* The file system: who owns a sector, who holds an inode open, and what    *)
(* the directory says, for any threads, files and devices.                  *)

InDir == {"dir_open", "create", "inode_create", "write_inode", "dir_add", "undo", "open", "open_found",
          "remove", "remove_open", "remove_erase", "remove_done", "dir_close"}
Freeing == {"free_inode", "free_data"}
Going == {"close"} \cup Freeing
Nexts == {"user", "file_open", "dir_close", "exit"}
Pcs == InDir \cup Going \cup Nexts
Erasing == {"remove_open", "remove_erase"}
Locking == Erasing \cup {"remove_done"}
Creating == {"inode_create", "write_inode", "dir_add", "undo"}

Mem == Blocks \cup {None}
CallType == [op : {"none", "create", "open", "remove"}, name : Names \cup {None}, size : Nat, dir : Mem,
             sector : Sectors, start : Sectors, ofs : Nat, inode : Mem, closing : Mem, next : Nexts]
InodeType == [sector : Sectors, open_cnt : Nat, removed : BOOLEAN, start : Sectors, length : Nat,
              lock : Threads \cup {None}]
EntryType == [name : Names \cup {None}, inode_sector : Sectors, in_use : BOOLEAN]
FileType == [inode : Mem, pos : Nat]
FsTypes ==
  /\ free_map \subseteq Sectors /\ disk \in [Sectors -> [start : Sectors, length : Nat]]
  /\ entries \in [1 .. DirSlots -> EntryType] /\ inode \in [Blocks -> InodeType] /\ open_inodes \subseteq Blocks
  /\ list_lock \in Threads \cup {None} /\ pc \in [Threads -> Pcs] /\ call \in [Threads -> CallType]
  /\ file_table \in [Threads -> [Fds -> FileType]] /\ orphans \in [Blocks -> Nat] /\ lost \subseteq Sectors

\* Where a call stands, apart from the inode it closes on its way.
Place(p, c) == IF p \in Going THEN c.next ELSE p
\* What the locals of a call are good for at each place.
Shape(p, c) ==
  /\ c.closing # None <=> p \in Going
  /\ c.dir # None <=> Place(p, c) \in InDir
  /\ c.inode # None => Place(p, c) \in {"file_open", "remove_erase", "remove_done"}
  /\ p = "dir_open" => c.op \in {"create", "open", "remove"}
  /\ p \in {"dir_open", "open"} => c.ofs > 0
  /\ p = "remove_erase" => c.inode # None
Shapes == \A t \in Threads : Shape(pc[t], call[t])

\* The directory's inode, and the entry a remove has found while it holds the lock.
Dirs ==
  /\ \A t \in Threads : call[t].dir # None => inode[call[t].dir].sector = ROOT_DIR_SECTOR
  /\ \A t \in Threads : pc[t] \in Locking <=> \E b \in Blocks : inode[b].lock = t
  /\ \A b \in Blocks : inode[b].lock # None => call[inode[b].lock].dir = b
FoundAt(c, i) ==
  /\ i \in 1 .. DirSlots /\ entries[i].in_use /\ entries[i].inode_sector = c.sector /\ entries[i].name = c.name
Removals ==
  \A t \in Threads :
    /\ pc[t] \in Erasing => FoundAt(call[t], call[t].ofs)
    /\ pc[t] = "remove_erase" => inode[call[t].inode].sector = call[t].sector

Counted ==
  /\ \A b \in Blocks : inode[b].open_cnt = References(b)
  /\ \A b \in Blocks : inode[b].open_cnt > 0 <=> b \in open_inodes
FilesHeld ==
  \A t \in Threads, fd \in Fds : LET f == file_table[t][fd]
    IN f # NoFile => f.inode # None /\ f.pos <= inode[f.inode].length

\* An inode on the list is that of a file with an entry or of the root directory, until it is
\* removed; one off the list is being freed, or is no inode.
Shared == \A b, d \in open_inodes : inode[b].sector = inode[d].sector => b = d
OnList(b) ==
  /\ inode[b].removed <=> ~(inode[b].sector = ROOT_DIR_SECTOR \/ Linked(inode[b].sector))
  /\ inode[b].start = disk[inode[b].sector].start /\ inode[b].length = disk[inode[b].sector].length
FreedBy(t, b) == pc[t] \in Freeing /\ call[t].closing = b
OffList(b) ==
  /\ inode[b] # NoInode => inode[b].removed /\ \E t \in Threads : FreedBy(t, b)
Frees ==
  /\ \A t \in Threads : pc[t] \in Freeing => call[t].closing \notin open_inodes /\ inode[call[t].closing] # NoInode
  /\ \A t, u \in Threads : pc[t] \in Freeing /\ pc[u] \in Freeing /\ call[t].closing = call[u].closing => t = u
  /\ \A t \in Threads : pc[t] = "free_inode" =>
       LET s == inode[call[t].closing].sector IN s # ROOT_DIR_SECTOR /\ ~Linked(s)
Inodes == Shared /\ (\A b \in open_inodes : OnList(b)) /\ (\A b \in Blocks \ open_inodes : OffList(b)) /\ Frees

\* No inode is among the sectors of its own data.
Separate(s, start, length) == s \notin Extent(start, length)
Apart ==
  /\ \A i \in 1 .. DirSlots : LET s == entries[i].inode_sector
       IN entries[i].in_use => Separate(s, disk[s].start, disk[s].length)
  /\ \A b \in Blocks : inode[b].removed => Separate(inode[b].sector, inode[b].start, inode[b].length)
  /\ \A t \in Threads : pc[t] \in {"write_inode", "dir_add"} => Separate(call[t].sector, call[t].start, call[t].size)
Written ==
  \A t \in Threads : pc[t] = "dir_add" => disk[call[t].sector] = [start |-> call[t].start, length |-> call[t].size]

\* The sectors marked: the reserved ones, the lost ones, and those with one owner.
Owned ==
  /\ \A o \in Owners : Claim(o) \cap (Reserved \cup lost) = {}
  /\ \A o, p \in Owners : o # p => Claim(o) \cap Claim(p) = {}
  /\ Reserved \cap lost = {}
  /\ SectorsComeBack

FsInv ==
  /\ FsTypes /\ Shapes /\ Dirs /\ Removals /\ Counted /\ FilesHeld /\ Inodes /\ Apart /\ Written /\ Owned
  /\ NamesUnique

\* The entry that an open has found is still there when its inode is opened: dir_lookup takes no lock.
OpensLinked == \A t \in Threads : pc[t] = "open_found" => Linked(call[t].sector)

-----------------------------------------------------------------------------
(***************************************************************************)
(* Counting.  What the handles hold is a function of the handles; a step   *)
(* changes it at one or two of them, and the number of handles that hold   *)
(* an inode with it.                                                       *)
(***************************************************************************)
HoldersOf(f, b) == {h \in Handles : f[h] = b}
HeldMap == [h \in Handles |-> Held(h)]

\* A handle is a local of a thread, or one of its descriptors.
LEMMA HandleKinds ==
  /\ \A t \in Threads : {<<t, "dir", 0>>, <<t, "inode", 0>>, <<t, "closing", 0>>} \subseteq Handles
  /\ \A t \in Threads, fd \in Fds : <<t, "file", fd>> \in Handles
  /\ \A h \in Handles : \E t \in Threads :
       h \in {<<t, "dir", 0>>, <<t, "inode", 0>>, <<t, "closing", 0>>} \/ \E fd \in Fds : h = <<t, "file", fd>>
<1>1. ASSUME NEW t \in Threads PROVE {<<t, "dir", 0>>, <<t, "inode", 0>>, <<t, "closing", 0>>} \subseteq Handles
  <2>1. <<t, "dir", 0>> \in Threads \X {"dir", "inode", "closing"} \X {0}
    OBVIOUS
  <2>2. <<t, "inode", 0>> \in Threads \X {"dir", "inode", "closing"} \X {0}
    OBVIOUS
  <2>3. <<t, "closing", 0>> \in Threads \X {"dir", "inode", "closing"} \X {0}
    OBVIOUS
  <2> QED BY <2>1, <2>2, <2>3 DEF Handles
<1>2. ASSUME NEW t \in Threads, NEW fd \in Fds PROVE <<t, "file", fd>> \in Handles
  <2>1. <<t, "file", fd>> \in FileHandles(t)
    BY DEF FileHandles
  <2> QED BY <2>1 DEF Handles
<1>3. ASSUME NEW h \in Handles
      PROVE \E t \in Threads :
       h \in {<<t, "dir", 0>>, <<t, "inode", 0>>, <<t, "closing", 0>>} \/ \E fd \in Fds : h = <<t, "file", fd>>
  <2>1. CASE h \in Threads \X {"dir", "inode", "closing"} \X {0}
    BY <2>1
  <2>2. CASE \E t \in Threads : h \in FileHandles(t)
    BY <2>2 DEF FileHandles
  <2> QED BY <2>1, <2>2 DEF Handles
<1> QED BY <1>1, <1>2, <1>3

LEMMA HandlesFinite == IsFiniteSet(Handles)
<1> DEFINE K == {"dir", "inode", "closing", "file"}
           F == {0} \cup Fds
           S == (Threads \X K) \X F
           g == [x \in S |-> <<x[1][1], x[1][2], x[2]>>]
           T == {g[x] : x \in S}
<1>1. IsFiniteSet(K)
  <2>1. IsFiniteSet({"dir"})
    BY FS_Singleton
  <2>2. IsFiniteSet({"dir"} \cup {"inode"})
    BY <2>1, FS_AddElement
  <2>3. IsFiniteSet(({"dir"} \cup {"inode"}) \cup {"closing"})
    BY <2>2, FS_AddElement
  <2>4. IsFiniteSet((({"dir"} \cup {"inode"}) \cup {"closing"}) \cup {"file"})
    BY <2>3, FS_AddElement
  <2>5. K = (({"dir"} \cup {"inode"}) \cup {"closing"}) \cup {"file"}
    OBVIOUS
  <2> QED BY <2>4, <2>5
<1>2. IsFiniteSet(F)
  <2>1. IsFiniteSet(Fds \cup {0})
    BY FsAssumption, FS_AddElement
  <2>2. F = Fds \cup {0}
    OBVIOUS
  <2> QED BY <2>1, <2>2
<1>3. IsFiniteSet(Threads \X K)
  <2> HIDE DEF K
  <2> QED BY <1>1, FsAssumption, FS_Product
<1>4. IsFiniteSet(S)
  <2> DEFINE TK == Threads \X K
  <2>1. IsFiniteSet(TK \X F)
    <3> HIDE DEF TK, F
    <3> QED BY <1>2, <1>3, FS_Product DEF TK
  <2> QED BY <2>1
<1>5. g \in Surjection(S, T)
  <2> HIDE DEF S
  <2>1. g \in [S -> T]
    OBVIOUS
  <2> QED BY <2>1 DEF Surjection
<1>6. IsFiniteSet(T)
  <2> HIDE DEF S, T, g
  <2> QED BY <1>4, <1>5, FS_Surjection
<1>7. Handles \subseteq T
  <2> SUFFICES ASSUME NEW h \in Handles PROVE h \in T
    OBVIOUS
  <2>1. PICK t \in Threads, k \in K, n \in F : h = <<t, k, n>>
    BY HandleKinds
  <2> HIDE DEF K, F
  <2>2. <<<<t, k>>, n>> \in S
    OBVIOUS
  <2>3. g[<<<<t, k>>, n>>] = h
    BY <2>1, <2>2
  <2> QED BY <2>2, <2>3
<1> HIDE DEF T
<1> QED BY <1>6, <1>7, FS_Subset

LEMMA CountType ==
  ASSUME NEW f, NEW b
  PROVE /\ IsFiniteSet(HoldersOf(f, b)) /\ Cardinality(HoldersOf(f, b)) \in Nat
        /\ \A h \in Handles : f[h] = b => Cardinality(HoldersOf(f, b)) > 0
<1>1. IsFiniteSet(HoldersOf(f, b))
  BY HandlesFinite, FS_Subset DEF HoldersOf
<1>2. Cardinality(HoldersOf(f, b)) \in Nat
  BY <1>1, FS_CardinalityType
<1>3. ASSUME NEW h \in Handles, f[h] = b PROVE Cardinality(HoldersOf(f, b)) > 0
  <2>1. HoldersOf(f, b) # {}
    BY <1>3 DEF HoldersOf
  <2>2. Cardinality(HoldersOf(f, b)) # 0
    BY <1>1, <2>1, FS_EmptySet
  <2> QED BY <1>2, <2>2
<1> QED BY <1>1, <1>2, <1>3

\* A handle that held nothing comes to hold b: one more for b.
LEMMA CountGained ==
  ASSUME NEW f \in [Handles -> Mem], NEW h \in Handles, f[h] = None, NEW b \in Mem, NEW d \in Blocks
  PROVE Cardinality(HoldersOf([f EXCEPT ![h] = b], d)) = Cardinality(HoldersOf(f, d)) + (IF b = d THEN 1 ELSE 0)
<1> DEFINE g == [f EXCEPT ![h] = b]
<1>0. d # None
  BY FsAssumption
<1>1. CASE b = d
  <2>1. HoldersOf(g, d) = HoldersOf(f, d) \cup {h} /\ h \notin HoldersOf(f, d)
    BY <1>0, <1>1 DEF HoldersOf
  <2> QED BY <1>1, <2>1, CountType, FS_AddElement
<1>2. CASE b # d
  <2>1. HoldersOf(g, d) = HoldersOf(f, d)
    BY <1>0, <1>2 DEF HoldersOf
  <2> QED BY <1>2, <2>1, CountType
<1> QED BY <1>1, <1>2

\* A handle lets go of b: one less.
LEMMA CountLost ==
  ASSUME NEW f \in [Handles -> Mem], NEW h \in Handles, NEW d \in Blocks
  PROVE Cardinality(HoldersOf([f EXCEPT ![h] = None], d))
          = Cardinality(HoldersOf(f, d)) - (IF f[h] = d THEN 1 ELSE 0)
<1> DEFINE g == [f EXCEPT ![h] = None]
<1>0. d # None
  BY FsAssumption
<1>1. CASE f[h] = d
  <2>1. HoldersOf(g, d) = HoldersOf(f, d) \ {h} /\ h \in HoldersOf(f, d)
    BY <1>0, <1>1 DEF HoldersOf
  <2> QED BY <1>1, <2>1, CountType, FS_RemoveElement
<1>2. CASE f[h] # d
  <2>1. HoldersOf(g, d) = HoldersOf(f, d)
    BY <1>0, <1>2 DEF HoldersOf
  <2> QED BY <1>2, <2>1, CountType
<1> QED BY <1>1, <1>2

\* What one handle held, another one holds: as many as before.
LEMMA CountMoved ==
  ASSUME NEW f \in [Handles -> Mem], NEW h \in Handles, NEW k \in Handles, h # k, f[k] = None, NEW d \in Blocks
  PROVE Cardinality(HoldersOf([f EXCEPT ![h] = None, ![k] = f[h]], d)) = Cardinality(HoldersOf(f, d))
<1> DEFINE g == [f EXCEPT ![h] = None]
           m == Cardinality(HoldersOf(f, d))
           one == IF f[h] = d THEN 1 ELSE 0
<1>1. g \in [Handles -> Mem] /\ g[k] = None
  BY DEF Mem
<1>2. [f EXCEPT ![h] = None, ![k] = f[h]] = [g EXCEPT ![k] = f[h]]
  OBVIOUS
<1>3. f[h] \in Mem
  OBVIOUS
<1>4. Cardinality(HoldersOf(g, d)) = m - one
  BY CountLost
<1>5. Cardinality(HoldersOf([g EXCEPT ![k] = f[h]], d)) = Cardinality(HoldersOf(g, d)) + one
  <2> HIDE DEF g
  <2> QED BY <1>1, <1>3, CountGained
<1>6. m \in Nat
  BY CountType
<1> HIDE DEF g, m
<1> QED BY <1>2, <1>4, <1>5, <1>6 DEF m

-----------------------------------------------------------------------------
ClosingHeld(p, c) == IF p = "close" THEN c.closing ELSE None

LEMMA HeldAre ==
  ASSUME NEW t \in Threads
  PROVE /\ Held(<<t, "dir", 0>>) = call[t].dir /\ Held(<<t, "inode", 0>>) = call[t].inode
        /\ Held(<<t, "closing", 0>>) = ClosingHeld(pc[t], call[t])
        /\ \A fd \in Fds : Held(<<t, "file", fd>>) = file_table[t][fd].inode
<1> DEFINE hd == <<t, "dir", 0>> hi == <<t, "inode", 0>> hc == <<t, "closing", 0>>
<1>1. hd[1] = t /\ hd[2] = "dir" /\ hi[1] = t /\ hi[2] = "inode" /\ hc[1] = t /\ hc[2] = "closing"
  OBVIOUS
<1>2. Held(hd) = call[t].dir
  <2> HIDE DEF hd
  <2> QED BY <1>1 DEF Held
<1>3. Held(hi) = call[t].inode
  <2> HIDE DEF hi
  <2> QED BY <1>1 DEF Held
<1>4. Held(hc) = ClosingHeld(pc[t], call[t])
  <2> HIDE DEF hc
  <2> QED BY <1>1 DEF Held, ClosingHeld
<1>5. ASSUME NEW fd \in Fds PROVE Held(<<t, "file", fd>>) = file_table[t][fd].inode
  <2> DEFINE h == <<t, "file", fd>>
  <2>1. h[1] = t /\ h[2] = "file" /\ h[3] = fd
    OBVIOUS
  <2>2. Held(h) = file_table[t][fd].inode
    <3> HIDE DEF h
    <3> QED BY <2>1 DEF Held
  <2> QED BY <2>2
<1> QED BY <1>2, <1>3, <1>4, <1>5

LEMMA HeldAreAfter ==
  ASSUME NEW t \in Threads
  PROVE /\ Held(<<t, "dir", 0>>)' = call'[t].dir /\ Held(<<t, "inode", 0>>)' = call'[t].inode
        /\ Held(<<t, "closing", 0>>)' = ClosingHeld(pc'[t], call'[t])
        /\ \A fd \in Fds : Held(<<t, "file", fd>>)' = file_table'[t][fd].inode
<1> DEFINE hd == <<t, "dir", 0>> hi == <<t, "inode", 0>> hc == <<t, "closing", 0>>
<1>1. hd[1] = t /\ hd[2] = "dir" /\ hi[1] = t /\ hi[2] = "inode" /\ hc[1] = t /\ hc[2] = "closing"
  OBVIOUS
<1>2. Held(hd)' = call'[t].dir
  BY <1>1 DEF Held
<1>3. Held(hi)' = call'[t].inode
  BY <1>1 DEF Held
<1>4. Held(hc)' = ClosingHeld(pc'[t], call'[t])
  BY <1>1 DEF Held, ClosingHeld
<1>5. ASSUME NEW fd \in Fds PROVE Held(<<t, "file", fd>>)' = file_table'[t][fd].inode
  BY DEF Held
<1> QED BY <1>2, <1>3, <1>4, <1>5

LEMMA HeldMapType == FsTypes => HeldMap \in [Handles -> Mem]
<1> SUFFICES ASSUME FsTypes, NEW h \in Handles PROVE Held(h) \in Mem
  BY DEF HeldMap
<1>1. PICK t \in Threads :
       h \in {<<t, "dir", 0>>, <<t, "inode", 0>>, <<t, "closing", 0>>} \/ \E fd \in Fds : h = <<t, "file", fd>>
  BY HandleKinds
<1>2. call[t] \in CallType
  BY DEF FsTypes
<1>3. CASE h \in {<<t, "dir", 0>>, <<t, "inode", 0>>, <<t, "closing", 0>>}
  <2>1. {call[t].dir, call[t].inode, ClosingHeld(pc[t], call[t])} \subseteq Mem
    BY <1>2 DEF CallType, Mem, ClosingHeld
  <2> QED BY <1>3, <2>1, HeldAre
<1>4. CASE \E fd \in Fds : h = <<t, "file", fd>>
  <2>1. PICK fd \in Fds : h = <<t, "file", fd>>
    BY <1>4
  <2>2. file_table[t][fd] \in FileType
    BY DEF FsTypes
  <2> QED BY <2>1, <2>2, HeldAre DEF FileType
<1> QED BY <1>1, <1>3, <1>4

\* A step of one thread changes what its own handles hold.
Locals(f, t, c, p) ==
  [f EXCEPT ![<<t, "dir", 0>>] = c.dir, ![<<t, "inode", 0>>] = c.inode, ![<<t, "closing", 0>>] = ClosingHeld(p, c)]

LEMMA HeldLocals ==
  ASSUME FsTypes, NEW t \in Threads, NEW to, NEW c, Go(t, to, c), NEW u \in Threads
  PROVE /\ Held(<<u, "dir", 0>>)' = IF u = t THEN c.dir ELSE Held(<<u, "dir", 0>>)
        /\ Held(<<u, "inode", 0>>)' = IF u = t THEN c.inode ELSE Held(<<u, "inode", 0>>)
        /\ Held(<<u, "closing", 0>>)' = IF u = t THEN ClosingHeld(to, c) ELSE Held(<<u, "closing", 0>>)
<1>1. pc'[t] = to /\ call'[t] = c /\ \A v \in Threads : v # t => pc'[v] = pc[v] /\ call'[v] = call[v]
  BY DEF FsTypes, Go
<1>2. /\ Held(<<u, "dir", 0>>)' = call'[u].dir /\ Held(<<u, "inode", 0>>)' = call'[u].inode
      /\ Held(<<u, "closing", 0>>)' = ClosingHeld(pc'[u], call'[u])
  BY HeldAreAfter, Zenon
<1>3. /\ Held(<<u, "dir", 0>>) = call[u].dir /\ Held(<<u, "inode", 0>>) = call[u].inode
      /\ Held(<<u, "closing", 0>>) = ClosingHeld(pc[u], call[u])
  BY HeldAre, Zenon
<1>4. CASE u = t
  BY <1>1, <1>2, <1>4, Zenon
<1>5. CASE u # t
  <2>1. pc'[u] = pc[u] /\ call'[u] = call[u]
    BY <1>1, <1>5
  <2> QED BY <1>2, <1>3, <1>5, <2>1, Zenon
<1> QED BY <1>4, <1>5

LEMMA HeldGo ==
  ASSUME FsTypes, NEW t \in Threads, NEW to, NEW c, Go(t, to, c), UNCHANGED file_table
  PROVE HeldMap' = Locals(HeldMap, t, c, to)
<1> DEFINE g == Locals(HeldMap, t, c, to)
<1>1. pc'[t] = to /\ call'[t] = c /\ \A u \in Threads : u # t => pc'[u] = pc[u] /\ call'[u] = call[u]
  BY DEF FsTypes, Go
<1>2. DOMAIN HeldMap' = Handles /\ DOMAIN g = Handles
  <2>1. HeldMap' = [h \in Handles |-> Held(h)']
    BY DEF HeldMap, Handles, FileHandles
  <2> QED BY <2>1 DEF HeldMap, Locals
<1>3. ASSUME NEW h \in Handles PROVE HeldMap'[h] = g[h]
  <2>1. HeldMap'[h] = Held(h)' /\ HeldMap[h] = Held(h)
    BY DEF HeldMap, Handles, FileHandles
  <2>2. PICK u \in Threads :
       h \in {<<u, "dir", 0>>, <<u, "inode", 0>>, <<u, "closing", 0>>} \/ \E fd \in Fds : h = <<u, "file", fd>>
    BY HandleKinds
  <2>3. CASE h = <<u, "dir", 0>>
    <3>1. g[h] = IF u = t THEN c.dir ELSE Held(h)
      BY <2>1, <2>3, HandleKinds DEF Locals, HeldMap
    <3>2. Held(h)' = IF u = t THEN c.dir ELSE Held(h)
      <4>1. Held(<<u, "dir", 0>>)' = IF u = t THEN c.dir ELSE Held(<<u, "dir", 0>>)
        BY HeldLocals
      <4> QED BY ONLY <2>3, <4>1, Zenon
    <3> HIDE DEF g
    <3> QED BY ONLY <2>1, <3>1, <3>2, Zenon
  <2>4. CASE h = <<u, "inode", 0>>
    <3>1. g[h] = IF u = t THEN c.inode ELSE Held(h)
      BY <2>1, <2>4, HandleKinds DEF Locals, HeldMap
    <3>2. Held(h)' = IF u = t THEN c.inode ELSE Held(h)
      <4>1. Held(<<u, "inode", 0>>)' = IF u = t THEN c.inode ELSE Held(<<u, "inode", 0>>)
        BY HeldLocals
      <4> QED BY ONLY <2>4, <4>1, Zenon
    <3> HIDE DEF g
    <3> QED BY ONLY <2>1, <3>1, <3>2, Zenon
  <2>5. CASE h = <<u, "closing", 0>>
    <3>1. g[h] = IF u = t THEN ClosingHeld(to, c) ELSE Held(h)
      BY <2>1, <2>5, HandleKinds DEF Locals, HeldMap
    <3>2. Held(h)' = IF u = t THEN ClosingHeld(to, c) ELSE Held(h)
      <4>1. Held(<<u, "closing", 0>>)' = IF u = t THEN ClosingHeld(to, c) ELSE Held(<<u, "closing", 0>>)
        BY HeldLocals
      <4> QED BY ONLY <2>5, <4>1, Zenon
    <3> HIDE DEF g
    <3> QED BY ONLY <2>1, <3>1, <3>2, Zenon
  <2>6. CASE \E fd \in Fds : h = <<u, "file", fd>>
    <3>1. PICK fd \in Fds : h = <<u, "file", fd>>
      BY <2>6
    <3>2. g[h] = Held(h)
      BY <2>1, <3>1, HandleKinds DEF Locals, HeldMap
    <3> QED BY <1>1, <2>1, <3>1, <3>2, HeldAre, HeldAreAfter
  <2> QED BY <2>2, <2>3, <2>4, <2>5, <2>6
<1>4. HeldMap' = [h \in Handles |-> HeldMap'[h]] /\ g = [h \in Handles |-> g[h]]
  <2>1. HeldMap' = [h \in Handles |-> Held(h)']
    BY DEF HeldMap, Handles, FileHandles
  <2>2. g = [h \in Handles |-> g[h]]
    BY DEF HeldMap, Locals
  <2> QED BY <2>1, <2>2
<1> HIDE DEF g
<1> QED BY <1>3, <1>4 DEF g

\* So does one that changes a descriptor too.
LEMMA HeldGoFile ==
  ASSUME FsTypes, NEW t \in Threads, NEW to, NEW c, Go(t, to, c),
         NEW fd \in Fds, NEW f, file_table' = [file_table EXCEPT ![t][fd] = f]
  PROVE HeldMap' = [Locals(HeldMap, t, c, to) EXCEPT ![<<t, "file", fd>>] = f.inode]
<1> DEFINE g == [Locals(HeldMap, t, c, to) EXCEPT ![<<t, "file", fd>>] = f.inode]
<1>1. pc'[t] = to /\ call'[t] = c /\ \A u \in Threads : u # t => pc'[u] = pc[u] /\ call'[u] = call[u]
  BY DEF FsTypes, Go
<1>2. \A u \in Threads, d \in Fds : file_table'[u][d] = IF u = t /\ d = fd THEN f ELSE file_table[u][d]
  BY DEF FsTypes
<1>3. ASSUME NEW h \in Handles PROVE HeldMap'[h] = g[h]
  <2>1. HeldMap'[h] = Held(h)' /\ HeldMap[h] = Held(h)
    BY DEF HeldMap, Handles, FileHandles
  <2>2. PICK u \in Threads :
       h \in {<<u, "dir", 0>>, <<u, "inode", 0>>, <<u, "closing", 0>>} \/ \E d \in Fds : h = <<u, "file", d>>
    BY HandleKinds
  <2>3. CASE h = <<u, "dir", 0>>
    <3>1. g[h] = IF u = t THEN c.dir ELSE Held(h)
      BY <2>1, <2>3, HandleKinds DEF Locals, HeldMap
    <3>2. Held(h)' = IF u = t THEN c.dir ELSE Held(h)
      BY <2>3, HeldLocals, Zenon
    <3> HIDE DEF g
    <3> QED BY <2>1, <3>1, <3>2
  <2>4. CASE h = <<u, "inode", 0>>
    <3>1. g[h] = IF u = t THEN c.inode ELSE Held(h)
      BY <2>1, <2>4, HandleKinds DEF Locals, HeldMap
    <3>2. Held(h)' = IF u = t THEN c.inode ELSE Held(h)
      BY <2>4, HeldLocals, Zenon
    <3> HIDE DEF g
    <3> QED BY <2>1, <3>1, <3>2
  <2>5. CASE h = <<u, "closing", 0>>
    <3>1. g[h] = IF u = t THEN ClosingHeld(to, c) ELSE Held(h)
      BY <2>1, <2>5, HandleKinds DEF Locals, HeldMap
    <3>2. Held(h)' = IF u = t THEN ClosingHeld(to, c) ELSE Held(h)
      <4>1. Held(<<u, "closing", 0>>)' = IF u = t THEN ClosingHeld(to, c) ELSE Held(<<u, "closing", 0>>)
        BY HeldLocals
      <4> QED BY <2>5, <4>1, Zenon
    <3> HIDE DEF g
    <3> QED BY <2>1, <3>1, <3>2
  <2>6. CASE \E d \in Fds : h = <<u, "file", d>>
    <3>1. PICK d \in Fds : h = <<u, "file", d>>
      BY <2>6
    <3>2. g[h] = IF u = t /\ d = fd THEN f.inode ELSE Held(h)
      BY <2>1, <3>1, HandleKinds DEF Locals, HeldMap
    <3>3. Held(h)' = file_table'[u][d].inode /\ Held(h) = file_table[u][d].inode
      BY <3>1, HeldAre, HeldAreAfter
    <3> QED BY <1>2, <2>1, <3>2, <3>3
  <2> QED BY <2>2, <2>3, <2>4, <2>5, <2>6
<1>4. HeldMap' = [h \in Handles |-> HeldMap'[h]] /\ g = [h \in Handles |-> g[h]]
  <2>1. HeldMap' = [h \in Handles |-> Held(h)']
    BY DEF HeldMap, Handles, FileHandles
  <2>2. g = [h \in Handles |-> g[h]]
    BY DEF HeldMap, Locals
  <2> QED BY <2>1, <2>2
<1> HIDE DEF g
<1> QED BY <1>3, <1>4 DEF g

LEMMA ReferencesAre ==
  \A b : References(b) = Cardinality(HoldersOf(HeldMap, b)) + orphans[b]
BY DEF References, HoldersOf, HeldMap

LEMMA ReferencesAfter ==
  \A b : References(b)' = Cardinality(HoldersOf(HeldMap', b)) + orphans'[b]
<1>1. HeldMap' = [h \in Handles |-> Held(h)']
  BY DEF HeldMap, Handles, FileHandles
<1>2. ASSUME NEW b PROVE HoldersOf(HeldMap', b) = {h \in Handles : Held(h)' = b}
  BY <1>1 DEF HoldersOf
<1>3. ASSUME NEW b PROVE References(b)' = Cardinality({h \in Handles : Held(h)' = b}) + orphans'[b]
  BY DEF References, Handles, FileHandles
<1> QED BY <1>2, <1>3

\* What is held is on the list.
LEMMA HeldOpen ==
  ASSUME FsTypes, Counted, NEW h \in Handles, NEW b \in Blocks, Held(h) = b
  PROVE b \in open_inodes
<1>1. HeldMap[h] = b
  BY DEF HeldMap
<1>2. Cardinality(HoldersOf(HeldMap, b)) > 0 /\ Cardinality(HoldersOf(HeldMap, b)) \in Nat
  BY <1>1, CountType
<1>3. orphans[b] \in Nat
  BY DEF FsTypes
<1>4. References(b) > 0
  <2> DEFINE m == Cardinality(HoldersOf(HeldMap, b))
  <2>1. References(b) = m + orphans[b]
    BY ReferencesAre
  <2> HIDE DEF m
  <2> QED BY <1>2, <1>3, <2>1 DEF m
<1> QED BY <1>4 DEF Counted

LEMMA LocalsOpen ==
  ASSUME FsTypes, Counted, NEW t \in Threads
  PROVE /\ call[t].dir # None => call[t].dir \in open_inodes
        /\ call[t].inode # None => call[t].inode \in open_inodes
        /\ pc[t] = "close" /\ call[t].closing # None => call[t].closing \in open_inodes
        /\ \A fd \in Fds : file_table[t][fd].inode # None => file_table[t][fd].inode \in open_inodes
<1>1. call[t] \in CallType /\ \A fd \in Fds : file_table[t][fd] \in FileType
  BY DEF FsTypes
<1>2. {call[t].dir, call[t].inode, call[t].closing} \subseteq Mem /\ \A fd \in Fds : file_table[t][fd].inode \in Mem
  BY <1>1 DEF CallType, FileType
<1>3. call[t].dir # None => call[t].dir \in open_inodes
  BY <1>2, HeldOpen, HeldAre, HandleKinds DEF Mem
<1>4. call[t].inode # None => call[t].inode \in open_inodes
  BY <1>2, HeldOpen, HeldAre, HandleKinds DEF Mem
<1>5. pc[t] = "close" /\ call[t].closing # None => call[t].closing \in open_inodes
  BY <1>2, HeldOpen, HeldAre, HandleKinds DEF Mem, ClosingHeld
<1>6. \A fd \in Fds : file_table[t][fd].inode # None => file_table[t][fd].inode \in open_inodes
  BY <1>2, HeldOpen, HeldAre, HandleKinds DEF Mem
<1> QED BY <1>3, <1>4, <1>5, <1>6

\* The same after a step.
LEMMA HeldOpenAfter ==
  ASSUME FsTypes', Counted', NEW h \in Handles, NEW b \in Blocks, Held(h)' = b
  PROVE b \in open_inodes'
<1>0. HeldMap' = [k \in Handles |-> Held(k)']
  BY DEF HeldMap, Handles, FileHandles
<1>1. HeldMap'[h] = b
  BY <1>0
<1>2. Cardinality(HoldersOf(HeldMap', b)) > 0 /\ Cardinality(HoldersOf(HeldMap', b)) \in Nat
  BY <1>1, CountType
<1>3. orphans'[b] \in Nat
  BY DEF FsTypes
<1>4. References(b)' > 0
  <2> DEFINE m == Cardinality(HoldersOf(HeldMap', b))
  <2>1. References(b)' = m + orphans'[b]
    BY ReferencesAfter
  <2> HIDE DEF m
  <2> QED BY <1>2, <1>3, <2>1 DEF m
<1> QED BY <1>4 DEF Counted

LEMMA LocalsOpenAfter ==
  ASSUME FsTypes', Counted', NEW t \in Threads
  PROVE /\ call'[t].dir # None => call'[t].dir \in open_inodes'
        /\ call'[t].inode # None => call'[t].inode \in open_inodes'
        /\ \A fd \in Fds : file_table'[t][fd].inode # None => file_table'[t][fd].inode \in open_inodes'
<1>1. call'[t] \in CallType /\ \A fd \in Fds : file_table'[t][fd] \in FileType
  <2>1. CallType' = CallType /\ FileType' = FileType
    BY DEF CallType, FileType, Mem, Sectors, Nexts
  <2> QED BY <2>1 DEF FsTypes
<1>2. {call'[t].dir, call'[t].inode} \subseteq Mem /\ \A fd \in Fds : file_table'[t][fd].inode \in Mem
  BY <1>1 DEF CallType, FileType
<1>3. call'[t].dir # None => call'[t].dir \in open_inodes'
  BY <1>2, HeldOpenAfter, HeldAreAfter, HandleKinds DEF Mem
<1>4. call'[t].inode # None => call'[t].inode \in open_inodes'
  BY <1>2, HeldOpenAfter, HeldAreAfter, HandleKinds DEF Mem
<1>6. \A fd \in Fds : file_table'[t][fd].inode # None => file_table'[t][fd].inode \in open_inodes'
  BY <1>2, HeldOpenAfter, HeldAreAfter, HandleKinds DEF Mem
<1> QED BY <1>3, <1>4, <1>6

-----------------------------------------------------------------------------
(***************************************************************************)
(* Owning.  K is what each owner claims, m what is marked, l what is lost. *)
(***************************************************************************)
ClaimMap == [o \in Owners |-> Claim(o)]
OwnedBy(K, m, l) ==
  /\ \A o \in Owners : \A s \in K[o] : s \notin Reserved /\ s \notin l
  /\ \A o, p \in Owners : \A s \in K[o] : s \in K[p] => o = p
  /\ \A s \in l : s \notin Reserved
  /\ \A s : s \in m <=> s \in Reserved \/ s \in l \/ \E o \in Owners : s \in K[o]

LEMMA OwnedAs == Owned <=> OwnedBy(ClaimMap, free_map, lost)
<1>1. \A o \in Owners : ClaimMap[o] = Claim(o)
  BY DEF ClaimMap
<1>2. \A s : s \in UNION {Claim(o) : o \in Owners} <=> \E o \in Owners : s \in Claim(o)
  OBVIOUS
<1>3. SectorsComeBack <=> \A s : s \in free_map <=> s \in Reserved \/ s \in lost \/ \E o \in Owners : s \in Claim(o)
  <2> DEFINE U == UNION {Claim(o) : o \in Owners}
  <2>1. SectorsComeBack <=> \A s : s \in free_map <=> s \in Reserved \/ s \in lost \/ s \in U
    BY DEF SectorsComeBack
  <2> HIDE DEF U
  <2> QED BY <1>2, <2>1 DEF U
<1> QED BY <1>1, <1>3 DEF Owned, OwnedBy

LEMMA OwnedAsAfter == Owned' <=> OwnedBy(ClaimMap', free_map', lost')
<1>0. ClaimMap' = [o \in Owners |-> Claim(o)']
  BY DEF ClaimMap, Owners
<1>1. \A o \in Owners : ClaimMap'[o] = Claim(o)'
  BY <1>0
<1>2. \A s : s \in UNION {Claim(o)' : o \in Owners} <=> \E o \in Owners : s \in Claim(o)'
  OBVIOUS
<1>3. SectorsComeBack' <=> \A s : s \in free_map' <=> s \in Reserved \/ s \in lost' \/ \E o \in Owners : s \in Claim(o)'
  <2> DEFINE U == UNION {Claim(o)' : o \in Owners}
  <2>1. SectorsComeBack' <=> \A s : s \in free_map' <=> s \in Reserved \/ s \in lost' \/ s \in U
    BY DEF SectorsComeBack, Owners, Reserved, free_map_init
  <2> HIDE DEF U
  <2> QED BY <1>2, <2>1 DEF U
<1>4. Owned' <=> /\ \A o \in Owners : Claim(o)' \cap (Reserved \cup lost') = {}
                 /\ \A o, p \in Owners : o # p => Claim(o)' \cap Claim(p)' = {}
                 /\ Reserved \cap lost' = {}
                 /\ SectorsComeBack'
  BY DEF Owned, Owners, Reserved, free_map_init
<1> QED BY <1>1, <1>3, <1>4 DEF OwnedBy

\* An owner takes free sectors.
LEMMA OwnTake ==
  ASSUME NEW K, DOMAIN K = Owners, NEW m, NEW l, OwnedBy(K, m, l), NEW o \in Owners, NEW X, X \cap m = {},
         NEW L, DOMAIN L = Owners, L[o] = K[o] \cup X, \A p \in Owners : p # o => L[p] = K[p]
  PROVE OwnedBy(L, m \cup X, l)
<1>1. \A p \in Owners : \A s : s \in L[p] <=> s \in K[p] \/ (p = o /\ s \in X)
  OBVIOUS
<1>2. \A s \in X : s \notin Reserved /\ s \notin l /\ \A p \in Owners : s \notin K[p]
  BY DEF OwnedBy
<1>3. \A p \in Owners : \A s \in L[p] : s \notin Reserved /\ s \notin l
  BY <1>1, <1>2 DEF OwnedBy
<1>4. \A p, q \in Owners : \A s \in L[p] : s \in L[q] => p = q
  BY <1>1, <1>2 DEF OwnedBy
<1>5. \A s : s \in m \cup X <=> s \in Reserved \/ s \in l \/ \E p \in Owners : s \in L[p]
  BY <1>1 DEF OwnedBy
<1> QED BY <1>3, <1>4, <1>5 DEF OwnedBy

\* It gives some of them back.
LEMMA OwnGive ==
  ASSUME NEW K, DOMAIN K = Owners, NEW m, NEW l, OwnedBy(K, m, l), NEW o \in Owners, NEW X, X \subseteq K[o],
         NEW L, DOMAIN L = Owners, L[o] = K[o] \ X, \A p \in Owners : p # o => L[p] = K[p]
  PROVE OwnedBy(L, m \ X, l)
<1>1. \A p \in Owners : \A s : s \in L[p] <=> s \in K[p] /\ ~(p = o /\ s \in X)
  OBVIOUS
<1>2. \A s \in X : s \notin Reserved /\ s \notin l /\ \A p \in Owners : s \in K[p] => p = o
  BY DEF OwnedBy
<1>3. \A p \in Owners : \A s \in L[p] : s \notin Reserved /\ s \notin l
  BY <1>1 DEF OwnedBy
<1>4. \A p, q \in Owners : \A s \in L[p] : s \in L[q] => p = q
  BY <1>1 DEF OwnedBy
<1>5. \A s : s \in m \ X <=> s \in Reserved \/ s \in l \/ \E p \in Owners : s \in L[p]
  BY <1>1, <1>2 DEF OwnedBy
<1> QED BY <1>3, <1>4, <1>5 DEF OwnedBy

\* It forgets some of them: they stay marked and are lost.
LEMMA OwnLose ==
  ASSUME NEW K, DOMAIN K = Owners, NEW m, NEW l, OwnedBy(K, m, l), NEW o \in Owners, NEW X, X \subseteq K[o],
         NEW L, DOMAIN L = Owners, L[o] = K[o] \ X, \A p \in Owners : p # o => L[p] = K[p]
  PROVE OwnedBy(L, m, l \cup X)
<1>1. \A p \in Owners : \A s : s \in L[p] <=> s \in K[p] /\ ~(p = o /\ s \in X)
  OBVIOUS
<1>2. \A s \in X : s \notin Reserved /\ \A p \in Owners : s \in K[p] => p = o
  BY DEF OwnedBy
<1>3. \A p \in Owners : \A s \in L[p] : s \notin Reserved /\ s \notin l \cup X
  BY <1>1, <1>2 DEF OwnedBy
<1>4. \A p, q \in Owners : \A s \in L[p] : s \in L[q] => p = q
  BY <1>1 DEF OwnedBy
<1>5. \A s : s \in m <=> s \in Reserved \/ s \in l \cup X \/ \E p \in Owners : s \in L[p]
  BY <1>1, <1>2 DEF OwnedBy
<1>6. \A s \in l \cup X : s \notin Reserved
  BY <1>2 DEF OwnedBy
<1> QED BY <1>3, <1>4, <1>5, <1>6 DEF OwnedBy

\* It passes all of them to one that has none.
LEMMA OwnPass ==
  ASSUME NEW K, DOMAIN K = Owners, NEW m, NEW l, OwnedBy(K, m, l), NEW o \in Owners, NEW q \in Owners, o # q, K[q] = {},
         NEW L, DOMAIN L = Owners, L[o] = {}, L[q] = K[o], \A p \in Owners : p \notin {o, q} => L[p] = K[p]
  PROVE OwnedBy(L, m, l)
<1>1. \A p \in Owners : \A s : s \in L[p] <=> IF p = q THEN s \in K[o] ELSE p # o /\ s \in K[p]
  OBVIOUS
<1>3. \A p \in Owners : \A s \in L[p] : s \notin Reserved /\ s \notin l
  BY <1>1 DEF OwnedBy
<1>4. \A p, r \in Owners : \A s \in L[p] : s \in L[r] => p = r
  BY <1>1 DEF OwnedBy
<1>5. \A s : s \in m <=> s \in Reserved \/ s \in l \/ \E p \in Owners : s \in L[p]
  <2>1. \A s : (\E p \in Owners : s \in L[p]) <=> (\E p \in Owners : s \in K[p])
    BY <1>1
  <2> QED BY <2>1 DEF OwnedBy
<1> QED BY <1>3, <1>4, <1>5 DEF OwnedBy

LEMMA OwnSame ==
  ASSUME NEW K, NEW L, NEW m, NEW l, OwnedBy(K, m, l), \A p \in Owners : L[p] = K[p]
  PROVE OwnedBy(L, m, l)
BY DEF OwnedBy

-----------------------------------------------------------------------------
LEMMA OwnerKinds ==
  /\ \A i \in 1 .. DirSlots : <<"entry", i>> \in Owners
  /\ \A b \in Blocks : <<"inode", b>> \in Owners
  /\ \A t \in Threads : <<"create", t>> \in Owners
  /\ \A o \in Owners : \/ \E i \in 1 .. DirSlots : o = <<"entry", i>>
                       \/ \E b \in Blocks : o = <<"inode", b>>
                       \/ \E t \in Threads : o = <<"create", t>>
BY DEF Owners

LEMMA ClaimsAre ==
  /\ DOMAIN ClaimMap = Owners
  /\ \A i \in 1 .. DirSlots : ClaimMap[<<"entry", i>>] = EntryClaim(i)
  /\ \A b \in Blocks : ClaimMap[<<"inode", b>>] = InodeClaim(b)
  /\ \A t \in Threads : ClaimMap[<<"create", t>>] = CreateClaim(t)
<1>1. \A o \in Owners : ClaimMap[o] = Claim(o)
  BY DEF ClaimMap
<1>2. ASSUME NEW i \in 1 .. DirSlots PROVE Claim(<<"entry", i>>) = EntryClaim(i)
  <2> DEFINE o == <<"entry", i>>
  <2>1. o[1] = "entry" /\ o[2] = i
    OBVIOUS
  <2>2. Claim(o) = EntryClaim(i)
    <3> HIDE DEF o
    <3> QED BY <2>1 DEF Claim
  <2> QED BY <2>2
<1>3. ASSUME NEW b \in Blocks PROVE Claim(<<"inode", b>>) = InodeClaim(b)
  <2> DEFINE o == <<"inode", b>>
  <2>1. o[1] = "inode" /\ o[2] = b
    OBVIOUS
  <2>2. Claim(o) = InodeClaim(b)
    <3> HIDE DEF o
    <3> QED BY <2>1 DEF Claim
  <2> QED BY <2>2
<1>4. ASSUME NEW t \in Threads PROVE Claim(<<"create", t>>) = CreateClaim(t)
  <2> DEFINE o == <<"create", t>>
  <2>1. o[1] = "create" /\ o[2] = t
    OBVIOUS
  <2>2. Claim(o) = CreateClaim(t)
    <3> HIDE DEF o
    <3> QED BY <2>1 DEF Claim
  <2> QED BY <2>2
<1>5. DOMAIN ClaimMap = Owners
  BY DEF ClaimMap
<1> QED BY <1>1, <1>2, <1>3, <1>4, <1>5, OwnerKinds

LEMMA ClaimsAfter ==
  /\ DOMAIN ClaimMap' = Owners
  /\ \A i \in 1 .. DirSlots : ClaimMap'[<<"entry", i>>] = EntryClaim(i)'
  /\ \A b \in Blocks : ClaimMap'[<<"inode", b>>] = InodeClaim(b)'
  /\ \A t \in Threads : ClaimMap'[<<"create", t>>] = CreateClaim(t)'
<1>0. ClaimMap' = [o \in Owners |-> Claim(o)']
  BY DEF ClaimMap, Owners
<1>1. \A o \in Owners : ClaimMap'[o] = Claim(o)'
  BY <1>0
<1>2. ASSUME NEW i \in 1 .. DirSlots PROVE Claim(<<"entry", i>>)' = EntryClaim(i)'
  BY DEF Claim
<1>3. ASSUME NEW b \in Blocks PROVE Claim(<<"inode", b>>)' = InodeClaim(b)'
  BY DEF Claim
<1>4. ASSUME NEW t \in Threads PROVE Claim(<<"create", t>>)' = CreateClaim(t)'
  BY DEF Claim
<1>5. DOMAIN ClaimMap' = Owners
  BY <1>0
<1> QED BY <1>1, <1>2, <1>3, <1>4, <1>5, OwnerKinds

\* What Owned says of two owners.
LEMMA OwnedFacts ==
  ASSUME Owned
  PROVE /\ \A i, j \in 1 .. DirSlots : i # j => EntryClaim(i) \cap EntryClaim(j) = {}
        /\ \A b, d \in Blocks : b # d => InodeClaim(b) \cap InodeClaim(d) = {}
        /\ \A i \in 1 .. DirSlots, b \in Blocks : EntryClaim(i) \cap InodeClaim(b) = {}
        /\ \A i \in 1 .. DirSlots, t \in Threads : EntryClaim(i) \cap CreateClaim(t) = {}
        /\ \A b \in Blocks, t \in Threads : InodeClaim(b) \cap CreateClaim(t) = {}
        /\ \A i \in 1 .. DirSlots : EntryClaim(i) \cap Reserved = {} /\ EntryClaim(i) \subseteq free_map
        /\ \A b \in Blocks : InodeClaim(b) \cap Reserved = {} /\ InodeClaim(b) \subseteq free_map
        /\ \A t \in Threads : CreateClaim(t) \cap Reserved = {} /\ CreateClaim(t) \subseteq free_map
<1>1. OwnedBy(ClaimMap, free_map, lost)
  BY OwnedAs
<1>2. \A i \in 1 .. DirSlots, b \in Blocks, t \in Threads :
        <<"entry", i>> # <<"inode", b>> /\ <<"entry", i>> # <<"create", t>> /\ <<"inode", b>> # <<"create", t>>
  OBVIOUS
<1>3. \A o, p \in Owners : o # p => ClaimMap[o] \cap ClaimMap[p] = {}
  BY <1>1 DEF OwnedBy
<1>4. \A o \in Owners : ClaimMap[o] \cap Reserved = {} /\ ClaimMap[o] \subseteq free_map
  BY <1>1 DEF OwnedBy
<1>5. \A i, j \in 1 .. DirSlots : i # j => <<"entry", i>> # <<"entry", j>>
  OBVIOUS
<1>6. \A b, d \in Blocks : b # d => <<"inode", b>> # <<"inode", d>>
  OBVIOUS
<1>7. \A i, j \in 1 .. DirSlots : i # j => EntryClaim(i) \cap EntryClaim(j) = {}
  <2> SUFFICES ASSUME NEW i \in 1 .. DirSlots, NEW j \in 1 .. DirSlots, i # j
               PROVE  EntryClaim(i) \cap EntryClaim(j) = {}
    OBVIOUS
  <2> DEFINE o == <<"entry", i>> p == <<"entry", j>>
  <2>1. o \in Owners /\ p \in Owners /\ ClaimMap[o] = EntryClaim(i) /\ ClaimMap[p] = EntryClaim(j)
    BY OwnerKinds, ClaimsAre
  <2>2. o # p
    BY <1>5
  <2> HIDE DEF o, p
  <2> QED BY <1>3, <2>1, <2>2
<1>8. \A b, d \in Blocks : b # d => InodeClaim(b) \cap InodeClaim(d) = {}
  <2> SUFFICES ASSUME NEW b \in Blocks, NEW d \in Blocks, b # d
               PROVE  InodeClaim(b) \cap InodeClaim(d) = {}
    OBVIOUS
  <2> DEFINE o == <<"inode", b>> p == <<"inode", d>>
  <2>1. o \in Owners /\ p \in Owners /\ ClaimMap[o] = InodeClaim(b) /\ ClaimMap[p] = InodeClaim(d)
    BY OwnerKinds, ClaimsAre
  <2>2. o # p
    BY <1>6
  <2> HIDE DEF o, p
  <2> QED BY <1>3, <2>1, <2>2
<1>9. ASSUME NEW i \in 1 .. DirSlots, NEW b \in Blocks PROVE EntryClaim(i) \cap InodeClaim(b) = {}
  <2> DEFINE o == <<"entry", i>> p == <<"inode", b>>
  <2>1. o \in Owners /\ p \in Owners /\ o # p /\ ClaimMap[o] = EntryClaim(i) /\ ClaimMap[p] = InodeClaim(b)
    BY OwnerKinds, ClaimsAre
  <2> HIDE DEF o, p
  <2> QED BY <1>3, <2>1
<1>10. ASSUME NEW i \in 1 .. DirSlots, NEW t \in Threads PROVE EntryClaim(i) \cap CreateClaim(t) = {}
  <2> DEFINE o == <<"entry", i>> p == <<"create", t>>
  <2>1. o \in Owners /\ p \in Owners /\ o # p /\ ClaimMap[o] = EntryClaim(i) /\ ClaimMap[p] = CreateClaim(t)
    BY <1>2, OwnerKinds, ClaimsAre
  <2> HIDE DEF o, p
  <2> QED BY <1>3, <2>1
<1>11. ASSUME NEW b \in Blocks, NEW t \in Threads PROVE InodeClaim(b) \cap CreateClaim(t) = {}
  <2> DEFINE o == <<"inode", b>> p == <<"create", t>>
  <2>1. o \in Owners /\ p \in Owners /\ o # p /\ ClaimMap[o] = InodeClaim(b) /\ ClaimMap[p] = CreateClaim(t)
    BY OwnerKinds, ClaimsAre
  <2> HIDE DEF o, p
  <2> QED BY <1>3, <2>1
<1>12. \A i \in 1 .. DirSlots : EntryClaim(i) \cap Reserved = {} /\ EntryClaim(i) \subseteq free_map
  BY <1>4, OwnerKinds, ClaimsAre
<1>13. \A b \in Blocks : InodeClaim(b) \cap Reserved = {} /\ InodeClaim(b) \subseteq free_map
  BY <1>4, OwnerKinds, ClaimsAre
<1>14. \A t \in Threads : CreateClaim(t) \cap Reserved = {} /\ CreateClaim(t) \subseteq free_map
  BY <1>4, OwnerKinds, ClaimsAre
<1> QED BY <1>7, <1>8, <1>9, <1>10, <1>11, <1>12, <1>13, <1>14

-----------------------------------------------------------------------------
(***************************************************************************)
(* Steps that leave the disk and the directory alone, and neither remove   *)
(* an inode nor free one: each block stays what it is, is a new inode of   *)
(* the list, leaves the list with nothing to free, or is off the list.     *)
(***************************************************************************)
Kept(b) ==
  /\ b \in open_inodes /\ b \in open_inodes' /\ inode'[b].open_cnt > 0
  /\ inode'[b].sector = inode[b].sector /\ (inode'[b].removed <=> inode[b].removed)
  /\ inode'[b].start = inode[b].start /\ inode'[b].length = inode[b].length
Fresh(b) ==
  /\ b \notin open_inodes /\ b \in open_inodes' /\ inode[b] = NoInode /\ ~inode'[b].removed
  /\ inode'[b].sector = ROOT_DIR_SECTOR \/ Linked(inode'[b].sector)
  /\ inode'[b].start = disk[inode'[b].sector].start /\ inode'[b].length = disk[inode'[b].sector].length
  /\ \A o \in open_inodes : inode[o].sector # inode'[b].sector
Closed(b) == b \in open_inodes /\ b \notin open_inodes' /\ ~inode[b].removed /\ inode'[b] = NoInode
Off(b) == b \notin open_inodes /\ b \notin open_inodes' /\ inode'[b] = inode[b]
Quiet ==
  /\ entries' = entries /\ disk' = disk
  /\ \A b \in Blocks : Kept(b) \/ Fresh(b) \/ Closed(b) \/ Off(b)
  /\ \A b, d \in Blocks : Fresh(b) /\ Fresh(d) => b = d

LEMMA LinkedSame == ASSUME entries' = entries PROVE \A s : Linked(s)' <=> Linked(s)
BY DEF Linked

LEMMA GoAt ==
  ASSUME FsTypes, NEW t \in Threads, NEW to, NEW c, Go(t, to, c)
  PROVE pc'[t] = to /\ call'[t] = c /\ \A u \in Threads : u # t => pc'[u] = pc[u] /\ call'[u] = call[u]
BY DEF FsTypes, Go

\* A thread on its way to free an inode knows which.
LEMMA FreeingBlock ==
  ASSUME FsTypes, Shapes, NEW t \in Threads, pc[t] \in Going
  PROVE call[t].closing \in Blocks
<1>1. call[t].closing \in Mem
  BY DEF FsTypes, CallType
<1>2. call[t].closing # None
  BY DEF Shapes, Shape
<1> QED BY <1>1, <1>2 DEF Mem

LEMMA QuietInodes ==
  ASSUME FsTypes, Shapes, Inodes, open_inodes' \subseteq Blocks, Quiet,
         NEW t \in Threads, NEW to, NEW c, Go(t, to, c), pc[t] \notin Freeing, to \notin Freeing
  PROVE Inodes'
<1>1. pc'[t] = to /\ call'[t] = c /\ \A u \in Threads : u # t => pc'[u] = pc[u] /\ call'[u] = call[u]
  BY GoAt
<1>2. \A s : Linked(s)' <=> Linked(s)
  BY LinkedSame DEF Quiet
<1>3. \A b \in Blocks : Kept(b) \/ Fresh(b) \/ Closed(b) \/ Off(b)
  BY DEF Quiet
<1>4. \A u \in Threads : pc'[u] \in Freeing => u # t /\ pc[u] \in Freeing /\ call'[u] = call[u] /\ pc'[u] = pc[u]
                                          /\ call[u].closing \in Blocks /\ Off(call[u].closing)
  <2> SUFFICES ASSUME NEW u \in Threads, pc'[u] \in Freeing
      PROVE u # t /\ pc[u] \in Freeing /\ call'[u] = call[u] /\ pc'[u] = pc[u]
            /\ call[u].closing \in Blocks /\ Off(call[u].closing)
    OBVIOUS
  <2>1. u # t
    BY <1>1
  <2>2. pc[u] \in Freeing /\ call'[u] = call[u] /\ pc'[u] = pc[u]
    BY <1>1, <2>1
  <2>3. call[u].closing \in Blocks
    BY <2>2, FreeingBlock DEF Going
  <2>4. call[u].closing \notin open_inodes /\ inode[call[u].closing] # NoInode
    BY <2>2 DEF Inodes, Frees
  <2> QED BY <1>3, <2>1, <2>2, <2>3, <2>4 DEF Kept, Fresh, Closed
<1>5. Shared'
  <2> SUFFICES ASSUME NEW b \in open_inodes', NEW d \in open_inodes', inode'[b].sector = inode'[d].sector PROVE b = d
    BY DEF Shared
  <2>1. b \in Blocks /\ d \in Blocks
    OBVIOUS
  <2>2. (Kept(b) \/ Fresh(b)) /\ (Kept(d) \/ Fresh(d))
    BY <1>3, <2>1 DEF Closed, Off
  <2>3. CASE Kept(b) /\ Kept(d)
    BY <2>3 DEF Kept, Inodes, Shared
  <2>4. CASE Kept(b) /\ Fresh(d)
    BY <2>4 DEF Kept, Fresh
  <2>5. CASE Fresh(b) /\ Kept(d)
    BY <2>5 DEF Kept, Fresh
  <2>6. CASE Fresh(b) /\ Fresh(d)
    BY <2>1, <2>6 DEF Quiet
  <2> QED BY <2>2, <2>3, <2>4, <2>5, <2>6
<1>6. (\A b \in open_inodes : OnList(b))'
  <2> SUFFICES ASSUME NEW b \in open_inodes' PROVE OnList(b)'
    OBVIOUS
  <2>1. Kept(b) \/ Fresh(b)
    BY <1>3 DEF Closed, Off
  <2>2. CASE Kept(b)
    <3>1. OnList(b)
      BY <2>2 DEF Kept, Inodes
    <3> QED BY <1>2, <2>2, <3>1 DEF Kept, OnList, Quiet
  <2>3. CASE Fresh(b)
    BY <1>2, <2>3 DEF Fresh, OnList, Quiet
  <2> QED BY <2>1, <2>2, <2>3
<1>7. (\A b \in Blocks \ open_inodes : OffList(b))'
  <2> SUFFICES ASSUME NEW b \in Blocks, b \notin open_inodes' PROVE OffList(b)'
    OBVIOUS
  <2>1. Closed(b) \/ Off(b)
    BY <1>3 DEF Kept, Fresh
  <2>2. CASE Closed(b)
    BY <2>2 DEF Closed, OffList, NoInode
  <2>3. CASE Off(b)
    <3>1. OffList(b)
      BY <2>3 DEF Off, Inodes
    <3>2. CASE inode[b] = NoInode
      BY <2>3, <3>2 DEF Off, OffList, NoInode
    <3>3. CASE inode[b] # NoInode
      <4>1. inode[b].removed /\ \E u \in Threads : FreedBy(u, b)
        BY <3>1, <3>3 DEF OffList
      <4>2. PICK u \in Threads : FreedBy(u, b)
        BY <4>1
      <4>3. FreedBy(u, b)'
        BY <1>1, <4>2 DEF FreedBy
      <4> QED BY <2>3, <4>1, <4>3 DEF Off, OffList
    <3> QED BY <3>2, <3>3
  <2> QED BY <2>1, <2>2, <2>3
<1>8. Frees'
  <2>1. (\A u \in Threads : pc[u] \in Freeing => call[u].closing \notin open_inodes /\ inode[call[u].closing] # NoInode)'
    <3>1. \A u \in Threads : pc[u] \in Freeing => call[u].closing \notin open_inodes /\ inode[call[u].closing] # NoInode
      BY DEF Inodes, Frees
    <3>2. NoInode' = NoInode
      BY DEF NoInode
    <3>3. ASSUME NEW u \in Threads, pc'[u] \in Freeing
          PROVE  call'[u].closing \notin open_inodes' /\ inode'[call'[u].closing] # NoInode
      <4>1. PICK d \in Blocks : d = call[u].closing /\ call'[u].closing = d /\ Off(d) /\ pc[u] \in Freeing
        BY <1>4, <3>3, Zenon
      <4>2. inode[d] # NoInode
        BY <3>1, <4>1, Zenon
      <4>3. d \notin open_inodes' /\ inode'[d] = inode[d]
        BY <4>1 DEF Off
      <4> QED BY <4>1, <4>2, <4>3, Zenon
    <3> QED BY <3>2, <3>3, Zenon DEF Freeing
  <2>2. (\A u, v \in Threads : pc[u] \in Freeing /\ pc[v] \in Freeing /\ call[u].closing = call[v].closing => u = v)'
    BY <1>4 DEF Inodes, Frees
  <2>3. (\A u \in Threads : pc[u] = "free_inode" =>
          LET s == inode[call[u].closing].sector IN s # ROOT_DIR_SECTOR /\ ~Linked(s))'
    <3> SUFFICES ASSUME NEW u \in Threads, pc'[u] = "free_inode"
        PROVE (inode[call[u].closing].sector # ROOT_DIR_SECTOR /\ ~Linked(inode[call[u].closing].sector))'
      OBVIOUS
    <3>1. pc[u] = "free_inode" /\ call'[u] = call[u] /\ Off(call[u].closing)
      BY <1>4 DEF Freeing
    <3>2. inode[call[u].closing].sector # ROOT_DIR_SECTOR /\ ~Linked(inode[call[u].closing].sector)
      BY <3>1 DEF Inodes, Frees
    <3>3. inode'[call'[u].closing] = inode[call[u].closing]
      BY <3>1 DEF Off
    <3> QED BY <3>2, <3>3 DEF Linked, Quiet, ROOT_DIR_SECTOR
  <2> QED BY <2>1, <2>2, <2>3 DEF Frees
<1> QED BY <1>5, <1>6, <1>7, <1>8 DEF Inodes

LEMMA QuietClaims ==
  ASSUME FsTypes, Shapes, Inodes, Counted, open_inodes' \subseteq Blocks, Quiet,
         NEW t \in Threads, NEW to, NEW c, Go(t, to, c), pc[t] \notin Freeing, to \notin Freeing
  PROVE /\ \A i \in 1 .. DirSlots : EntryClaim(i)' = EntryClaim(i)
        /\ \A b \in Blocks : InodeClaim(b)' = InodeClaim(b)
        /\ \A u \in Threads : u # t => CreateClaim(u)' = CreateClaim(u)
<1>1. pc'[t] = to /\ call'[t] = c /\ \A u \in Threads : u # t => pc'[u] = pc[u] /\ call'[u] = call[u]
  BY GoAt
<1>2. \A s : Linked(s)' <=> Linked(s)
  BY LinkedSame DEF Quiet
<1>3. \A i \in 1 .. DirSlots : EntryClaim(i)' = EntryClaim(i)
  BY DEF EntryClaim, Quiet, SectorsOf, Extent
<1>4. \A u \in Threads : u # t => CreateClaim(u)' = CreateClaim(u)
  BY <1>1 DEF CreateClaim, Extent
<1>5. \A b : Closing(b, "free_data")' <=> Closing(b, "free_data")
  <2>1. pc[t] # "free_data" /\ pc'[t] # "free_data"
    BY <1>1 DEF Freeing
  <2> QED BY <1>1, <2>1 DEF Closing
<1>6. \A b \in Blocks : Closing(b, "free_data") => b \notin open_inodes /\ inode[b] # NoInode
  BY DEF Closing, Inodes, Frees, Freeing
<1>7. ASSUME NEW b \in Blocks PROVE InodeClaim(b)' = InodeClaim(b)
  <2>1. Kept(b) \/ Fresh(b) \/ Closed(b) \/ Off(b)
    BY DEF Quiet
  <2>2. CASE Kept(b)
    <3>1. ~Closing(b, "free_data") /\ ~Closing(b, "free_data")'
      BY <1>5, <1>6, <2>2 DEF Kept
    <3>2. inode[b] # NoInode /\ inode'[b] # NoInode
      BY <2>2 DEF Kept, Counted, NoInode
    <3> QED BY <1>2, <2>2, <3>1, <3>2 DEF InodeClaim, Kept, SectorsOf, Extent, ROOT_DIR_SECTOR, NoInode
  <2>3. CASE Fresh(b)
    <3>1. ~Closing(b, "free_data") /\ ~Closing(b, "free_data")'
      BY <1>5, <1>6, <2>3 DEF Fresh
    <3>2. InodeClaim(b) = {}
      BY <2>3, <3>1 DEF InodeClaim, Fresh
    <3>3. InodeClaim(b)' = {}
      BY <1>2, <2>3, <3>1 DEF InodeClaim, Fresh, ROOT_DIR_SECTOR
    <3> QED BY <3>2, <3>3
  <2>4. CASE Closed(b)
    <3>1. ~Closing(b, "free_data") /\ ~Closing(b, "free_data")'
      BY <1>5, <1>6, <2>4 DEF Closed
    <3>2. InodeClaim(b)' = {}
      BY <2>4, <3>1 DEF InodeClaim, Closed, NoInode
    <3>3. inode[b].sector = ROOT_DIR_SECTOR \/ Linked(inode[b].sector)
      BY <2>4 DEF Closed, Inodes, OnList
    <3>4. InodeClaim(b) = {}
      BY <3>1, <3>3 DEF InodeClaim
    <3> QED BY <3>2, <3>4
  <2>5. CASE Off(b)
    BY <1>2, <1>5, <2>5 DEF InodeClaim, Off, SectorsOf, Extent, ROOT_DIR_SECTOR, NoInode
  <2> QED BY <2>1, <2>2, <2>3, <2>4, <2>5
<1> QED BY <1>3, <1>4, <1>7

LEMMA QuietApart ==
  ASSUME FsTypes, Apart, Written, Quiet,
         NEW t \in Threads, NEW to, NEW c, Go(t, to, c), to \notin {"write_inode", "dir_add"}
  PROVE Apart' /\ Written'
<1>1. pc'[t] = to /\ call'[t] = c /\ \A u \in Threads : u # t => pc'[u] = pc[u] /\ call'[u] = call[u]
  BY GoAt
<1>2. (\A i \in 1 .. DirSlots : LET s == entries[i].inode_sector
         IN entries[i].in_use => Separate(s, disk[s].start, disk[s].length))'
  BY DEF Quiet, Apart, Separate, Extent
<1>3. (\A b \in Blocks : inode[b].removed => Separate(inode[b].sector, inode[b].start, inode[b].length))'
  <2> SUFFICES ASSUME NEW b \in Blocks, inode'[b].removed
      PROVE Separate(inode'[b].sector, inode'[b].start, inode'[b].length)
    BY DEF Separate, Extent
  <2>1. Kept(b) \/ Off(b)
    BY DEF Quiet, Fresh, Closed, NoInode
  <2> QED BY <2>1 DEF Kept, Off, Apart, Separate
<1>4. (\A u \in Threads : pc[u] \in {"write_inode", "dir_add"}
         => Separate(call[u].sector, call[u].start, call[u].size))'
  BY <1>1 DEF Apart, Separate, Extent
<1>5. Written'
  BY <1>1 DEF Written, Quiet
<1> QED BY <1>2, <1>3, <1>4, <1>5 DEF Apart

\* The claims of the others are what they were.
LEMMA QuietOthers ==
  ASSUME FsTypes, Shapes, Inodes, Counted, open_inodes' \subseteq Blocks, Quiet,
         NEW t \in Threads, NEW to, NEW c, Go(t, to, c), pc[t] \notin Freeing, to \notin Freeing
  PROVE \A o \in Owners : o # <<"create", t>> => ClaimMap'[o] = ClaimMap[o]
<1> SUFFICES ASSUME NEW o \in Owners, o # <<"create", t>> PROVE ClaimMap'[o] = ClaimMap[o]
  OBVIOUS
<1>1. CASE \E i \in 1 .. DirSlots : o = <<"entry", i>>
  BY <1>1, QuietClaims, ClaimsAre, ClaimsAfter
<1>2. CASE \E b \in Blocks : o = <<"inode", b>>
  BY <1>2, QuietClaims, ClaimsAre, ClaimsAfter
<1>3. CASE \E u \in Threads : o = <<"create", u>>
  BY <1>3, QuietClaims, ClaimsAre, ClaimsAfter
<1> QED BY <1>1, <1>2, <1>3, OwnerKinds

LEMMA QuietOwned ==
  ASSUME FsTypes, Shapes, Inodes, Counted, Owned, open_inodes' \subseteq Blocks, Quiet,
         NEW t \in Threads, NEW to, NEW c, Go(t, to, c), pc[t] \notin Freeing, to \notin Freeing,
         CreateClaim(t)' = CreateClaim(t), UNCHANGED <<free_map, lost>>
  PROVE Owned'
<1>1. \A o \in Owners : ClaimMap'[o] = ClaimMap[o]
  BY QuietOthers, ClaimsAre, ClaimsAfter
<1>2. OwnedBy(ClaimMap', free_map, lost)
  BY <1>1, OwnedAs, OwnSame
<1> QED BY <1>2, OwnedAsAfter

(***************************************************************************)
(* The directory and its lock.                                             *)
(***************************************************************************)
LEMMA LocksSame ==
  ASSUME FsTypes, Shapes, Dirs, Removals, entries' = entries,
         NEW t \in Threads, NEW to, NEW c, Go(t, to, c),
         \A b \in Blocks : inode'[b].lock = inode[b].lock,
         \A b \in Blocks, u \in Threads : u # t /\ (call[u].dir = b \/ call[u].inode = b)
            => inode'[b].sector = inode[b].sector,
         to \in Locking <=> pc[t] \in Locking, to \in Locking => c.dir = call[t].dir,
         c.dir # None => inode'[c.dir].sector = ROOT_DIR_SECTOR,
         to \in Erasing => FoundAt(c, c.ofs),
         to = "remove_erase" => inode'[c.inode].sector = c.sector
  PROVE Dirs' /\ Removals'
<1>1. pc'[t] = to /\ call'[t] = c /\ \A u \in Threads : u # t => pc'[u] = pc[u] /\ call'[u] = call[u]
  BY GoAt
<1>2. \A u \in Threads : call[u].dir \in Mem /\ call[u].inode \in Mem
  BY DEF FsTypes, CallType
<1>3. (\A u \in Threads : call[u].dir # None => inode[call[u].dir].sector = ROOT_DIR_SECTOR)'
  <2> SUFFICES ASSUME NEW u \in Threads, call'[u].dir # None PROVE inode'[call'[u].dir].sector = ROOT_DIR_SECTOR
    BY DEF ROOT_DIR_SECTOR
  <2>1. CASE u = t
    BY <1>1, <2>1
  <2>2. CASE u # t
    <3>1. call[u].dir \in Blocks
      BY <1>1, <1>2, <2>2 DEF Mem
    <3> QED BY <1>1, <2>2, <3>1 DEF Dirs
  <2> QED BY <2>1, <2>2
<1>4. (\A u \in Threads : pc[u] \in Locking <=> \E b \in Blocks : inode[b].lock = u)'
  <2> SUFFICES ASSUME NEW u \in Threads PROVE pc'[u] \in Locking <=> \E b \in Blocks : inode'[b].lock = u
    BY DEF Locking, Erasing
  <2>1. pc'[u] \in Locking <=> pc[u] \in Locking
    BY <1>1
  <2> QED BY <2>1 DEF Dirs
<1>5. (\A b \in Blocks : inode[b].lock # None => call[inode[b].lock].dir = b)'
  <2> SUFFICES ASSUME NEW b \in Blocks, inode'[b].lock # None PROVE call'[inode'[b].lock].dir = b
    OBVIOUS
  <2>1. inode'[b].lock = inode[b].lock
    OBVIOUS
  <2>2. inode[b].lock \in Threads
    BY <2>1 DEF FsTypes, InodeType
  <2>3. call[inode[b].lock].dir = b
    BY <2>1 DEF Dirs
  <2>4. CASE inode[b].lock = t
    <3>1. to \in Locking
      BY <2>4 DEF Dirs
    <3> QED BY <1>1, <2>1, <2>3, <2>4, <3>1
  <2>5. CASE inode[b].lock # t
    BY <1>1, <2>1, <2>2, <2>3, <2>5
  <2> QED BY <2>4, <2>5
<1>6. Removals'
  <2> SUFFICES ASSUME NEW u \in Threads
      PROVE /\ pc'[u] \in Erasing => FoundAt(call[u], call[u].ofs)'
            /\ pc'[u] = "remove_erase" => inode'[call'[u].inode].sector = call'[u].sector
    BY DEF Removals, Erasing
  <2>1. CASE u = t
    <3>1. FoundAt(c, c.ofs) => FoundAt(call[u], call[u].ofs)'
      BY <1>1, <2>1 DEF FoundAt
    <3> QED BY <1>1, <2>1, <3>1
  <2>2. CASE u # t
    <3>1. FoundAt(call[u], call[u].ofs) => FoundAt(call[u], call[u].ofs)'
      BY <1>1, <2>2 DEF FoundAt
    <3>2. pc'[u] \in Erasing => FoundAt(call[u], call[u].ofs)'
      BY <1>1, <2>2, <3>1 DEF Removals
    <3>3. ASSUME pc'[u] = "remove_erase" PROVE inode'[call'[u].inode].sector = call'[u].sector
      <4>1. inode[call[u].inode].sector = call[u].sector /\ call[u].inode # None
        BY <1>1, <2>2, <3>3 DEF Removals, Shapes, Shape
      <4>2. call[u].inode \in Blocks
        BY <1>2, <4>1 DEF Mem
      <4> QED BY <1>1, <2>2, <4>1, <4>2
    <3> QED BY <3>2, <3>3
  <2> QED BY <2>1, <2>2
<1> QED BY <1>3, <1>4, <1>5, <1>6 DEF Dirs

-----------------------------------------------------------------------------
(***************************************************************************)
(* What a step hands over: from one local of the thread to another, or to  *)
(* and from a descriptor.                                                  *)
(***************************************************************************)
Count(d) == Cardinality(HoldersOf(HeldMap, d))

LEMMA CountAfter == \A d : Count(d)' = Cardinality(HoldersOf(HeldMap', d))
<1>1. HeldMap' = [h \in Handles |-> Held(h)']
  BY DEF HeldMap, Handles, FileHandles
<1>2. ASSUME NEW b PROVE HoldersOf(HeldMap', b) = HoldersOf(HeldMap, b)'
  BY <1>1 DEF HoldersOf, Handles, FileHandles
<1> QED BY <1>2 DEF Count

LEMMA HandlesApart ==
  ASSUME NEW t \in Threads
  PROVE /\ <<t, "dir", 0>> # <<t, "inode", 0>> /\ <<t, "dir", 0>> # <<t, "closing", 0>>
        /\ <<t, "inode", 0>> # <<t, "closing", 0>>
        /\ \A fd \in Fds : <<t, "file", fd>> \notin {<<t, "dir", 0>>, <<t, "inode", 0>>, <<t, "closing", 0>>}
OBVIOUS

LEMMA HeldMapAt ==
  ASSUME NEW t \in Threads
  PROVE /\ HeldMap[<<t, "dir", 0>>] = call[t].dir /\ HeldMap[<<t, "inode", 0>>] = call[t].inode
        /\ HeldMap[<<t, "closing", 0>>] = ClosingHeld(pc[t], call[t])
        /\ \A fd \in Fds : HeldMap[<<t, "file", fd>>] = file_table[t][fd].inode
BY HeldAre, HandleKinds DEF HeldMap

\* Nothing changes hands.
LEMMA MoveNothing ==
  ASSUME FsTypes, NEW t \in Threads, NEW to, NEW c, Go(t, to, c), UNCHANGED file_table,
         c.dir = call[t].dir, c.inode = call[t].inode, ClosingHeld(to, c) = ClosingHeld(pc[t], call[t])
  PROVE \A d \in Blocks : Count(d)' = Count(d)
<1>1. HeldMap' = Locals(HeldMap, t, c, to)
  BY HeldGo
<1>2. Locals(HeldMap, t, c, to) = HeldMap
  BY HeldMapAt, HeldMapType DEF Locals
<1> QED BY <1>1, <1>2, CountAfter DEF Count

\* The directory is to be closed.
LEMMA MoveDir ==
  ASSUME FsTypes, NEW t \in Threads, NEW to, NEW c, Go(t, to, c), UNCHANGED file_table,
         c.dir = None, c.inode = call[t].inode, ClosingHeld(to, c) = call[t].dir, ClosingHeld(pc[t], call[t]) = None
  PROVE \A d \in Blocks : Count(d)' = Count(d)
<1> DEFINE h == <<t, "dir", 0>> i == <<t, "inode", 0>> k == <<t, "closing", 0>>
<1>1. HeldMap' = Locals(HeldMap, t, c, to)
  BY HeldGo
<1>2. h \in Handles /\ i \in Handles /\ k \in Handles /\ h # k /\ h # i /\ i # k
  BY HandleKinds, HandlesApart
<1>3. HeldMap[h] = call[t].dir /\ HeldMap[i] = call[t].inode /\ HeldMap[k] = None
  BY HeldMapAt
<1>4. HeldMap \in [Handles -> Mem]
  BY HeldMapType
<1>5. Locals(HeldMap, t, c, to) = [HeldMap EXCEPT ![h] = None, ![i] = HeldMap[i], ![k] = HeldMap[h]]
  <2> HIDE DEF h, i, k
  <2> QED BY <1>3 DEF Locals, h, i, k
<1> HIDE DEF h, i, k
<1>6. Locals(HeldMap, t, c, to) = [HeldMap EXCEPT ![h] = None, ![k] = HeldMap[h]]
  BY <1>2, <1>4, <1>5
<1>10. \A d \in Blocks : Cardinality(HoldersOf([HeldMap EXCEPT ![h] = None, ![k] = HeldMap[h]], d)) = Cardinality(HoldersOf(HeldMap, d))
  BY <1>2, <1>3, <1>4, CountMoved
<1>7. \A d \in Blocks : Cardinality(HoldersOf(HeldMap', d)) = Cardinality(HoldersOf(HeldMap, d))
  BY <1>1, <1>6, <1>10
<1>8. \A d \in Blocks : Count(d)' = Cardinality(HoldersOf(HeldMap', d))
  BY CountAfter
<1>9. \A d \in Blocks : Count(d) = Cardinality(HoldersOf(HeldMap, d))
  BY DEF Count
<1> QED BY <1>7, <1>8, <1>9

\* The inode is to be closed.
LEMMA MoveInode ==
  ASSUME FsTypes, NEW t \in Threads, NEW to, NEW c, Go(t, to, c), UNCHANGED file_table,
         c.dir = call[t].dir, c.inode = None, ClosingHeld(to, c) = call[t].inode, ClosingHeld(pc[t], call[t]) = None
  PROVE \A d \in Blocks : Count(d)' = Count(d)
<1> DEFINE h == <<t, "dir", 0>> i == <<t, "inode", 0>> k == <<t, "closing", 0>>
<1>1. HeldMap' = Locals(HeldMap, t, c, to)
  BY HeldGo
<1>2. h \in Handles /\ i \in Handles /\ k \in Handles /\ h # k /\ h # i /\ i # k
  BY HandleKinds, HandlesApart
<1>3. HeldMap[h] = call[t].dir /\ HeldMap[i] = call[t].inode /\ HeldMap[k] = None
  BY HeldMapAt
<1>4. HeldMap \in [Handles -> Mem]
  BY HeldMapType
<1>5. Locals(HeldMap, t, c, to) = [HeldMap EXCEPT ![h] = HeldMap[h], ![i] = None, ![k] = HeldMap[i]]
  <2> HIDE DEF h, i, k
  <2> QED BY <1>3 DEF Locals, h, i, k
<1> HIDE DEF h, i, k
<1>6. Locals(HeldMap, t, c, to) = [HeldMap EXCEPT ![i] = None, ![k] = HeldMap[i]]
  BY <1>2, <1>4, <1>5
<1>10. \A d \in Blocks : Cardinality(HoldersOf([HeldMap EXCEPT ![i] = None, ![k] = HeldMap[i]], d)) = Cardinality(HoldersOf(HeldMap, d))
  BY <1>2, <1>3, <1>4, CountMoved
<1>7. \A d \in Blocks : Cardinality(HoldersOf(HeldMap', d)) = Cardinality(HoldersOf(HeldMap, d))
  BY <1>1, <1>6, <1>10
<1>8. \A d \in Blocks : Count(d)' = Cardinality(HoldersOf(HeldMap', d))
  BY CountAfter
<1>9. \A d \in Blocks : Count(d) = Cardinality(HoldersOf(HeldMap, d))
  BY DEF Count
<1> QED BY <1>7, <1>8, <1>9

\* The inode goes into a descriptor.
LEMMA MoveToFile ==
  ASSUME FsTypes, NEW t \in Threads, NEW to, NEW c, Go(t, to, c), NEW fd \in Fds, NEW f,
         file_table' = [file_table EXCEPT ![t][fd] = f], f.inode = call[t].inode, file_table[t][fd].inode = None,
         c.dir = call[t].dir, c.inode = None, ClosingHeld(to, c) = ClosingHeld(pc[t], call[t])
  PROVE \A d \in Blocks : Count(d)' = Count(d)
<1> DEFINE h == <<t, "dir", 0>> i == <<t, "inode", 0>> k == <<t, "closing", 0>> n == <<t, "file", fd>>
<1>1. HeldMap' = [Locals(HeldMap, t, c, to) EXCEPT ![n] = f.inode]
  BY HeldGoFile
<1>2. h \in Handles /\ i \in Handles /\ k \in Handles /\ n \in Handles /\ h # k /\ h # i /\ i # k /\ n \notin {h, i, k}
  BY HandleKinds, HandlesApart
<1>3. HeldMap[h] = call[t].dir /\ HeldMap[i] = call[t].inode /\ HeldMap[k] = ClosingHeld(pc[t], call[t]) /\ HeldMap[n] = None
  BY HeldMapAt
<1>4. HeldMap \in [Handles -> Mem]
  BY HeldMapType
<1>5. Locals(HeldMap, t, c, to) = [HeldMap EXCEPT ![h] = HeldMap[h], ![i] = None, ![k] = HeldMap[k]]
  <2> HIDE DEF h, i, k
  <2> QED BY <1>3 DEF Locals, h, i, k
<1> HIDE DEF h, i, k, n
<1>6. [Locals(HeldMap, t, c, to) EXCEPT ![n] = f.inode] = [HeldMap EXCEPT ![i] = None, ![n] = HeldMap[i]]
  BY <1>2, <1>3, <1>4, <1>5
<1>10. \A d \in Blocks : Cardinality(HoldersOf([HeldMap EXCEPT ![i] = None, ![n] = HeldMap[i]], d)) = Cardinality(HoldersOf(HeldMap, d))
  BY <1>2, <1>3, <1>4, CountMoved
<1>7. \A d \in Blocks : Cardinality(HoldersOf(HeldMap', d)) = Cardinality(HoldersOf(HeldMap, d))
  BY <1>1, <1>6, <1>10
<1>8. \A d \in Blocks : Count(d)' = Cardinality(HoldersOf(HeldMap', d))
  BY CountAfter
<1>9. \A d \in Blocks : Count(d) = Cardinality(HoldersOf(HeldMap, d))
  BY DEF Count
<1> QED BY <1>7, <1>8, <1>9

\* A descriptor is to be closed.
LEMMA MoveFromFile ==
  ASSUME FsTypes, NEW t \in Threads, NEW to, NEW c, Go(t, to, c), NEW fd \in Fds, NEW f,
         file_table' = [file_table EXCEPT ![t][fd] = f], f.inode = None,
         c.dir = call[t].dir, c.inode = call[t].inode, ClosingHeld(to, c) = file_table[t][fd].inode,
         ClosingHeld(pc[t], call[t]) = None
  PROVE \A d \in Blocks : Count(d)' = Count(d)
<1> DEFINE h == <<t, "dir", 0>> i == <<t, "inode", 0>> k == <<t, "closing", 0>> n == <<t, "file", fd>>
<1>0. HeldMap' = [Locals(HeldMap, t, c, to) EXCEPT ![n] = f.inode]
  BY HeldGoFile
<1>1. HeldMap' = [Locals(HeldMap, t, c, to) EXCEPT ![n] = None]
  BY <1>0
<1>2. h \in Handles /\ i \in Handles /\ k \in Handles /\ n \in Handles /\ h # k /\ h # i /\ i # k /\ n \notin {h, i, k}
  BY HandleKinds, HandlesApart
<1>3. HeldMap[h] = call[t].dir /\ HeldMap[i] = call[t].inode /\ HeldMap[k] = None /\ HeldMap[n] = file_table[t][fd].inode
  BY HeldMapAt
<1>4. HeldMap \in [Handles -> Mem]
  BY HeldMapType
<1>5. Locals(HeldMap, t, c, to) = [HeldMap EXCEPT ![h] = HeldMap[h], ![i] = HeldMap[i], ![k] = HeldMap[n]]
  <2> HIDE DEF h, i, k, n
  <2> QED BY <1>3 DEF Locals, h, i, k
<1> HIDE DEF h, i, k, n
<1>6. [Locals(HeldMap, t, c, to) EXCEPT ![n] = None] = [HeldMap EXCEPT ![n] = None, ![k] = HeldMap[n]]
  BY <1>2, <1>3, <1>4, <1>5
<1>10. \A d \in Blocks : Cardinality(HoldersOf([HeldMap EXCEPT ![n] = None, ![k] = HeldMap[n]], d)) = Cardinality(HoldersOf(HeldMap, d))
  BY <1>2, <1>3, <1>4, CountMoved
<1>7. \A d \in Blocks : Cardinality(HoldersOf(HeldMap', d)) = Cardinality(HoldersOf(HeldMap, d))
  BY <1>1, <1>6, <1>10
<1>8. \A d \in Blocks : Count(d)' = Cardinality(HoldersOf(HeldMap', d))
  BY CountAfter
<1>9. \A d \in Blocks : Count(d) = Cardinality(HoldersOf(HeldMap, d))
  BY DEF Count
<1> QED BY <1>7, <1>8, <1>9

\* A local that was free takes an inode: the directory's, or that of a file.
LEMMA GainDir ==
  ASSUME FsTypes, NEW t \in Threads, NEW to, NEW c, Go(t, to, c), UNCHANGED file_table, NEW b \in Mem,
         call[t].dir = None, c.dir = b, c.inode = call[t].inode, ClosingHeld(to, c) = ClosingHeld(pc[t], call[t])
  PROVE \A d \in Blocks : Count(d)' = Count(d) + (IF b = d THEN 1 ELSE 0)
<1> DEFINE h == <<t, "dir", 0>> i == <<t, "inode", 0>> k == <<t, "closing", 0>>
<1>1. HeldMap' = Locals(HeldMap, t, c, to)
  BY HeldGo
<1>2. h \in Handles /\ i \in Handles /\ k \in Handles /\ h # k /\ h # i /\ i # k
  BY HandleKinds, HandlesApart
<1>3. HeldMap[h] = None /\ HeldMap[i] = call[t].inode /\ HeldMap[k] = ClosingHeld(pc[t], call[t])
  BY HeldMapAt
<1>4. HeldMap \in [Handles -> Mem]
  BY HeldMapType
<1>5. Locals(HeldMap, t, c, to) = [HeldMap EXCEPT ![h] = b, ![i] = HeldMap[i], ![k] = HeldMap[k]]
  <2> HIDE DEF h, i, k
  <2> QED BY <1>3 DEF Locals, h, i, k
<1> HIDE DEF h, i, k
<1>6. Locals(HeldMap, t, c, to) = [HeldMap EXCEPT ![h] = b]
  BY <1>2, <1>4, <1>5
<1>10. \A d \in Blocks : Cardinality(HoldersOf([HeldMap EXCEPT ![h] = b], d)) = Cardinality(HoldersOf(HeldMap, d)) + (IF b = d THEN 1 ELSE 0)
  BY <1>2, <1>3, <1>4, CountGained
<1>7. \A d \in Blocks : Cardinality(HoldersOf(HeldMap', d)) = Cardinality(HoldersOf(HeldMap, d)) + (IF b = d THEN 1 ELSE 0)
  BY <1>1, <1>6, <1>10
<1>8. \A d \in Blocks : Count(d)' = Cardinality(HoldersOf(HeldMap', d))
  BY CountAfter
<1>9. \A d \in Blocks : Count(d) = Cardinality(HoldersOf(HeldMap, d))
  BY DEF Count
<1> QED BY <1>7, <1>8, <1>9

LEMMA GainInode ==
  ASSUME FsTypes, NEW t \in Threads, NEW to, NEW c, Go(t, to, c), UNCHANGED file_table, NEW b \in Mem,
         call[t].inode = None, c.inode = b, ClosingHeld(pc[t], call[t]) = None,
         \/ c.dir = call[t].dir /\ ClosingHeld(to, c) = None
         \/ c.dir = None /\ ClosingHeld(to, c) = call[t].dir
  PROVE \A d \in Blocks : Count(d)' = Count(d) + (IF b = d THEN 1 ELSE 0)
<1> DEFINE h == <<t, "dir", 0>> i == <<t, "inode", 0>> k == <<t, "closing", 0>>
           g == [HeldMap EXCEPT ![h] = None, ![k] = HeldMap[h]]
<1>1. HeldMap' = Locals(HeldMap, t, c, to)
  BY HeldGo
<1>2. h \in Handles /\ i \in Handles /\ k \in Handles /\ h # k /\ h # i /\ i # k
  BY HandleKinds, HandlesApart
<1>3. HeldMap[h] = call[t].dir /\ HeldMap[i] = None /\ HeldMap[k] = None
  BY HeldMapAt
<1>4. HeldMap \in [Handles -> Mem]
  BY HeldMapType
<1>5. CASE c.dir = call[t].dir /\ ClosingHeld(to, c) = None
  <2>1. Locals(HeldMap, t, c, to) = [HeldMap EXCEPT ![h] = HeldMap[h], ![i] = b, ![k] = HeldMap[k]]
    <3> HIDE DEF h, i, k
    <3> QED BY <1>3, <1>5 DEF Locals, h, i, k
  <2> HIDE DEF h, i, k
  <2>2. Locals(HeldMap, t, c, to) = [HeldMap EXCEPT ![i] = b]
    BY <1>2, <1>4, <2>1
  <2>10. \A d \in Blocks : Cardinality(HoldersOf([HeldMap EXCEPT ![i] = b], d)) = Cardinality(HoldersOf(HeldMap, d)) + (IF b = d THEN 1 ELSE 0)
    BY <1>2, <1>3, <1>4, CountGained
  <2>7. \A d \in Blocks : Cardinality(HoldersOf(HeldMap', d)) = Cardinality(HoldersOf(HeldMap, d)) + (IF b = d THEN 1 ELSE 0)
    BY <1>1, <2>2, <2>10
  <2>8. \A d \in Blocks : Count(d)' = Cardinality(HoldersOf(HeldMap', d))
    BY CountAfter
  <2>9. \A d \in Blocks : Count(d) = Cardinality(HoldersOf(HeldMap, d))
    BY DEF Count
  <2> QED BY <2>7, <2>8, <2>9
<1>6. CASE c.dir = None /\ ClosingHeld(to, c) = call[t].dir
  <2>1. Locals(HeldMap, t, c, to) = [HeldMap EXCEPT ![h] = None, ![i] = b, ![k] = HeldMap[h]]
    <3> HIDE DEF h, i, k
    <3> QED BY <1>3, <1>6 DEF Locals, h, i, k
  <2> HIDE DEF h, i, k
  <2>2. Locals(HeldMap, t, c, to) = [g EXCEPT ![i] = b]
    BY <1>2, <1>4, <2>1
  <2>3. g \in [Handles -> Mem] /\ g[i] = None
    BY <1>2, <1>3, <1>4 DEF Mem
  <2>4. \A d \in Blocks : Cardinality(HoldersOf(g, d)) = Cardinality(HoldersOf(HeldMap, d))
    BY <1>2, <1>3, <1>4, CountMoved
  <2> HIDE DEF g
  <2>5. \A d \in Blocks : Cardinality(HoldersOf([g EXCEPT ![i] = b], d))
                            = Cardinality(HoldersOf(g, d)) + (IF b = d THEN 1 ELSE 0)
    BY <1>2, <2>3, CountGained
  <2> QED BY <1>1, <2>2, <2>4, <2>5, CountAfter DEF Count
<1> QED BY <1>5, <1>6

\* An inode has been closed.
LEMMA LoseClosing ==
  ASSUME FsTypes, NEW t \in Threads, NEW to, NEW c, Go(t, to, c), UNCHANGED file_table,
         pc[t] = "close", c.dir = call[t].dir, c.inode = call[t].inode, ClosingHeld(to, c) = None
  PROVE \A d \in Blocks : Count(d)' = Count(d) - (IF call[t].closing = d THEN 1 ELSE 0)
<1> DEFINE h == <<t, "dir", 0>> i == <<t, "inode", 0>> k == <<t, "closing", 0>>
<1>1. HeldMap' = Locals(HeldMap, t, c, to)
  BY HeldGo
<1>2. h \in Handles /\ i \in Handles /\ k \in Handles /\ h # k /\ h # i /\ i # k
  BY HandleKinds, HandlesApart
<1>3. HeldMap[h] = call[t].dir /\ HeldMap[i] = call[t].inode /\ HeldMap[k] = call[t].closing
  BY HeldMapAt DEF ClosingHeld
<1>4. HeldMap \in [Handles -> Mem]
  BY HeldMapType
<1>5. Locals(HeldMap, t, c, to) = [HeldMap EXCEPT ![h] = HeldMap[h], ![i] = HeldMap[i], ![k] = None]
  <2> HIDE DEF h, i, k
  <2> QED BY <1>3 DEF Locals, h, i, k
<1> HIDE DEF h, i, k
<1>6. Locals(HeldMap, t, c, to) = [HeldMap EXCEPT ![k] = None]
  BY <1>2, <1>4, <1>5
<1>10. \A d \in Blocks : Cardinality(HoldersOf([HeldMap EXCEPT ![k] = None], d)) = Cardinality(HoldersOf(HeldMap, d)) - (IF HeldMap[k] = d THEN 1 ELSE 0)
  BY <1>2, <1>3, <1>4, CountLost
<1>7. \A d \in Blocks : Cardinality(HoldersOf(HeldMap', d)) = Cardinality(HoldersOf(HeldMap, d)) - (IF HeldMap[k] = d THEN 1 ELSE 0)
  BY <1>1, <1>6, <1>10
<1>8. \A d \in Blocks : Count(d)' = Cardinality(HoldersOf(HeldMap', d))
  BY CountAfter
<1>9. \A d \in Blocks : Count(d) = Cardinality(HoldersOf(HeldMap, d))
  BY DEF Count
<1> QED BY <1>3, <1>7, <1>8, <1>9

\* A block is counted as often as it is held.
LEMMA CountedUp ==
  ASSUME FsTypes, Counted, NEW b \in Blocks, UNCHANGED orphans,
         \A d \in Blocks : Count(d)' = Count(d) + (IF b = d THEN 1 ELSE 0),
         \A d \in Blocks : inode'[d].open_cnt = inode[d].open_cnt + (IF b = d THEN 1 ELSE 0),
         \A d \in Blocks : inode'[d].open_cnt > 0 <=> d \in open_inodes'
  PROVE Counted'
<1> SUFFICES ASSUME NEW d \in Blocks PROVE inode'[d].open_cnt = References(d)'
  BY DEF Counted
<1> DEFINE m == Count(d) n == Count(d)' k == orphans[d] r == inode[d].open_cnt one == IF b = d THEN 1 ELSE 0
<1>1. m \in Nat /\ k \in Nat /\ one \in Nat
  BY CountType DEF Count, FsTypes
<1>2. r = m + k
  BY ReferencesAre DEF Counted, Count
<1>3. References(d)' = n + k
  BY ReferencesAfter, CountAfter
<1>4. n = m + one
  OBVIOUS
<1>5. inode'[d].open_cnt = r + one
  OBVIOUS
<1> HIDE DEF m, n, k, r, one
<1> QED BY <1>1, <1>2, <1>3, <1>4, <1>5

LEMMA CountedDown ==
  ASSUME FsTypes, Counted, NEW b \in Blocks, UNCHANGED orphans,
         \A d \in Blocks : Count(d)' = Count(d) - (IF b = d THEN 1 ELSE 0),
         \A d \in Blocks : inode'[d].open_cnt = inode[d].open_cnt - (IF b = d THEN 1 ELSE 0),
         \A d \in Blocks : inode'[d].open_cnt > 0 <=> d \in open_inodes'
  PROVE Counted'
<1> SUFFICES ASSUME NEW d \in Blocks PROVE inode'[d].open_cnt = References(d)'
  BY DEF Counted
<1> DEFINE m == Count(d) n == Count(d)' k == orphans[d] r == inode[d].open_cnt one == IF b = d THEN 1 ELSE 0
<1>1. m \in Nat /\ k \in Nat /\ one \in Nat
  BY CountType DEF Count, FsTypes
<1>2. r = m + k
  BY ReferencesAre DEF Counted, Count
<1>3. References(d)' = n + k
  BY ReferencesAfter, CountAfter
<1>4. n = m - one
  OBVIOUS
<1>5. inode'[d].open_cnt = r - one
  OBVIOUS
<1> HIDE DEF m, n, k, r, one
<1> QED BY <1>1, <1>2, <1>3, <1>4, <1>5

LEMMA CountedSame ==
  ASSUME FsTypes, Counted, UNCHANGED orphans, UNCHANGED open_inodes,
         \A d \in Blocks : Count(d)' = Count(d), \A d \in Blocks : inode'[d].open_cnt = inode[d].open_cnt
  PROVE Counted'
<1> SUFFICES ASSUME NEW d \in Blocks PROVE inode'[d].open_cnt = References(d)'
  BY DEF Counted
<1>1. inode[d].open_cnt = Count(d) + orphans[d]
  BY ReferencesAre DEF Counted, Count
<1>2. References(d)' = Count(d)' + orphans[d]
  BY ReferencesAfter, CountAfter
<1> QED BY <1>1, <1>2

LEMMA FilesStay ==
  ASSUME FsTypes, FsTypes', Counted, Counted', FilesHeld, Quiet, UNCHANGED file_table
  PROVE FilesHeld'
<1> SUFFICES ASSUME NEW t \in Threads, NEW fd \in Fds, file_table[t][fd] # NoFile
    PROVE file_table[t][fd].inode # None /\ file_table[t][fd].pos <= inode'[file_table[t][fd].inode].length
  BY DEF FilesHeld, NoFile
<1> DEFINE b == file_table[t][fd].inode
<1>1. b # None /\ file_table[t][fd].pos <= inode[b].length
  BY DEF FilesHeld
<1>2. b \in open_inodes
  BY <1>1, LocalsOpen
<1>3. b \in open_inodes'
  BY <1>1, LocalsOpenAfter
<1>4. Kept(b)
  BY <1>2, <1>3 DEF Quiet, Fresh, Closed, Off, FsTypes
<1> QED BY <1>1, <1>4 DEF Kept

-----------------------------------------------------------------------------
(***************************************************************************)
(* Control.                                                                *)
(***************************************************************************)
LEMMA NoCallType == NoCall \in CallType
<1>1. 0 \in Sectors
  BY FsAssumption DEF Sectors
<1> QED BY <1>1 DEF NoCall, CallType, Mem, Nexts

LEMMA ControlType ==
  ASSUME FsTypes, Shapes, NEW t \in Threads, NEW to \in Pcs, NEW c \in CallType, Go(t, to, c), Shape(to, c)
  PROVE pc' \in [Threads -> Pcs] /\ call' \in [Threads -> CallType] /\ Shapes'
<1>1. pc' \in [Threads -> Pcs] /\ call' \in [Threads -> CallType]
  BY DEF FsTypes, Go
<1>2. \A u \in Threads : Shape(pc'[u], call'[u])
  BY GoAt DEF Shapes
<1>3. \A u \in Threads : Shape(pc[u], call[u])' <=> Shape(pc'[u], call'[u])
  BY DEF Shape, Place, Going, Freeing, InDir
<1> QED BY <1>1, <1>2, <1>3 DEF Shapes

LEMMA TypesAfter == 
  /\ CallType' = CallType /\ InodeType' = InodeType /\ EntryType' = EntryType /\ FileType' = FileType /\ Pcs' = Pcs
BY DEF CallType, InodeType, EntryType, FileType, Pcs, Mem, Sectors, Nexts, InDir, Going, Freeing

\* A thread that closes b and then goes on at next.
SameLocals(d, c) == d.op = c.op /\ d.name = c.name /\ d.dir = c.dir /\ d.inode = c.inode
LEMMA CloseThenGoes ==
  ASSUME NEW t \in Threads, NEW b \in Mem, NEW next \in Nexts, NEW c \in CallType, CloseThen(t, b, next, c),
         Shape(next, c)
  PROVE \E to \in Pcs, d \in CallType :
          /\ Go(t, to, d) /\ Shape(to, d) /\ to \in {next, "close"} /\ SameLocals(d, c) /\ ClosingHeld(to, d) = b
          /\ Place(to, d) = next
<1>1. CASE b = None
  <2>1. Go(t, next, c)
    BY <1>1 DEF CloseThen
  <2>2. next \in Pcs /\ next # "close" /\ next \notin Going
    BY DEF Pcs, Nexts, Going, Freeing
  <2>3. ClosingHeld(next, c) = b /\ Place(next, c) = next
    BY <1>1, <2>2 DEF ClosingHeld, Place
  <2> QED BY <2>1, <2>2, <2>3 DEF SameLocals
<1>2. CASE b # None
  <2>1. PICK d : d = [c EXCEPT !.closing = b, !.next = next]
    OBVIOUS
  <2>2. Go(t, "close", d)
    BY <1>2, <2>1 DEF CloseThen
  <2>3. d \in CallType /\ d.closing = b /\ d.next = next /\ SameLocals(d, c) /\ d.ofs = c.ofs
    BY <2>1 DEF CallType, SameLocals
  <2>4. "close" \in Pcs /\ "close" \in Going /\ next \notin Going
    BY DEF Pcs, Nexts, Going, Freeing
  <2>5. Place("close", d) = next /\ Place(next, c) = next /\ ClosingHeld("close", d) = b
    BY <2>3, <2>4 DEF Place, ClosingHeld
  <2>6. Shape("close", d)
    BY <1>2, <2>3, <2>4, <2>5 DEF Shape, SameLocals
  <2> QED BY <2>2, <2>3, <2>4, <2>5, <2>6
<1> QED BY <1>1, <1>2

-----------------------------------------------------------------------------
(***************************************************************************)
(* A step that is quiet, claims what it claimed, and leaves the locks.     *)
(***************************************************************************)
SameClaim(t, to, c) ==
  \/ pc[t] \notin Creating /\ to \notin Creating
  \/ pc[t] = "inode_create" /\ to = "undo" /\ c.sector = call[t].sector

LEMMA CreateSame ==
  ASSUME FsTypes, NEW t \in Threads, NEW to, NEW c, Go(t, to, c), SameClaim(t, to, c)
  PROVE CreateClaim(t)' = CreateClaim(t)
<1>1. pc'[t] = to /\ call'[t] = c
  BY GoAt
<1> QED BY <1>1 DEF SameClaim, Creating, CreateClaim, Extent

LEMMA QuietStep ==
  ASSUME FsInv, FsTypes', Shapes', Counted', FilesHeld', Dirs', Removals', Quiet,
         NEW t \in Threads, NEW to, NEW c, Go(t, to, c), pc[t] \notin Freeing, to \notin Freeing,
         SameClaim(t, to, c), UNCHANGED <<free_map, lost>>
  PROVE FsInv'
<1>1. FsTypes /\ Shapes /\ Inodes /\ Counted /\ Apart /\ Written /\ Owned /\ NamesUnique
  BY DEF FsInv
<1>2. open_inodes' \subseteq Blocks
  BY DEF FsTypes
<1>3. Inodes'
  BY <1>1, <1>2, QuietInodes
<1>4. Apart' /\ Written'
  <2>1. to \notin {"write_inode", "dir_add"}
    BY DEF SameClaim, Creating
  <2> QED BY <1>1, <2>1, QuietApart
<1>5. Owned'
  <2>1. CreateClaim(t)' = CreateClaim(t)
    BY <1>1, CreateSame
  <2> QED BY <1>1, <1>2, <2>1, QuietOwned
<1>6. NamesUnique'
  BY <1>1 DEF NamesUnique, Quiet
<1> QED BY <1>3, <1>4, <1>5, <1>6 DEF FsInv

\* Nothing but the thread's own state changes.
Plain(t, to, c) ==
  /\ pc[t] \notin Freeing /\ to \notin Freeing /\ SameClaim(t, to, c)
  /\ to \in Locking <=> pc[t] \in Locking
  /\ c.dir # None => c.dir = call[t].dir
  /\ to \notin Erasing

LEMMA UnchangedQuiet ==
  ASSUME FsTypes, Counted, UNCHANGED <<disk, entries, inode, open_inodes>>
  PROVE Quiet
<1> SUFFICES ASSUME NEW b \in Blocks PROVE (Kept(b) \/ Off(b)) /\ ~Fresh(b)
  BY DEF Quiet
<1>1. CASE b \in open_inodes
  BY <1>1 DEF Kept, Counted, Fresh
<1>2. CASE b \notin open_inodes
  BY <1>2 DEF Off, Fresh
<1> QED BY <1>1, <1>2

LEMMA CallStep ==
  ASSUME FsInv, NEW t \in Threads, NEW to \in Pcs, NEW c \in CallType, Go(t, to, c), Shape(to, c),
         UNCHANGED <<free_map, disk, entries, inode, open_inodes, lost, orphans>>,
         list_lock' \in Threads \cup {None},
         file_table' \in [Threads -> [Fds -> FileType]], FilesHeld',
         \A d \in Blocks : Count(d)' = Count(d), Plain(t, to, c)
  PROVE FsInv'
<1>1. FsTypes /\ Shapes /\ Counted /\ Dirs /\ Removals
  BY DEF FsInv
<1>2. pc' \in [Threads -> Pcs] /\ call' \in [Threads -> CallType] /\ Shapes'
  BY <1>1, ControlType
<1>3. FsTypes'
  BY <1>1, <1>2, TypesAfter DEF FsTypes
<1>4. Counted'
  BY <1>1, CountedSame
<1>5. Quiet
  BY <1>1, UnchangedQuiet
<1>6. Dirs' /\ Removals'
  <2>1. c.dir # None => inode'[c.dir].sector = ROOT_DIR_SECTOR
    BY <1>1 DEF Plain, Dirs
  <2>2. to \in Locking => c.dir = call[t].dir
    <3> SUFFICES ASSUME to \in Locking PROVE c.dir = call[t].dir
      OBVIOUS
    <3>1. to \in InDir /\ to \notin Going
      BY DEF Locking, Erasing, InDir, Going, Freeing
    <3>2. c.dir # None
      BY <3>1 DEF Shape, Place
    <3> QED BY <3>2 DEF Plain
  <2>3. to \notin Erasing /\ to # "remove_erase" /\ (to \in Locking <=> pc[t] \in Locking)
    BY DEF Plain, Erasing
  <2> QED BY <1>1, <2>1, <2>2, <2>3, LocksSame
<1> QED BY <1>2, <1>3, <1>4, <1>5, <1>6, QuietStep DEF Plain

(***************************************************************************)
(* Opening the inode of a file that has an entry, or of the directory.     *)
(***************************************************************************)
LEMMA OpenEffect ==
  ASSUME FsTypes, Counted, NEW t \in Threads, NEW s \in Sectors, NEW b \in Blocks, inode_open(t, s, b)
  PROVE /\ inode' \in [Blocks -> InodeType] /\ open_inodes' = open_inodes \cup {b} /\ list_lock' = list_lock
        /\ \A d \in Blocks : d # b => inode'[d] = inode[d]
        /\ inode'[b].sector = s /\ inode'[b].lock = inode[b].lock
        /\ inode'[b].open_cnt = inode[b].open_cnt + 1
        /\ \/ /\ b \in open_inodes /\ inode'[b].removed = inode[b].removed /\ inode[b].sector = s
              /\ inode'[b].start = inode[b].start /\ inode'[b].length = inode[b].length
           \/ /\ b \notin open_inodes /\ inode[b] = NoInode /\ ~inode'[b].removed
              /\ inode'[b].start = disk[s].start /\ inode'[b].length = disk[s].length
              /\ \A o \in open_inodes : inode[o].sector # s
<1>0. b # None /\ inode \in [Blocks -> InodeType] /\ disk[s].start \in Sectors /\ disk[s].length \in Nat
  BY FsAssumption DEF FsTypes
<1>1. CASE b \in open_inodes /\ inode[b].sector = s /\ inode' = [inode EXCEPT ![b].open_cnt = @ + 1]
           /\ UNCHANGED <<open_inodes, list_lock>>
  <2>1. PICK g : g = inode[b]
    OBVIOUS
  <2>2. PICK h : h = [g EXCEPT !.open_cnt = @ + 1]
    OBVIOUS
  <2>3. g \in InodeType
    BY <1>0, <2>1
  <2>4. h \in InodeType /\ h.sector = g.sector /\ h.lock = g.lock /\ h.open_cnt = g.open_cnt + 1
        /\ h.removed = g.removed /\ h.start = g.start /\ h.length = g.length
    BY <2>2, <2>3 DEF InodeType
  <2>5. inode' = [inode EXCEPT ![b] = h]
    BY <1>0, <1>1, <2>1, <2>2
  <2>6. inode'[b] = h /\ (\A d \in Blocks : d # b => inode'[d] = inode[d]) /\ inode' \in [Blocks -> InodeType]
    BY <1>0, <2>4, <2>5
  <2> QED BY <1>1, <2>1, <2>4, <2>6
<1>2. CASE /\ \A o \in open_inodes : inode[o].sector # s
           /\ malloc(b)
           /\ inode' = [inode EXCEPT ![b] = [sector |-> s, open_cnt |-> 1, removed |-> FALSE,
                start |-> disk[s].start, length |-> disk[s].length, lock |-> None]]
           /\ open_inodes' = open_inodes \cup {b} /\ UNCHANGED list_lock
  <2>1. PICK h : h = [sector |-> s, open_cnt |-> 1, removed |-> FALSE,
                start |-> disk[s].start, length |-> disk[s].length, lock |-> None]
    OBVIOUS
  <2>2. h \in InodeType /\ h.sector = s /\ h.lock = None /\ h.open_cnt = 1
        /\ ~h.removed /\ h.start = disk[s].start /\ h.length = disk[s].length
    BY <1>0, <2>1 DEF InodeType
  <2>3. inode' = [inode EXCEPT ![b] = h]
    BY <1>2, <2>1
  <2>4. inode'[b] = h /\ (\A d \in Blocks : d # b => inode'[d] = inode[d]) /\ inode' \in [Blocks -> InodeType]
    BY <1>0, <2>2, <2>3
  <2>5. inode[b] = NoInode /\ inode[b].open_cnt = 0 /\ inode[b].lock = None
    BY <1>2 DEF malloc, Unused, NoInode
  <2>6. b \notin open_inodes
    BY <2>5 DEF Counted
  <2>7. /\ inode'[b].sector = s /\ inode'[b].lock = inode[b].lock /\ inode'[b].open_cnt = inode[b].open_cnt + 1
        /\ ~inode'[b].removed /\ inode'[b].start = disk[s].start /\ inode'[b].length = disk[s].length
    BY <2>2, <2>4, <2>5
  <2>8. open_inodes' = open_inodes \cup {b} /\ list_lock' = list_lock
    BY <1>2
  <2>9. \A o \in open_inodes : inode[o].sector # s
    BY <1>2
  <2> QED BY <2>4, <2>5, <2>6, <2>7, <2>8, <2>9
<1>3. CASE b = None
  BY <1>0, <1>3
<1> QED BY <1>1, <1>2, <1>3 DEF inode_open

Opening(t, to, c, s, b) ==
  /\ pc[t] \notin Freeing /\ to \notin Freeing /\ pc[t] \notin Creating /\ to \notin Creating
  /\ to \in Locking <=> pc[t] \in Locking
  /\ c.dir # None => c.dir = call[t].dir \/ (to \notin Locking /\ c.dir = b /\ s = ROOT_DIR_SECTOR)
  /\ to \in Erasing => pc[t] \in Erasing /\ c.ofs = call[t].ofs /\ c.sector = call[t].sector /\ c.name = call[t].name
  /\ to = "remove_erase" => c.inode = b /\ c.sector = s

LEMMA OpenStep ==
  ASSUME FsInv, NEW t \in Threads, NEW to \in Pcs, NEW c \in CallType, Go(t, to, c), Shape(to, c),
         NEW s \in Sectors, NEW b \in Blocks, inode_open(t, s, b), s = ROOT_DIR_SECTOR \/ Linked(s),
         UNCHANGED <<free_map, disk, entries, file_table, lost, orphans>>,
         \A d \in Blocks : Count(d)' = Count(d) + (IF b = d THEN 1 ELSE 0), Opening(t, to, c, s, b)
  PROVE FsInv'
<1>1. FsTypes /\ Shapes /\ Counted /\ Dirs /\ Removals /\ FilesHeld
  BY DEF FsInv
<1>2. pc' \in [Threads -> Pcs] /\ call' \in [Threads -> CallType] /\ Shapes'
  BY <1>1, ControlType
<1>3. /\ inode' \in [Blocks -> InodeType] /\ open_inodes' = open_inodes \cup {b} /\ list_lock' = list_lock
      /\ \A d \in Blocks : d # b => inode'[d] = inode[d]
      /\ inode'[b].sector = s /\ inode'[b].lock = inode[b].lock
      /\ inode'[b].open_cnt = inode[b].open_cnt + 1
  BY <1>1, OpenEffect
<1>4. \/ /\ b \in open_inodes /\ inode'[b].removed = inode[b].removed /\ inode[b].sector = s
         /\ inode'[b].start = inode[b].start /\ inode'[b].length = inode[b].length
      \/ /\ b \notin open_inodes /\ inode[b] = NoInode /\ ~inode'[b].removed
         /\ inode'[b].start = disk[s].start /\ inode'[b].length = disk[s].length
         /\ \A o \in open_inodes : inode[o].sector # s
  BY <1>1, OpenEffect
<1>5. FsTypes'
  BY <1>1, <1>2, <1>3, TypesAfter DEF FsTypes
<1>6. inode[b].open_cnt \in Nat /\ \A d \in Blocks : inode[d].open_cnt > 0 <=> d \in open_inodes
  BY <1>1 DEF FsTypes, InodeType, Counted
<1>7. Counted'
  <2>1. \A d \in Blocks : inode'[d].open_cnt = inode[d].open_cnt + (IF b = d THEN 1 ELSE 0)
    BY <1>1, <1>3 DEF FsTypes, InodeType
  <2>2. \A d \in Blocks : inode'[d].open_cnt > 0 <=> d \in open_inodes'
    BY <1>3, <1>6
  <2> QED BY <1>1, <2>1, <2>2, CountedUp
<1>8. Quiet
  <2>1. ASSUME NEW d \in Blocks, d # b PROVE (Kept(d) \/ Off(d)) /\ ~Fresh(d)
    <3>1. inode'[d] = inode[d] /\ (d \in open_inodes' <=> d \in open_inodes)
      BY <1>3, <2>1
    <3>2. CASE d \in open_inodes
      BY <1>6, <3>1, <3>2 DEF Kept, Fresh
    <3>3. CASE d \notin open_inodes
      BY <3>1, <3>3 DEF Off, Fresh
    <3> QED BY <3>2, <3>3
  <2>2. CASE b \in open_inodes
    <3>1. Kept(b) /\ ~Fresh(b)
      BY <1>3, <1>4, <1>6, <2>2 DEF Kept, Fresh
    <3> QED BY <2>1, <3>1 DEF Quiet
  <2>3. CASE b \notin open_inodes
    <3>1. Fresh(b)
      BY <1>3, <1>4, <2>3 DEF Fresh
    <3> QED BY <2>1, <3>1 DEF Quiet
  <2> QED BY <2>2, <2>3
<1>9. FilesHeld'
  BY <1>1, <1>5, <1>7, <1>8, FilesStay
<1>10. Dirs' /\ Removals'
  <2>1. \A d \in Blocks : inode'[d].lock = inode[d].lock
    BY <1>3
  <2>2. \A d \in open_inodes : inode'[d].sector = inode[d].sector
    BY <1>1, <1>3, <1>4 DEF FsTypes
  <2>3. \A d \in Blocks, u \in Threads : u # t /\ (call[u].dir = d \/ call[u].inode = d) => inode'[d].sector = inode[d].sector
    BY <1>1, <2>2, LocalsOpen, FsAssumption
  <2>4. c.dir # None => inode'[c.dir].sector = ROOT_DIR_SECTOR
    <3>1. call[t].dir # None => inode'[call[t].dir].sector = ROOT_DIR_SECTOR
      BY <1>1, <2>2, LocalsOpen DEF Dirs
    <3> QED BY <1>3, <3>1 DEF Opening
  <2>5. to \in Locking => c.dir = call[t].dir
    <3> SUFFICES ASSUME to \in Locking PROVE c.dir = call[t].dir
      OBVIOUS
    <3>1. to \in InDir /\ to \notin Going
      BY DEF Locking, Erasing, InDir, Going, Freeing
    <3>2. c.dir # None
      BY <3>1 DEF Shape, Place
    <3> QED BY <3>2 DEF Opening
  <2>6. to \in Erasing => FoundAt(c, c.ofs)
    BY <1>1 DEF Opening, Removals, FoundAt
  <2>7. to = "remove_erase" => inode'[c.inode].sector = c.sector
    BY <1>3 DEF Opening
  <2>8. to \in Locking <=> pc[t] \in Locking
    BY DEF Opening
  <2> QED BY <1>1, <2>1, <2>3, <2>4, <2>5, <2>6, <2>7, <2>8, LocksSame
<1>11. SameClaim(t, to, c) /\ pc[t] \notin Freeing /\ to \notin Freeing
  BY DEF Opening, SameClaim
<1> QED BY <1>2, <1>5, <1>7, <1>8, <1>9, <1>10, <1>11, QuietStep

-----------------------------------------------------------------------------
(***************************************************************************)
(* The steps of the calls that change nothing but the call itself, and     *)
(* those that open an inode.                                               *)
(***************************************************************************)
\* Where a call stands says what it holds.
LEMMA ShapeAt ==
  ASSUME FsTypes, Shapes, NEW t \in Threads
  PROVE /\ call[t] \in CallType /\ pc[t] \in Pcs
        /\ pc[t] \notin Going => call[t].closing = None
        /\ pc[t] \in InDir => call[t].dir \in Blocks
        /\ pc[t] \in Nexts /\ pc[t] # "dir_close" => call[t].dir = None
        /\ pc[t] \notin Going \cup {"file_open", "remove_erase", "remove_done"} => call[t].inode = None
        /\ pc[t] # "close" => ClosingHeld(pc[t], call[t]) = None
<1>1. call[t] \in CallType /\ pc[t] \in Pcs /\ Shape(pc[t], call[t])
  BY DEF FsTypes, Shapes
<1>2. pc[t] \in InDir => pc[t] \notin Going
  BY DEF InDir, Going, Freeing
<1>3. pc[t] \in Nexts => pc[t] \notin Going
  BY DEF Nexts, Going, Freeing
<1>4. pc[t] \in Nexts /\ pc[t] # "dir_close" => pc[t] \notin InDir
  BY DEF Nexts, InDir
<1>5. pc[t] \notin Going => Place(pc[t], call[t]) = pc[t]
  BY DEF Place
<1>6. call[t].dir \in Mem
  BY <1>1 DEF CallType
<1> QED BY <1>1, <1>2, <1>3, <1>4, <1>5, <1>6 DEF Shape, Mem, ClosingHeld

LEMMA EmptyShape == \A p \in {"user", "file_open", "exit"} : Shape(p, NoCall)
BY DEF Shape, Place, NoCall, Going, Freeing, InDir

LEMMA EmptyCall == NoCall.dir = None /\ NoCall.inode = None /\ NoCall.closing = None /\ NoCall.ofs = 1 /\ \A p : ClosingHeld(p, NoCall) = None
BY DEF NoCall, ClosingHeld

LEMMA DirCloses ==
  ASSUME FsTypes, Shapes, NEW t \in Threads, pc[t] \in InDir \ {"remove_erase", "remove_done"}, dir_close(t),
         UNCHANGED file_table
  PROVE \E to \in {"user", "close"}, c \in CallType :
          /\ Go(t, to, c) /\ Shape(to, c) /\ c.dir = None
          /\ \A d \in Blocks : Count(d)' = Count(d)
<1>0. pc[t] \notin Going \cup {"file_open", "remove_erase", "remove_done"} /\ pc[t] # "close"
  BY DEF InDir, Going, Freeing
<1>1. call[t].dir \in Blocks /\ call[t].inode = None /\ ClosingHeld(pc[t], call[t]) = None
  BY <1>0, ShapeAt
<1>2. call[t].dir \in Mem /\ "user" \in Nexts
  BY <1>1 DEF Mem, Nexts
<1>3. CloseThen(t, call[t].dir, "user", NoCall)
  BY DEF dir_close
<1>4. Shape("user", NoCall)
  BY EmptyShape
<1>5. PICK to \in Pcs, c \in CallType :
        /\ Go(t, to, c) /\ Shape(to, c) /\ to \in {"user", "close"} /\ SameLocals(c, NoCall)
        /\ ClosingHeld(to, c) = call[t].dir /\ Place(to, c) = "user"
  BY <1>2, <1>3, <1>4, NoCallType, CloseThenGoes
<1>6. c.dir = None /\ c.inode = None
  BY <1>5, EmptyCall DEF SameLocals
<1>7. \A d \in Blocks : Count(d)' = Count(d)
  BY <1>1, <1>5, <1>6, MoveDir
<1> QED BY <1>5, <1>6, <1>7

LEMMA FilesSame ==
  ASSUME FsInv, UNCHANGED <<inode, file_table>>
  PROVE FilesHeld' /\ file_table' \in [Threads -> [Fds -> FileType]]
BY DEF FsInv, FsTypes, FilesHeld, NoFile

LEMMA DirCloseStep ==
  ASSUME FsInv, NEW t \in Threads, pc[t] \in {"dir_open", "create", "open", "remove", "dir_close"}, dir_close(t),
         UNCHANGED <<free_map, disk, entries, inode, open_inodes, list_lock, file_table, lost, orphans>>
  PROVE FsInv'
<1>1. FsTypes /\ Shapes
  BY DEF FsInv
<1>2. pc[t] \in InDir \ {"remove_erase", "remove_done"}
  BY DEF InDir
<1>3. PICK to \in {"user", "close"}, c \in CallType :
          /\ Go(t, to, c) /\ Shape(to, c) /\ c.dir = None
          /\ \A d \in Blocks : Count(d)' = Count(d)
  BY <1>1, <1>2, DirCloses
<1>4. to \in Pcs /\ Plain(t, to, c)
  BY <1>3 DEF Pcs, Nexts, Going, Plain, Freeing, SameClaim, Creating, Locking, Erasing
<1>5. FilesHeld' /\ file_table' \in [Threads -> [Fds -> FileType]] /\ list_lock' \in Threads \cup {None}
  BY <1>1, FilesSame DEF FsTypes
<1> QED BY <1>3, <1>4, <1>5, CallStep

\* A step that only moves on, with locals that hold what they held.
LEMMA MoveOn ==
  ASSUME FsInv, NEW t \in Threads, NEW to \in Pcs, NEW c \in CallType, Go(t, to, c), Shape(to, c),
         UNCHANGED <<free_map, disk, entries, inode, open_inodes, file_table, lost, orphans>>,
         list_lock' \in Threads \cup {None}, pc[t] # "close", to # "close",
         c.dir = call[t].dir, c.inode = call[t].inode, Plain(t, to, c)
  PROVE FsInv'
<1>1. FsTypes /\ Shapes
  BY DEF FsInv
<1>2. ClosingHeld(to, c) = ClosingHeld(pc[t], call[t])
  BY DEF ClosingHeld
<1>3. \A d \in Blocks : Count(d)' = Count(d)
  BY <1>1, <1>2, MoveNothing
<1>4. FilesHeld' /\ file_table' \in [Threads -> [Fds -> FileType]]
  BY FilesSame
<1> QED BY <1>3, <1>4, CallStep

LEMMA dir_openStep ==
  ASSUME FsInv, NEW t \in Threads, dir_open(t)
  PROVE FsInv'
<1>1. FsTypes /\ Shapes /\ At(t, "dir_open")
  BY DEF FsInv, dir_open
<1>2. pc[t] = "dir_open" /\ call[t] \in CallType /\ list_lock' \in Threads \cup {None}
  BY <1>1 DEF At, FsTypes, dir_open
<1>3. UNCHANGED <<free_map, disk, entries, inode, open_inodes, list_lock, file_table, lost, orphans>>
  BY DEF dir_open
<1>4. CASE Go(t, call[t].op, call[t])
  <2>1. call[t].op \in {"create", "open", "remove"} /\ call[t].ofs > 0 /\ Shape("dir_open", call[t])
    BY <1>1, <1>2 DEF Shapes, Shape
  <2>2. PICK to : to = call[t].op
    OBVIOUS
  <2>3. to \in {"create", "open", "remove"} /\ to \in Pcs /\ Plain(t, to, call[t])
    BY <1>2, <2>1, <2>2 DEF Pcs, InDir, Plain, Freeing, SameClaim, Creating, Locking, Erasing
  <2>4. Shape(to, call[t])
    BY <1>2, <2>1, <2>3 DEF Shape, Place, Going, Freeing, InDir
  <2> QED BY <1>2, <1>3, <1>4, <2>2, <2>3, <2>4, MoveOn
<1>5. CASE CloseThen(t, call[t].dir, "user", NoCall)
  BY <1>2, <1>3, <1>5, DirCloseStep DEF dir_close
<1> QED BY <1>4, <1>5 DEF dir_open

LEMMA LookupEntryStep ==
  ASSUME FsInv, NEW t \in Threads, LookupEntry(t)
  PROVE FsInv'
<1>1. FsTypes /\ Shapes /\ At(t, "open")
  BY DEF FsInv, LookupEntry
<1>2. pc[t] = "open" /\ call[t] \in CallType /\ list_lock' \in Threads \cup {None}
  BY <1>1 DEF At, FsTypes, LookupEntry
<1>3. UNCHANGED <<free_map, disk, entries, inode, open_inodes, list_lock, file_table, lost, orphans>>
  BY DEF LookupEntry
<1>4. Shape("open", call[t]) /\ call[t].ofs > 0
  BY <1>1, <1>2 DEF Shapes, Shape
<1>5. CASE dir_close(t)
  BY <1>2, <1>3, <1>5, DirCloseStep
<1>6. CASE call[t].ofs <= DirSlots /\ Go(t, "open_found", [call[t] EXCEPT !.sector = entries[call[t].ofs].inode_sector])
  <2>1. entries[call[t].ofs].inode_sector \in Sectors
    <3>1. call[t].ofs \in 1 .. DirSlots
      BY <1>2, <1>4, <1>6 DEF CallType
    <3> QED BY <1>1, <3>1 DEF FsTypes, EntryType
  <2>2. PICK g : g = call[t]
    OBVIOUS
  <2>3. PICK c : c = [g EXCEPT !.sector = entries[call[t].ofs].inode_sector]
    OBVIOUS
  <2>4. c \in CallType /\ c.dir = g.dir /\ c.inode = g.inode /\ c.closing = g.closing
    BY <1>2, <2>1, <2>2, <2>3 DEF CallType
  <2>5. Shape("open_found", c)
    BY <1>4, <2>2, <2>4 DEF Shape, Place, Going, Freeing, InDir
  <2>6. "open_found" \in Pcs /\ Plain(t, "open_found", c)
    BY <1>2, <2>2, <2>4 DEF Pcs, InDir, Plain, Freeing, SameClaim, Creating, Locking, Erasing
  <2> QED BY <1>2, <1>3, <1>6, <2>2, <2>3, <2>4, <2>5, <2>6, MoveOn
<1>7. CASE Go(t, "open", [call[t] EXCEPT !.ofs = call[t].ofs + 1])
  <2>2. PICK g : g = call[t]
    OBVIOUS
  <2>3. PICK c : c = [g EXCEPT !.ofs = g.ofs + 1]
    OBVIOUS
  <2>4. c \in CallType /\ c.dir = g.dir /\ c.inode = g.inode /\ c.closing = g.closing /\ c.ofs > 0
    BY <1>2, <2>2, <2>3 DEF CallType
  <2>5. Shape("open", c)
    BY <1>4, <2>2, <2>4 DEF Shape, Place, Going, Freeing, InDir
  <2>6. "open" \in Pcs /\ Plain(t, "open", c)
    BY <1>2, <2>2, <2>4 DEF Pcs, InDir, Plain, Freeing, SameClaim, Creating, Locking, Erasing
  <2> QED BY <1>2, <1>3, <1>7, <2>2, <2>3, <2>4, <2>5, <2>6, MoveOn
<1> QED BY <1>5, <1>6, <1>7 DEF LookupEntry

LEMMA RemoveClosedStep ==
  ASSUME FsInv, NEW t \in Threads, RemoveClosed(t)
  PROVE FsInv'
BY DirCloseStep DEF RemoveClosed, At

LEMMA ExitStep ==
  ASSUME FsInv, NEW t \in Threads, Exit(t)
  PROVE FsInv'
<1>1. FsTypes /\ Shapes /\ pc[t] = "user"
  BY DEF FsInv, Exit, At
<1>2. UNCHANGED <<free_map, disk, entries, inode, open_inodes, list_lock, file_table, lost, orphans>>
      /\ Go(t, "exit", NoCall) /\ list_lock' \in Threads \cup {None}
  BY <1>1 DEF Exit, FsTypes
<1>3. call[t].dir = None /\ call[t].inode = None
  BY <1>1, ShapeAt DEF Nexts, Going, Freeing
<1>4. "exit" \in Pcs /\ Plain(t, "exit", NoCall) /\ Shape("exit", NoCall)
  BY <1>1, EmptyShape, EmptyCall DEF Pcs, Nexts, Plain, Freeing, SameClaim, Creating, Locking, Erasing
<1> QED BY <1>1, <1>2, <1>3, <1>4, EmptyCall, NoCallType, MoveOn

LEMMA OpenNothing ==
  ASSUME FsTypes, NEW t \in Threads, NEW s, inode_open(t, s, None)
  PROVE UNCHANGED <<inode, open_inodes>> /\ list_lock' \in Threads \cup {None}
<1>1. None \notin Blocks /\ None \notin open_inodes /\ ~malloc(None)
  BY FsAssumption DEF FsTypes, malloc, Unused
<1> QED BY <1>1 DEF inode_open

LEMMA dir_open_rootStep ==
  ASSUME FsInv, NEW t \in Threads, NEW op \in {"create", "open", "remove"}, NEW name \in Names, NEW size \in Nat,
         dir_open_root(t, op, name, size)
  PROVE FsInv'
<1>1. FsTypes /\ Shapes /\ pc[t] = "user" /\ UNCHANGED <<free_map, disk, entries, file_table, lost, orphans>>
  BY DEF FsInv, dir_open_root, At
<1>2. PICK b \in Blocks \cup {None} :
       /\ inode_open(t, ROOT_DIR_SECTOR, b)
       /\ IF b = None THEN Return(t)
          ELSE Go(t, "dir_open", [NoCall EXCEPT !.op = op, !.name = name, !.size = size, !.dir = b])
  BY DEF dir_open_root
<1>3. call[t].dir = None /\ call[t].inode = None
  BY <1>1, ShapeAt DEF Nexts, Going, Freeing
<1>4. CASE b = None
  <2>1. Go(t, "user", NoCall)
    BY <1>2, <1>4 DEF Return
  <2>2. UNCHANGED <<inode, open_inodes>> /\ list_lock' \in Threads \cup {None}
    BY <1>1, <1>2, <1>4, OpenNothing
  <2>3. "user" \in Pcs /\ Plain(t, "user", NoCall) /\ Shape("user", NoCall)
    BY <1>1, EmptyShape, EmptyCall DEF Pcs, Nexts, Plain, Freeing, SameClaim, Creating, Locking, Erasing
  <2> QED BY <1>1, <1>3, <2>1, <2>2, <2>3, EmptyCall, NoCallType, MoveOn
<1>5. CASE b # None
  <2>1. PICK c : c = [NoCall EXCEPT !.op = op, !.name = name, !.size = size, !.dir = b]
    OBVIOUS
  <2>2. c \in CallType /\ c.op = op /\ c.dir = b /\ c.inode = None /\ c.closing = None /\ c.ofs = 1
    <3>1. PICK g \in CallType : g = NoCall
      BY NoCallType
    <3>2. c = [g EXCEPT !.op = op, !.name = name, !.size = size, !.dir = b]
      BY <2>1, <3>1
    <3>3. g.inode = None /\ g.closing = None /\ g.ofs = 1
      BY <3>1, EmptyCall
    <3> QED BY <3>2, <3>3 DEF CallType, Mem
  <2>3. Go(t, "dir_open", c) /\ b \in Blocks
    BY <1>2, <1>5, <2>1
  <2>4. Shape("dir_open", c) /\ "dir_open" \in Pcs
    BY <1>5, <2>2 DEF Shape, Place, Going, Freeing, InDir, Pcs
  <2>5. Opening(t, "dir_open", c, ROOT_DIR_SECTOR, b)
    BY <1>1, <2>2 DEF Opening, Freeing, Creating, Locking, Erasing
  <2>6. ROOT_DIR_SECTOR \in Sectors /\ b \in Mem
    BY <2>3, FsAssumption DEF Sectors, ROOT_DIR_SECTOR, Mem
  <2>7. ClosingHeld("dir_open", c) = ClosingHeld(pc[t], call[t])
    BY <1>1 DEF ClosingHeld
  <2>8. \A d \in Blocks : Count(d)' = Count(d) + (IF b = d THEN 1 ELSE 0)
    BY <1>1, <1>3, <2>2, <2>3, <2>6, <2>7, GainDir
  <2> QED BY <1>1, <1>2, <2>2, <2>3, <2>4, <2>5, <2>6, <2>8, OpenStep
<1> QED BY <1>4, <1>5

LEMMA dir_lookupStep ==
  ASSUME FsInv, OpensLinked, NEW t \in Threads, dir_lookup(t)
  PROVE FsInv'
<1>1. FsTypes /\ Shapes /\ pc[t] = "open_found" /\ UNCHANGED <<free_map, disk, entries, file_table, lost, orphans>>
  BY DEF FsInv, dir_lookup, At
<1>2. PICK b \in Blocks \cup {None} :
       /\ inode_open(t, call[t].sector, b)
       /\ CloseThen(t, call[t].dir, "file_open", [call[t] EXCEPT !.inode = b, !.dir = None])
  BY DEF dir_lookup
<1>3. call[t] \in CallType /\ call[t].dir \in Blocks /\ call[t].inode = None /\ call[t].closing = None
      /\ ClosingHeld(pc[t], call[t]) = None
  BY <1>1, ShapeAt DEF InDir, Going, Freeing
<1>4. b \in Mem /\ call[t].dir \in Mem /\ "file_open" \in Nexts
  BY <1>3 DEF Mem, Nexts
<1>5. PICK g : g = call[t]
  OBVIOUS
<1>6. PICK e : e = [g EXCEPT !.inode = b, !.dir = None]
  OBVIOUS
<1>7. e \in CallType /\ e.inode = b /\ e.dir = None /\ e.closing = None
  BY <1>3, <1>4, <1>5, <1>6 DEF CallType, Mem
<1>8. Shape("file_open", e)
  BY <1>7 DEF Shape, Place, Going, Freeing, InDir
<1>9. CloseThen(t, call[t].dir, "file_open", e)
  BY <1>2, <1>5, <1>6
<1>10. PICK to \in Pcs, c \in CallType :
        /\ Go(t, to, c) /\ Shape(to, c) /\ to \in {"file_open", "close"} /\ SameLocals(c, e)
        /\ ClosingHeld(to, c) = call[t].dir /\ Place(to, c) = "file_open"
  BY <1>4, <1>7, <1>8, <1>9, CloseThenGoes
<1>11. c.dir = None /\ c.inode = b
  BY <1>7, <1>10 DEF SameLocals
<1>12. CASE b = None
  <2>1. \A d \in Blocks : Count(d)' = Count(d)
    BY <1>1, <1>3, <1>10, <1>11, <1>12, MoveDir
  <2>2. UNCHANGED <<inode, open_inodes>> /\ list_lock' \in Threads \cup {None}
    BY <1>1, <1>2, <1>12, OpenNothing
  <2>3. Plain(t, to, c)
    BY <1>1, <1>10, <1>11 DEF Plain, Freeing, SameClaim, Creating, Locking, Erasing
  <2>4. FilesHeld' /\ file_table' \in [Threads -> [Fds -> FileType]]
    BY <1>1, <2>2, FilesSame
  <2> QED BY <1>1, <1>10, <2>1, <2>2, <2>3, <2>4, CallStep
<1>13. CASE b # None
  <2>1. b \in Blocks /\ call[t].sector \in Sectors /\ Linked(call[t].sector)
    BY <1>1, <1>3, <1>13 DEF OpensLinked, CallType
  <2>2. \A d \in Blocks : Count(d)' = Count(d) + (IF b = d THEN 1 ELSE 0)
    BY <1>1, <1>3, <1>4, <1>10, <1>11, GainInode
  <2>3. Opening(t, to, c, call[t].sector, b)
    BY <1>1, <1>10, <1>11 DEF Opening, Freeing, Creating, Locking, Erasing
  <2> QED BY <1>1, <1>2, <1>10, <2>1, <2>2, <2>3, OpenStep
<1> QED BY <1>12, <1>13

LEMMA RemoveOpenStep ==
  ASSUME FsInv, NEW t \in Threads, RemoveOpen(t)
  PROVE FsInv'
<1>1. FsTypes /\ Shapes /\ pc[t] = "remove_open" /\ UNCHANGED <<free_map, disk, entries, file_table, lost, orphans>>
  BY DEF FsInv, RemoveOpen, At
<1>2. PICK b \in Blocks \cup {None} :
       /\ inode_open(t, call[t].sector, b)
       /\ Go(t, IF b = None THEN "remove_done" ELSE "remove_erase", [call[t] EXCEPT !.inode = b])
  BY DEF RemoveOpen
<1>3. call[t] \in CallType /\ call[t].dir \in Blocks /\ call[t].inode = None /\ call[t].closing = None
      /\ ClosingHeld(pc[t], call[t]) = None /\ call[t].dir # None
  BY <1>1, ShapeAt, FsAssumption DEF InDir, Going, Freeing
<1>4. b \in Mem
  BY DEF Mem
<1>5. PICK g : g = call[t]
  OBVIOUS
<1>6. PICK c : c = [g EXCEPT !.inode = b]
  OBVIOUS
<1>7. c \in CallType /\ c.inode = b /\ c.dir = g.dir /\ c.closing = None /\ c.ofs = g.ofs /\ c.sector = g.sector /\ c.name = g.name
  BY <1>3, <1>4, <1>5, <1>6 DEF CallType, Mem
<1>8. CASE b = None
  <2>1. Go(t, "remove_done", c)
    BY <1>2, <1>5, <1>6, <1>8
  <2>2. UNCHANGED <<inode, open_inodes>> /\ list_lock' \in Threads \cup {None}
    BY <1>1, <1>2, <1>8, OpenNothing
  <2>3. Plain(t, "remove_done", c) /\ "remove_done" \in Pcs
    BY <1>1, <1>5, <1>7 DEF Plain, Freeing, SameClaim, Creating, Locking, Erasing, Pcs, InDir
  <2>4. Shape("remove_done", c)
    BY <1>3, <1>5, <1>7 DEF Shape, Place, Going, Freeing, InDir
  <2> QED BY <1>1, <1>3, <1>5, <1>7, <1>8, <2>1, <2>2, <2>3, <2>4, MoveOn
<1>9. CASE b # None
  <2>1. Go(t, "remove_erase", c)
    BY <1>2, <1>5, <1>6, <1>9
  <2>2. b \in Blocks /\ call[t].sector \in Sectors
    BY <1>3, <1>9 DEF CallType
  <2>3. Linked(call[t].sector)
    <3>1. FoundAt(call[t], call[t].ofs)
      BY <1>1 DEF FsInv, Removals, Erasing
    <3> QED BY <3>1 DEF FoundAt, Linked
  <2>4. ClosingHeld("remove_erase", c) = None
    BY DEF ClosingHeld
  <2>5. \A d \in Blocks : Count(d)' = Count(d) + (IF b = d THEN 1 ELSE 0)
    BY <1>1, <1>3, <1>4, <1>5, <1>7, <2>1, <2>4, GainInode
  <2>6. Opening(t, "remove_erase", c, call[t].sector, b) /\ "remove_erase" \in Pcs
    BY <1>1, <1>5, <1>7 DEF Opening, Freeing, Creating, Locking, Erasing, Pcs, InDir
  <2>7. Shape("remove_erase", c)
    BY <1>3, <1>5, <1>7, <1>9 DEF Shape, Place, Going, Freeing, InDir
  <2> QED BY <1>1, <1>2, <1>7, <2>1, <2>2, <2>3, <2>5, <2>6, <2>7, OpenStep
<1> QED BY <1>8, <1>9

-----------------------------------------------------------------------------
(***************************************************************************)
(* Descriptors.                                                            *)
(***************************************************************************)
LEMMA NoFileType == NoFile \in FileType /\ NoFile.inode = None
BY DEF NoFile, FileType, Mem

LEMMA file_openStep ==
  ASSUME FsInv, NEW t \in Threads, file_open(t)
  PROVE FsInv'
<1>1. FsTypes /\ Shapes /\ FilesHeld /\ pc[t] = "file_open"
  BY DEF FsInv, file_open, At
<1>2. UNCHANGED <<free_map, disk, entries, inode, open_inodes, list_lock, lost, orphans>> /\ list_lock' \in Threads \cup {None}
  BY <1>1 DEF file_open, FsTypes
<1>3. call[t] \in CallType /\ call[t].dir = None /\ ClosingHeld(pc[t], call[t]) = None /\ call[t].inode \in Mem
  <2>1. call[t] \in CallType /\ call[t].dir = None /\ ClosingHeld(pc[t], call[t]) = None
    BY <1>1, ShapeAt DEF Nexts
  <2> QED BY <2>1 DEF CallType
<1>4. ASSUME NEW to \in {"user", "close"}, NEW c, c.dir = None PROVE Plain(t, to, c) /\ to \in Pcs
  BY <1>1, <1>4 DEF Plain, Freeing, SameClaim, Creating, Locking, Erasing, Pcs, Nexts, Going
<1>5. ASSUME CloseThen(t, call[t].inode, "user", NoCall), UNCHANGED file_table PROVE FsInv'
  <2>1. Shape("user", NoCall) /\ "user" \in Nexts
    BY EmptyShape DEF Nexts
  <2>2. PICK to \in Pcs, c \in CallType :
        /\ Go(t, to, c) /\ Shape(to, c) /\ to \in {"user", "close"} /\ SameLocals(c, NoCall)
        /\ ClosingHeld(to, c) = call[t].inode /\ Place(to, c) = "user"
    BY <1>3, <1>5, <2>1, NoCallType, CloseThenGoes
  <2>3. c.dir = None /\ c.inode = None
    BY <2>2, EmptyCall DEF SameLocals
  <2>4. \A d \in Blocks : Count(d)' = Count(d)
    BY <1>1, <1>3, <1>5, <2>2, <2>3, MoveInode
  <2>5. FilesHeld' /\ file_table' \in [Threads -> [Fds -> FileType]]
    BY <1>2, <1>5, FilesSame
  <2>6. Plain(t, to, c)
    BY <1>4, <2>2, <2>3
  <2> QED BY <1>2, <2>2, <2>4, <2>5, <2>6, CallStep
<1>6. ASSUME NEW fd \in Fds, file_table[t][fd] = NoFile, call[t].inode # None, Return(t),
             file_table' = [file_table EXCEPT ![t][fd] = [inode |-> call[t].inode, pos |-> 0]]
      PROVE FsInv'
  <2>1. PICK f : f = [inode |-> call[t].inode, pos |-> 0]
    OBVIOUS
  <2>2. f \in FileType /\ f.inode = call[t].inode /\ f.pos = 0
    BY <1>3, <2>1 DEF FileType
  <2>3. file_table' = [file_table EXCEPT ![t][fd] = f]
    BY <1>6, <2>1
  <2>4. file_table' \in [Threads -> [Fds -> FileType]]
    BY <1>1, <2>2, <2>3 DEF FsTypes
  <2>5. Go(t, "user", NoCall)
    BY <1>6 DEF Return
  <2>6. \A d \in Blocks : Count(d)' = Count(d)
    <3>1. file_table[t][fd].inode = None
      BY <1>6, NoFileType
    <3>2. ClosingHeld("user", NoCall) = ClosingHeld(pc[t], call[t]) /\ NoCall.dir = call[t].dir /\ NoCall.inode = None
      BY <1>3, EmptyCall
    <3> QED BY <1>1, <2>2, <2>3, <2>5, <3>1, <3>2, MoveToFile
  <2>7. FilesHeld'
    <3> SUFFICES ASSUME NEW u \in Threads, NEW e \in Fds, file_table'[u][e] # NoFile
        PROVE file_table'[u][e].inode # None /\ file_table'[u][e].pos <= inode[file_table'[u][e].inode].length
      BY <1>2 DEF FilesHeld, NoFile
    <3>1. CASE u = t /\ e = fd
      <4>1. file_table'[u][e] = f
        BY <1>1, <2>3, <3>1 DEF FsTypes
      <4>2. inode[f.inode].length \in Nat
        BY <1>1, <1>3, <1>6, <2>2 DEF FsTypes, InodeType, Mem
      <4> QED BY <1>6, <2>2, <4>1, <4>2
    <3>2. CASE ~(u = t /\ e = fd)
      <4>1. file_table'[u][e] = file_table[u][e]
        BY <1>1, <2>3, <3>2 DEF FsTypes
      <4> QED BY <1>1, <4>1 DEF FilesHeld
    <3> QED BY <3>1, <3>2
  <2>8. Plain(t, "user", NoCall) /\ "user" \in Pcs
    BY <1>4, EmptyCall
  <2>9. Shape("user", NoCall)
    BY EmptyShape
  <2> QED BY <1>2, <2>4, <2>5, <2>6, <2>7, <2>8, <2>9, NoCallType, CallStep
<1> QED BY <1>5, <1>6 DEF file_open

LEMMA file_closeStep ==
  ASSUME FsInv, NEW t \in Threads, pc[t] \in {"user", "exit"}, NEW fd \in Fds,
         NEW next \in {"user", "exit"}, file_close(t, fd, next)
  PROVE FsInv'
<1>1. FsTypes /\ Shapes /\ FilesHeld
  BY DEF FsInv
<1>2. UNCHANGED <<free_map, disk, entries, inode, open_inodes, list_lock, lost, orphans>> /\ list_lock' \in Threads \cup {None}
  BY <1>1 DEF file_close, FsTypes
<1>3. call[t].dir = None /\ ClosingHeld(pc[t], call[t]) = None /\ call[t].inode = None
  BY <1>1, ShapeAt DEF Nexts, Going, Freeing
<1>4. file_table[t][fd].inode \in Mem /\ next \in Nexts
  BY <1>1 DEF FsTypes, FileType, Nexts
<1>5. Shape(next, NoCall) /\ CloseThen(t, file_table[t][fd].inode, next, NoCall)
  BY EmptyShape DEF file_close
<1>6. PICK to \in Pcs, c \in CallType :
        /\ Go(t, to, c) /\ Shape(to, c) /\ to \in {next, "close"} /\ SameLocals(c, NoCall)
        /\ ClosingHeld(to, c) = file_table[t][fd].inode /\ Place(to, c) = next
  BY <1>4, <1>5, NoCallType, CloseThenGoes
<1>7. c.dir = None /\ c.inode = None
  BY <1>6, EmptyCall DEF SameLocals
<1>8. file_table' = [file_table EXCEPT ![t][fd] = NoFile]
  BY DEF file_close
<1>9. \A d \in Blocks : Count(d)' = Count(d)
  <2>1. FsTypes /\ Go(t, to, c)
    BY <1>1, <1>6
  <2>2. c.dir = call[t].dir /\ c.inode = call[t].inode
    BY <1>3, <1>7
  <2>3. ClosingHeld(to, c) = file_table[t][fd].inode /\ ClosingHeld(pc[t], call[t]) = None
    BY <1>3, <1>6
  <2>4. NoFile.inode = None
    BY NoFileType
  <2> QED BY ONLY t \in Threads, fd \in Fds, <1>8, <2>1, <2>2, <2>3, <2>4, MoveFromFile
<1>10. file_table' \in [Threads -> [Fds -> FileType]]
  BY <1>1, <1>8, NoFileType DEF FsTypes
<1>11. FilesHeld'
  <2> SUFFICES ASSUME NEW u \in Threads, NEW e \in Fds, file_table'[u][e] # NoFile
      PROVE file_table'[u][e].inode # None /\ file_table'[u][e].pos <= inode[file_table'[u][e].inode].length
    BY <1>2 DEF FilesHeld, NoFile
  <2>1. file_table'[u][e] = file_table[u][e]
    BY <1>1, <1>8 DEF FsTypes
  <2> QED BY <1>1, <2>1 DEF FilesHeld
<1>12. Plain(t, to, c)
  BY <1>6, <1>7 DEF Plain, Freeing, SameClaim, Creating, Locking, Erasing
<1> QED BY <1>2, <1>6, <1>9, <1>10, <1>11, <1>12, CallStep

LEMMA close_all_filesStep ==
  ASSUME FsInv, NEW t \in Threads, close_all_files(t)
  PROVE FsInv'
<1>1. pc[t] = "exit" /\ FsTypes /\ Shapes
  BY DEF close_all_files, At, FsInv
<1>2. CASE \E fd \in Fds : file_close(t, fd, "exit")
  BY <1>1, <1>2, file_closeStep
<1>3. CASE Return(t) /\ UNCHANGED <<free_map, disk, entries, inode, open_inodes, list_lock, file_table, creates, lost, orphans>>
  <2>1. Go(t, "user", NoCall) /\ list_lock' \in Threads \cup {None}
    BY <1>1, <1>3 DEF Return, FsTypes
  <2>2. call[t].dir = None /\ call[t].inode = None
    BY <1>1, ShapeAt DEF Nexts, Going, Freeing
  <2>3. "user" \in Pcs /\ Plain(t, "user", NoCall) /\ Shape("user", NoCall)
    BY <1>1, EmptyShape, EmptyCall DEF Pcs, Nexts, Plain, Freeing, SameClaim, Creating, Locking, Erasing
  <2> QED BY <1>1, <1>3, <2>1, <2>2, <2>3, EmptyCall, NoCallType, MoveOn
<1> QED BY <1>2, <1>3 DEF close_all_files

LEMMA CloseStep ==
  ASSUME FsInv, NEW t \in Threads, NEW fd \in Fds, Close(t, fd)
  PROVE FsInv'
BY file_closeStep DEF Close, Opened, At

\* The position moves within the file.
LEMMA PositionStep ==
  ASSUME FsInv, NEW t \in Threads, NEW fd \in Fds, NEW p \in Nat, file_table[t][fd] # NoFile,
         file_table' = [file_table EXCEPT ![t][fd].pos = p], p <= inode[file_table[t][fd].inode].length,
         UNCHANGED <<free_map, disk, entries, inode, open_inodes, list_lock, pc, call, lost, orphans>>
  PROVE FsInv'
<1>1. FsTypes /\ FilesHeld /\ Counted
  BY DEF FsInv
<1>2. PICK g : g = file_table[t][fd]
  OBVIOUS
<1>3. PICK f : f = [g EXCEPT !.pos = p]
  OBVIOUS
<1>4. g \in FileType
  BY <1>1, <1>2 DEF FsTypes
<1>5. f \in FileType /\ f.inode = g.inode /\ f.pos = p
  BY <1>3, <1>4 DEF FileType
<1>6. file_table' = [file_table EXCEPT ![t][fd] = f]
  BY <1>1, <1>2, <1>3 DEF FsTypes
<1>7. \A u \in Threads, e \in Fds : file_table'[u][e] = IF u = t /\ e = fd THEN f ELSE file_table[u][e]
  BY <1>1, <1>6 DEF FsTypes
<1>8. file_table' \in [Threads -> [Fds -> FileType]]
  BY ONLY <1>1, <1>5, <1>6 DEF FsTypes
<1>9. FsTypes'
  BY <1>1, <1>8, TypesAfter DEF FsTypes
<1>10. FilesHeld'
  <2> SUFFICES ASSUME NEW u \in Threads, NEW e \in Fds, file_table'[u][e] # NoFile
      PROVE file_table'[u][e].inode # None /\ file_table'[u][e].pos <= inode[file_table'[u][e].inode].length
    BY DEF FilesHeld, NoFile
  <2>1. CASE u = t /\ e = fd
    BY <1>1, <1>2, <1>5, <1>7, <2>1 DEF FilesHeld
  <2>2. CASE ~(u = t /\ e = fd)
    BY <1>1, <1>7, <2>2 DEF FilesHeld
  <2> QED BY <2>1, <2>2
<1>11. \A h \in Handles : Held(h)' = Held(h)
  <2> SUFFICES ASSUME NEW h \in Handles PROVE Held(h)' = Held(h)
    OBVIOUS
  <2>1. PICK u \in Threads :
       h \in {<<u, "dir", 0>>, <<u, "inode", 0>>, <<u, "closing", 0>>} \/ \E e \in Fds : h = <<u, "file", e>>
    BY HandleKinds
  <2>0. call'[u] = call[u] /\ pc'[u] = pc[u]
    OBVIOUS
  <2>2. CASE h \in {<<u, "dir", 0>>, <<u, "inode", 0>>, <<u, "closing", 0>>}
    <3>1. Held(<<u, "dir", 0>>)' = Held(<<u, "dir", 0>>) /\ Held(<<u, "inode", 0>>)' = Held(<<u, "inode", 0>>)
          /\ Held(<<u, "closing", 0>>)' = Held(<<u, "closing", 0>>)
      BY <2>0, HeldAre, HeldAreAfter
    <3>2. CASE h = <<u, "dir", 0>>
      BY <3>1, <3>2
    <3>3. CASE h = <<u, "inode", 0>>
      BY <3>1, <3>3
    <3>4. CASE h = <<u, "closing", 0>>
      BY <3>1, <3>4
    <3> QED BY <2>2, <3>2, <3>3, <3>4
  <2>3. CASE \E e \in Fds : h = <<u, "file", e>>
    <3>1. PICK e \in Fds : h = <<u, "file", e>>
      BY <2>3
    <3>2. file_table'[u][e].inode = file_table[u][e].inode
      BY <1>2, <1>5, <1>7
    <3>3. Held(<<u, "file", e>>)' = Held(<<u, "file", e>>)
      <4>1. Held(<<u, "file", e>>)' = file_table'[u][e].inode
        BY HeldAreAfter
      <4>2. Held(<<u, "file", e>>) = file_table[u][e].inode
        BY HeldAre
      <4> QED BY ONLY <3>2, <4>1, <4>2
    <3> QED BY <3>1, <3>3
  <2> QED BY <2>1, <2>2, <2>3
<1>12. HeldMap' = HeldMap
  <2>1. HeldMap' = [h \in Handles |-> Held(h)']
    BY DEF HeldMap, Handles, FileHandles
  <2> QED BY <1>11, <2>1 DEF HeldMap
<1>13. \A d \in Blocks : Count(d)' = Count(d)
  <2>1. \A d : Count(d)' = Cardinality(HoldersOf(HeldMap', d))
    BY CountAfter
  <2>2. \A d : Count(d) = Cardinality(HoldersOf(HeldMap, d))
    BY DEF Count
  <2> QED BY <1>12, <2>1, <2>2
<1>14. Counted'
  BY <1>1, <1>13, CountedSame
<1>15. ClaimMap' = ClaimMap /\ (\A s : Linked(s)' <=> Linked(s))
  <2>1. \A o \in Owners : Claim(o)' = Claim(o)
    BY DEF Claim, EntryClaim, InodeClaim, CreateClaim, Closing, Linked, SectorsOf, Extent, NoInode, ROOT_DIR_SECTOR
  <2>2. ClaimMap' = [o \in Owners |-> Claim(o)']
    BY DEF ClaimMap, Owners
  <2> QED BY <2>1, <2>2 DEF ClaimMap, Linked
<1>16. Owned'
  BY <1>15, OwnedAs, OwnedAsAfter DEF FsInv
<1>17. Shapes' /\ Dirs' /\ Removals'
  BY DEF FsInv, Shapes, Shape, Place, Going, Freeing, InDir, Dirs, Removals, Locking, Erasing, FoundAt, ROOT_DIR_SECTOR
<1>18. Inodes'
  BY DEF FsInv, Inodes, Shared, OnList, OffList, Frees, Freeing, FreedBy, Linked, NoInode, ROOT_DIR_SECTOR
<1>19. Apart' /\ Written' /\ NamesUnique'
  BY DEF FsInv, Apart, Separate, Extent, Written, NamesUnique
<1> QED BY <1>9, <1>10, <1>14, <1>16, <1>17, <1>18, <1>19 DEF FsInv

LEMMA TransferStep ==
  ASSUME FsInv, NEW t \in Threads, NEW fd \in Fds, NEW size \in Nat, Transfer(t, fd, size)
  PROVE FsInv'
<1>1. FsTypes /\ FilesHeld /\ file_table[t][fd] # NoFile
  BY DEF FsInv, Transfer, Opened
<1>2. PICK f : f = file_table[t][fd]
  OBVIOUS
<1>3. f \in FileType /\ f.inode # None
  BY <1>1, <1>2 DEF FsTypes, FilesHeld
<1>4. PICK end : end = inode[f.inode].length
  OBVIOUS
<1>5. end \in Nat /\ f.pos \in Nat
  BY <1>1, <1>3, <1>4 DEF FsTypes, InodeType, FileType, Mem
<1>6. PICK p : p = IF f.pos + size < end THEN f.pos + size ELSE end
  OBVIOUS
<1>7. p \in Nat /\ p <= end
  BY <1>5, <1>6
<1>8. file_table' = [file_table EXCEPT ![t][fd].pos = p]
  BY <1>2, <1>4, <1>6 DEF Transfer, file_length
<1>9. UNCHANGED <<free_map, disk, entries, inode, open_inodes, list_lock, pc, call, lost, orphans>>
  BY DEF Transfer
<1> QED BY <1>1, <1>2, <1>4, <1>7, <1>8, <1>9, PositionStep

LEMMA file_seekStep ==
  ASSUME FsInv, NEW t \in Threads, NEW fd \in Fds, NEW new_pos \in Nat, file_seek(t, fd, new_pos)
  PROVE FsInv'
BY PositionStep DEF file_seek, Opened, file_length

-----------------------------------------------------------------------------
(***************************************************************************)
(* The directory's lock, and closing an inode.                             *)
(***************************************************************************)
\* Only the lock of an open inode changes.
LEMMA LockEffect ==
  ASSUME FsTypes, Counted, NEW b \in open_inodes, NEW L \in Threads \cup {None},
         inode' = [inode EXCEPT ![b].lock = L], UNCHANGED <<disk, entries, open_inodes>>
  PROVE /\ inode' \in [Blocks -> InodeType] /\ Quiet
        /\ \A d \in Blocks : /\ inode'[d].sector = inode[d].sector /\ inode'[d].open_cnt = inode[d].open_cnt
                             /\ inode'[d].length = inode[d].length
        /\ \A d \in Blocks : inode'[d].lock = IF d = b THEN L ELSE inode[d].lock
<1>0. b \in Blocks /\ inode \in [Blocks -> InodeType]
  BY DEF FsTypes
<1>1. PICK g : g = inode[b]
  OBVIOUS
<1>2. PICK h : h = [g EXCEPT !.lock = L]
  OBVIOUS
<1>3. g \in InodeType
  BY <1>0, <1>1
<1>4. h \in InodeType /\ h.sector = g.sector /\ h.lock = L /\ h.open_cnt = g.open_cnt
      /\ (h.removed <=> g.removed) /\ h.start = g.start /\ h.length = g.length
  BY <1>2, <1>3 DEF InodeType
<1>5. inode' = [inode EXCEPT ![b] = h]
  BY <1>0, <1>1, <1>2
<1>6. inode'[b] = h /\ (\A d \in Blocks : d # b => inode'[d] = inode[d]) /\ inode' \in [Blocks -> InodeType]
  BY ONLY <1>0, <1>4, <1>5
<1>7. Quiet
  <2>1. \A d \in Blocks : inode[d].open_cnt > 0 <=> d \in open_inodes
    BY DEF Counted
  <2>2. \A d \in Blocks : ~Fresh(d)
    BY DEF Fresh
  <2>3. ASSUME NEW d \in Blocks, d # b PROVE Kept(d) \/ Off(d)
    BY <1>6, <2>1, <2>3 DEF Kept, Off
  <2>4. Kept(b)
    BY <1>0, <1>1, <1>4, <1>6, <2>1 DEF Kept
  <2> QED BY <2>2, <2>3, <2>4 DEF Quiet
<1> QED BY <1>1, <1>4, <1>6, <1>7

\* The rest of a step that takes or gives the lock.
LEMMA LockStep ==
  ASSUME FsInv, NEW t \in Threads, NEW to \in Pcs, NEW c \in CallType, Go(t, to, c), Shape(to, c),
         NEW b \in open_inodes, NEW L \in Threads \cup {None}, inode' = [inode EXCEPT ![b].lock = L],
         UNCHANGED <<free_map, disk, entries, open_inodes, list_lock, file_table, lost, orphans>>,
         \A d \in Blocks : Count(d)' = Count(d), pc[t] \notin Freeing, to \notin Freeing, SameClaim(t, to, c),
         Dirs', Removals'
  PROVE FsInv'
<1>1. FsTypes /\ Shapes /\ Counted /\ FilesHeld
  BY DEF FsInv
<1>2. pc' \in [Threads -> Pcs] /\ call' \in [Threads -> CallType] /\ Shapes'
  BY <1>1, ControlType
<1>3. UNCHANGED <<disk, entries, open_inodes>>
  OBVIOUS
<1>4. inode' \in [Blocks -> InodeType] /\ Quiet /\ \A d \in Blocks : inode'[d].open_cnt = inode[d].open_cnt
  BY <1>1, <1>3, LockEffect
<1>5. FsTypes'
  BY <1>1, <1>2, <1>4, TypesAfter DEF FsTypes
<1>6. Counted'
  BY <1>1, <1>4, CountedSame
<1>7. FilesHeld'
  BY <1>1, <1>4, <1>5, <1>6, FilesStay
<1> QED BY <1>2, <1>4, <1>5, <1>6, <1>7, QuietStep

LEMMA RemoveLookupStep ==
  ASSUME ~BounceMayFail, FsInv, NEW t \in Threads, RemoveLookup(t)
  PROVE FsInv'
<1>1. FsTypes /\ Shapes /\ Counted /\ Dirs /\ Removals /\ pc[t] = "remove" /\ inode[call[t].dir].lock = None
      /\ UNCHANGED <<free_map, disk, entries, open_inodes, list_lock, file_table, lost, orphans>>
  BY DEF FsInv, RemoveLookup, At
<1>2. call[t] \in CallType /\ call[t].dir \in Blocks /\ call[t].inode = None /\ call[t].closing = None
      /\ call[t].dir # None
  BY <1>1, ShapeAt, FsAssumption DEF InDir, Going, Freeing
<1>3. PICK found \in lookup(call[t].name) :
       IF found = 0 THEN dir_close(t) /\ UNCHANGED inode
       ELSE /\ inode' = [inode EXCEPT ![call[t].dir].lock = t]
            /\ Go(t, "remove_open", [call[t] EXCEPT !.ofs = found, !.sector = entries[found].inode_sector])
  BY DEF RemoveLookup
<1>4. CASE found = 0
  BY <1>1, <1>3, <1>4, DirCloseStep
<1>5. CASE found # 0
  <2>1. found \in 1 .. DirSlots /\ Matches(found, call[t].name)
    BY <1>5 DEF lookup
  <2>2. entries[found] \in EntryType /\ found \in Nat
    BY <1>1, <2>1 DEF FsTypes
  <2>3. entries[found].inode_sector \in Sectors
    BY <2>2 DEF EntryType
  <2>4. PICK g : g = call[t]
    OBVIOUS
  <2>5. PICK c : c = [g EXCEPT !.ofs = found, !.sector = entries[found].inode_sector]
    OBVIOUS
  <2>6. c \in CallType /\ c.dir = g.dir /\ c.inode = g.inode /\ c.closing = g.closing /\ c.name = g.name
        /\ c.ofs = found /\ c.sector = entries[found].inode_sector
    BY <1>2, <2>2, <2>3, <2>4, <2>5 DEF CallType
  <2>7. Go(t, "remove_open", c)
    BY <1>3, <1>5, <2>4, <2>5
  <2>8. PICK b \in open_inodes : b = call[t].dir
    BY <1>1, <1>2, LocalsOpen
  <2>9. inode' = [inode EXCEPT ![b].lock = t]
    BY <1>3, <1>5, <2>8
  <2>10. /\ \A d \in Blocks : inode'[d].sector = inode[d].sector
         /\ \A d \in Blocks : inode'[d].lock = IF d = b THEN t ELSE inode[d].lock
    BY <1>1, <2>9, LockEffect
  <2>11. pc'[t] = "remove_open" /\ call'[t] = c /\ \A u \in Threads : u # t => pc'[u] = pc[u] /\ call'[u] = call[u]
    BY <1>1, <2>7, GoAt
  <2>12. b \in Blocks /\ inode[b].lock = None
    BY <1>1, <1>2, <2>8
  <2>13. "remove_open" \in Pcs /\ Shape("remove_open", c) /\ SameClaim(t, "remove_open", c)
         /\ pc[t] \notin Freeing /\ "remove_open" \notin Freeing
    BY <1>1, <1>2, <2>4, <2>6 DEF Pcs, InDir, Shape, Place, Going, Freeing, SameClaim, Creating
  <2>14. \A d \in Blocks : Count(d)' = Count(d)
    <3>1. ClosingHeld("remove_open", c) = ClosingHeld(pc[t], call[t])
      BY <1>1 DEF ClosingHeld
    <3> QED BY <1>1, <2>4, <2>6, <2>7, <3>1, MoveNothing
  <2>15. (\A u \in Threads : call[u].dir # None => inode[call[u].dir].sector = ROOT_DIR_SECTOR)'
    <3> SUFFICES ASSUME NEW u \in Threads, call'[u].dir # None PROVE inode'[call'[u].dir].sector = ROOT_DIR_SECTOR
      BY DEF ROOT_DIR_SECTOR
    <3>1. call'[u].dir = call[u].dir
      BY <2>4, <2>6, <2>11
    <3>2. call[u].dir \in Blocks
      BY <1>1, <3>1 DEF FsTypes, CallType, Mem
    <3> QED BY <1>1, <2>10, <3>1, <3>2 DEF Dirs
  <2>16. (\A u \in Threads : pc[u] \in Locking <=> \E d \in Blocks : inode[d].lock = u)'
    <3> SUFFICES ASSUME NEW u \in Threads PROVE pc'[u] \in Locking <=> \E d \in Blocks : inode'[d].lock = u
      BY DEF Locking, Erasing
    <3>1. CASE u = t
      <4>1. pc'[u] \in Locking
        BY <2>11, <3>1 DEF Locking, Erasing
      <4>2. inode'[b].lock = u
        BY <2>10, <2>12, <3>1
      <4> QED BY <2>12, <4>1, <4>2
    <3>2. CASE u # t
      <4>1. pc'[u] = pc[u] /\ u # None
        BY <2>11, <3>2, FsAssumption
      <4>2. \A d \in Blocks : inode'[d].lock = u <=> inode[d].lock = u
        BY <2>10, <2>12, <3>2, <4>1
      <4>3. pc[u] \in Locking <=> \E d \in Blocks : inode[d].lock = u
        BY <1>1 DEF Dirs
      <4> QED BY <4>1, <4>2, <4>3
    <3> QED BY <3>1, <3>2
  <2>17. (\A d \in Blocks : inode[d].lock # None => call[inode[d].lock].dir = d)'
    <3> SUFFICES ASSUME NEW d \in Blocks, inode'[d].lock # None PROVE call'[inode'[d].lock].dir = d
      OBVIOUS
    <3>1. CASE d = b
      BY <2>4, <2>6, <2>8, <2>10, <2>11, <3>1
    <3>2. CASE d # b
      <4>1. inode'[d].lock = inode[d].lock
        BY <2>10, <3>2
      <4>2. inode[d].lock \in Threads
        BY <1>1, <4>1 DEF FsTypes, InodeType
      <4>3. pc[inode[d].lock] \in Locking /\ call[inode[d].lock].dir = d
        BY <1>1, <4>1, <4>2 DEF Dirs
      <4>4. inode[d].lock # t
        BY <1>1, <4>3 DEF Locking, Erasing
      <4> QED BY <2>11, <4>1, <4>2, <4>3, <4>4
    <3> QED BY <3>1, <3>2
  <2>18. Dirs'
    BY <2>15, <2>16, <2>17 DEF Dirs
  <2>19. Removals'
    <3> SUFFICES ASSUME NEW u \in Threads
        PROVE /\ pc'[u] \in Erasing => FoundAt(call[u], call[u].ofs)'
              /\ pc'[u] = "remove_erase" => inode'[call'[u].inode].sector = call'[u].sector
      BY DEF Removals, Erasing
    <3>1. CASE u = t
      <4>1. FoundAt(call[u], call[u].ofs)'
        BY <1>1, <2>1, <2>4, <2>6, <2>11, <3>1 DEF FoundAt, Matches
      <4> QED BY <2>11, <3>1, <4>1
    <3>2. CASE u # t
      <4>1. FoundAt(call[u], call[u].ofs) => FoundAt(call[u], call[u].ofs)'
        BY <1>1, <2>11, <3>2 DEF FoundAt
      <4>2. ASSUME pc'[u] = "remove_erase" PROVE inode'[call'[u].inode].sector = call'[u].sector
        <5>1. call[u].inode \in Mem /\ call[u].inode # None /\ inode[call[u].inode].sector = call[u].sector
          BY <1>1, <2>11, <3>2, <4>2 DEF FsTypes, CallType, Shapes, Shape, Removals
        <5> QED BY <2>10, <2>11, <3>2, <5>1 DEF Mem
      <4> QED BY <1>1, <2>11, <3>2, <4>1, <4>2 DEF Removals
    <3> QED BY <3>1, <3>2
  <2> QED BY <1>1, <2>6, <2>7, <2>9, <2>13, <2>14, <2>18, <2>19, LockStep
<1> QED BY <1>4, <1>5

LEMMA RemoveDoneStep ==
  ASSUME FsInv, NEW t \in Threads, RemoveDone(t)
  PROVE FsInv'
<1>1. FsTypes /\ Shapes /\ Counted /\ Dirs /\ Removals /\ pc[t] = "remove_done"
      /\ UNCHANGED <<free_map, disk, entries, open_inodes, list_lock, file_table, lost, orphans>>
  BY DEF FsInv, RemoveDone, At
<1>2. call[t] \in CallType /\ call[t].dir \in Blocks /\ call[t].closing = None /\ call[t].dir # None
      /\ ClosingHeld(pc[t], call[t]) = None
  BY <1>1, ShapeAt, FsAssumption DEF InDir, Going, Freeing
<1>3. call[t].inode \in Mem /\ call[t].dir \in Mem
  BY <1>2 DEF CallType
<1>4. PICK e : e = [NoCall EXCEPT !.dir = call[t].dir]
  OBVIOUS
<1>5. e \in CallType /\ e.dir = call[t].dir /\ e.inode = None /\ e.closing = None
  <2>1. PICK g \in CallType : g = NoCall
    BY NoCallType
  <2>2. e = [g EXCEPT !.dir = call[t].dir] /\ g.inode = None /\ g.closing = None
    BY <1>4, <2>1, EmptyCall
  <2> QED BY <1>3, <2>1, <2>2 DEF CallType
<1>6. Shape("dir_close", e) /\ "dir_close" \in Nexts
  BY <1>2, <1>5 DEF Shape, Place, Going, Freeing, InDir, Nexts
<1>7. CloseThen(t, call[t].inode, "dir_close", e)
  BY <1>4 DEF RemoveDone
<1>8. PICK to \in Pcs, c \in CallType :
        /\ Go(t, to, c) /\ Shape(to, c) /\ to \in {"dir_close", "close"} /\ SameLocals(c, e)
        /\ ClosingHeld(to, c) = call[t].inode /\ Place(to, c) = "dir_close"
  BY <1>3, <1>5, <1>6, <1>7, CloseThenGoes
<1>9. c.dir = call[t].dir /\ c.inode = None
  BY <1>5, <1>8 DEF SameLocals
<1>10. \A d \in Blocks : Count(d)' = Count(d)
  BY <1>1, <1>2, <1>8, <1>9, MoveInode
<1>11. PICK b \in open_inodes : b = call[t].dir
  BY <1>1, <1>2, LocalsOpen
<1>12. inode' = [inode EXCEPT ![b].lock = None] /\ b \in Blocks
  BY <1>2, <1>11 DEF RemoveDone
<1>13. /\ \A d \in Blocks : inode'[d].sector = inode[d].sector
       /\ \A d \in Blocks : inode'[d].lock = IF d = b THEN None ELSE inode[d].lock
  BY <1>1, <1>12, LockEffect
<1>14. pc'[t] = to /\ call'[t] = c /\ \A u \in Threads : u # t => pc'[u] = pc[u] /\ call'[u] = call[u]
  BY <1>1, <1>8, GoAt
<1>15. SameClaim(t, to, c) /\ pc[t] \notin Freeing /\ to \notin Freeing /\ to \notin Locking /\ pc[t] \in Locking
  BY <1>1, <1>8 DEF Freeing, SameClaim, Creating, Locking, Erasing
<1>16. \A d \in Blocks : inode[d].lock = t => d = b
  <2> SUFFICES ASSUME NEW d \in Blocks, inode[d].lock = t PROVE d = b
    OBVIOUS
  <2>1. t # None
    BY FsAssumption
  <2>2. call[inode[d].lock].dir = d
    BY <1>1, <2>1 DEF Dirs
  <2> QED BY <1>11, <2>2
<1>17. inode[b].lock = t
  BY <1>1, <1>15, <1>16 DEF Dirs
<1>18. (\A u \in Threads : call[u].dir # None => inode[call[u].dir].sector = ROOT_DIR_SECTOR)'
  <2> SUFFICES ASSUME NEW u \in Threads, call'[u].dir # None PROVE inode'[call'[u].dir].sector = ROOT_DIR_SECTOR
    BY DEF ROOT_DIR_SECTOR
  <2>1. call'[u].dir = call[u].dir
    BY <1>9, <1>14
  <2>2. call[u].dir \in Blocks
    BY <1>1, <2>1 DEF FsTypes, CallType, Mem
  <2> QED BY <1>1, <1>13, <2>1, <2>2 DEF Dirs
<1>19. (\A u \in Threads : pc[u] \in Locking <=> \E d \in Blocks : inode[d].lock = u)'
  <2> SUFFICES ASSUME NEW u \in Threads PROVE pc'[u] \in Locking <=> \E d \in Blocks : inode'[d].lock = u
    BY DEF Locking, Erasing
  <2>1. CASE u = t
    <3>1. \A d \in Blocks : inode'[d].lock # u
      BY <1>13, <1>16, <2>1, FsAssumption
    <3> QED BY <1>14, <1>15, <2>1, <3>1
  <2>2. CASE u # t
    <3>1. pc'[u] = pc[u] /\ u # None
      BY <1>14, <2>2, FsAssumption
    <3>2. \A d \in Blocks : inode'[d].lock = u <=> inode[d].lock = u
      BY <1>13, <1>17, <2>2, <3>1
    <3>3. pc[u] \in Locking <=> \E d \in Blocks : inode[d].lock = u
      BY <1>1 DEF Dirs
    <3> QED BY <3>1, <3>2, <3>3
  <2> QED BY <2>1, <2>2
<1>20. (\A d \in Blocks : inode[d].lock # None => call[inode[d].lock].dir = d)'
  <2> SUFFICES ASSUME NEW d \in Blocks, inode'[d].lock # None PROVE call'[inode'[d].lock].dir = d
    OBVIOUS
  <2>1. d # b /\ inode'[d].lock = inode[d].lock
    BY <1>13
  <2>2. inode[d].lock \in Threads
    BY <1>1, <2>1 DEF FsTypes, InodeType
  <2>3. inode[d].lock # t /\ call[inode[d].lock].dir = d
    BY <1>1, <1>16, <2>1 DEF Dirs
  <2> QED BY <1>14, <2>1, <2>2, <2>3
<1>21. Dirs'
  BY <1>18, <1>19, <1>20 DEF Dirs
<1>22. Removals'
  <2> SUFFICES ASSUME NEW u \in Threads
      PROVE /\ pc'[u] \in Erasing => FoundAt(call[u], call[u].ofs)'
            /\ pc'[u] = "remove_erase" => inode'[call'[u].inode].sector = call'[u].sector
    BY DEF Removals, Erasing
  <2>1. CASE u = t
    BY <1>8, <1>14, <2>1 DEF Erasing
  <2>2. CASE u # t
    <3>1. FoundAt(call[u], call[u].ofs) => FoundAt(call[u], call[u].ofs)'
      BY <1>1, <1>14, <2>2 DEF FoundAt
    <3>2. ASSUME pc'[u] = "remove_erase" PROVE inode'[call'[u].inode].sector = call'[u].sector
      <4>1. call[u].inode \in Mem /\ call[u].inode # None /\ inode[call[u].inode].sector = call[u].sector
        BY <1>1, <1>14, <2>2, <3>2 DEF FsTypes, CallType, Shapes, Shape, Removals
      <4> QED BY <1>13, <1>14, <2>2, <4>1 DEF Mem
    <3> QED BY <1>1, <1>14, <2>2, <3>1, <3>2 DEF Removals
  <2> QED BY <2>1, <2>2
<1> QED BY <1>1, <1>8, <1>10, <1>12, <1>15, <1>21, <1>22, FsAssumption, LockStep

-----------------------------------------------------------------------------
\* What a close does to the inode it is for.
LEMMA CloseEffect ==
  ASSUME FsTypes, Shapes, Counted, NEW t \in Threads, inode_close(t)
  PROVE \E b \in open_inodes, h \in InodeType, to \in Nexts \cup {"free_inode"}, c \in CallType :
          /\ b = call[t].closing /\ b \in Blocks /\ pc[t] = "close" /\ inode' = [inode EXCEPT ![b] = h]
          /\ Go(t, to, c) /\ Shape(to, c) /\ to \in Pcs /\ SameLocals(c, call[t]) /\ ClosingHeld(to, c) = None
          /\ \/ /\ inode[b].open_cnt > 1 /\ open_inodes' = open_inodes /\ to \in Nexts
                /\ h.open_cnt = inode[b].open_cnt - 1 /\ h.sector = inode[b].sector /\ h.lock = inode[b].lock
                /\ (h.removed <=> inode[b].removed) /\ h.start = inode[b].start /\ h.length = inode[b].length
             \/ /\ inode[b].open_cnt = 1 /\ open_inodes' = open_inodes \ {b} /\ to \in Nexts
                /\ ~inode[b].removed /\ h = NoInode
             \/ /\ inode[b].open_cnt = 1 /\ open_inodes' = open_inodes \ {b} /\ to = "free_inode" /\ c = call[t]
                /\ inode[b].removed /\ h.removed /\ h.open_cnt = 0 /\ h.sector = inode[b].sector /\ h.lock = inode[b].lock
                /\ h.start = inode[b].start /\ h.length = inode[b].length
<1>1. pc[t] = "close" /\ call[t] \in CallType /\ Shape("close", call[t])
  BY DEF inode_close, At, FsTypes, Shapes
<1>2. PICK b : b = call[t].closing
  OBVIOUS
<1>3. b # None /\ b \in open_inodes /\ b \in Blocks
  <2>1. b # None
    BY <1>1, <1>2 DEF Shape, Going
  <2> QED BY <1>1, <1>2, <2>1, LocalsOpen DEF FsTypes
<1>4. PICK g : g = inode[b]
  OBVIOUS
<1>5. g \in InodeType /\ g.open_cnt > 0
  BY <1>3, <1>4 DEF FsTypes, Counted
<1>6. g.open_cnt \in Nat
  BY <1>5 DEF InodeType
<1>7. PICK h : h = [g EXCEPT !.open_cnt = @ - 1]
  OBVIOUS
<1>8. h \in InodeType /\ h.open_cnt = g.open_cnt - 1 /\ h.sector = g.sector /\ h.lock = g.lock
      /\ (h.removed <=> g.removed) /\ h.start = g.start /\ h.length = g.length
  BY <1>5, <1>6, <1>7 DEF InodeType
<1>9. NoInode \in InodeType
  BY FsAssumption DEF NoInode, InodeType, Sectors
<1>10. PICK c : c = [call[t] EXCEPT !.closing = None, !.next = "user"]
  OBVIOUS
<1>11. PICK e : e = call[t]
  OBVIOUS
<1>12. PICK next : next = e.next
  OBVIOUS
<1>13. e \in CallType /\ c = [e EXCEPT !.closing = None, !.next = "user"] /\ Shape("close", e) /\ next \in Nexts
  BY <1>1, <1>10, <1>11, <1>12 DEF CallType
<1>14. c \in CallType /\ SameLocals(c, e) /\ c.closing = None /\ c.ofs = e.ofs
  BY <1>13 DEF CallType, SameLocals, Mem, Nexts
<1>15. Shape(next, c) /\ ClosingHeld(next, c) = None /\ next \in Pcs
  <2>1. next \notin Going /\ next \in Pcs /\ next \notin {"dir_open", "open", "remove_erase"}
    BY <1>13 DEF Nexts, Going, Freeing, Pcs
  <2>2. Place("close", e) = next /\ Place(next, c) = next
    BY <1>12, <2>1 DEF Place, Going
  <2> QED BY <1>13, <1>14, <2>1, <2>2 DEF Shape, SameLocals, ClosingHeld
<1>20. PICK z : z = IF g.open_cnt = 1 /\ ~g.removed THEN NoInode ELSE h
  OBVIOUS
<1>21. inode' = [inode EXCEPT ![b] = z]
  <2>1. inode' = [inode EXCEPT ![b] = IF inode[b].open_cnt = 1 /\ ~inode[b].removed THEN NoInode
                                    ELSE [inode[b] EXCEPT !.open_cnt = @ - 1]]
    BY <1>2 DEF inode_close
  <2>2. PICK w : w = IF inode[b].open_cnt = 1 /\ ~inode[b].removed THEN NoInode
                ELSE [inode[b] EXCEPT !.open_cnt = @ - 1]
    OBVIOUS
  <2>3. inode' = [inode EXCEPT ![b] = w]
    BY ONLY <2>1, <2>2
  <2>4. w = z
    BY ONLY <1>4, <1>7, <1>20, <2>2
  <2> QED BY <2>3, <2>4
<1>22. open_inodes' = (IF g.open_cnt = 1 THEN open_inodes \ {b} ELSE open_inodes)
       /\ IF g.open_cnt = 1 /\ g.removed THEN Go(t, "free_inode", e) ELSE Go(t, next, c)
  BY <1>2, <1>4, <1>10, <1>11, <1>12 DEF inode_close
<1>16. CASE g.open_cnt > 1
  <2>1. g.open_cnt # 1
    BY <1>16
  <2>2. inode' = [inode EXCEPT ![b] = h] /\ open_inodes' = open_inodes /\ Go(t, next, c)
    BY <1>20, <1>21, <1>22, <2>1
  <2> QED BY <1>1, <1>2, <1>3, <1>4, <1>8, <1>11, <1>13, <1>14, <1>15, <1>16, <2>2
<1>17. CASE g.open_cnt = 1 /\ ~g.removed
  <2>1. inode' = [inode EXCEPT ![b] = NoInode] /\ open_inodes' = open_inodes \ {b} /\ Go(t, next, c)
    BY <1>17, <1>20, <1>21, <1>22
  <2> QED BY <1>1, <1>2, <1>3, <1>4, <1>9, <1>11, <1>13, <1>14, <1>15, <1>17, <2>1
<1>18. CASE g.open_cnt = 1 /\ g.removed
  <2>1. inode' = [inode EXCEPT ![b] = h] /\ open_inodes' = open_inodes \ {b} /\ Go(t, "free_inode", e)
    BY <1>18, <1>20, <1>21, <1>22
  <2>2. h.open_cnt = 0 /\ h.removed
    BY <1>8, <1>18
  <2>3. Shape("free_inode", e) /\ "free_inode" \in Pcs /\ ClosingHeld("free_inode", e) = None /\ SameLocals(e, e)
    BY <1>13 DEF Shape, Place, Going, Freeing, InDir, Pcs, ClosingHeld, SameLocals
  <2> QED BY <1>1, <1>2, <1>3, <1>4, <1>8, <1>11, <1>13, <1>18, <2>1, <2>2, <2>3
<1> QED BY <1>5, <1>6, <1>16, <1>17, <1>18

LEMMA inode_closeStep ==
  ASSUME FsInv, NEW t \in Threads, inode_close(t)
  PROVE FsInv'
<1>1. FsTypes /\ Shapes /\ Counted /\ Dirs /\ Removals /\ FilesHeld /\ Inodes /\ Apart /\ Written /\ Owned /\ NamesUnique
      /\ UNCHANGED <<free_map, disk, entries, list_lock, file_table, lost, orphans>>
  BY DEF FsInv, inode_close
<1>2. PICK b \in open_inodes, h \in InodeType, to \in Nexts \cup {"free_inode"}, c \in CallType :
          /\ b = call[t].closing /\ b \in Blocks /\ pc[t] = "close" /\ inode' = [inode EXCEPT ![b] = h]
          /\ Go(t, to, c) /\ Shape(to, c) /\ to \in Pcs /\ SameLocals(c, call[t]) /\ ClosingHeld(to, c) = None
          /\ \/ /\ inode[b].open_cnt > 1 /\ open_inodes' = open_inodes /\ to \in Nexts
                /\ h.open_cnt = inode[b].open_cnt - 1 /\ h.sector = inode[b].sector /\ h.lock = inode[b].lock
                /\ (h.removed <=> inode[b].removed) /\ h.start = inode[b].start /\ h.length = inode[b].length
             \/ /\ inode[b].open_cnt = 1 /\ open_inodes' = open_inodes \ {b} /\ to \in Nexts
                /\ ~inode[b].removed /\ h = NoInode
             \/ /\ inode[b].open_cnt = 1 /\ open_inodes' = open_inodes \ {b} /\ to = "free_inode" /\ c = call[t]
                /\ inode[b].removed /\ h.removed /\ h.open_cnt = 0 /\ h.sector = inode[b].sector /\ h.lock = inode[b].lock
                /\ h.start = inode[b].start /\ h.length = inode[b].length
  BY <1>1, CloseEffect
<1>3. inode' \in [Blocks -> InodeType] /\ inode'[b] = h /\ \A d \in Blocks : d # b => inode'[d] = inode[d]
  BY <1>1, <1>2 DEF FsTypes
<1>4. pc' \in [Threads -> Pcs] /\ call' \in [Threads -> CallType] /\ Shapes'
  BY <1>1, <1>2, ControlType
<1>5. FsTypes'
  <2>1. open_inodes' \subseteq Blocks
    BY <1>1, <1>2 DEF FsTypes
  <2> QED BY <1>1, <1>3, <1>4, <2>1, TypesAfter DEF FsTypes
<1>6. pc'[t] = to /\ call'[t] = c /\ \A u \in Threads : u # t => pc'[u] = pc[u] /\ call'[u] = call[u]
  BY <1>1, <1>2, GoAt
<1>7. \A u \in Threads : call'[u].dir = call[u].dir /\ call'[u].inode = call[u].inode
  BY <1>2, <1>6 DEF SameLocals
<1>8. \A d \in Blocks : inode[d].open_cnt \in Nat /\ (inode[d].open_cnt > 0 <=> d \in open_inodes)
  BY <1>1 DEF FsTypes, InodeType, Counted
<1>9. Counted'
  <2>1. \A d \in Blocks : Count(d)' = Count(d) - (IF call[t].closing = d THEN 1 ELSE 0)
    BY <1>1, <1>2, LoseClosing DEF SameLocals
  <2>2. \A d \in Blocks : Count(d)' = Count(d) - (IF b = d THEN 1 ELSE 0)
    BY <1>2, <2>1
  <2>3. h.open_cnt = inode[b].open_cnt - 1
    BY <1>2 DEF NoInode
  <2>4. \A d \in Blocks : inode'[d].open_cnt = inode[d].open_cnt - (IF b = d THEN 1 ELSE 0)
    BY <1>2, <1>3, <1>8, <2>3
  <2>5. \A d \in Blocks : inode'[d].open_cnt > 0 <=> d \in open_inodes'
    BY <1>2, <1>3, <1>8, <2>3
  <2>6. UNCHANGED orphans /\ b \in Blocks
    BY <1>1, <1>2
  <2> QED BY <1>1, <2>2, <2>4, <2>5, <2>6, CountedDown
\* what is still held is as it was
<1>10. \A d \in open_inodes' : /\ d \in Blocks /\ d \in open_inodes /\ inode'[d].sector = inode[d].sector
                               /\ (inode'[d].removed <=> inode[d].removed) /\ inode'[d].start = inode[d].start
                               /\ inode'[d].length = inode[d].length /\ inode'[d].lock = inode[d].lock
  <2> SUFFICES ASSUME NEW d \in open_inodes'
      PROVE /\ d \in Blocks /\ d \in open_inodes /\ inode'[d].sector = inode[d].sector
            /\ (inode'[d].removed <=> inode[d].removed) /\ inode'[d].start = inode[d].start
            /\ inode'[d].length = inode[d].length /\ inode'[d].lock = inode[d].lock
    OBVIOUS
  <2>1. d \in Blocks /\ d \in open_inodes
    BY <1>2, <1>5 DEF FsTypes
  <2>2. CASE d # b
    BY <1>3, <2>1, <2>2
  <2>3. CASE d = b
    BY <1>2, <1>3, <2>1, <2>3
  <2> QED BY <2>2, <2>3
<1>11. FilesHeld'
  <2> SUFFICES ASSUME NEW u \in Threads, NEW fd \in Fds, file_table[u][fd] # NoFile
      PROVE file_table[u][fd].inode # None /\ file_table[u][fd].pos <= inode'[file_table[u][fd].inode].length
    BY <1>1 DEF FilesHeld, NoFile
  <2>1. file_table[u][fd].inode # None /\ file_table[u][fd].pos <= inode[file_table[u][fd].inode].length
    BY <1>1 DEF FilesHeld
  <2>2. file_table[u][fd].inode \in open_inodes'
    BY <1>1, <1>5, <1>9, <2>1, LocalsOpenAfter
  <2> QED BY <1>10, <2>1, <2>2
<1>12. \A u \in Threads : /\ call[u].dir # None => call[u].dir \in open_inodes'
                          /\ call[u].inode # None => call[u].inode \in open_inodes'
  BY <1>5, <1>7, <1>9, LocalsOpenAfter
<1>13. \A d \in Blocks : inode'[d].lock = inode[d].lock
  <2>1. inode[b].lock # None => b \in open_inodes'
    <3> SUFFICES ASSUME inode[b].lock # None PROVE b \in open_inodes'
      OBVIOUS
    <3>1. inode[b].lock \in Threads /\ call[inode[b].lock].dir = b
      BY <1>1, <1>2 DEF FsTypes, InodeType, Dirs
    <3> QED BY <1>2, <1>12, <3>1, FsAssumption
  <2>2. inode[b].lock = None => h.lock = None
    BY <1>2 DEF NoInode
  <2>3. h.lock = inode[b].lock
    BY <1>3, <1>10, <2>1, <2>2
  <2> QED BY <1>3, <2>3
<1>14. Dirs' /\ Removals'
  <2>1. \A d \in Blocks, u \in Threads : u # t /\ (call[u].dir = d \/ call[u].inode = d) => inode'[d].sector = inode[d].sector
    BY <1>10, <1>12, FsAssumption
  <2>2. to \notin Locking /\ pc[t] \notin Locking /\ to \notin Erasing /\ to # "remove_erase"
    BY <1>2 DEF Locking, Erasing, Nexts
  <2>3. c.dir # None => inode'[c.dir].sector = ROOT_DIR_SECTOR
    BY <1>1, <1>2, <1>10, <1>12 DEF SameLocals, Dirs
  <2>4. entries' = entries
    BY <1>1
  <2> QED BY <1>1, <1>2, <1>13, <2>1, <2>2, <2>3, <2>4, LocksSame
<1>15. CASE to \in Nexts
  <2>0. to # "free_inode"
    BY <1>15 DEF Nexts
  <2>1. \/ open_inodes' = open_inodes
        \/ open_inodes' = open_inodes \ {b} /\ ~inode[b].removed /\ h = NoInode
    BY ONLY <1>2, <2>0
  <2>2. \A d \in open_inodes' : Kept(d)
    BY <1>9, <1>10 DEF Kept, Counted
  <2>3. \A d \in Blocks : ~Fresh(d)
    BY <1>10 DEF Fresh
  <2>4. ASSUME NEW d \in Blocks, d \notin open_inodes' PROVE Closed(d) \/ Off(d)
    <3>1. CASE d = b
      BY <1>3, <2>1, <2>4, <3>1 DEF Closed
    <3>2. CASE d # b
      BY <1>2, <1>3, <2>4, <3>2 DEF Off
    <3> QED BY <3>1, <3>2
  <2>5. Quiet
    BY <1>1, <2>2, <2>3, <2>4 DEF Quiet
  <2>6. pc[t] \notin Freeing /\ to \notin Freeing /\ SameClaim(t, to, c)
    BY <1>2, <1>15 DEF Freeing, Nexts, SameClaim, Creating
  <2> QED BY <1>1, <1>2, <1>4, <1>5, <1>9, <1>11, <1>14, <2>5, <2>6, QuietStep
<1>16. CASE to = "free_inode"
  <2>1. /\ inode[b].open_cnt = 1 /\ open_inodes' = open_inodes \ {b} /\ c = call[t]
        /\ inode[b].removed /\ h.removed /\ h.open_cnt = 0 /\ h.sector = inode[b].sector /\ h.lock = inode[b].lock
        /\ h.start = inode[b].start /\ h.length = inode[b].length
    BY <1>2, <1>16 DEF Nexts
  <2>2. \A s : Linked(s)' <=> Linked(s)
    BY <1>1, LinkedSame
  <2>3. \A u \in Threads : pc[u] \in Freeing => u # t /\ call[u].closing # b /\ call[u].closing \in Blocks
                                                /\ call[u].closing \notin open_inodes
    BY <1>1, <1>2, FreeingBlock DEF Inodes, Frees, Freeing, Going
  <2>4. Shared'
    BY <1>1, <1>10 DEF Shared, Inodes
  <2>5. (\A d \in open_inodes : OnList(d))'
    <3> SUFFICES ASSUME NEW d \in open_inodes' PROVE OnList(d)'
      OBVIOUS
    <3>1. OnList(d)
      BY <1>1, <1>10 DEF Inodes
    <3> QED BY <1>1, <1>10, <2>2, <3>1 DEF OnList
  <2>6. (\A d \in Blocks \ open_inodes : OffList(d))'
    <3> SUFFICES ASSUME NEW d \in Blocks, d \notin open_inodes' PROVE OffList(d)'
      OBVIOUS
    <3>1. CASE d = b
      <4>1. FreedBy(t, d)'
        BY <1>2, <1>6, <1>16, <2>1, <3>1 DEF FreedBy, Freeing
      <4> QED BY <1>3, <2>1, <3>1, <4>1 DEF OffList
    <3>2. CASE d # b
      <4>1. inode'[d] = inode[d] /\ OffList(d)
        BY <1>1, <1>2, <1>3, <2>1, <3>2 DEF Inodes
      <4>2. CASE inode[d] = NoInode
        BY <4>1, <4>2 DEF OffList, NoInode
      <4>3. CASE inode[d] # NoInode
        <5>1. PICK u \in Threads : FreedBy(u, d)
          BY <4>1, <4>3 DEF OffList
        <5>2. FreedBy(u, d)'
          BY <1>6, <2>3, <5>1 DEF FreedBy
        <5> QED BY <4>1, <4>3, <5>2 DEF OffList
      <4> QED BY <4>2, <4>3
    <3> QED BY <3>1, <3>2
  <2>7. Frees'
    <3>1. ASSUME NEW u \in Threads, pc'[u] \in Freeing
          PROVE /\ call'[u] = call[u] /\ call[u].closing \in Blocks /\ (u # t => pc[u] = pc'[u] /\ call[u].closing # b)
                /\ (u = t => call[u].closing = b /\ pc'[u] = "free_inode")
                /\ call[u].closing \notin open_inodes' /\ inode'[call[u].closing] # NoInode
      <4>1. CASE u = t
        <5>1. inode'[b] # NoInode
          BY <1>3, <2>1 DEF NoInode
        <5> QED BY <1>2, <1>6, <1>16, <2>1, <4>1, <5>1
      <4>2. CASE u # t
        <5>1. pc'[u] = pc[u] /\ call'[u] = call[u]
          BY <1>6, <4>2
        <5>2. call[u].closing \notin open_inodes /\ inode[call[u].closing] # NoInode
          BY <1>1, <3>1, <5>1 DEF Inodes, Frees
        <5>3. call[u].closing # b /\ call[u].closing \in Blocks
          BY <2>3, <3>1, <5>1
        <5> QED BY <1>3, <2>1, <4>2, <5>1, <5>2, <5>3
      <4> QED BY <4>1, <4>2
    <3>2. (\A u \in Threads : pc[u] \in Freeing => call[u].closing \notin open_inodes /\ inode[call[u].closing] # NoInode)'
      BY <3>1 DEF Freeing, NoInode
    <3>3. (\A u, v \in Threads : pc[u] \in Freeing /\ pc[v] \in Freeing /\ call[u].closing = call[v].closing => u = v)'
      <4> SUFFICES ASSUME NEW u \in Threads, NEW v \in Threads, pc'[u] \in Freeing, pc'[v] \in Freeing,
                          call'[u].closing = call'[v].closing PROVE u = v
        BY DEF Freeing
      <4> QED BY <1>1, <3>1 DEF Inodes, Frees
    <3>4. (\A u \in Threads : pc[u] = "free_inode" =>
            LET s == inode[call[u].closing].sector IN s # ROOT_DIR_SECTOR /\ ~Linked(s))'
      <4> SUFFICES ASSUME NEW u \in Threads, pc'[u] = "free_inode"
          PROVE (inode[call[u].closing].sector # ROOT_DIR_SECTOR /\ ~Linked(inode[call[u].closing].sector))'
        OBVIOUS
      <4>0. pc'[u] \in Freeing
        BY DEF Freeing
      <4>1. CASE u = t
        <5>1. inode[b].sector # ROOT_DIR_SECTOR /\ ~Linked(inode[b].sector)
          BY <1>1, <2>1 DEF Inodes, OnList
        <5>2. inode'[call'[u].closing].sector = inode[b].sector
          BY <1>3, <2>1, <3>1, <4>0, <4>1
        <5> QED BY <1>1, <5>1, <5>2 DEF Linked, ROOT_DIR_SECTOR
      <4>2. CASE u # t
        <5>1. call'[u].closing = call[u].closing /\ call[u].closing \in Blocks /\ call[u].closing # b /\ pc[u] = "free_inode"
          BY <3>1, <4>0, <4>2
        <5>2. inode'[call'[u].closing] = inode[call[u].closing]
          BY <1>3, <5>1
        <5>3. inode[call[u].closing].sector # ROOT_DIR_SECTOR /\ ~Linked(inode[call[u].closing].sector)
          BY <1>1, <5>1 DEF Inodes, Frees
        <5> QED BY <1>1, <5>2, <5>3 DEF Linked, ROOT_DIR_SECTOR
      <4> QED BY <4>1, <4>2
    <3> QED BY <3>2, <3>3, <3>4 DEF Frees
  <2>8. Inodes'
    BY <2>4, <2>5, <2>6, <2>7 DEF Inodes
  <2>9. Owned'
    <3>1. \A i \in 1 .. DirSlots : EntryClaim(i)' = EntryClaim(i)
      BY <1>1 DEF EntryClaim, SectorsOf, Extent
    <3>2. \A u \in Threads : CreateClaim(u)' = CreateClaim(u)
      BY <1>2, <1>6, <1>16 DEF CreateClaim, Extent
    <3>3. \A d : Closing(d, "free_data")' <=> Closing(d, "free_data")
      <4>1. pc[t] # "free_data" /\ pc'[t] # "free_data"
        BY <1>2, <1>6, <1>16
      <4> QED BY <1>6, <4>1 DEF Closing
    <3>4. ASSUME NEW d \in Blocks PROVE InodeClaim(d)' = InodeClaim(d)
      <4>1. inode'[d].sector = inode[d].sector /\ inode'[d].start = inode[d].start /\ inode'[d].length = inode[d].length
        BY <1>3, <2>1
      <4>2. inode'[d] = NoInode <=> inode[d] = NoInode
        <5>1. CASE d = b
          <6>1. NoInode.removed = FALSE
            BY DEF NoInode
          <6>2. inode'[d] # NoInode /\ inode[d] # NoInode
            BY <1>3, <2>1, <5>1, <6>1
          <6> QED BY <6>2
        <5>2. CASE d # b
          BY <1>3, <5>2
        <5> QED BY <5>1, <5>2
      <4> QED BY <2>2, <3>3, <4>1, <4>2 DEF InodeClaim, SectorsOf, Extent, ROOT_DIR_SECTOR, NoInode
    <3>5. \A o \in Owners : ClaimMap'[o] = ClaimMap[o]
      <4> SUFFICES ASSUME NEW o \in Owners PROVE ClaimMap'[o] = ClaimMap[o]
        OBVIOUS
      <4>1. CASE \E i \in 1 .. DirSlots : o = <<"entry", i>>
        BY <3>1, <4>1, ClaimsAre, ClaimsAfter
      <4>2. CASE \E d \in Blocks : o = <<"inode", d>>
        BY <3>4, <4>2, ClaimsAre, ClaimsAfter
      <4>3. CASE \E u \in Threads : o = <<"create", u>>
        BY <3>2, <4>3, ClaimsAre, ClaimsAfter
      <4> QED BY <4>1, <4>2, <4>3, OwnerKinds
    <3>6. OwnedBy(ClaimMap', free_map, lost)
      BY <1>1, <3>5, OwnedAs, OwnSame
    <3> QED BY <1>1, <3>6, OwnedAsAfter
  <2>10. Apart' /\ Written'
    <3>1. (\A i \in 1 .. DirSlots : LET s == entries[i].inode_sector
         IN entries[i].in_use => Separate(s, disk[s].start, disk[s].length))'
      BY <1>1 DEF Apart, Separate, Extent
    <3>2. (\A d \in Blocks : inode[d].removed => Separate(inode[d].sector, inode[d].start, inode[d].length))'
      <4> SUFFICES ASSUME NEW d \in Blocks, inode'[d].removed
          PROVE Separate(inode'[d].sector, inode'[d].start, inode'[d].length)
        BY DEF Separate, Extent
      <4>1. inode'[d].sector = inode[d].sector /\ inode'[d].start = inode[d].start /\ inode'[d].length = inode[d].length
            /\ inode[d].removed
        BY <1>3, <2>1
      <4> QED BY <1>1, <4>1 DEF Apart
    <3>3. (\A u \in Threads : pc[u] \in {"write_inode", "dir_add"}
         => Separate(call[u].sector, call[u].start, call[u].size))'
      BY <1>1, <1>2, <1>6, <1>16 DEF Apart, Separate, Extent
    <3>4. Written'
      BY <1>1, <1>2, <1>6, <1>16 DEF Written
    <3> QED BY <3>1, <3>2, <3>3, <3>4 DEF Apart
  <2>11. NamesUnique'
    BY <1>1 DEF NamesUnique
  <2> QED BY <1>4, <1>5, <1>9, <1>11, <1>14, <2>8, <2>9, <2>10, <2>11 DEF FsInv
<1> QED BY <1>2, <1>15, <1>16

-----------------------------------------------------------------------------
(***************************************************************************)
(* Freeing a removed file: first the sector of its inode, then its data.   *)
(***************************************************************************)
\* The inode being freed, and what it still owns.
LEMMA FreeingFacts ==
  ASSUME FsTypes, Shapes, Inodes, Apart, NEW t \in Threads, pc[t] \in Freeing
  PROVE LET b == call[t].closing
        IN /\ b \in Blocks /\ b \notin open_inodes /\ inode[b] # NoInode /\ inode[b].removed
           /\ \A u \in Threads : pc[u] \in Freeing /\ call[u].closing = b => u = t
           /\ Separate(inode[b].sector, inode[b].start, inode[b].length)
           /\ pc[t] = "free_inode" => InodeClaim(b) = SectorsOf(inode[b].sector, inode[b])
           /\ pc[t] = "free_data" => InodeClaim(b) = Extent(inode[b].start, inode[b].length)
<1>1. PICK b : b = call[t].closing
  OBVIOUS
<1>2. b \in Blocks
  BY <1>1, FreeingBlock DEF Going
<1>3. b \notin open_inodes /\ inode[b] # NoInode
  BY <1>1 DEF Inodes, Frees
<1>4. inode[b].removed
  BY <1>2, <1>3 DEF Inodes, OffList
<1>5. \A u \in Threads : pc[u] \in Freeing /\ call[u].closing = b => u = t
  BY <1>1 DEF Inodes, Frees
<1>6. Separate(inode[b].sector, inode[b].start, inode[b].length)
  BY <1>2, <1>4 DEF Apart
<1>7. ASSUME pc[t] = "free_inode" PROVE InodeClaim(b) = SectorsOf(inode[b].sector, inode[b])
  <2>1. ~Closing(b, "free_data")
    BY <1>5, <1>7 DEF Closing, Freeing
  <2>2. inode[b].sector # ROOT_DIR_SECTOR /\ ~Linked(inode[b].sector)
    BY <1>1, <1>7 DEF Inodes, Frees
  <2> QED BY <1>3, <2>1, <2>2 DEF InodeClaim
<1>8. ASSUME pc[t] = "free_data" PROVE InodeClaim(b) = Extent(inode[b].start, inode[b].length)
  <2>1. Closing(b, "free_data")
    BY <1>1, <1>8 DEF Closing
  <2> QED BY <2>1 DEF InodeClaim
<1> QED BY <1>1, <1>2, <1>3, <1>4, <1>5, <1>6, <1>7, <1>8

LEMMA OwnersElse ==
  ASSUME NEW b \in Blocks, \A i \in 1 .. DirSlots : EntryClaim(i)' = EntryClaim(i),
         \A u \in Threads : CreateClaim(u)' = CreateClaim(u),
         \A d \in Blocks : d # b => InodeClaim(d)' = InodeClaim(d)
  PROVE \A o \in Owners : o # <<"inode", b>> => ClaimMap'[o] = ClaimMap[o]
<1> SUFFICES ASSUME NEW o \in Owners, o # <<"inode", b>> PROVE ClaimMap'[o] = ClaimMap[o]
  OBVIOUS
<1>1. CASE \E i \in 1 .. DirSlots : o = <<"entry", i>>
  BY <1>1, ClaimsAre, ClaimsAfter
<1>2. CASE \E d \in Blocks : o = <<"inode", d>>
  BY <1>2, ClaimsAre, ClaimsAfter
<1>3. CASE \E u \in Threads : o = <<"create", u>>
  BY <1>3, ClaimsAre, ClaimsAfter
<1> QED BY <1>1, <1>2, <1>3, OwnerKinds

LEMMA FreeInodeStep ==
  ASSUME FsInv, NEW t \in Threads, FreeInode(t)
  PROVE FsInv'
<1>1. FsTypes /\ Shapes /\ Counted /\ Dirs /\ Removals /\ FilesHeld /\ Inodes /\ Apart /\ Written /\ Owned /\ NamesUnique
      /\ UNCHANGED <<disk, entries, inode, open_inodes, list_lock, file_table, lost, orphans>>
      /\ pc[t] = "free_inode" /\ Go(t, "free_data", call[t]) /\ free_map_release(inode[call[t].closing].sector, 1)
  BY DEF FsInv, FreeInode, At
<1>2. PICK b : b = call[t].closing
  OBVIOUS
<1>3. /\ b \in Blocks /\ b \notin open_inodes /\ inode[b] # NoInode /\ inode[b].removed
      /\ \A u \in Threads : pc[u] \in Freeing /\ call[u].closing = b => u = t
      /\ Separate(inode[b].sector, inode[b].start, inode[b].length)
      /\ InodeClaim(b) = SectorsOf(inode[b].sector, inode[b])
  BY <1>1, <1>2, FreeingFacts DEF Freeing
<1>4. call[t] \in CallType /\ Shape("free_data", call[t]) /\ "free_data" \in Pcs
  <2>1. call[t] \in CallType /\ Shape("free_inode", call[t])
    BY <1>1 DEF FsTypes, Shapes
  <2> QED BY <2>1 DEF Shape, Place, Going, Freeing, InDir, Pcs
<1>5. pc' \in [Threads -> Pcs] /\ call' \in [Threads -> CallType] /\ Shapes'
  BY <1>1, <1>4, ControlType
<1>6. pc'[t] = "free_data" /\ call'[t] = call[t] /\ \A u \in Threads : u # t => pc'[u] = pc[u] /\ call'[u] = call[u]
  BY <1>1, GoAt
<1>7. PICK s : s = inode[b].sector
  OBVIOUS
<1>8. s \in Sectors /\ Extent(s, 1) = {s} /\ free_map' = free_map \ {s}
  <2>1. s \in Sectors
    BY <1>1, <1>3, <1>7 DEF FsTypes, InodeType
  <2>2. Extent(s, 1) = {s}
    BY <2>1 DEF Extent, Sectors
  <2> QED BY <1>1, <1>2, <1>7, <2>1, <2>2 DEF free_map_release
<1>9. FsTypes'
  BY <1>1, <1>5, <1>8, TypesAfter DEF FsTypes
<1>10. Counted'
  <2>1. ClosingHeld("free_data", call[t]) = ClosingHeld(pc[t], call[t])
    BY <1>1 DEF ClosingHeld
  <2>2. \A d \in Blocks : Count(d)' = Count(d)
    BY <1>1, <2>1, MoveNothing
  <2> QED BY <1>1, <2>2, CountedSame
<1>11. FilesHeld'
  BY <1>1, FilesSame
<1>12. Dirs' /\ Removals'
  <2>1. pc[t] \notin Locking /\ "free_data" \notin Locking /\ "free_data" \notin Erasing /\ "free_data" # "remove_erase"
    BY <1>1 DEF Locking, Erasing
  <2>2. call[t].dir # None => inode'[call[t].dir].sector = ROOT_DIR_SECTOR
    BY <1>1 DEF Dirs
  <2>3. entries' = entries /\ inode' = inode
    BY <1>1
  <2> QED BY <1>1, <2>1, <2>2, <2>3, LocksSame
<1>13. Quiet
  BY <1>1, UnchangedQuiet
<1>14. Apart' /\ Written'
  BY <1>1, <1>13, QuietApart
<1>15. NamesUnique'
  BY <1>1 DEF NamesUnique
<1>16. \A z : Linked(z)' <=> Linked(z)
  BY <1>1, LinkedSame
<1>17. \A u \in Threads : call'[u] = call[u] /\ (pc'[u] \in Freeing <=> pc[u] \in Freeing)
                         /\ (pc'[u] = "free_inode" => pc[u] = "free_inode")
  BY <1>1, <1>6 DEF Freeing
<1>18. Inodes'
  <2>1. Shared' /\ (\A d \in open_inodes : OnList(d))'
    BY <1>1, <1>16 DEF Inodes, Shared, OnList, ROOT_DIR_SECTOR
  <2>2. (\A d \in Blocks \ open_inodes : OffList(d))'
    <3>1. \A u \in Threads, d \in Blocks : FreedBy(u, d)' <=> FreedBy(u, d)
      BY <1>17 DEF FreedBy, Freeing
    <3> QED BY <1>1, <3>1 DEF Inodes, OffList, NoInode
  <2>3. (\A u \in Threads : pc[u] \in Freeing => call[u].closing \notin open_inodes /\ inode[call[u].closing] # NoInode)'
    BY <1>1, <1>17 DEF Inodes, Frees, Freeing, NoInode
  <2>4. (\A u, v \in Threads : pc[u] \in Freeing /\ pc[v] \in Freeing /\ call[u].closing = call[v].closing => u = v)'
    BY <1>1, <1>17 DEF Inodes, Frees, Freeing
  <2>5. (\A u \in Threads : pc[u] = "free_inode" =>
            LET z == inode[call[u].closing].sector IN z # ROOT_DIR_SECTOR /\ ~Linked(z))'
    BY <1>1, <1>16, <1>17 DEF Inodes, Frees, Linked, ROOT_DIR_SECTOR
  <2> QED BY <2>1, <2>2, <2>3, <2>4, <2>5 DEF Inodes, Frees
<1>19. Owned'
  <2>1. \A i \in 1 .. DirSlots : EntryClaim(i)' = EntryClaim(i)
    BY <1>1 DEF EntryClaim, SectorsOf, Extent
  <2>2. \A u \in Threads : CreateClaim(u)' = CreateClaim(u)
    BY <1>1, <1>6 DEF CreateClaim, Extent
  <2>3. ASSUME NEW d \in Blocks, d # b PROVE InodeClaim(d)' = InodeClaim(d)
    <3>1. Closing(d, "free_data")' <=> Closing(d, "free_data")
      BY <1>2, <1>6, <2>3 DEF Closing
    <3> QED BY <1>1, <1>16, <3>1 DEF InodeClaim, SectorsOf, Extent, ROOT_DIR_SECTOR, NoInode
  <2>4. InodeClaim(b)' = Extent(inode[b].start, inode[b].length)
    <3>1. Closing(b, "free_data")'
      BY <1>2, <1>6 DEF Closing
    <3> QED BY <1>1, <3>1 DEF InodeClaim, Extent
  <2>5. InodeClaim(b)' = InodeClaim(b) \ {s} /\ {s} \subseteq InodeClaim(b)
    BY <1>3, <1>7, <2>4 DEF SectorsOf, Separate
  <2>6. \A o \in Owners : o # <<"inode", b>> => ClaimMap'[o] = ClaimMap[o]
    BY <1>3, <2>1, <2>2, <2>3, OwnersElse
  <2>7. PICK o \in Owners : o = <<"inode", b>>
    BY <1>3, OwnerKinds
  <2>8. ClaimMap'[o] = ClaimMap[o] \ {s} /\ {s} \subseteq ClaimMap[o] /\ DOMAIN ClaimMap = Owners /\ DOMAIN ClaimMap' = Owners
    BY <1>3, <2>5, <2>7, ClaimsAre, ClaimsAfter
  <2>9. OwnedBy(ClaimMap, free_map, lost)
    BY <1>1, OwnedAs
  <2>10. OwnedBy(ClaimMap', free_map \ {s}, lost)
    BY <2>6, <2>7, <2>8, <2>9, OwnGive
  <2> QED BY <1>1, <1>8, <2>10, OwnedAsAfter
<1> QED BY <1>5, <1>9, <1>10, <1>11, <1>12, <1>14, <1>15, <1>18, <1>19 DEF FsInv

LEMMA FreeDataStep ==
  ASSUME FsInv, NEW t \in Threads, FreeData(t)
  PROVE FsInv'
<1>1. FsTypes /\ Shapes /\ Counted /\ Dirs /\ Removals /\ FilesHeld /\ Inodes /\ Apart /\ Written /\ Owned /\ NamesUnique
      /\ UNCHANGED <<disk, entries, open_inodes, list_lock, file_table, lost, orphans>> /\ pc[t] = "free_data"
  BY DEF FsInv, FreeData, At
<1>2. PICK b : b = call[t].closing
  OBVIOUS
<1>3. /\ b \in Blocks /\ b \notin open_inodes /\ inode[b] # NoInode /\ inode[b].removed
      /\ \A u \in Threads : pc[u] \in Freeing /\ call[u].closing = b => u = t
      /\ InodeClaim(b) = Extent(inode[b].start, inode[b].length)
  BY <1>1, <1>2, FreeingFacts DEF Freeing
<1>4. PICK e : e = call[t]
  OBVIOUS
<1>5. PICK c : c = [e EXCEPT !.closing = None, !.next = "user"]
  OBVIOUS
<1>6. PICK next : next = e.next
  OBVIOUS
<1>7. e \in CallType /\ Shape("free_data", e) /\ next \in Nexts
  BY <1>1, <1>4, <1>6 DEF FsTypes, Shapes, CallType
<1>8. c \in CallType /\ SameLocals(c, e) /\ c.closing = None /\ c.ofs = e.ofs
  BY <1>5, <1>7 DEF CallType, SameLocals, Mem, Nexts
<1>9. Shape(next, c) /\ ClosingHeld(next, c) = None /\ next \in Pcs
  <2>1. next \notin Going /\ next \in Pcs /\ next \notin {"dir_open", "open", "remove_erase"}
    BY <1>7 DEF Nexts, Going, Freeing, Pcs
  <2>2. Place("free_data", e) = next /\ Place(next, c) = next
    BY <1>6, <2>1 DEF Place, Going, Freeing
  <2> QED BY <1>7, <1>8, <2>1, <2>2 DEF Shape, SameLocals, ClosingHeld
<1>10. Go(t, next, c) /\ inode' = [inode EXCEPT ![b] = NoInode] /\ free_map' = free_map \ InodeClaim(b)
  BY <1>2, <1>3, <1>4, <1>5, <1>6 DEF FreeData, free_map_release
<1>11. pc' \in [Threads -> Pcs] /\ call' \in [Threads -> CallType] /\ Shapes'
  BY <1>1, <1>8, <1>9, <1>10, ControlType
<1>12. pc'[t] = next /\ call'[t] = c /\ \A u \in Threads : u # t => pc'[u] = pc[u] /\ call'[u] = call[u]
  BY <1>1, <1>10, GoAt
<1>13. inode' \in [Blocks -> InodeType] /\ inode'[b] = NoInode /\ \A d \in Blocks : d # b => inode'[d] = inode[d]
  <2>1. NoInode \in InodeType
    BY FsAssumption DEF NoInode, InodeType, Sectors
  <2> QED BY <1>1, <1>3, <1>10, <2>1 DEF FsTypes
<1>14. FsTypes'
  BY <1>1, <1>10, <1>11, <1>13, TypesAfter DEF FsTypes
<1>15. Counted'
  <2>1. c.dir = call[t].dir /\ c.inode = call[t].inode /\ ClosingHeld(next, c) = ClosingHeld(pc[t], call[t])
    BY <1>1, <1>4, <1>8, <1>9 DEF ClosingHeld, SameLocals
  <2>2. \A d \in Blocks : Count(d)' = Count(d)
    BY <1>1, <1>10, <2>1, MoveNothing
  <2>3. inode[b].open_cnt = 0
    BY <1>1, <1>3 DEF FsTypes, InodeType, Counted
  <2>4. \A d \in Blocks : inode'[d].open_cnt = inode[d].open_cnt
    BY <1>13, <2>3 DEF NoInode
  <2> QED BY <1>1, <2>2, <2>4, CountedSame
<1>16. FilesHeld'
  <2> SUFFICES ASSUME NEW u \in Threads, NEW fd \in Fds, file_table[u][fd] # NoFile
      PROVE file_table[u][fd].inode # None /\ file_table[u][fd].pos <= inode'[file_table[u][fd].inode].length
    BY <1>1 DEF FilesHeld, NoFile
  <2>1. file_table[u][fd].inode # None /\ file_table[u][fd].pos <= inode[file_table[u][fd].inode].length
    BY <1>1 DEF FilesHeld
  <2>2. file_table[u][fd].inode \in open_inodes
    BY <1>1, <2>1, LocalsOpen
  <2> QED BY <1>1, <1>3, <1>13, <2>1, <2>2 DEF FsTypes
<1>17. \A d \in open_inodes : d \in Blocks /\ inode'[d] = inode[d]
  BY <1>1, <1>3, <1>13 DEF FsTypes
<1>18. \A u \in Threads : /\ call[u].dir # None => call[u].dir \in open_inodes
                          /\ call[u].inode # None => call[u].inode \in open_inodes
  BY <1>1, LocalsOpen
<1>19. \A d \in Blocks : inode'[d].lock = inode[d].lock
  <2>1. inode[b].lock = None
    <3> SUFFICES ASSUME inode[b].lock # None PROVE FALSE
      OBVIOUS
    <3>1. inode[b].lock \in Threads /\ call[inode[b].lock].dir = b
      BY <1>1, <1>3 DEF FsTypes, InodeType, Dirs
    <3> QED BY <1>3, <1>18, <3>1, FsAssumption
  <2> QED BY <1>13, <2>1 DEF NoInode
<1>20. Dirs' /\ Removals'
  <2>1. \A d \in Blocks, u \in Threads : u # t /\ (call[u].dir = d \/ call[u].inode = d) => inode'[d].sector = inode[d].sector
    BY <1>17, <1>18, FsAssumption
  <2>2. next \notin Locking /\ pc[t] \notin Locking /\ next \notin Erasing /\ next # "remove_erase"
    BY <1>1, <1>7 DEF Locking, Erasing, Nexts
  <2>3. c.dir # None => inode'[c.dir].sector = ROOT_DIR_SECTOR
    BY <1>1, <1>4, <1>8, <1>17, <1>18 DEF SameLocals, Dirs
  <2>4. entries' = entries
    BY <1>1
  <2> QED BY <1>1, <1>10, <1>19, <2>1, <2>2, <2>3, <2>4, LocksSame
<1>21. \A z : Linked(z)' <=> Linked(z)
  BY <1>1, LinkedSame
<1>22. ASSUME NEW u \in Threads, pc'[u] \in Freeing
       PROVE u # t /\ pc[u] = pc'[u] /\ call'[u] = call[u] /\ call[u].closing \in Blocks /\ call[u].closing # b
  <2>1. u # t
    BY <1>7, <1>12, <1>22 DEF Nexts, Freeing
  <2>2. pc[u] = pc'[u] /\ call'[u] = call[u]
    BY <1>12, <2>1
  <2>3. call[u].closing \in Blocks
    BY <1>1, <1>22, <2>2, FreeingBlock DEF Going
  <2> QED BY <1>3, <1>22, <2>1, <2>2, <2>3
<1>23. Inodes'
  <2>1. Shared'
    BY <1>1, <1>17 DEF Inodes, Shared
  <2>2. (\A d \in open_inodes : OnList(d))'
    BY <1>1, <1>17, <1>21 DEF Inodes, OnList, ROOT_DIR_SECTOR
  <2>3. (\A d \in Blocks \ open_inodes : OffList(d))'
    <3> SUFFICES ASSUME NEW d \in Blocks, d \notin open_inodes PROVE OffList(d)'
      BY <1>1
    <3>1. CASE d = b
      BY <1>13, <3>1 DEF OffList, NoInode
    <3>2. CASE d # b
      <4>1. inode'[d] = inode[d] /\ OffList(d)
        BY <1>1, <1>13, <3>2 DEF Inodes
      <4>2. CASE inode[d] = NoInode
        BY <4>1, <4>2 DEF OffList, NoInode
      <4>3. CASE inode[d] # NoInode
        <5>1. PICK u \in Threads : FreedBy(u, d)
          BY <4>1, <4>3 DEF OffList
        <5>2. FreedBy(u, d)'
          BY <1>2, <1>12, <3>2, <5>1 DEF FreedBy
        <5> QED BY <4>1, <4>3, <5>2 DEF OffList
      <4> QED BY <4>2, <4>3
    <3> QED BY <3>1, <3>2
  <2>4. (\A u \in Threads : pc[u] \in Freeing => call[u].closing \notin open_inodes /\ inode[call[u].closing] # NoInode)'
    <3> SUFFICES ASSUME NEW u \in Threads, pc'[u] \in Freeing
        PROVE call'[u].closing \notin open_inodes /\ inode'[call'[u].closing] # NoInode
      BY <1>1 DEF Freeing, NoInode
    <3>1. pc[u] = pc'[u] /\ call'[u] = call[u] /\ call[u].closing \in Blocks /\ call[u].closing # b
      BY <1>22
    <3>2. call[u].closing \notin open_inodes /\ inode[call[u].closing] # NoInode
      BY <1>1, <3>1 DEF Inodes, Frees
    <3> QED BY <1>13, <3>1, <3>2
  <2>5. (\A u, v \in Threads : pc[u] \in Freeing /\ pc[v] \in Freeing /\ call[u].closing = call[v].closing => u = v)'
    <3> SUFFICES ASSUME NEW u \in Threads, NEW v \in Threads, pc'[u] \in Freeing, pc'[v] \in Freeing,
                          call'[u].closing = call'[v].closing PROVE u = v
      BY DEF Freeing
    <3> QED BY <1>1, <1>22 DEF Inodes, Frees
  <2>6. (\A u \in Threads : pc[u] = "free_inode" =>
            LET z == inode[call[u].closing].sector IN z # ROOT_DIR_SECTOR /\ ~Linked(z))'
    <3> SUFFICES ASSUME NEW u \in Threads, pc'[u] = "free_inode"
        PROVE (inode[call[u].closing].sector # ROOT_DIR_SECTOR /\ ~Linked(inode[call[u].closing].sector))'
      OBVIOUS
    <3>1. pc[u] = pc'[u] /\ call'[u] = call[u] /\ call[u].closing \in Blocks /\ call[u].closing # b
      BY <1>22 DEF Freeing
    <3>2. inode'[call'[u].closing] = inode[call[u].closing]
      BY <1>13, <3>1
    <3>3. inode[call[u].closing].sector # ROOT_DIR_SECTOR /\ ~Linked(inode[call[u].closing].sector)
      BY <1>1, <3>1 DEF Inodes, Frees
    <3> QED BY <1>1, <3>2, <3>3 DEF Linked, ROOT_DIR_SECTOR
  <2> QED BY <2>1, <2>2, <2>3, <2>4, <2>5, <2>6 DEF Inodes, Frees
<1>24. Apart' /\ Written'
  <2>1. (\A i \in 1 .. DirSlots : LET s == entries[i].inode_sector
         IN entries[i].in_use => Separate(s, disk[s].start, disk[s].length))'
    BY <1>1 DEF Apart, Separate, Extent
  <2>2. (\A d \in Blocks : inode[d].removed => Separate(inode[d].sector, inode[d].start, inode[d].length))'
    <3> SUFFICES ASSUME NEW d \in Blocks, inode'[d].removed
        PROVE Separate(inode'[d].sector, inode'[d].start, inode'[d].length)
      BY DEF Separate, Extent
    <3>1. inode'[d] = inode[d]
      BY <1>13 DEF NoInode
    <3> QED BY <1>1, <3>1 DEF Apart
  <2>3. (\A u \in Threads : pc[u] \in {"write_inode", "dir_add"}
         => Separate(call[u].sector, call[u].start, call[u].size))'
    BY <1>1, <1>7, <1>12 DEF Apart, Separate, Extent, Nexts
  <2>4. Written'
    BY <1>1, <1>7, <1>12 DEF Written, Nexts
  <2> QED BY <2>1, <2>2, <2>3, <2>4 DEF Apart
<1>25. NamesUnique'
  BY <1>1 DEF NamesUnique
<1>26. Owned'
  <2>1. \A i \in 1 .. DirSlots : EntryClaim(i)' = EntryClaim(i)
    BY <1>1 DEF EntryClaim, SectorsOf, Extent
  <2>2. \A u \in Threads : CreateClaim(u)' = CreateClaim(u)
    BY <1>1, <1>7, <1>12 DEF CreateClaim, Extent, Nexts
  <2>3. ASSUME NEW d \in Blocks, d # b PROVE InodeClaim(d)' = InodeClaim(d)
    <3>1. Closing(d, "free_data")' <=> Closing(d, "free_data")
      <4>1. call[t].closing # d /\ pc'[t] # "free_data"
        BY <1>2, <1>7, <1>12, <2>3 DEF Nexts
      <4> QED BY <1>12, <4>1 DEF Closing
    <3>2. inode'[d] = inode[d]
      BY <1>13, <2>3
    <3> QED BY <1>21, <3>1, <3>2 DEF InodeClaim, SectorsOf, Extent, ROOT_DIR_SECTOR, NoInode
  <2>4. InodeClaim(b)' = {}
    <3>1. ~Closing(b, "free_data")'
      BY <1>22 DEF Closing, Freeing
    <3> QED BY <1>13, <3>1 DEF InodeClaim, NoInode
  <2>6. \A o \in Owners : o # <<"inode", b>> => ClaimMap'[o] = ClaimMap[o]
    BY <1>3, <2>1, <2>2, <2>3, OwnersElse
  <2>7. PICK o \in Owners : o = <<"inode", b>>
    BY <1>3, OwnerKinds
  <2>8. PICK X : X = InodeClaim(b)
    OBVIOUS
  <2>9. ClaimMap'[o] = ClaimMap[o] \ X /\ X \subseteq ClaimMap[o] /\ DOMAIN ClaimMap = Owners /\ DOMAIN ClaimMap' = Owners
    BY <1>3, <2>4, <2>7, <2>8, ClaimsAre, ClaimsAfter
  <2>10. OwnedBy(ClaimMap, free_map, lost)
    BY <1>1, OwnedAs
  <2>11. OwnedBy(ClaimMap', free_map \ X, lost)
    BY <2>6, <2>7, <2>9, <2>10, OwnGive
  <2> QED BY <1>1, <1>10, <2>8, <2>11, OwnedAsAfter
<1> QED BY <1>11, <1>14, <1>15, <1>16, <1>20, <1>23, <1>24, <1>25, <1>26 DEF FsInv

-----------------------------------------------------------------------------
(***************************************************************************)
(* The steps of a create that take sectors and give them back.             *)
(***************************************************************************)
LEMMA MapStep ==
  ASSUME FsInv, NEW t \in Threads, NEW to \in Pcs, NEW c \in CallType, Go(t, to, c), Shape(to, c),
         UNCHANGED <<disk, entries, inode, open_inodes, list_lock, file_table, orphans>>,
         free_map' \subseteq Sectors, lost' \subseteq Sectors,
         pc[t] \notin Freeing \cup Locking, to \notin Freeing \cup Locking \cup {"dir_add"},
         c.dir # None => c.dir = call[t].dir, \A d \in Blocks : Count(d)' = Count(d),
         to = "write_inode" => Separate(c.sector, c.start, c.size), Owned'
  PROVE FsInv'
<1>1. FsTypes /\ Shapes /\ Counted /\ Dirs /\ Removals /\ FilesHeld /\ Inodes /\ Apart /\ Written /\ NamesUnique
  BY DEF FsInv
<1>2. pc' \in [Threads -> Pcs] /\ call' \in [Threads -> CallType] /\ Shapes'
  BY <1>1, ControlType
<1>3. FsTypes'
  BY <1>1, <1>2, TypesAfter DEF FsTypes
<1>4. Counted'
  BY <1>1, CountedSame
<1>5. Quiet
  BY <1>1, UnchangedQuiet
<1>6. FilesHeld'
  BY FilesSame
<1>7. Dirs' /\ Removals'
  <2>1. c.dir # None => inode'[c.dir].sector = ROOT_DIR_SECTOR
    BY <1>1 DEF Dirs
  <2>2. to \notin Erasing /\ to # "remove_erase" /\ to \notin Locking /\ pc[t] \notin Locking
    BY DEF Locking, Erasing
  <2> QED BY <1>1, <2>1, <2>2, LocksSame
<1>8. Inodes'
  <2>1. open_inodes' \subseteq Blocks
    BY <1>3 DEF FsTypes
  <2> QED BY <1>1, <1>5, <2>1, QuietInodes
<1>9. pc'[t] = to /\ call'[t] = c /\ \A u \in Threads : u # t => pc'[u] = pc[u] /\ call'[u] = call[u]
  BY <1>1, GoAt
<1>10. Apart'
  <2>1. (\A i \in 1 .. DirSlots : LET s == entries[i].inode_sector
         IN entries[i].in_use => Separate(s, disk[s].start, disk[s].length))'
    BY <1>1 DEF Apart, Separate, Extent
  <2>2. (\A d \in Blocks : inode[d].removed => Separate(inode[d].sector, inode[d].start, inode[d].length))'
    BY <1>1 DEF Apart, Separate, Extent
  <2>3. (\A u \in Threads : pc[u] \in {"write_inode", "dir_add"}
         => Separate(call[u].sector, call[u].start, call[u].size))'
    BY <1>1, <1>9 DEF Apart, Separate, Extent
  <2> QED BY <2>1, <2>2, <2>3 DEF Apart
<1>11. Written'
  BY <1>1, <1>9 DEF Written
<1>12. NamesUnique'
  BY <1>1 DEF NamesUnique
<1> QED BY <1>2, <1>3, <1>4, <1>6, <1>7, <1>8, <1>10, <1>11, <1>12 DEF FsInv

\* Only the create's own claim changes.
LEMMA MapClaims ==
  ASSUME FsInv, NEW t \in Threads, NEW to, NEW c, Go(t, to, c),
         UNCHANGED <<disk, entries, inode, open_inodes>>, pc[t] \notin Freeing, to \notin Freeing
  PROVE \A o \in Owners : o # <<"create", t>> => ClaimMap'[o] = ClaimMap[o]
<1>1. FsTypes /\ Shapes /\ Inodes /\ Counted
  BY DEF FsInv
<1>2. open_inodes' \subseteq Blocks
  BY <1>1 DEF FsTypes
<1>3. Quiet
  BY <1>1, UnchangedQuiet
<1> QED BY <1>1, <1>2, <1>3, QuietOthers

LEMMA TakesSectors ==
  ASSUME FsInv, NEW t \in Threads, NEW to, NEW c, Go(t, to, c),
         UNCHANGED <<disk, entries, inode, open_inodes, lost>>, pc[t] \notin Freeing, to \notin Freeing,
         NEW X, X \cap free_map = {}, free_map' = free_map \cup X, CreateClaim(t)' = CreateClaim(t) \cup X
  PROVE Owned'
<1>1. \A o \in Owners : o # <<"create", t>> => ClaimMap'[o] = ClaimMap[o]
  BY MapClaims
<1>2. PICK o \in Owners : o = <<"create", t>>
  BY OwnerKinds
<1>3. ClaimMap'[o] = ClaimMap[o] \cup X /\ DOMAIN ClaimMap = Owners /\ DOMAIN ClaimMap' = Owners
  BY <1>2, ClaimsAre, ClaimsAfter
<1>4. OwnedBy(ClaimMap, free_map, lost)
  BY OwnedAs DEF FsInv
<1>5. OwnedBy(ClaimMap', free_map \cup X, lost)
  BY <1>1, <1>2, <1>3, <1>4, OwnTake
<1> QED BY <1>5, OwnedAsAfter

LEMMA GivesSectors ==
  ASSUME FsInv, NEW t \in Threads, NEW to, NEW c, Go(t, to, c),
         UNCHANGED <<disk, entries, inode, open_inodes, lost>>, pc[t] \notin Freeing, to \notin Freeing,
         NEW X, X \subseteq CreateClaim(t), free_map' = free_map \ X, CreateClaim(t)' = CreateClaim(t) \ X
  PROVE Owned'
<1>1. \A o \in Owners : o # <<"create", t>> => ClaimMap'[o] = ClaimMap[o]
  BY MapClaims
<1>2. PICK o \in Owners : o = <<"create", t>>
  BY OwnerKinds
<1>3. ClaimMap'[o] = ClaimMap[o] \ X /\ X \subseteq ClaimMap[o] /\ DOMAIN ClaimMap = Owners /\ DOMAIN ClaimMap' = Owners
  BY <1>2, ClaimsAre, ClaimsAfter
<1>4. OwnedBy(ClaimMap, free_map, lost)
  BY OwnedAs DEF FsInv
<1>5. OwnedBy(ClaimMap', free_map \ X, lost)
  BY <1>1, <1>2, <1>3, <1>4, OwnGive
<1> QED BY <1>5, OwnedAsAfter

LEMMA LosesSectors ==
  ASSUME FsInv, NEW t \in Threads, NEW to, NEW c, Go(t, to, c),
         UNCHANGED <<disk, entries, inode, open_inodes, free_map>>, pc[t] \notin Freeing, to \notin Freeing,
         NEW X, X \subseteq CreateClaim(t), lost' = lost \cup X, CreateClaim(t)' = CreateClaim(t) \ X
  PROVE Owned'
<1>1. \A o \in Owners : o # <<"create", t>> => ClaimMap'[o] = ClaimMap[o]
  BY MapClaims
<1>2. PICK o \in Owners : o = <<"create", t>>
  BY OwnerKinds
<1>3. ClaimMap'[o] = ClaimMap[o] \ X /\ X \subseteq ClaimMap[o] /\ DOMAIN ClaimMap = Owners /\ DOMAIN ClaimMap' = Owners
  BY <1>2, ClaimsAre, ClaimsAfter
<1>4. OwnedBy(ClaimMap, free_map, lost)
  BY OwnedAs DEF FsInv
<1>5. OwnedBy(ClaimMap', free_map, lost \cup X)
  BY <1>1, <1>2, <1>3, <1>4, OwnLose
<1> QED BY <1>5, OwnedAsAfter

\* A create on its way.
LEMMA CreateAt ==
  ASSUME FsInv, NEW t \in Threads, pc[t] \in {"create"} \cup Creating
  PROVE /\ pc[t] \in InDir \ {"remove_erase", "remove_done"} /\ pc[t] \notin Going \cup Locking \cup Freeing
        /\ call[t] \in CallType /\ Shape(pc[t], call[t]) /\ call[t].sector \in Sectors /\ call[t].start \in Sectors
        /\ call[t].size \in Nat /\ call[t].name \in Names \cup {None} /\ call[t].dir \in Blocks
        /\ call[t].inode = None /\ call[t].closing = None
<1>1. FsTypes /\ Shapes
  BY DEF FsInv
<1>2. pc[t] \in InDir \ {"remove_erase", "remove_done"} /\ pc[t] \notin Going \cup Locking \cup Freeing
  BY DEF InDir, Creating, Going, Locking, Erasing, Freeing
<1>3. call[t] \in CallType /\ Shape(pc[t], call[t])
  BY <1>1 DEF FsTypes, Shapes
<1>4. call[t].sector \in Sectors /\ call[t].start \in Sectors /\ call[t].size \in Nat /\ call[t].name \in Names \cup {None}
  BY <1>3 DEF CallType
<1>5. call[t].dir \in Blocks /\ call[t].inode = None /\ call[t].closing = None
  <2>1. pc[t] \in InDir /\ pc[t] \notin Going \cup {"file_open", "remove_erase", "remove_done"}
    BY <1>2 DEF InDir
  <2> QED BY <1>1, <2>1, ShapeAt
<1> QED BY <1>2, <1>3, <1>4, <1>5

\* A create goes on to another place in the directory's calls, with its handles.
LEMMA CreateGoes ==
  ASSUME FsInv, NEW t \in Threads, pc[t] \in {"create"} \cup Creating, NEW to \in Creating,
         NEW c \in CallType, c.closing = None, c.dir = call[t].dir, c.inode = None, Go(t, to, c), UNCHANGED file_table
  PROVE to \in Pcs /\ to \notin Freeing \cup Locking /\ Shape(to, c) /\ \A d \in Blocks : Count(d)' = Count(d)
<1>1. to \in InDir /\ to \in Pcs /\ to \notin Going \cup Locking \cup Freeing
      /\ to \notin {"dir_open", "open", "remove_erase", "close"} /\ pc[t] # "close"
  BY DEF InDir, Pcs, Creating, Going, Locking, Erasing, Freeing
<1>2. Shape(to, c)
  <2>1. c.dir # None
    BY CreateAt, FsAssumption
  <2> QED BY <1>1, <2>1 DEF Shape, Place
<1>3. ClosingHeld(to, c) = ClosingHeld(pc[t], call[t])
  BY <1>1 DEF ClosingHeld
<1>4. \A d \in Blocks : Count(d)' = Count(d)
  BY <1>3, CreateAt, MoveNothing DEF FsInv
<1> QED BY <1>1, <1>2, <1>4

LEMMA AllocateInodeStep ==
  ASSUME FsInv, NEW t \in Threads, AllocateInode(t)
  PROVE FsInv'
<1>1. UNCHANGED <<disk, entries, inode, open_inodes, list_lock, file_table, lost, orphans>> /\ pc[t] = "create"
  BY DEF AllocateInode, At
<1>2. CASE free_map_fails(1) /\ dir_close(t)
  BY <1>1, <1>2, DirCloseStep DEF free_map_fails
<1>3. ASSUME NEW s \in Sectors, free_map_allocate(1, s), Go(t, "inode_create", [call[t] EXCEPT !.sector = s])
      PROVE FsInv'
  <2>1. PICK g : g = call[t]
    OBVIOUS
  <2>2. PICK c : c = [g EXCEPT !.sector = s]
    OBVIOUS
  <2>3. g \in CallType /\ g.closing = None /\ g.inode = None
    BY <1>1, <2>1, CreateAt
  <2>4. c \in CallType /\ c.closing = None /\ c.dir = g.dir /\ c.inode = None /\ c.sector = s
    BY <2>2, <2>3 DEF CallType
  <2>5. Go(t, "inode_create", c)
    BY <1>3, <2>1, <2>2
  <2>6. "inode_create" \in Creating
    BY DEF Creating
  <2>7. "inode_create" \in Pcs /\ "inode_create" \notin Freeing \cup Locking /\ Shape("inode_create", c)
        /\ \A d \in Blocks : Count(d)' = Count(d)
    BY <1>1, <2>1, <2>4, <2>5, <2>6, CreateGoes
  <2>8. Extent(s, 1) = {s}
    BY DEF Extent, Sectors
  <2>9. {s} \cap free_map = {} /\ free_map' = free_map \cup {s}
    BY <1>3, <2>8 DEF free_map_allocate, bitmap_scan
  <2>10. pc'[t] = "inode_create" /\ call'[t] = c
    BY <2>5, GoAt DEF FsInv
  <2>11. CreateClaim(t)' = CreateClaim(t) \cup {s}
    BY <1>1, <2>4, <2>10 DEF CreateClaim
  <2>12. pc[t] \notin Freeing \cup Locking
    BY <1>1, CreateAt
  <2>13. Owned'
    BY <1>1, <2>5, <2>7, <2>9, <2>11, <2>12, TakesSectors
  <2>14. free_map' \subseteq Sectors /\ lost' \subseteq Sectors
    BY <1>1, <2>9 DEF FsInv, FsTypes
  <2> QED BY <1>1, <2>1, <2>4, <2>5, <2>7, <2>12, <2>13, <2>14, MapStep
<1> QED BY <1>2, <1>3 DEF AllocateInode

LEMMA AllocateDataStep ==
  ASSUME FsInv, NEW t \in Threads, AllocateData(t)
  PROVE FsInv'
<1>1. UNCHANGED <<disk, entries, inode, open_inodes, list_lock, file_table, lost, orphans>> /\ pc[t] = "inode_create"
      /\ pc[t] \in {"create"} \cup Creating
  BY DEF AllocateData, At, Creating
<1>2. PICK g : g = call[t]
  OBVIOUS
<1>3. g \in CallType /\ g.closing = None /\ g.inode = None /\ g.size \in Nat /\ g.sector \in Sectors
      /\ pc[t] \notin Freeing \cup Locking
  BY <1>1, <1>2, CreateAt
<1>4. CASE UNCHANGED free_map /\ Go(t, "undo", g)
  <2>1. "undo" \in Creating
    BY DEF Creating
  <2>2. "undo" \in Pcs /\ "undo" \notin Freeing \cup Locking /\ Shape("undo", g)
    BY <1>1, <1>2, <1>3, <1>4, <2>1, CreateGoes
  <2>3. Plain(t, "undo", g)
    BY <1>1, <1>2, <1>3, <2>2 DEF Plain, SameClaim, Erasing
  <2>4. list_lock' \in Threads \cup {None}
    BY <1>1 DEF FsInv, FsTypes
  <2> QED BY <1>1, <1>2, <1>3, <1>4, <2>2, <2>3, <2>4, MoveOn
<1>5. ASSUME NEW s \in Sectors, free_map_allocate(g.size, s), Go(t, "write_inode", [g EXCEPT !.start = s])
      PROVE FsInv'
  <2>2. PICK c : c = [g EXCEPT !.start = s]
    OBVIOUS
  <2>4. c \in CallType /\ c.closing = None /\ c.dir = g.dir /\ c.inode = None /\ c.sector = g.sector /\ c.start = s /\ c.size = g.size
    BY <1>3, <2>2 DEF CallType
  <2>5. Go(t, "write_inode", c)
    BY <1>5, <2>2
  <2>6. "write_inode" \in Creating
    BY DEF Creating
  <2>7. "write_inode" \in Pcs /\ "write_inode" \notin Freeing \cup Locking /\ Shape("write_inode", c)
        /\ \A d \in Blocks : Count(d)' = Count(d)
    BY <1>1, <1>2, <2>4, <2>5, <2>6, CreateGoes
  <2>8. PICK X : X = Extent(s, g.size)
    OBVIOUS
  <2>9. X \cap free_map = {} /\ free_map' = free_map \cup X /\ X \subseteq Sectors
    <3>1. s + g.size <= SectorCount
      BY <1>5 DEF free_map_allocate, bitmap_scan
    <3>2. X \subseteq Sectors
      BY <1>3, <2>8, <3>1, FsAssumption DEF Extent, Sectors
    <3> QED BY <1>5, <2>8, <3>2 DEF free_map_allocate, bitmap_scan
  <2>10. pc'[t] = "write_inode" /\ call'[t] = c
    BY <2>5, GoAt DEF FsInv
  <2>11. CreateClaim(t)' = CreateClaim(t) \cup X /\ g.sector \in CreateClaim(t)
    BY <1>1, <1>2, <2>4, <2>8, <2>10 DEF CreateClaim, Extent
  <2>12. g.sector \in free_map
    BY <2>11, OwnedFacts DEF FsInv
  <2>13. Owned'
    BY <1>1, <1>3, <2>5, <2>7, <2>9, <2>11, TakesSectors
  <2>14. free_map' \subseteq Sectors /\ lost' \subseteq Sectors
    BY <1>1, <2>9 DEF FsInv, FsTypes
  <2>15. Separate(c.sector, c.start, c.size)
    BY <2>4, <2>8, <2>9, <2>12 DEF Separate
  <2> QED BY <1>1, <1>2, <1>3, <2>4, <2>5, <2>7, <2>13, <2>14, <2>15, MapStep
<1> QED BY <1>2, <1>4, <1>5 DEF AllocateData, free_map_fails

LEMMA UndoStep ==
  ASSUME FsInv, NEW t \in Threads, Undo(t)
  PROVE FsInv'
<1>1. UNCHANGED <<disk, entries, inode, open_inodes, list_lock, file_table, lost, orphans>> /\ pc[t] = "undo"
      /\ pc[t] \in {"create"} \cup Creating /\ dir_close(t) /\ free_map_release(call[t].sector, 1)
  BY DEF Undo, At, Creating
<1>2. PICK s : s = call[t].sector
  OBVIOUS
<1>3. s \in Sectors /\ pc[t] \notin Freeing \cup Locking /\ pc[t] \in InDir \ {"remove_erase", "remove_done"}
  BY <1>1, <1>2, CreateAt
<1>4. Extent(s, 1) = {s}
  BY <1>3 DEF Extent, Sectors
<1>5. free_map' = free_map \ {s}
  BY <1>1, <1>2, <1>4 DEF free_map_release
<1>6. PICK to \in {"user", "close"}, c \in CallType :
          /\ Go(t, to, c) /\ Shape(to, c) /\ c.dir = None
          /\ \A d \in Blocks : Count(d)' = Count(d)
  BY <1>1, <1>3, DirCloses DEF FsInv
<1>7. to \in Pcs /\ to \notin Freeing \cup Locking /\ to \notin Creating
  BY DEF Pcs, Nexts, Going, Freeing, Locking, Erasing, Creating
<1>8. pc'[t] = to
  BY <1>6, GoAt DEF FsInv
<1>9. CreateClaim(t) = {s} /\ CreateClaim(t)' = {}
  BY <1>1, <1>2, <1>7, <1>8 DEF CreateClaim, Creating
<1>10. Owned'
  <2>1. {s} \subseteq CreateClaim(t) /\ CreateClaim(t)' = CreateClaim(t) \ {s}
    BY <1>9
  <2> QED BY <1>1, <1>3, <1>5, <1>6, <1>7, <2>1, GivesSectors
<1>11. free_map' \subseteq Sectors /\ lost' \subseteq Sectors
  BY <1>1, <1>5 DEF FsInv, FsTypes
<1>12. to # "write_inode" /\ to # "dir_add"
  BY <1>7 DEF Creating
<1> QED BY <1>1, <1>3, <1>6, <1>7, <1>10, <1>11, <1>12, MapStep

\* dir_add that fails: the data's sectors are lost.
LEMMA AddFails ==
  ASSUME FsInv, NEW t \in Threads, pc[t] = "dir_add", Go(t, "undo", call[t]),
         lost' = lost \cup Extent(call[t].start, call[t].size),
         UNCHANGED <<free_map, disk, entries, inode, open_inodes, list_lock, file_table, orphans>>
  PROVE FsInv'
<1>1. pc[t] \in {"create"} \cup Creating /\ "undo" \in Creating
  BY DEF Creating
<1>2. PICK g : g = call[t]
  OBVIOUS
<1>3. g \in CallType /\ g.closing = None /\ g.inode = None /\ g.dir = call[t].dir /\ pc[t] \notin Freeing \cup Locking
  BY <1>1, <1>2, CreateAt
<1>4. Go(t, "undo", g)
  BY <1>2
<1>5. "undo" \in Pcs /\ "undo" \notin Freeing \cup Locking /\ Shape("undo", g) /\ \A d \in Blocks : Count(d)' = Count(d)
  BY <1>1, <1>3, <1>4, CreateGoes
<1>6. PICK X : X = Extent(g.start, g.size)
  OBVIOUS
<1>7. g.sector \notin X
  BY <1>2, <1>6 DEF FsInv, Apart, Separate
<1>8. pc'[t] = "undo" /\ call'[t] = g
  BY <1>4, GoAt DEF FsInv
<1>9. CreateClaim(t) = {g.sector} \cup X /\ CreateClaim(t)' = {g.sector}
  BY <1>2, <1>6, <1>8 DEF CreateClaim
<1>10. X \subseteq CreateClaim(t) /\ CreateClaim(t)' = CreateClaim(t) \ X
  BY <1>7, <1>9
<1>11. lost' = lost \cup X
  BY <1>2, <1>6
<1>12. Owned'
  BY <1>3, <1>4, <1>5, <1>10, <1>11, LosesSectors
<1>13. free_map' \subseteq Sectors /\ lost' \subseteq Sectors
  <2>1. X \subseteq free_map
    BY <1>10, OwnedFacts DEF FsInv
  <2> QED BY <1>11, <2>1 DEF FsInv, FsTypes
<1> QED BY <1>3, <1>4, <1>5, <1>12, <1>13, MapStep

-----------------------------------------------------------------------------
(***************************************************************************)
(* Writing a new inode: its sectors are nobody else's.                     *)
(***************************************************************************)
LEMMA CreatesApart ==
  ASSUME Owned, NEW t \in Threads, NEW u \in Threads, t # u
  PROVE CreateClaim(t) \cap CreateClaim(u) = {}
<1>1. OwnedBy(ClaimMap, free_map, lost)
  BY OwnedAs
<1>2. <<"create", t>> # <<"create", u>>
  OBVIOUS
<1>3. PICK o \in Owners, p \in Owners : o = <<"create", t>> /\ p = <<"create", u>>
  BY OwnerKinds
<1>4. ClaimMap[o] = CreateClaim(t) /\ ClaimMap[p] = CreateClaim(u) /\ o # p
  BY <1>2, <1>3, ClaimsAre
<1> QED BY <1>1, <1>4 DEF OwnedBy

\* The sector of an open inode is that of the directory, of an entry, or the inode's own.
LEMMA OpenSector ==
  ASSUME FsInv, NEW b \in open_inodes
  PROVE /\ b \in Blocks /\ inode[b] # NoInode /\ inode[b].sector \in Sectors
        /\ \/ inode[b].sector = ROOT_DIR_SECTOR
           \/ \E i \in 1 .. DirSlots : entries[i].in_use /\ entries[i].inode_sector = inode[b].sector
           \/ inode[b].removed /\ inode[b].sector \in InodeClaim(b)
        /\ ~Closing(b, "free_data")
<1>1. FsTypes /\ Counted /\ Inodes
  BY DEF FsInv
<1>2. b \in Blocks /\ inode[b] # NoInode
  BY <1>1 DEF FsTypes, Counted, NoInode
<1>3. inode[b].sector \in Sectors
  BY <1>1, <1>2 DEF FsTypes, InodeType
<1>4. ~Closing(b, "free_data")
  BY <1>1 DEF Closing, Inodes, Frees, Freeing
<1>5. OnList(b)
  BY <1>1 DEF Inodes
<1>6. CASE inode[b].sector = ROOT_DIR_SECTOR \/ Linked(inode[b].sector)
  BY <1>2, <1>3, <1>4, <1>6 DEF Linked
<1>7. CASE ~(inode[b].sector = ROOT_DIR_SECTOR \/ Linked(inode[b].sector))
  <2>1. inode[b].removed
    BY <1>5, <1>7 DEF OnList
  <2>2. inode[b].sector \in InodeClaim(b)
    BY <1>2, <1>4, <1>7 DEF InodeClaim, SectorsOf
  <2> QED BY <1>2, <1>3, <1>4, <2>1, <2>2
<1> QED BY <1>6, <1>7

LEMMA CreateAvoids ==
  ASSUME FsInv, NEW t \in Threads
  PROVE /\ \A b \in open_inodes : inode[b].sector \notin CreateClaim(t)
        /\ \A i \in 1 .. DirSlots : entries[i].in_use => entries[i].inode_sector \notin CreateClaim(t)
<1>1. Owned
  BY DEF FsInv
<1>2. ASSUME NEW i \in 1 .. DirSlots, entries[i].in_use PROVE entries[i].inode_sector \notin CreateClaim(t)
  <2>1. entries[i].inode_sector \in EntryClaim(i)
    BY <1>2 DEF EntryClaim, SectorsOf
  <2>2. EntryClaim(i) \cap CreateClaim(t) = {}
    BY <1>1, OwnedFacts
  <2> QED BY <2>1, <2>2
<1>3. ASSUME NEW b \in open_inodes PROVE inode[b].sector \notin CreateClaim(t)
  <2>1. CreateClaim(t) \cap Reserved = {} /\ ROOT_DIR_SECTOR \in Reserved
    BY <1>1, OwnedFacts DEF Reserved, free_map_init
  <2>2. InodeClaim(b) \cap CreateClaim(t) = {}
    BY <1>1, OpenSector, OwnedFacts
  <2> QED BY <1>2, <2>1, <2>2, OpenSector
<1> QED BY <1>2, <1>3

LEMMA WriteInodeStep ==
  ASSUME FsInv, NEW t \in Threads, WriteInode(t)
  PROVE FsInv'
<1>1. FsTypes /\ Shapes /\ Counted /\ Dirs /\ Removals /\ FilesHeld /\ Inodes /\ Apart /\ Written /\ Owned /\ NamesUnique
      /\ UNCHANGED <<free_map, entries, inode, open_inodes, list_lock, file_table, lost, orphans>> /\ pc[t] = "write_inode"
      /\ pc[t] \in {"create"} \cup Creating
  BY DEF FsInv, WriteInode, At, Creating
<1>2. PICK g : g = call[t]
  OBVIOUS
<1>3. PICK X : X = Extent(g.start, g.size)
  OBVIOUS
<1>4. PICK s : s = g.sector
  OBVIOUS
<1>5. g \in CallType /\ g.closing = None /\ g.inode = None /\ g.dir = call[t].dir /\ pc[t] \notin Freeing \cup Locking
      /\ s \in Sectors /\ g.start \in Sectors /\ g.size \in Nat /\ g.dir \in Blocks
  BY <1>1, <1>2, <1>4, CreateAt
<1>6. CreateClaim(t) = {s} \cup X
  BY <1>1, <1>2, <1>3, <1>4 DEF CreateClaim
<1>7. Go(t, "dir_add", g)
  BY <1>2 DEF WriteInode
<1>8. "dir_add" \in Creating
  BY DEF Creating
<1>9. "dir_add" \in Pcs /\ "dir_add" \notin Freeing \cup Locking /\ Shape("dir_add", g) /\ \A d \in Blocks : Count(d)' = Count(d)
  BY <1>1, <1>5, <1>7, <1>8, CreateGoes
<1>10. pc'[t] = "dir_add" /\ call'[t] = g /\ \A u \in Threads : u # t => pc'[u] = pc[u] /\ call'[u] = call[u]
  BY <1>1, <1>7, GoAt
<1>11. pc' \in [Threads -> Pcs] /\ call' \in [Threads -> CallType] /\ Shapes'
  BY <1>1, <1>5, <1>7, <1>9, ControlType
<1>12. /\ disk' \in [Sectors -> [start : Sectors, length : Nat]]
       /\ disk'[s] = [start |-> g.start, length |-> g.size]
       /\ \A z \in Sectors : z \notin CreateClaim(t) => disk'[z] = disk[z]
  <2>1. disk' = [z \in Sectors |-> IF z = s THEN [start |-> g.start, length |-> g.size]
                                   ELSE IF z \in X THEN [start |-> 0, length |-> 0] ELSE disk[z]]
    BY <1>2, <1>3, <1>4 DEF WriteInode
  <2>2. 0 \in Sectors
    BY FsAssumption DEF Sectors
  <2>3. [start |-> 0, length |-> 0] \in [start : Sectors, length : Nat]
        /\ [start |-> g.start, length |-> g.size] \in [start : Sectors, length : Nat]
    BY <1>5, <2>2
  <2>4. disk' \in [Sectors -> [start : Sectors, length : Nat]]
    BY <1>1, <2>1, <2>3 DEF FsTypes
  <2>5. disk'[s] = [start |-> g.start, length |-> g.size]
    BY <1>5, <2>1
  <2>6. \A z \in Sectors : z \notin CreateClaim(t) => disk'[z] = disk[z]
    BY <1>6, <2>1
  <2> QED BY <2>4, <2>5, <2>6
<1>13. FsTypes'
  BY <1>1, <1>11, <1>12, TypesAfter DEF FsTypes
<1>14. Counted'
  BY <1>1, <1>9, CountedSame
<1>15. FilesHeld'
  BY <1>1, FilesSame
<1>16. Dirs' /\ Removals'
  <2>1. g.dir # None => inode'[g.dir].sector = ROOT_DIR_SECTOR
    BY <1>1, <1>2 DEF Dirs
  <2>2. "dir_add" \notin Erasing /\ "dir_add" # "remove_erase" /\ "dir_add" \notin Locking /\ pc[t] \notin Locking
    BY <1>5, <1>9 DEF Erasing
  <2> QED BY <1>1, <1>7, <2>1, <2>2, LocksSame
<1>17. \A z : Linked(z)' <=> Linked(z)
  BY <1>1, LinkedSame
<1>18. \A u \in Threads : (pc'[u] \in Freeing <=> pc[u] \in Freeing) /\ (pc'[u] \in Freeing => pc'[u] = pc[u] /\ call'[u] = call[u])
  BY <1>5, <1>9, <1>10
<1>19. Inodes'
  <2>1. Shared'
    BY <1>1 DEF Inodes, Shared
  <2>2. (\A b \in open_inodes : OnList(b))'
    <3> SUFFICES ASSUME NEW b \in open_inodes PROVE OnList(b)'
      BY <1>1
    <3>1. OnList(b)
      BY <1>1 DEF Inodes
    <3>2. inode[b].sector \in Sectors /\ inode[b].sector \notin CreateClaim(t)
      BY OpenSector, CreateAvoids
    <3>3. disk'[inode[b].sector] = disk[inode[b].sector]
      BY <1>12, <3>2
    <3> QED BY <1>1, <1>17, <3>1, <3>3 DEF OnList, ROOT_DIR_SECTOR
  <2>3. (\A d \in Blocks \ open_inodes : OffList(d))'
    <3>1. \A u \in Threads, d \in Blocks : FreedBy(u, d)' <=> FreedBy(u, d)
      BY <1>18 DEF FreedBy, Freeing
    <3> QED BY <1>1, <3>1 DEF Inodes, OffList, NoInode
  <2>4. (\A u \in Threads : pc[u] \in Freeing => call[u].closing \notin open_inodes /\ inode[call[u].closing] # NoInode)'
    <3>1. NoInode' = NoInode /\ open_inodes' = open_inodes /\ inode' = inode
      BY <1>1 DEF NoInode
    <3>2. ASSUME NEW u \in Threads, pc'[u] \in Freeing
          PROVE  call'[u].closing \notin open_inodes' /\ inode'[call'[u].closing] # NoInode
      <4>1. pc[u] \in Freeing /\ call'[u] = call[u]
        BY <1>18, <3>2, Zenon
      <4>2. call[u].closing \notin open_inodes /\ inode[call[u].closing] # NoInode
        BY <1>1, <4>1, Zenon DEF Inodes, Frees
      <4> QED BY <3>1, <4>1, <4>2, Zenon
    <3> QED BY <3>1, <3>2, Zenon DEF Freeing
  <2>5. (\A u, v \in Threads : pc[u] \in Freeing /\ pc[v] \in Freeing /\ call[u].closing = call[v].closing => u = v)'
    BY <1>1, <1>18 DEF Inodes, Frees, Freeing
  <2>6. (\A u \in Threads : pc[u] = "free_inode" =>
            LET z == inode[call[u].closing].sector IN z # ROOT_DIR_SECTOR /\ ~Linked(z))'
    BY <1>1, <1>17, <1>18 DEF Inodes, Frees, Linked, ROOT_DIR_SECTOR, Freeing
  <2> QED BY <2>1, <2>2, <2>3, <2>4, <2>5, <2>6 DEF Inodes, Frees
<1>20. ASSUME NEW i \in 1 .. DirSlots, entries[i].in_use PROVE disk'[entries[i].inode_sector] = disk[entries[i].inode_sector]
  <2>1. entries[i].inode_sector \in Sectors
    BY <1>1 DEF FsTypes, EntryType
  <2> QED BY <1>12, <1>20, <2>1, CreateAvoids
<1>21. Apart'
  <2>1. (\A i \in 1 .. DirSlots : LET z == entries[i].inode_sector
         IN entries[i].in_use => Separate(z, disk[z].start, disk[z].length))'
    BY <1>1, <1>20 DEF Apart, Separate, Extent
  <2>2. (\A d \in Blocks : inode[d].removed => Separate(inode[d].sector, inode[d].start, inode[d].length))'
    BY <1>1 DEF Apart, Separate, Extent
  <2>3. (\A u \in Threads : pc[u] \in {"write_inode", "dir_add"}
         => Separate(call[u].sector, call[u].start, call[u].size))'
    BY <1>1, <1>2, <1>10 DEF Apart, Separate, Extent
  <2> QED BY <2>1, <2>2, <2>3 DEF Apart
<1>22. Written'
  <2> SUFFICES ASSUME NEW u \in Threads, pc'[u] = "dir_add"
      PROVE disk'[call'[u].sector] = [start |-> call'[u].start, length |-> call'[u].size]
    BY DEF Written
  <2>1. CASE u = t
    BY <1>4, <1>10, <1>12, <2>1
  <2>2. CASE u # t
    <3>1. pc[u] = "dir_add" /\ call'[u] = call[u]
      BY <1>10, <2>2
    <3>2. call[u].sector \in CreateClaim(u) /\ call[u].sector \in Sectors
      BY <1>1, <3>1 DEF CreateClaim, FsTypes, CallType
    <3>3. disk'[call[u].sector] = disk[call[u].sector]
      BY <1>1, <1>12, <2>2, <3>2, CreatesApart
    <3> QED BY <1>1, <3>1, <3>3 DEF Written
  <2> QED BY <2>1, <2>2
<1>23. NamesUnique'
  BY <1>1 DEF NamesUnique
<1>24. Owned'
  <2>1. \A i \in 1 .. DirSlots : EntryClaim(i)' = EntryClaim(i)
    BY <1>1, <1>20 DEF EntryClaim, SectorsOf, Extent
  <2>2. \A u \in Threads : CreateClaim(u)' = CreateClaim(u)
    BY <1>1, <1>2, <1>10 DEF CreateClaim, Extent
  <2>3. ASSUME NEW d \in Blocks PROVE InodeClaim(d)' = InodeClaim(d)
    <3>1. Closing(d, "free_data")' <=> Closing(d, "free_data")
      BY <1>18 DEF Closing, Freeing
    <3> QED BY <1>1, <1>17, <3>1 DEF InodeClaim, SectorsOf, Extent, ROOT_DIR_SECTOR, NoInode
  <2>4. \A o \in Owners : ClaimMap'[o] = ClaimMap[o]
    BY <2>1, <2>2, <2>3, OwnerKinds, ClaimsAre, ClaimsAfter
  <2>5. OwnedBy(ClaimMap', free_map, lost)
    BY <1>1, <2>4, OwnedAs, OwnSame
  <2> QED BY <1>1, <2>5, OwnedAsAfter
<1> QED BY <1>11, <1>13, <1>14, <1>15, <1>16, <1>19, <1>21, <1>22, <1>23, <1>24 DEF FsInv

-----------------------------------------------------------------------------
(***************************************************************************)
(* Adding an entry: what the create has claimed is the entry's.            *)
(***************************************************************************)
\* What a step must keep for the inodes off the list and for those who free them.
LEMMA FreesSame ==
  ASSUME Inodes, UNCHANGED <<inode, open_inodes>>, NEW t \in Threads, NEW to, NEW c,
         pc[t] \notin Freeing, to \notin Freeing, pc'[t] = to, call'[t] = c,
         \A u \in Threads : u # t => pc'[u] = pc[u] /\ call'[u] = call[u],
         \A u \in Threads : pc[u] = "free_inode" => ~Linked(inode[call[u].closing].sector)'
  PROVE (\A b \in Blocks \ open_inodes : OffList(b))' /\ Frees' /\ \A b : Closing(b, "free_data")' <=> Closing(b, "free_data")
<1>1. \A u \in Threads : (pc'[u] \in Freeing <=> pc[u] \in Freeing) /\ (pc'[u] \in Freeing => pc'[u] = pc[u] /\ call'[u] = call[u])
  OBVIOUS
<1>2. (\A d \in Blocks \ open_inodes : OffList(d))'
  <2>1. \A u \in Threads, d \in Blocks : FreedBy(u, d)' <=> FreedBy(u, d)
    BY <1>1 DEF FreedBy, Freeing
  <2> QED BY <2>1 DEF Inodes, OffList, NoInode
<1>3. (\A u \in Threads : pc[u] \in Freeing => call[u].closing \notin open_inodes /\ inode[call[u].closing] # NoInode)'
  <2> SUFFICES ASSUME NEW u \in Threads, pc'[u] \in Freeing
      PROVE call'[u].closing \notin open_inodes /\ inode[call'[u].closing] # NoInode
    BY DEF Freeing, NoInode
  <2> QED BY <1>1 DEF Inodes, Frees
<1>4. (\A u, v \in Threads : pc[u] \in Freeing /\ pc[v] \in Freeing /\ call[u].closing = call[v].closing => u = v)'
  BY <1>1 DEF Inodes, Frees, Freeing
<1>5. (\A u \in Threads : pc[u] = "free_inode" =>
            LET z == inode[call[u].closing].sector IN z # ROOT_DIR_SECTOR /\ ~Linked(z))'
  <2> SUFFICES ASSUME NEW u \in Threads, pc'[u] = "free_inode"
      PROVE (inode[call[u].closing].sector # ROOT_DIR_SECTOR /\ ~Linked(inode[call[u].closing].sector))'
    OBVIOUS
  <2>1. pc[u] = "free_inode" /\ call'[u] = call[u]
    BY <1>1 DEF Freeing
  <2> QED BY <2>1 DEF Inodes, Frees, ROOT_DIR_SECTOR
<1>6. \A b : Closing(b, "free_data")' <=> Closing(b, "free_data")
  BY <1>1 DEF Closing, Freeing
<1> QED BY <1>2, <1>3, <1>4, <1>5, <1>6 DEF Frees

LEMMA FreeingSector ==
  ASSUME FsInv, NEW u \in Threads, pc[u] = "free_inode"
  PROVE call[u].closing \in Blocks /\ inode[call[u].closing].sector \in InodeClaim(call[u].closing)
<1>1. FsTypes /\ Shapes /\ Inodes /\ Apart /\ pc[u] \in Freeing
  BY DEF FsInv, Freeing
<1>2. PICK b : b = call[u].closing
  OBVIOUS
<1>3. b \in Blocks /\ InodeClaim(b) = SectorsOf(inode[b].sector, inode[b])
  BY <1>1, <1>2, FreeingFacts
<1> QED BY <1>2, <1>3 DEF SectorsOf

LEMMA AddSucceeds ==
  ASSUME FsInv, NEW t \in Threads, pc[t] = "dir_add", NEW i \in 1 .. DirSlots, ~entries[i].in_use,
         \A j \in 1 .. DirSlots : ~Matches(j, call[t].name), dir_close(t),
         entries' = [entries EXCEPT ![i] = [name |-> call[t].name, inode_sector |-> call[t].sector, in_use |-> TRUE]],
         UNCHANGED <<free_map, disk, inode, open_inodes, list_lock, file_table, lost, orphans>>
  PROVE FsInv'
<1>1. FsTypes /\ Shapes /\ Counted /\ Dirs /\ Removals /\ FilesHeld /\ Inodes /\ Apart /\ Written /\ Owned /\ NamesUnique
      /\ pc[t] \in {"create"} \cup Creating
  BY DEF FsInv, Creating
<1>2. PICK g : g = call[t]
  OBVIOUS
<1>3. PICK s : s = g.sector
  OBVIOUS
<1>4. s \in Sectors /\ g.size \in Nat /\ g.start \in Sectors /\ g.name \in Names \cup {None}
      /\ pc[t] \notin Freeing \cup Locking /\ pc[t] \in InDir \ {"remove_erase", "remove_done"}
  BY <1>1, <1>2, <1>3, CreateAt
<1>5. PICK to \in {"user", "close"}, c \in CallType :
          /\ Go(t, to, c) /\ Shape(to, c) /\ c.dir = None
          /\ \A d \in Blocks : Count(d)' = Count(d)
  BY <1>1, <1>4, DirCloses
<1>6. to \in Pcs /\ to \notin Freeing \cup Locking \cup Erasing /\ to \notin Creating /\ to # "remove_erase"
  BY DEF Pcs, Nexts, Going, Freeing, Locking, Erasing, Creating
<1>7. pc' \in [Threads -> Pcs] /\ call' \in [Threads -> CallType] /\ Shapes'
  BY <1>1, <1>5, <1>6, ControlType
<1>8. pc'[t] = to /\ call'[t] = c /\ \A u \in Threads : u # t => pc'[u] = pc[u] /\ call'[u] = call[u]
  BY <1>1, <1>5, GoAt
<1>9. PICK e : e = [name |-> g.name, inode_sector |-> s, in_use |-> TRUE]
  OBVIOUS
<1>10. e \in EntryType /\ e.in_use /\ e.inode_sector = s /\ e.name = g.name
  BY <1>4, <1>9 DEF EntryType
<1>11. /\ entries' \in [1 .. DirSlots -> EntryType] /\ entries'[i] = e
       /\ \A j \in 1 .. DirSlots : j # i => entries'[j] = entries[j]
  <2> DEFINE Slots == 1 .. DirSlots
  <2>1. entries \in [Slots -> EntryType] /\ i \in Slots
    BY <1>1 DEF FsTypes
  <2>2. entries' = [entries EXCEPT ![i] = e]
    BY <1>2, <1>3, <1>9
  <2> HIDE DEF Slots
  <2>3. entries' \in [Slots -> EntryType] /\ entries'[i] = e /\ \A j \in Slots : j # i => entries'[j] = entries[j]
    BY <1>10, <2>1, <2>2
  <2> QED BY <2>3 DEF Slots
<1>12. FsTypes'
  BY <1>1, <1>7, <1>11, TypesAfter DEF FsTypes
<1>13. Counted'
  BY <1>1, <1>5, CountedSame
<1>14. FilesHeld'
  BY <1>1, FilesSame
<1>15. \A z : Linked(z)' <=> Linked(z) \/ z = s
  <2> DEFINE Slots == 1 .. DirSlots
  <2>1. \A z : Linked(z) <=> \E j \in Slots : entries[j].in_use /\ entries[j].inode_sector = z
    BY DEF Linked
  <2>2. \A z : Linked(z)' <=> \E j \in Slots : entries'[j].in_use /\ entries'[j].inode_sector = z
    BY DEF Linked
  <2>3. i \in Slots /\ \A j \in Slots : j # i => entries'[j] = entries[j]
    BY <1>11
  <2> HIDE DEF Slots
  <2> QED BY <1>10, <1>11, <2>1, <2>2, <2>3
<1>16. CreateClaim(t) = SectorsOf(s, disk[s]) /\ s \in CreateClaim(t) /\ CreateClaim(t)' = {}
  <2>1. disk[s] = [start |-> g.start, length |-> g.size]
    BY <1>1, <1>2, <1>3 DEF Written
  <2>2. CreateClaim(t) = {s} \cup Extent(g.start, g.size)
    BY <1>2, <1>3 DEF CreateClaim
  <2>3. CreateClaim(t)' = {}
    BY <1>6, <1>8 DEF CreateClaim, Creating
  <2> QED BY <2>1, <2>2, <2>3 DEF SectorsOf
<1>17. \A b \in open_inodes : inode[b].sector # s
  BY <1>16, CreateAvoids
<1>18. ASSUME NEW u \in Threads, pc[u] = "free_inode" PROVE ~Linked(inode[call[u].closing].sector)'
  <2>1. inode[call[u].closing].sector # s
    BY <1>1, <1>16, <1>18, FreeingSector, OwnedFacts
  <2>2. ~Linked(inode[call[u].closing].sector)
    BY <1>1, <1>18 DEF Inodes, Frees
  <2>3. inode'[call'[u].closing] = inode[call[u].closing]
    BY <1>4, <1>8, <1>18 DEF Freeing
  <2> QED BY <1>15, <2>1, <2>2, <2>3
<1>19. (\A b \in Blocks \ open_inodes : OffList(b))' /\ Frees' /\ \A b : Closing(b, "free_data")' <=> Closing(b, "free_data")
  <2> DEFINE Slots == 1 .. DirSlots
  <2> QED BY <1>1, <1>4, <1>6, <1>8, <1>18, FreesSame
<1>20. Inodes'
  <2>1. Shared'
    BY <1>1 DEF Inodes, Shared
  <2>2. (\A b \in open_inodes : OnList(b))'
    <3> SUFFICES ASSUME NEW b \in open_inodes PROVE OnList(b)'
      OBVIOUS
    <3>1. OnList(b)
      BY <1>1 DEF Inodes
    <3>2. Linked(inode[b].sector)' <=> Linked(inode[b].sector)
      BY <1>15, <1>17
    <3> QED BY <3>1, <3>2 DEF OnList, ROOT_DIR_SECTOR
  <2> QED BY <1>19, <2>1, <2>2 DEF Inodes
<1>21. Dirs'
  <2>1. (\A u \in Threads : call[u].dir # None => inode[call[u].dir].sector = ROOT_DIR_SECTOR)'
    BY <1>1, <1>5, <1>8 DEF Dirs, ROOT_DIR_SECTOR
  <2>2. (\A u \in Threads : pc[u] \in Locking <=> \E b \in Blocks : inode[b].lock = u)'
    <3> SUFFICES ASSUME NEW u \in Threads PROVE pc'[u] \in Locking <=> \E b \in Blocks : inode[b].lock = u
      BY DEF Locking, Erasing
    <3>1. pc'[u] \in Locking <=> pc[u] \in Locking
      BY <1>4, <1>6, <1>8
    <3> QED BY <1>1, <3>1 DEF Dirs
  <2>3. (\A b \in Blocks : inode[b].lock # None => call[inode[b].lock].dir = b)'
    <3> SUFFICES ASSUME NEW b \in Blocks, inode[b].lock # None PROVE call'[inode[b].lock].dir = b
      OBVIOUS
    <3>1. inode[b].lock \in Threads /\ call[inode[b].lock].dir = b /\ pc[inode[b].lock] \in Locking
      BY <1>1 DEF FsTypes, InodeType, Dirs
    <3> QED BY <1>4, <1>8, <3>1
  <2> QED BY <2>1, <2>2, <2>3 DEF Dirs
<1>22. Removals'
  <2> SUFFICES ASSUME NEW u \in Threads
      PROVE /\ pc'[u] \in Erasing => FoundAt(call[u], call[u].ofs)'
            /\ pc'[u] = "remove_erase" => inode'[call'[u].inode].sector = call'[u].sector
    BY DEF Removals, Erasing
  <2>1. CASE u = t
    BY <1>6, <1>8, <2>1
  <2>2. CASE u # t
    <3>1. pc'[u] = pc[u] /\ call'[u] = call[u]
      BY <1>8, <2>2
    <3>2. FoundAt(call[u], call[u].ofs) => FoundAt(call[u], call[u].ofs)'
      <4> SUFFICES ASSUME FoundAt(call[u], call[u].ofs) PROVE FoundAt(call[u], call[u].ofs)'
        OBVIOUS
      <4>1. PICK j : j = call[u].ofs
        OBVIOUS
      <4>2. j \in 1 .. DirSlots /\ entries[j].in_use
        BY <4>1 DEF FoundAt
      <4>3. entries'[j] = entries[j]
        BY <1>11, <4>2
      <4> QED BY <3>1, <4>1, <4>2, <4>3 DEF FoundAt
    <3> QED BY <1>1, <3>1, <3>2 DEF Removals
  <2> QED BY <2>1, <2>2
<1>23. Apart'
  <2>1. (\A j \in 1 .. DirSlots : LET z == entries[j].inode_sector
         IN entries[j].in_use => Separate(z, disk[z].start, disk[z].length))'
    <3> SUFFICES ASSUME NEW j \in 1 .. DirSlots, entries'[j].in_use
        PROVE Separate(entries'[j].inode_sector, disk[entries'[j].inode_sector].start, disk[entries'[j].inode_sector].length)
      BY DEF Separate, Extent
    <3>1. CASE j = i
      <4>1. entries'[j].inode_sector = s /\ disk[s] = [start |-> g.start, length |-> g.size]
        BY <1>1, <1>2, <1>3, <1>10, <1>11, <3>1 DEF Written
      <4>2. Separate(s, g.start, g.size)
        BY <1>1, <1>2, <1>3 DEF Apart
      <4> QED BY <4>1, <4>2
    <3>2. CASE j # i
      BY <1>1, <1>11, <3>2 DEF Apart
    <3> QED BY <3>1, <3>2
  <2>2. (\A d \in Blocks : inode[d].removed => Separate(inode[d].sector, inode[d].start, inode[d].length))'
    BY <1>1 DEF Apart, Separate, Extent
  <2>3. (\A u \in Threads : pc[u] \in {"write_inode", "dir_add"}
         => Separate(call[u].sector, call[u].start, call[u].size))'
    BY <1>1, <1>6, <1>8 DEF Apart, Separate, Extent, Creating
  <2> QED BY <2>1, <2>2, <2>3 DEF Apart
<1>24. Written'
  BY <1>1, <1>6, <1>8 DEF Written, Creating
<1>25. NamesUnique'
  <2> SUFFICES ASSUME NEW j \in 1 .. DirSlots, NEW k \in 1 .. DirSlots, entries'[j].in_use, entries'[k].in_use,
                      entries'[j].name = entries'[k].name PROVE j = k
    BY DEF NamesUnique
  <2>1. \A l \in 1 .. DirSlots : l # i /\ entries'[l].in_use => entries'[l].name # g.name
    BY <1>2, <1>11 DEF Matches
  <2>2. CASE j = i \/ k = i
    BY <1>10, <1>11, <2>1, <2>2
  <2>3. CASE j # i /\ k # i
    BY <1>1, <1>11, <2>3 DEF NamesUnique
  <2> QED BY <2>2, <2>3
<1>26. Owned'
  <2>1. \A j \in 1 .. DirSlots : j # i => EntryClaim(j)' = EntryClaim(j)
    BY <1>11 DEF EntryClaim, SectorsOf, Extent
  <2>2. EntryClaim(i) = {} /\ EntryClaim(i)' = CreateClaim(t)
    <3>1. EntryClaim(i)' = SectorsOf(s, disk[s])
      BY <1>10, <1>11 DEF EntryClaim, SectorsOf, Extent
    <3> QED BY <1>16, <3>1 DEF EntryClaim
  <2>3. \A u \in Threads : u # t => CreateClaim(u)' = CreateClaim(u)
    BY <1>8 DEF CreateClaim, Extent
  <2>4. ASSUME NEW d \in Blocks PROVE InodeClaim(d)' = InodeClaim(d)
    <3>1. Closing(d, "free_data")' <=> Closing(d, "free_data")
      BY <1>19
    <3>2. CASE Closing(d, "free_data")
      BY <3>1, <3>2 DEF InodeClaim, Extent
    <3>3. CASE ~Closing(d, "free_data") /\ inode[d] = NoInode
      BY <3>1, <3>3 DEF InodeClaim, NoInode
    <3>4. CASE ~Closing(d, "free_data") /\ inode[d] # NoInode /\ inode[d].sector # s
      <4>1. Linked(inode[d].sector)' <=> Linked(inode[d].sector)
        BY <1>15, <3>4
      <4> QED BY <3>1, <3>4, <4>1 DEF InodeClaim, NoInode, SectorsOf, Extent, ROOT_DIR_SECTOR
    <3>5. CASE ~Closing(d, "free_data") /\ inode[d] # NoInode /\ inode[d].sector = s
      <4>1. d \notin open_inodes
        BY <1>17, <3>5
      <4>2. PICK u \in Threads : FreedBy(u, d)
        BY <1>1, <3>5, <4>1 DEF Inodes, OffList
      <4>3. pc[u] = "free_inode" /\ call[u].closing = d
        BY <3>5, <4>2 DEF FreedBy, Freeing, Closing
      <4>4. s \in InodeClaim(d)
        BY <3>5, <4>3, FreeingSector
      <4> QED BY <1>1, <1>16, <4>4, OwnedFacts
    <3> QED BY <3>2, <3>3, <3>4, <3>5
  <2>5. PICK o \in Owners, q \in Owners : o = <<"create", t>> /\ q = <<"entry", i>>
    BY OwnerKinds
  <2>6. o # q
    BY <2>5
  <2>7. ASSUME NEW p \in Owners, p \notin {o, q} PROVE ClaimMap'[p] = ClaimMap[p]
    <3>1. CASE \E j \in 1 .. DirSlots : p = <<"entry", j>>
      BY <2>1, <2>5, <2>7, <3>1, ClaimsAre, ClaimsAfter
    <3>2. CASE \E d \in Blocks : p = <<"inode", d>>
      BY <2>4, <3>2, ClaimsAre, ClaimsAfter
    <3>3. CASE \E u \in Threads : p = <<"create", u>>
      BY <2>3, <2>5, <2>7, <3>3, ClaimsAre, ClaimsAfter
    <3> QED BY <3>1, <3>2, <3>3, OwnerKinds
  <2>8. ClaimMap[o] = CreateClaim(t) /\ ClaimMap'[o] = {} /\ ClaimMap[q] = {} /\ ClaimMap'[q] = CreateClaim(t)
        /\ DOMAIN ClaimMap = Owners /\ DOMAIN ClaimMap' = Owners
    BY <1>16, <2>2, <2>5, ClaimsAre, ClaimsAfter
  <2>9. OwnedBy(ClaimMap, free_map, lost)
    BY <1>1, OwnedAs
  <2>10. OwnedBy(ClaimMap', free_map, lost)
    BY <2>6, <2>7, <2>8, <2>9, OwnPass
  <2> QED BY <2>10, OwnedAsAfter
<1> QED BY <1>7, <1>12, <1>13, <1>14, <1>20, <1>21, <1>22, <1>23, <1>24, <1>25, <1>26 DEF FsInv

LEMMA dir_addStep ==
  ASSUME ~BounceMayFail, FsInv, NEW t \in Threads, dir_add(t)
  PROVE FsInv'
<1>1. FsTypes /\ Shapes /\ pc[t] = "dir_add"
      /\ UNCHANGED <<free_map, disk, inode, open_inodes, list_lock, file_table, orphans>>
      /\ lost' = IF pc'[t] = "undo" THEN lost \cup Extent(call[t].start, call[t].size) ELSE lost
  BY DEF FsInv, dir_add, At
<1>2. CASE Go(t, "undo", call[t]) /\ UNCHANGED entries
  <2>1. pc'[t] = "undo"
    BY <1>1, <1>2, GoAt
  <2> QED BY <1>1, <1>2, <2>1, AddFails
<1>3. ASSUME NEW found \in lookup(call[t].name), NEW i \in free_slot, found = 0, i <= DirSlots, dir_close(t),
             entries' = [entries EXCEPT ![i] =
                       [name |-> call[t].name, inode_sector |-> call[t].sector, in_use |-> TRUE]]
      PROVE FsInv'
  <2>1. \A j \in 1 .. DirSlots : ~Matches(j, call[t].name)
    BY <1>3 DEF lookup
  <2>2. i \in 1 .. DirSlots /\ ~entries[i].in_use
    BY <1>3, FsAssumption DEF free_slot
  <2>3. pc'[t] # "undo"
    <3>1. pc[t] \in InDir \ {"remove_erase", "remove_done"}
      BY <1>1 DEF InDir
    <3>2. PICK to \in {"user", "close"}, c \in CallType : Go(t, to, c)
      BY <1>1, <1>3, <3>1, DirCloses
    <3> QED BY <1>1, <3>2, GoAt
  <2> QED BY <1>1, <1>3, <2>1, <2>2, <2>3, AddSucceeds
<1> QED BY <1>2, <1>3 DEF dir_add

-----------------------------------------------------------------------------
(***************************************************************************)
(* Erasing an entry: its sectors are those of the removed inode.           *)
(***************************************************************************)
\* One thread at a time holds the directory's lock.
LEMMA OneLocks ==
  ASSUME FsInv, NEW t \in Threads, NEW u \in Threads, pc[t] \in Locking, pc[u] \in Locking
  PROVE t = u
<1>1. FsTypes /\ Shapes /\ Dirs /\ Counted /\ Inodes
  BY DEF FsInv
<1>2. PICK b \in Blocks, d \in Blocks : inode[b].lock = t /\ inode[d].lock = u
  BY <1>1 DEF Dirs
<1>3. t # None /\ u # None
  BY FsAssumption
<1>4. call[t].dir = b /\ call[u].dir = d
  BY <1>1, <1>2, <1>3 DEF Dirs
<1>5. b # None /\ d # None
  BY FsAssumption
<1>6. b \in open_inodes /\ d \in open_inodes
  BY <1>1, <1>4, <1>5, LocalsOpen
<1>7. inode[b].sector = inode[d].sector
  BY <1>1, <1>4, <1>5 DEF Dirs
<1>8. b = d
  BY <1>1, <1>6, <1>7 DEF Inodes, Shared
<1> QED BY <1>2, <1>8

LEMMA ErasingFacts ==
  ASSUME FsInv, NEW t \in Threads, pc[t] = "remove_erase", NEW i, i = call[t].ofs, NEW b, b = call[t].inode,
         NEW s, s = call[t].sector
  PROVE /\ i \in 1 .. DirSlots /\ entries[i].in_use /\ entries[i].inode_sector = s /\ Linked(s)
        /\ \A j \in 1 .. DirSlots : j # i /\ entries[j].in_use => entries[j].inode_sector # s
        /\ b \in open_inodes /\ b \in Blocks /\ inode[b].sector = s /\ s # ROOT_DIR_SECTOR /\ s \in Sectors
        /\ inode[b].start = disk[s].start /\ inode[b].length = disk[s].length
        /\ InodeClaim(b) = {} /\ Separate(s, disk[s].start, disk[s].length)
        /\ ~Closing(b, "free_data")
        /\ \A d \in Blocks : d # b /\ inode[d] # NoInode /\ inode[d].sector = s => Closing(d, "free_data")
<1>1. FsTypes /\ Shapes /\ Counted /\ Removals /\ Inodes /\ Apart /\ Owned /\ pc[t] \in Erasing
  BY DEF FsInv, Erasing
<1>2. i \in 1 .. DirSlots /\ entries[i].in_use /\ entries[i].inode_sector = s
  BY <1>1 DEF Removals, FoundAt
<1>3. Linked(s)
  BY <1>2 DEF Linked
<1>4. s \in EntryClaim(i) /\ s \in Sectors
  BY <1>1, <1>2 DEF EntryClaim, SectorsOf, FsTypes, EntryType
<1>5. ASSUME NEW j \in 1 .. DirSlots, j # i, entries[j].in_use PROVE entries[j].inode_sector # s
  <2>1. entries[j].inode_sector \in EntryClaim(j)
    BY <1>5 DEF EntryClaim, SectorsOf
  <2> QED BY <1>1, <1>2, <1>4, <1>5, <2>1, OwnedFacts
<1>6. s # ROOT_DIR_SECTOR
  BY <1>1, <1>2, <1>4, OwnedFacts DEF Reserved, free_map_init
<1>7. b # None /\ inode[b].sector = s
  BY <1>1 DEF Shapes, Shape, Removals
<1>8. b \in open_inodes /\ b \in Blocks
  BY <1>1, <1>7, LocalsOpen DEF FsTypes
<1>9. inode[b].start = disk[s].start /\ inode[b].length = disk[s].length
  BY <1>1, <1>7, <1>8 DEF Inodes, OnList
<1>10. ~Closing(b, "free_data")
  BY <1>8, OpenSector
<1>11. InodeClaim(b) = {}
  BY <1>3, <1>7, <1>10 DEF InodeClaim
<1>12. Separate(s, disk[s].start, disk[s].length)
  BY <1>1, <1>2 DEF Apart
<1>13. ASSUME NEW d \in Blocks, d # b, inode[d] # NoInode, inode[d].sector = s PROVE Closing(d, "free_data")
  <2>1. d \notin open_inodes
    BY <1>1, <1>7, <1>8, <1>13 DEF Inodes, Shared
  <2>2. PICK u \in Threads : FreedBy(u, d)
    BY <1>1, <1>13, <2>1 DEF Inodes, OffList
  <2>3. pc[u] # "free_inode"
    BY <1>1, <1>3, <1>13, <2>2 DEF FreedBy, Inodes, Frees
  <2> QED BY <2>2, <2>3 DEF FreedBy, Freeing, Closing
<1> QED BY <1>2, <1>3, <1>4, <1>5, <1>6, <1>7, <1>8, <1>9, <1>10, <1>11, <1>12, <1>13

LEMMA RemoveEraseStep ==
  ASSUME ~BounceMayFail, FsInv, NEW t \in Threads, RemoveErase(t)
  PROVE FsInv'
<1>1. FsTypes /\ Shapes /\ Counted /\ Dirs /\ Removals /\ FilesHeld /\ Inodes /\ Apart /\ Written /\ Owned /\ NamesUnique
      /\ UNCHANGED <<free_map, disk, open_inodes, list_lock, file_table, lost, orphans>> /\ pc[t] = "remove_erase"
      /\ Go(t, "remove_done", call[t])
  BY DEF FsInv, RemoveErase, At
<1>2. PICK i, b, s : i = call[t].ofs /\ b = call[t].inode /\ s = call[t].sector
  OBVIOUS
<1>3. /\ i \in 1 .. DirSlots /\ entries[i].in_use /\ entries[i].inode_sector = s /\ Linked(s)
      /\ \A j \in 1 .. DirSlots : j # i /\ entries[j].in_use => entries[j].inode_sector # s
      /\ b \in open_inodes /\ b \in Blocks /\ inode[b].sector = s /\ s # ROOT_DIR_SECTOR /\ s \in Sectors
      /\ inode[b].start = disk[s].start /\ inode[b].length = disk[s].length
      /\ InodeClaim(b) = {} /\ Separate(s, disk[s].start, disk[s].length)
      /\ ~Closing(b, "free_data")
      /\ \A d \in Blocks : d # b /\ inode[d] # NoInode /\ inode[d].sector = s => Closing(d, "free_data")
  BY <1>1, <1>2, ErasingFacts
<1>4. entries' = [entries EXCEPT ![i].in_use = FALSE] /\ inode' = [inode EXCEPT ![b].removed = TRUE]
  BY <1>2 DEF RemoveErase, inode_remove
<1>5. /\ entries' \in [1 .. DirSlots -> EntryType] /\ ~entries'[i].in_use
      /\ \A j \in 1 .. DirSlots : j # i => entries'[j] = entries[j]
  <2> DEFINE Slots == 1 .. DirSlots
  <2>1. entries \in [Slots -> EntryType] /\ i \in Slots
    BY <1>1, <1>3 DEF FsTypes
  <2>2. PICK g : g = entries[i]
    OBVIOUS
  <2>3. PICK e : e = [g EXCEPT !.in_use = FALSE]
    OBVIOUS
  <2> HIDE DEF Slots
  <2>4. g \in EntryType
    BY <2>1, <2>2
  <2>5. e \in EntryType /\ ~e.in_use
    BY <2>3, <2>4 DEF EntryType
  <2>6. entries' = [entries EXCEPT ![i] = e]
    BY <1>4, <2>1, <2>2, <2>3
  <2>7. entries' \in [Slots -> EntryType] /\ entries'[i] = e /\ \A j \in Slots : j # i => entries'[j] = entries[j]
    BY <2>1, <2>5, <2>6
  <2> QED BY <2>5, <2>7 DEF Slots
<1>6. /\ inode' \in [Blocks -> InodeType] /\ inode'[b].removed /\ inode'[b] # NoInode
      /\ \A d \in Blocks : d # b => inode'[d] = inode[d]
      /\ \A d \in Blocks : /\ inode'[d].sector = inode[d].sector /\ inode'[d].open_cnt = inode[d].open_cnt
                           /\ inode'[d].start = inode[d].start /\ inode'[d].length = inode[d].length
                           /\ inode'[d].lock = inode[d].lock
  <2>2. PICK g : g = inode[b]
    OBVIOUS
  <2>3. PICK e : e = [g EXCEPT !.removed = TRUE]
    OBVIOUS
  <2>4. g \in InodeType
    BY <1>1, <1>3, <2>2 DEF FsTypes
  <2>5. e \in InodeType /\ e.removed /\ e.sector = g.sector /\ e.open_cnt = g.open_cnt /\ e.start = g.start
        /\ e.length = g.length /\ e.lock = g.lock
    BY <2>3, <2>4 DEF InodeType
  <2>6. inode' = [inode EXCEPT ![b] = e]
    BY <1>1, <1>3, <1>4, <2>2, <2>3 DEF FsTypes
  <2>7. inode' \in [Blocks -> InodeType] /\ inode'[b] = e /\ \A d \in Blocks : d # b => inode'[d] = inode[d]
    BY <1>1, <1>3, <2>5, <2>6 DEF FsTypes
  <2>8. e # NoInode
    BY <2>5 DEF NoInode
  <2> QED BY <2>2, <2>5, <2>7, <2>8
<1>7. PICK g : g = call[t]
  OBVIOUS
<1>8. g \in CallType /\ Shape("remove_done", g) /\ "remove_done" \in Pcs /\ Go(t, "remove_done", g)
  <2>1. g \in CallType /\ Shape("remove_erase", g)
    BY <1>1, <1>7 DEF FsTypes, Shapes
  <2> QED BY <1>1, <1>7, <2>1 DEF Shape, Place, Going, Freeing, InDir, Pcs
<1>9. pc' \in [Threads -> Pcs] /\ call' \in [Threads -> CallType] /\ Shapes'
  BY <1>1, <1>8, ControlType
<1>10. pc'[t] = "remove_done" /\ call'[t] = g /\ \A u \in Threads : u # t => pc'[u] = pc[u] /\ call'[u] = call[u]
  BY <1>1, <1>8, GoAt
<1>11. FsTypes'
  BY <1>1, <1>5, <1>6, <1>9, TypesAfter DEF FsTypes
<1>12. Counted'
  <2>1. ClosingHeld("remove_done", g) = ClosingHeld(pc[t], call[t])
    BY <1>1 DEF ClosingHeld
  <2>2. \A d \in Blocks : Count(d)' = Count(d)
    BY <1>1, <1>7, <1>8, <2>1, MoveNothing
  <2> QED BY <1>1, <1>6, <2>2, CountedSame
<1>13. FilesHeld'
  <2> SUFFICES ASSUME NEW u \in Threads, NEW fd \in Fds, file_table[u][fd] # NoFile
      PROVE file_table[u][fd].inode # None /\ file_table[u][fd].pos <= inode'[file_table[u][fd].inode].length
    BY <1>1 DEF FilesHeld, NoFile
  <2>1. file_table[u][fd].inode # None /\ file_table[u][fd].pos <= inode[file_table[u][fd].inode].length
    BY <1>1 DEF FilesHeld
  <2>2. file_table[u][fd].inode \in Blocks
    BY <1>1, <2>1 DEF FsTypes, FileType, Mem
  <2> QED BY <1>6, <2>1, <2>2
<1>14. \A z : Linked(z)' <=> Linked(z) /\ z # s
  <2> DEFINE Slots == 1 .. DirSlots
  <2>1. \A z : Linked(z) <=> \E j \in Slots : entries[j].in_use /\ entries[j].inode_sector = z
    BY DEF Linked
  <2>2. \A z : Linked(z)' <=> \E j \in Slots : entries'[j].in_use /\ entries'[j].inode_sector = z
    BY DEF Linked
  <2>3. i \in Slots /\ \A j \in Slots : j # i => entries'[j] = entries[j]
    BY <1>3, <1>5
  <2>4. \A j \in Slots : j # i /\ entries[j].in_use => entries[j].inode_sector # s
    BY <1>3
  <2> HIDE DEF Slots
  <2> QED BY <1>3, <1>5, <2>1, <2>2, <2>3, <2>4
<1>24. ASSUME NEW d \in Blocks PROVE Linked(inode[d].sector)' <=> Linked(inode[d].sector) /\ inode[d].sector # s
  <2>1. PICK z : z = inode[d].sector
    OBVIOUS
  <2>2. inode'[d].sector = z
    BY <1>6, <2>1
  <2>3. Linked(inode[d].sector)' <=> Linked(z)'
    BY <2>2 DEF Linked
  <2> QED BY <1>14, <2>1, <2>3
<1>15. \A u \in Threads : /\ pc'[u] \in Freeing => pc'[u] = pc[u]
                          /\ pc[u] \in Freeing => u # t /\ pc'[u] = pc[u] /\ call'[u] = call[u]
  BY <1>1, <1>10 DEF Freeing
<1>16. \A u \in Threads : pc[u] \in Freeing => call[u].closing \in Blocks /\ call[u].closing # b /\ call[u].closing \notin open_inodes
  <2> SUFFICES ASSUME NEW u \in Threads, pc[u] \in Freeing
      PROVE call[u].closing \in Blocks /\ call[u].closing # b /\ call[u].closing \notin open_inodes
    OBVIOUS
  <2>1. call[u].closing \in Blocks
    BY <1>1, FreeingBlock DEF Going
  <2>2. call[u].closing \notin open_inodes
    BY <1>1 DEF Inodes, Frees
  <2> QED BY <1>3, <2>1, <2>2
<1>17. Inodes'
  <2>1. Shared'
    BY <1>1, <1>6 DEF Inodes, Shared, FsTypes
  <2>2. (\A d \in open_inodes : OnList(d))'
    <3> SUFFICES ASSUME NEW d \in open_inodes PROVE OnList(d)'
      BY <1>1
    <3>1. OnList(d) /\ d \in Blocks
      BY <1>1 DEF Inodes, FsTypes
    <3>2. CASE d = b
      <4>1. ~Linked(inode[b].sector)'
        BY <1>3, <1>24
      <4> QED BY <1>1, <1>3, <1>6, <3>2, <4>1 DEF OnList, ROOT_DIR_SECTOR
    <3>3. CASE d # b
      <4>1. inode'[d] = inode[d] /\ inode[d].sector # s
        BY <1>1, <1>3, <1>6, <3>1, <3>3 DEF Inodes, Shared
      <4>2. Linked(inode[d].sector)' <=> Linked(inode[d].sector)
        BY <1>24, <3>1, <4>1
      <4> QED BY <1>1, <3>1, <4>1, <4>2 DEF OnList, ROOT_DIR_SECTOR
    <3> QED BY <3>2, <3>3
  <2>3. (\A d \in Blocks \ open_inodes : OffList(d))'
    <3> SUFFICES ASSUME NEW d \in Blocks, d \notin open_inodes PROVE OffList(d)'
      BY <1>1
    <3>1. inode'[d] = inode[d] /\ OffList(d)
      BY <1>1, <1>3, <1>6 DEF Inodes
    <3>2. CASE inode[d] = NoInode
      BY <3>1, <3>2 DEF OffList, NoInode
    <3>3. CASE inode[d] # NoInode
      <4>1. PICK u \in Threads : FreedBy(u, d)
        BY <3>1, <3>3 DEF OffList
      <4>2. FreedBy(u, d)'
        BY <1>15, <4>1 DEF FreedBy, Freeing
      <4> QED BY <3>1, <3>3, <4>2 DEF OffList
    <3> QED BY <3>2, <3>3
  <2>4. (\A u \in Threads : pc[u] \in Freeing => call[u].closing \notin open_inodes /\ inode[call[u].closing] # NoInode)'
    <3> SUFFICES ASSUME NEW u \in Threads, pc'[u] \in Freeing
        PROVE call'[u].closing \notin open_inodes /\ inode'[call'[u].closing] # NoInode
      BY <1>1 DEF Freeing, NoInode
    <3>1. pc[u] \in Freeing /\ call'[u] = call[u]
      BY <1>15
    <3>2. inode[call[u].closing] # NoInode
      BY <1>1, <3>1 DEF Inodes, Frees
    <3> QED BY <1>6, <1>16, <3>1, <3>2
  <2>5. (\A u, v \in Threads : pc[u] \in Freeing /\ pc[v] \in Freeing /\ call[u].closing = call[v].closing => u = v)'
    <3> SUFFICES ASSUME NEW u \in Threads, NEW v \in Threads, pc'[u] \in Freeing, pc'[v] \in Freeing,
                          call'[u].closing = call'[v].closing PROVE u = v
      BY DEF Freeing
    <3>1. pc[u] \in Freeing /\ pc[v] \in Freeing
      BY <1>15
    <3> QED BY <1>1, <1>15, <3>1 DEF Inodes, Frees
  <2>6. (\A u \in Threads : pc[u] = "free_inode" =>
            LET z == inode[call[u].closing].sector IN z # ROOT_DIR_SECTOR /\ ~Linked(z))'
    <3> SUFFICES ASSUME NEW u \in Threads, pc'[u] = "free_inode"
        PROVE (inode[call[u].closing].sector # ROOT_DIR_SECTOR /\ ~Linked(inode[call[u].closing].sector))'
      OBVIOUS
    <3>1. pc[u] = "free_inode" /\ call'[u] = call[u] /\ pc[u] \in Freeing
      BY <1>15 DEF Freeing
    <3>2. inode'[call'[u].closing] = inode[call[u].closing]
      BY <1>6, <1>16, <3>1
    <3>3. inode[call[u].closing].sector # ROOT_DIR_SECTOR /\ ~Linked(inode[call[u].closing].sector)
      BY <1>1, <3>1 DEF Inodes, Frees
    <3> QED BY <1>14, <3>2, <3>3 DEF ROOT_DIR_SECTOR
  <2> QED BY <2>1, <2>2, <2>3, <2>4, <2>5, <2>6 DEF Inodes, Frees
<1>18. Dirs'
  <2>1. (\A u \in Threads : call[u].dir # None => inode[call[u].dir].sector = ROOT_DIR_SECTOR)'
    <3> SUFFICES ASSUME NEW u \in Threads, call'[u].dir # None PROVE inode'[call'[u].dir].sector = ROOT_DIR_SECTOR
      BY DEF ROOT_DIR_SECTOR
    <3>1. call'[u].dir = call[u].dir
      BY <1>7, <1>10
    <3>2. call[u].dir \in Blocks
      BY <1>1, <3>1 DEF FsTypes, CallType, Mem
    <3> QED BY <1>1, <1>6, <3>1, <3>2 DEF Dirs
  <2>2. (\A u \in Threads : pc[u] \in Locking <=> \E d \in Blocks : inode[d].lock = u)'
    <3> SUFFICES ASSUME NEW u \in Threads PROVE pc'[u] \in Locking <=> \E d \in Blocks : inode'[d].lock = u
      BY DEF Locking, Erasing
    <3>1. pc'[u] \in Locking <=> pc[u] \in Locking
      BY <1>1, <1>10 DEF Locking, Erasing
    <3>2. pc[u] \in Locking <=> \E d \in Blocks : inode[d].lock = u
      BY <1>1 DEF Dirs
    <3> QED BY <1>6, <3>1, <3>2
  <2>3. (\A d \in Blocks : inode[d].lock # None => call[inode[d].lock].dir = d)'
    <3> SUFFICES ASSUME NEW d \in Blocks, inode'[d].lock # None PROVE call'[inode'[d].lock].dir = d
      OBVIOUS
    <3>1. inode'[d].lock = inode[d].lock
      BY <1>6
    <3>2. inode[d].lock \in Threads
      BY <1>1, <3>1 DEF FsTypes, InodeType
    <3>3. call[inode[d].lock].dir = d
      BY <1>1, <3>1 DEF Dirs
    <3> QED BY <1>7, <1>10, <3>1, <3>2, <3>3
  <2> QED BY <2>1, <2>2, <2>3 DEF Dirs
<1>19. Removals'
  <2> SUFFICES ASSUME NEW u \in Threads PROVE pc'[u] \notin Erasing
    BY DEF Removals, Erasing
  <2>1. CASE u = t
    BY <1>10, <2>1 DEF Erasing
  <2>2. CASE u # t
    BY <1>1, <1>10, <2>2, OneLocks DEF Locking, Erasing
  <2> QED BY <2>1, <2>2
<1>20. Apart'
  <2>1. (\A j \in 1 .. DirSlots : LET z == entries[j].inode_sector
         IN entries[j].in_use => Separate(z, disk[z].start, disk[z].length))'
    <3> SUFFICES ASSUME NEW j \in 1 .. DirSlots, entries'[j].in_use
        PROVE Separate(entries'[j].inode_sector, disk[entries'[j].inode_sector].start, disk[entries'[j].inode_sector].length)
      BY <1>1 DEF Separate, Extent
    <3>1. entries'[j] = entries[j]
      BY <1>5
    <3> QED BY <1>1, <3>1 DEF Apart
  <2>2. (\A d \in Blocks : inode[d].removed => Separate(inode[d].sector, inode[d].start, inode[d].length))'
    <3> SUFFICES ASSUME NEW d \in Blocks, inode'[d].removed
        PROVE Separate(inode'[d].sector, inode'[d].start, inode'[d].length)
      BY DEF Separate, Extent
    <3>1. CASE d = b
      BY <1>3, <1>6, <3>1
    <3>2. CASE d # b
      BY <1>1, <1>6, <3>2 DEF Apart
    <3> QED BY <3>1, <3>2
  <2>3. (\A u \in Threads : pc[u] \in {"write_inode", "dir_add"}
         => Separate(call[u].sector, call[u].start, call[u].size))'
    BY <1>1, <1>10 DEF Apart, Separate, Extent
  <2> QED BY <2>1, <2>2, <2>3 DEF Apart
<1>21. Written'
  BY <1>1, <1>10 DEF Written
<1>22. NamesUnique'
  <2> SUFFICES ASSUME NEW j \in 1 .. DirSlots, NEW k \in 1 .. DirSlots, entries'[j].in_use, entries'[k].in_use,
                      entries'[j].name = entries'[k].name PROVE j = k
    BY DEF NamesUnique
  <2>1. entries'[j] = entries[j] /\ entries'[k] = entries[k]
    BY <1>5
  <2> QED BY <1>1, <2>1 DEF NamesUnique
<1>23. Owned'
  <2>1. \A j \in 1 .. DirSlots : j # i => EntryClaim(j)' = EntryClaim(j)
    BY <1>1, <1>5 DEF EntryClaim, SectorsOf, Extent
  <2>2. EntryClaim(i)' = {} /\ EntryClaim(i) = SectorsOf(s, disk[s])
    BY <1>3, <1>5 DEF EntryClaim
  <2>3. \A u \in Threads : CreateClaim(u)' = CreateClaim(u)
    <3>1. CreateClaim(t) = {} /\ CreateClaim(t)' = {}
      BY <1>1, <1>10 DEF CreateClaim
    <3> QED BY <1>10, <3>1 DEF CreateClaim, Extent
  <2>4. \A d : Closing(d, "free_data")' <=> Closing(d, "free_data")
    BY <1>15 DEF Closing, Freeing
  <2>5. InodeClaim(b)' = SectorsOf(s, disk[s])
    <3>1. ~Closing(b, "free_data")'
      BY <1>3, <2>4
    <3>2. ~Linked(inode[b].sector)'
      BY <1>3, <1>24
    <3>3. InodeClaim(b)' = SectorsOf(inode'[b].sector, inode'[b])
      <4>1. ~(inode[b] = NoInode \/ inode[b].sector = ROOT_DIR_SECTOR \/ Linked(inode[b].sector))'
        BY <1>3, <1>6, <3>2 DEF ROOT_DIR_SECTOR, NoInode
      <4> QED BY <3>1, <4>1 DEF InodeClaim, SectorsOf, Extent
    <3> QED BY <1>3, <1>6, <3>3 DEF SectorsOf
  <2>6. ASSUME NEW d \in Blocks, d # b PROVE InodeClaim(d)' = InodeClaim(d)
    <3>0. inode'[d] = inode[d]
      BY <1>6, <2>6
    <3>1. Closing(d, "free_data")' <=> Closing(d, "free_data")
      BY <2>4
    <3>2. CASE Closing(d, "free_data")
      BY <3>0, <3>1, <3>2 DEF InodeClaim, Extent
    <3>3. CASE ~Closing(d, "free_data") /\ inode[d] = NoInode
      BY <3>0, <3>1, <3>3 DEF InodeClaim, NoInode
    <3>4. CASE ~Closing(d, "free_data") /\ inode[d] # NoInode
      <4>1. Linked(inode[d].sector)' <=> Linked(inode[d].sector)
        <5>1. inode[d].sector # s
          BY <1>3, <2>6, <3>4
        <5> QED BY <1>24, <5>1
      <4> QED BY <3>0, <3>1, <3>4, <4>1 DEF InodeClaim, NoInode, SectorsOf, Extent, ROOT_DIR_SECTOR
    <3> QED BY <3>2, <3>3, <3>4
  <2>7. PICK o \in Owners, q \in Owners : o = <<"entry", i>> /\ q = <<"inode", b>>
    BY <1>3, OwnerKinds
  <2>8. o # q
    BY <2>7
  <2>9. ASSUME NEW p \in Owners, p \notin {o, q} PROVE ClaimMap'[p] = ClaimMap[p]
    <3>1. CASE \E j \in 1 .. DirSlots : p = <<"entry", j>>
      BY <2>1, <2>7, <2>9, <3>1, ClaimsAre, ClaimsAfter
    <3>2. CASE \E d \in Blocks : p = <<"inode", d>>
      BY <2>6, <2>7, <2>9, <3>2, ClaimsAre, ClaimsAfter
    <3>3. CASE \E u \in Threads : p = <<"create", u>>
      BY <2>3, <3>3, ClaimsAre, ClaimsAfter
    <3> QED BY <3>1, <3>2, <3>3, OwnerKinds
  <2>10. PICK X : X = SectorsOf(s, disk[s])
    OBVIOUS
  <2>11. ClaimMap[o] = X /\ ClaimMap'[o] = {} /\ ClaimMap[q] = {} /\ ClaimMap'[q] = X
        /\ DOMAIN ClaimMap = Owners /\ DOMAIN ClaimMap' = Owners
    BY <1>3, <2>2, <2>5, <2>7, <2>10, ClaimsAre, ClaimsAfter
  <2>12. OwnedBy(ClaimMap, free_map, lost)
    BY <1>1, OwnedAs
  <2>13. OwnedBy(ClaimMap', free_map, lost)
    BY <2>8, <2>9, <2>11, <2>12, OwnPass
  <2> QED BY <1>1, <2>13, OwnedAsAfter
<1> QED BY <1>9, <1>11, <1>12, <1>13, <1>17, <1>18, <1>19, <1>20, <1>21, <1>22, <1>23 DEF FsInv

-----------------------------------------------------------------------------
(***************************************************************************)
(* A process that dies of an exception: its descriptors hold what they     *)
(* held for nobody.                                                        *)
(***************************************************************************)
LEMMA FaultStep ==
  ASSUME FsInv, NEW t \in Threads, Fault(t)
  PROVE FsInv'
<1>1. FsTypes /\ FilesHeld /\ Counted /\ UNCHANGED <<free_map, disk, entries, inode, open_inodes, list_lock, pc, call, lost>>
  BY DEF FsInv, Fault
<1>2. file_table' = [file_table EXCEPT ![t] = [fd \in Fds |-> NoFile]]
  BY DEF Fault
<1>3. /\ file_table' \in [Threads -> [Fds -> FileType]]
      /\ \A fd \in Fds : file_table'[t][fd] = NoFile
      /\ \A u \in Threads : u # t => file_table'[u] = file_table[u]
  <2>1. [fd \in Fds |-> NoFile] \in [Fds -> FileType]
    BY NoFileType
  <2> QED BY <1>1, <1>2, <2>1 DEF FsTypes
<1> DEFINE B(b) == {h \in FileHandles(t) : Held(h) = b}
<1>4. \A b \in Blocks : orphans'[b] = orphans[b] + Cardinality(B(b))
  BY DEF Fault
<1>5. FileHandles(t) \subseteq Handles
  BY DEF Handles
<1>6. \A b \in Blocks : IsFiniteSet(B(b)) /\ Cardinality(B(b)) \in Nat
  <2> SUFFICES ASSUME NEW b \in Blocks PROVE IsFiniteSet(B(b)) /\ Cardinality(B(b)) \in Nat
    OBVIOUS
  <2>1. IsFiniteSet(B(b))
    BY <1>5, HandlesFinite, FS_Subset
  <2> QED BY <2>1, FS_CardinalityType
<1>7. orphans' \in [Blocks -> Nat]
  <2>1. orphans' = [b \in Blocks |-> orphans[b] + Cardinality(B(b))]
    BY DEF Fault
  <2>2. \A b \in Blocks : orphans[b] \in Nat
    BY <1>1 DEF FsTypes
  <2> HIDE DEF B
  <2> QED BY <1>6, <2>1, <2>2
<1>8. FsTypes'
  BY <1>1, <1>3, <1>7, TypesAfter DEF FsTypes
<1>9. FilesHeld'
  <2> SUFFICES ASSUME NEW u \in Threads, NEW e \in Fds, file_table'[u][e] # NoFile
      PROVE file_table'[u][e].inode # None /\ file_table'[u][e].pos <= inode[file_table'[u][e].inode].length
    BY <1>1 DEF FilesHeld, NoFile
  <2>1. u # t
    BY <1>3
  <2> QED BY <1>1, <1>3, <2>1 DEF FilesHeld
<1>10. ASSUME NEW h \in Handles PROVE Held(h)' = IF h \in FileHandles(t) THEN None ELSE Held(h)
  <2>1. PICK u \in Threads :
       h \in {<<u, "dir", 0>>, <<u, "inode", 0>>, <<u, "closing", 0>>} \/ \E e \in Fds : h = <<u, "file", e>>
    BY HandleKinds
  <2>0. call'[u] = call[u] /\ pc'[u] = pc[u]
    BY <1>1
  <2>2. CASE h \in {<<u, "dir", 0>>, <<u, "inode", 0>>, <<u, "closing", 0>>}
    <3>1. Held(<<u, "dir", 0>>)' = Held(<<u, "dir", 0>>) /\ Held(<<u, "inode", 0>>)' = Held(<<u, "inode", 0>>)
          /\ Held(<<u, "closing", 0>>)' = Held(<<u, "closing", 0>>)
      BY <2>0, HeldAre, HeldAreAfter
    <3>2. h \notin FileHandles(t)
      BY <2>2 DEF FileHandles
    <3>3. CASE h = <<u, "dir", 0>>
      BY <3>1, <3>2, <3>3
    <3>4. CASE h = <<u, "inode", 0>>
      BY <3>1, <3>2, <3>4
    <3>5. CASE h = <<u, "closing", 0>>
      BY <3>1, <3>2, <3>5
    <3> QED BY <2>2, <3>3, <3>4, <3>5
  <2>3. CASE \E e \in Fds : h = <<u, "file", e>>
    <3>1. PICK e \in Fds : h = <<u, "file", e>>
      BY <2>3
    <3>2. Held(<<u, "file", e>>)' = file_table'[u][e].inode /\ Held(<<u, "file", e>>) = file_table[u][e].inode
      BY HeldAre, HeldAreAfter
    <3>3. h \in FileHandles(t) <=> u = t
      BY <3>1 DEF FileHandles
    <3>4. CASE u = t
      BY <1>3, <3>1, <3>2, <3>3, <3>4, NoFileType
    <3>5. CASE u # t
      BY <1>3, <3>1, <3>2, <3>3, <3>5
    <3> QED BY <3>4, <3>5
  <2> QED BY <2>1, <2>2, <2>3
<1>11. \A h \in Handles : HeldMap[h] = Held(h) /\ HeldMap'[h] = IF h \in FileHandles(t) THEN None ELSE Held(h)
  <2>1. HeldMap' = [h \in Handles |-> Held(h)']
    BY DEF HeldMap, Handles, FileHandles
  <2> QED BY <1>10, <2>1 DEF HeldMap
<1>12. Counted'
  <2> SUFFICES ASSUME NEW b \in Blocks PROVE inode[b].open_cnt = References(b)'
    BY <1>1 DEF Counted
  <2>1. PICK A : A = HoldersOf(HeldMap, b)
    OBVIOUS
  <2>2. PICK C : C = B(b)
    OBVIOUS
  <2>3. HoldersOf(HeldMap', b) = A \ C
    <3>1. b # None
      BY FsAssumption
    <3> QED BY <1>5, <1>11, <2>1, <2>2, <3>1 DEF HoldersOf
  <2>4. A \cap C = C
    BY <1>5, <1>11, <2>1, <2>2 DEF HoldersOf
  <2>5. IsFiniteSet(A) /\ Cardinality(A) \in Nat
    BY <2>1, CountType
  <2>6. Cardinality(A \ C) = Cardinality(A) - Cardinality(C)
    BY <2>4, <2>5, FS_Difference
  <2>7. References(b) = Cardinality(A) + orphans[b]
    BY <2>1, ReferencesAre
  <2>8. References(b)' = Cardinality(A \ C) + orphans'[b]
    BY <2>3, ReferencesAfter
  <2>9. orphans'[b] = orphans[b] + Cardinality(C) /\ Cardinality(C) \in Nat /\ orphans[b] \in Nat
    BY <1>1, <1>4, <1>6, <2>2 DEF FsTypes
  <2>10. inode[b].open_cnt = References(b)
    BY <1>1 DEF Counted
  <2>11. PICK m, n : m = Cardinality(A) /\ n = Cardinality(C)
    OBVIOUS
  <2> HIDE DEF B
  <2> QED BY <2>5, <2>6, <2>7, <2>8, <2>9, <2>10, <2>11
<1>15. ClaimMap' = ClaimMap
  <2>1. \A o \in Owners : Claim(o)' = Claim(o)
    BY <1>1 DEF Claim, EntryClaim, InodeClaim, CreateClaim, Closing, Linked, SectorsOf, Extent, NoInode, ROOT_DIR_SECTOR
  <2>2. ClaimMap' = [o \in Owners |-> Claim(o)']
    BY DEF ClaimMap, Owners
  <2> QED BY <2>1, <2>2 DEF ClaimMap
<1>16. Owned'
  BY <1>1, <1>15, OwnedAs, OwnedAsAfter DEF FsInv
<1>17. Shapes' /\ Dirs' /\ Removals'
  BY <1>1 DEF FsInv, Shapes, Shape, Place, Going, Freeing, InDir, Dirs, Removals, Locking, Erasing, FoundAt, ROOT_DIR_SECTOR
<1>18. Inodes'
  BY <1>1 DEF FsInv, Inodes, Shared, OnList, OffList, Frees, Freeing, FreedBy, Linked, NoInode, ROOT_DIR_SECTOR
<1>19. Apart' /\ Written' /\ NamesUnique'
  BY <1>1 DEF FsInv, Apart, Separate, Extent, Written, NamesUnique
<1> QED BY <1>8, <1>9, <1>12, <1>16, <1>17, <1>18, <1>19 DEF FsInv

-----------------------------------------------------------------------------
(***************************************************************************)
(* The initial state and every step.                                       *)
(***************************************************************************)
LEMMA StartTypes == FsInit => FsTypes
<1> SUFFICES ASSUME FsInit PROVE FsTypes
  OBVIOUS
<1>1. 0 \in Sectors /\ 1 \in Sectors /\ 2 \in Sectors /\ 3 \in Sectors
  BY FsAssumption DEF Sectors
<1>2. free_map \subseteq Sectors /\ lost \subseteq Sectors
  BY <1>1 DEF FsInit, Reserved, free_map_init, ROOT_DIR_SECTOR
<1>3. disk \in [Sectors -> [start : Sectors, length : Nat]]
  <2> DEFINE f(s) == CASE s = 0 -> [start |-> 2, length |-> 1]
                       [] s = ROOT_DIR_SECTOR -> [start |-> 3, length |-> 1]
                       [] OTHER -> [start |-> 0, length |-> 0]
  <2>1. disk = [s \in Sectors |-> f(s)]
    BY DEF FsInit
  <2>2. ASSUME NEW s \in Sectors PROVE f(s) \in [start : Sectors, length : Nat]
    <3>1. CASE s = 0
      BY <1>1, <3>1 DEF ROOT_DIR_SECTOR
    <3>2. CASE s # 0 /\ s = ROOT_DIR_SECTOR
      BY <1>1, <3>2
    <3>3. CASE s # 0 /\ s # ROOT_DIR_SECTOR
      BY <1>1, <3>3
    <3> QED BY <3>1, <3>2, <3>3
  <2> HIDE DEF f
  <2> QED BY <2>1, <2>2
<1>4. entries \in [1 .. DirSlots -> EntryType]
  <2>1. [name |-> None, inode_sector |-> 0, in_use |-> FALSE] \in EntryType
    BY <1>1 DEF EntryType
  <2> QED BY <2>1 DEF FsInit
<1>5. inode \in [Blocks -> InodeType]
  <2>1. NoInode \in InodeType
    BY <1>1 DEF NoInode, InodeType
  <2> QED BY <2>1 DEF FsInit
<1>6. open_inodes \subseteq Blocks /\ list_lock \in Threads \cup {None} /\ orphans \in [Blocks -> Nat]
  BY DEF FsInit
<1>7. pc \in [Threads -> Pcs] /\ call \in [Threads -> CallType]
  <2>1. "user" \in Pcs
    BY DEF Pcs, Nexts
  <2> QED BY <2>1, NoCallType DEF FsInit
<1>8. file_table \in [Threads -> [Fds -> FileType]]
  BY NoFileType DEF FsInit
<1> QED BY <1>2, <1>3, <1>4, <1>5, <1>6, <1>7, <1>8 DEF FsTypes

LEMMA StartOwned == FsInit => Owned
<1> SUFFICES ASSUME FsInit PROVE Owned
  OBVIOUS
<1>1. \A i \in 1 .. DirSlots : ~entries[i].in_use
  BY DEF FsInit
<1>2. \A i \in 1 .. DirSlots : EntryClaim(i) = {}
  BY <1>1 DEF EntryClaim
<1>3. \A b \in Blocks : InodeClaim(b) = {}
  <2>1. \A b \in Blocks : ~Closing(b, "free_data") /\ inode[b] = NoInode
    BY DEF FsInit, Closing
  <2> QED BY <2>1 DEF InodeClaim
<1>4. \A t \in Threads : CreateClaim(t) = {}
  BY DEF FsInit, CreateClaim
<1>5. ASSUME NEW o \in Owners PROVE ClaimMap[o] = {}
  BY <1>2, <1>3, <1>4, OwnerKinds, ClaimsAre
<1>6. free_map = Reserved /\ lost = {}
  BY DEF FsInit
<1>7. OwnedBy(ClaimMap, free_map, lost)
  BY <1>5, <1>6 DEF OwnedBy
<1> QED BY <1>7, OwnedAs

LEMMA FsStart == FsInit => FsInv
<1> SUFFICES ASSUME FsInit PROVE FsInv
  OBVIOUS
<1>1. FsTypes /\ Owned
  BY StartTypes, StartOwned
<1>2. \A t \in Threads : pc[t] = "user" /\ call[t] = NoCall
  BY DEF FsInit
<1>3. Shapes
  BY <1>2, EmptyShape DEF Shapes
<1>4. \A b \in Blocks : inode[b] = NoInode
  BY DEF FsInit
<1>5. Dirs
  BY <1>2, <1>4, EmptyCall, FsAssumption DEF Dirs, NoInode, Locking, Erasing
<1>6. Removals
  BY <1>2 DEF Removals, Erasing
<1>7. Counted
  <2> SUFFICES ASSUME NEW b \in Blocks PROVE inode[b].open_cnt = References(b)
    BY <1>4 DEF Counted, NoInode, FsInit
  <2>1. \A h \in Handles : Held(h) = None
    <3> SUFFICES ASSUME NEW h \in Handles PROVE Held(h) = None
      OBVIOUS
    <3>1. PICK t \in Threads :
       h \in {<<t, "dir", 0>>, <<t, "inode", 0>>, <<t, "closing", 0>>} \/ \E fd \in Fds : h = <<t, "file", fd>>
      BY HandleKinds
    <3>2. call[t].dir = None /\ call[t].inode = None /\ ClosingHeld(pc[t], call[t]) = None
      BY <1>2, EmptyCall
    <3>3. \A fd \in Fds : file_table[t][fd].inode = None
      BY NoFileType DEF FsInit
    <3> QED BY <3>1, <3>2, <3>3, HeldAre
  <2>2. {h \in Handles : Held(h) = b} = {}
    BY <2>1, FsAssumption
  <2>3. Cardinality({h \in Handles : Held(h) = b}) = 0
    BY <2>2, FS_EmptySet
  <2>4. orphans[b] = 0
    BY DEF FsInit
  <2> QED BY <1>4, <2>3, <2>4 DEF References, NoInode
<1>8. FilesHeld
  BY DEF FsInit, FilesHeld
<1>9. Inodes
  BY <1>2, <1>4 DEF FsInit, Inodes, Shared, OffList, Frees, Freeing
<1>10. Apart /\ Written /\ NamesUnique
  <2>1. \A i \in 1 .. DirSlots : ~entries[i].in_use
    BY DEF FsInit
  <2>2. \A b \in Blocks : ~inode[b].removed
    BY <1>4 DEF NoInode
  <2> QED BY <1>2, <2>1, <2>2 DEF Apart, Written, NamesUnique
<1> QED BY <1>1, <1>3, <1>5, <1>6, <1>7, <1>8, <1>9, <1>10 DEF FsInv

LEMMA FsStutters == ASSUME FsInv, UNCHANGED FsVars PROVE FsInv'
<1>1. UNCHANGED <<free_map, disk, entries, inode, open_inodes, list_lock, pc, call, file_table, lost, orphans>>
  BY DEF FsVars
<1>2. FsTypes' /\ Shapes' /\ Dirs' /\ Removals'
  BY <1>1, TypesAfter DEF FsInv, FsTypes, Shapes, Shape, Place, Going, Freeing, InDir, Dirs, Removals, Locking, Erasing,
       FoundAt, ROOT_DIR_SECTOR
<1>3. Inodes'
  BY <1>1 DEF FsInv, Inodes, Shared, OnList, OffList, Frees, Freeing, FreedBy, Linked, NoInode, ROOT_DIR_SECTOR
<1>4. Apart' /\ Written' /\ NamesUnique' /\ FilesHeld'
  BY <1>1 DEF FsInv, Apart, Separate, Extent, Written, NamesUnique, FilesHeld, NoFile
<1>5. Owned'
  <2>1. \A o \in Owners : Claim(o)' = Claim(o)
    BY <1>1 DEF Claim, EntryClaim, InodeClaim, CreateClaim, Closing, Linked, SectorsOf, Extent, NoInode, ROOT_DIR_SECTOR
  <2>2. ClaimMap' = [o \in Owners |-> Claim(o)']
    BY DEF ClaimMap, Owners
  <2>3. ClaimMap' = ClaimMap
    BY <2>1, <2>2 DEF ClaimMap
  <2> QED BY <1>1, <2>3, OwnedAs, OwnedAsAfter DEF FsInv
<1>6. Counted'
  <2>1. \A h \in Handles : Held(h)' = Held(h)
    BY <1>1 DEF Held
  <2>2. HeldMap' = [h \in Handles |-> Held(h)']
    BY DEF HeldMap, Handles, FileHandles
  <2>3. HeldMap' = HeldMap
    BY <2>1, <2>2 DEF HeldMap
  <2>4. \A d : Count(d)' = Cardinality(HoldersOf(HeldMap', d))
    BY CountAfter
  <2>5. \A d : Count(d) = Cardinality(HoldersOf(HeldMap, d))
    BY DEF Count
  <2>6. \A d \in Blocks : Count(d)' = Count(d)
    BY <2>3, <2>4, <2>5
  <2> QED BY <1>1, <2>6, CountedSame DEF FsInv
<1> QED BY <1>2, <1>3, <1>4, <1>5, <1>6 DEF FsInv

LEMMA KernelKeeps ==
  ASSUME ~BounceMayFail, FsInv, OpensLinked, NEW t \in Threads, KernelStep(t)
  PROVE FsInv'
<1>1. CASE inode_close(t) \/ FreeInode(t) \/ FreeData(t)
  BY <1>1, inode_closeStep, FreeInodeStep, FreeDataStep
<1>2. CASE dir_open(t)
  BY <1>2, dir_openStep
<1>3. CASE AllocateInode(t) \/ AllocateData(t) \/ WriteInode(t) \/ dir_add(t) \/ Undo(t)
  BY <1>3, AllocateInodeStep, AllocateDataStep, WriteInodeStep, dir_addStep, UndoStep
<1>4. CASE LookupEntry(t) \/ dir_lookup(t) \/ file_open(t)
  BY <1>4, LookupEntryStep, dir_lookupStep, file_openStep
<1>5. CASE RemoveLookup(t) \/ RemoveOpen(t) \/ RemoveErase(t) \/ RemoveDone(t) \/ RemoveClosed(t)
  BY <1>5, RemoveLookupStep, RemoveOpenStep, RemoveEraseStep, RemoveDoneStep, RemoveClosedStep
<1>6. CASE close_all_files(t)
  BY <1>6, close_all_filesStep
<1> QED BY <1>1, <1>2, <1>3, <1>4, <1>5, <1>6 DEF KernelStep

LEMMA UserKeeps ==
  ASSUME FsInv, NEW t \in Threads, UserStep(t)
  PROVE FsInv'
<1>0. Uses[t] \subseteq Names /\ Removes[t] \subseteq Names /\ Sizes \subseteq Nat
  BY FsAssumption
<1>1. CASE \E name \in Uses[t] :
       \/ \E size \in Sizes : dir_open_root(t, "create", name, size)
       \/ dir_open_root(t, "open", name, 0)
  BY <1>0, <1>1, dir_open_rootStep
<1>2. CASE \E name \in Removes[t] : dir_open_root(t, "remove", name, 0)
  BY <1>0, <1>2, dir_open_rootStep
<1>3. CASE \E fd \in Fds :
       \/ Close(t, fd)
       \/ \E n \in Sizes : Transfer(t, fd, n)
       \/ \E n \in Sizes \cup {0} : file_seek(t, fd, n)
  BY <1>0, <1>3, CloseStep, TransferStep, file_seekStep
<1>4. CASE Exit(t)
  BY <1>4, ExitStep
<1>5. CASE Fault(t)
  BY <1>5, FaultStep
<1> QED BY <1>1, <1>2, <1>3, <1>4, <1>5 DEF UserStep

LEMMA FsKeeps ==
  ASSUME ~BounceMayFail, FsInv, OpensLinked, [FsNext]_FsVars
  PROVE FsInv'
BY FsStutters, KernelKeeps, UserKeeps DEF FsNext

-----------------------------------------------------------------------------
LEMMA FsInvAccounts == FsInv => SectorsAccounted
<1> SUFFICES ASSUME FsInv PROVE SectorsAccounted
  OBVIOUS
<1>1. FsTypes /\ Owned
  BY DEF FsInv
<1>2. FsTypeOK
  <2>1. \A t \in Threads : call[t].sector \in Sectors /\ call[t].start \in Sectors
    BY <1>1 DEF FsTypes, CallType
  <2> QED BY <1>1, <2>1 DEF FsTypeOK, FsTypes
<1>3. SectorsComeBack
  BY <1>1 DEF Owned
<1>4. ASSUME NEW o \in Owners PROVE Claim(o) \subseteq free_map \ Reserved
  BY <1>1, <1>3 DEF Owned, SectorsComeBack
<1>5. SectorsOwnedOnce
  <2> DEFINE claims == {<<o, Claim(o)>> : o \in Owners}
  <2>1. ASSUME NEW c \in claims PROVE c[1] \in Owners /\ c[2] = Claim(c[1])
    OBVIOUS
  <2>2. \A c \in claims : c[2] \subseteq free_map \ Reserved
    <3> HIDE DEF claims
    <3> QED BY <1>4, <2>1
  <2>3. \A c, d \in claims : c[1] # d[1] => c[2] \cap d[2] = {}
    <3>1. \A o, p \in Owners : o # p => Claim(o) \cap Claim(p) = {}
      BY <1>1 DEF Owned
    <3> HIDE DEF claims
    <3> QED BY <2>1, <3>1
  <2> QED BY <2>2, <2>3 DEF SectorsOwnedOnce
<1> QED BY <1>2, <1>3, <1>5 DEF SectorsAccounted

LEMMA FsInvConsistent == FsInv => FilesConsistent
<1> SUFFICES ASSUME FsInv PROVE FilesConsistent
  OBVIOUS
<1>1. InodeShared
  BY DEF FsInv, Inodes, Shared, Counted, InodeShared
<1>2. PositionsInFile
  BY DEF FsInv, Inodes, OnList, FilesHeld, PositionsInFile, file_length
<1> QED BY <1>1, <1>2 DEF FsInv, FilesConsistent

-----------------------------------------------------------------------------
(***************************************************************************)
(* dir_lookup reads the entry and opens the inode later, with no lock in   *)
(* between.  If nobody removes a name that another process opens, the      *)
(* entry that an open has found is still there.                            *)
(***************************************************************************)
NobodyElseRemoves == \A t, u \in Threads : t # u => Removes[t] \cap Uses[u] = {}

NamedBy(t, p, c) ==
  /\ (p = "dir_open" /\ c.op = "open") \/ p \in {"open", "open_found"} => c.name \in Uses[t]
  /\ (p = "dir_open" /\ c.op = "remove") \/ p \in {"remove"} \cup Erasing => c.name \in Removes[t]
Found(c) == \E i \in 1 .. DirSlots : entries[i].in_use /\ entries[i].inode_sector = c.sector /\ entries[i].name = c.name
OpensFind ==
  /\ \A t \in Threads : NamedBy(t, pc[t], call[t])
  /\ \A t \in Threads : pc[t] = "open_found" => Found(call[t])

\* A thread that is in none of these places after a step.
Elsewhere == {"user", "close", "file_open", "dir_close", "exit", "remove_done", "create", "inode_create",
              "write_inode", "dir_add", "undo", "free_inode", "free_data"}

LEMMA OthersFind ==
  ASSUME FsTypes, OpensFind, NEW t \in Threads, NEW to, NEW c, Go(t, to, c), NamedBy(t, to, c),
         to = "open_found" => Found(c)',
         \A u \in Threads : u # t /\ pc[u] = "open_found" => Found(call[u])'
  PROVE OpensFind'
<1>1. pc'[t] = to /\ call'[t] = c /\ \A u \in Threads : u # t => pc'[u] = pc[u] /\ call'[u] = call[u]
  BY GoAt
<1>2. (\A u \in Threads : NamedBy(u, pc[u], call[u]))'
  <2> SUFFICES ASSUME NEW u \in Threads PROVE NamedBy(u, pc'[u], call'[u])
    BY DEF NamedBy, Erasing
  <2>1. CASE u = t
    BY <1>1, <2>1
  <2>2. CASE u # t
    BY <1>1, <2>2 DEF OpensFind
  <2> QED BY <2>1, <2>2
<1>3. (\A u \in Threads : pc[u] = "open_found" => Found(call[u]))'
  <2> SUFFICES ASSUME NEW u \in Threads, pc'[u] = "open_found" PROVE Found(call[u])'
    OBVIOUS
  <2>1. CASE u = t
    <3>1. Found(c)'
      BY <1>1, <2>1
    <3> QED BY <1>1, <2>1, <3>1 DEF Found
  <2>2. CASE u # t
    <3>1. pc[u] = "open_found" /\ call'[u] = call[u]
      BY <1>1, <2>2
    <3>2. PICK d : d = call[u]
      OBVIOUS
    <3>3. Found(d)'
      BY <2>2, <3>1, <3>2 DEF Found
    <3> QED BY <3>1, <3>2, <3>3 DEF Found
  <2> QED BY <2>1, <2>2
<1> QED BY <1>2, <1>3 DEF OpensFind

\* A step that leaves the directory alone.
LEMMA SameFind ==
  ASSUME FsTypes, OpensFind, NEW t \in Threads, NEW to, NEW c, Go(t, to, c), NamedBy(t, to, c),
         to = "open_found" => Found(c), UNCHANGED entries
  PROVE OpensFind'
<1>1. to = "open_found" => Found(c)'
  BY DEF Found
<1>2. ASSUME NEW u \in Threads, u # t, pc[u] = "open_found" PROVE Found(call[u])'
  <2>1. call'[u] = call[u]
    BY <1>2, GoAt
  <2> QED BY <1>2, <2>1 DEF OpensFind, Found
<1> QED BY <1>1, <1>2, OthersFind

LEMMA ElsewhereFinds ==
  ASSUME FsTypes, OpensFind, NEW t \in Threads, NEW to \in Elsewhere, NEW c, Go(t, to, c), UNCHANGED entries
  PROVE OpensFind'
<1>1. NamedBy(t, to, c) /\ to # "open_found"
  BY DEF Elsewhere, NamedBy, Erasing
<1> QED BY <1>1, SameFind

LEMMA CloseThenFinds ==
  ASSUME FsTypes, OpensFind, NEW t \in Threads, NEW b, NEW next \in Elsewhere, NEW c, CloseThen(t, b, next, c), UNCHANGED entries
  PROVE OpensFind'
<1>1. CASE b = None
  BY <1>1, ElsewhereFinds DEF CloseThen
<1>2. CASE b # None
  <2>1. "close" \in Elsewhere
    BY DEF Elsewhere
  <2> QED BY <1>2, <2>1, ElsewhereFinds DEF CloseThen
<1> QED BY <1>1, <1>2

-----------------------------------------------------------------------------
LEMMA NextsElsewhere ==
  ASSUME FsTypes, NEW t \in Threads
  PROVE call[t].next \in Elsewhere
BY DEF FsTypes, CallType, Nexts, Elsewhere

LEMMA KernelElsewhere ==
  ASSUME FsTypes, OpensFind, NEW t \in Threads,
         \/ inode_close(t) \/ FreeInode(t) \/ FreeData(t) \/ AllocateInode(t) \/ AllocateData(t) \/ WriteInode(t) \/ Undo(t)
         \/ dir_lookup(t) \/ file_open(t) \/ RemoveDone(t) \/ RemoveClosed(t) \/ close_all_files(t)
  PROVE OpensFind'
<1>0. {"user", "close", "file_open", "dir_close", "exit", "inode_create", "write_inode", "dir_add", "undo", "free_inode", "free_data"}
        \subseteq Elsewhere
  BY DEF Elsewhere
<1>1. CASE inode_close(t)
  <2>1. PICK to, c : to \in Elsewhere /\ Go(t, to, c)
    BY <1>0, <1>1, NextsElsewhere DEF inode_close
  <2>2. UNCHANGED entries
    BY <1>1 DEF inode_close
  <2> QED BY <2>1, <2>2, ElsewhereFinds
<1>2. CASE FreeInode(t) \/ FreeData(t)
  <2>1. PICK to, c : to \in Elsewhere /\ Go(t, to, c)
    BY <1>0, <1>2, NextsElsewhere DEF FreeInode, FreeData
  <2>2. UNCHANGED entries
    BY <1>2 DEF FreeInode, FreeData
  <2> QED BY <2>1, <2>2, ElsewhereFinds
<1>3. CASE AllocateInode(t)
  <2>1. CASE dir_close(t)
    BY <1>0, <1>3, <2>1, CloseThenFinds DEF AllocateInode, dir_close
  <2>2. CASE \E s \in Sectors : Go(t, "inode_create", [call[t] EXCEPT !.sector = s])
    BY <1>0, <1>3, <2>2, ElsewhereFinds DEF AllocateInode
  <2> QED BY <1>3, <2>1, <2>2 DEF AllocateInode
<1>4. CASE AllocateData(t)
  <2>1. PICK to, c : to \in Elsewhere /\ Go(t, to, c)
    BY <1>0, <1>4 DEF AllocateData
  <2>2. UNCHANGED entries
    BY <1>4 DEF AllocateData
  <2> QED BY <2>1, <2>2, ElsewhereFinds
<1>5. CASE WriteInode(t)
  BY <1>0, <1>5, ElsewhereFinds DEF WriteInode
<1>6. CASE Undo(t) \/ RemoveClosed(t)
  BY <1>0, <1>6, CloseThenFinds DEF Undo, RemoveClosed, dir_close
<1>7. CASE dir_lookup(t)
  BY <1>0, <1>7, CloseThenFinds DEF dir_lookup
<1>8. CASE file_open(t)
  BY <1>0, <1>8, ElsewhereFinds, CloseThenFinds DEF file_open, Return
<1>9. CASE RemoveDone(t)
  BY <1>0, <1>9, CloseThenFinds DEF RemoveDone
<1>10. CASE close_all_files(t)
  BY <1>0, <1>10, ElsewhereFinds, CloseThenFinds DEF close_all_files, file_close, Return
<1> QED BY <1>1, <1>2, <1>3, <1>4, <1>5, <1>6, <1>7, <1>8, <1>9, <1>10

LEMMA RootFinds ==
  ASSUME FsTypes, OpensFind, NEW t \in Threads, NEW op \in {"create", "open", "remove"}, NEW name, NEW size,
         op = "open" => name \in Uses[t], op = "remove" => name \in Removes[t], dir_open_root(t, op, name, size)
  PROVE OpensFind'
<1>1. PICK b \in Blocks \cup {None} :
          IF b = None THEN Return(t)
          ELSE Go(t, "dir_open", [NoCall EXCEPT !.op = op, !.name = name, !.size = size, !.dir = b])
  BY DEF dir_open_root
<1>2. UNCHANGED entries
  BY DEF dir_open_root
<1>3. CASE Return(t)
  BY <1>2, <1>3, ElsewhereFinds DEF Return, Elsewhere
<1>4. CASE Go(t, "dir_open", [NoCall EXCEPT !.op = op, !.name = name, !.size = size, !.dir = b])
  <2>1. PICK g \in CallType : g = NoCall
    BY NoCallType
  <2>2. PICK c : c = [g EXCEPT !.op = op, !.name = name, !.size = size, !.dir = b]
    OBVIOUS
  <2>3. c.op = op /\ c.name = name
    BY <2>2 DEF CallType
  <2>4. Go(t, "dir_open", c)
    BY <1>4, <2>1, <2>2
  <2>5. NamedBy(t, "dir_open", c)
    BY <2>3 DEF NamedBy, Erasing
  <2> QED BY <1>2, <2>4, <2>5, SameFind
<1> QED BY <1>1, <1>3, <1>4

LEMMA dir_openFinds ==
  ASSUME FsTypes, Shapes, OpensFind, NEW t \in Threads, dir_open(t)
  PROVE OpensFind'
<1>1. UNCHANGED entries /\ pc[t] = "dir_open"
  BY DEF dir_open, At
<1>2. CASE CloseThen(t, call[t].dir, "user", NoCall)
  BY <1>1, <1>2, CloseThenFinds DEF Elsewhere
<1>3. CASE Go(t, call[t].op, call[t])
  <2>1. call[t].op \in {"create", "open", "remove"}
    BY <1>1 DEF Shapes, Shape
  <2>2. NamedBy(t, "dir_open", call[t])
    BY <1>1 DEF OpensFind
  <2>3. NamedBy(t, call[t].op, call[t]) /\ call[t].op # "open_found"
    BY <2>1, <2>2 DEF NamedBy, Erasing
  <2> QED BY <1>1, <1>3, <2>3, SameFind
<1> QED BY <1>2, <1>3 DEF dir_open

LEMMA LookupFinds ==
  ASSUME FsTypes, Shapes, OpensFind, NEW t \in Threads, LookupEntry(t)
  PROVE OpensFind'
<1>1. UNCHANGED entries /\ pc[t] = "open"
  BY DEF LookupEntry, At
<1>2. PICK g, i : g = call[t] /\ i = g.ofs
  OBVIOUS
<1>3. g \in CallType /\ g.name \in Uses[t] /\ i > 0 /\ i \in Nat
  <2>1. NamedBy(t, "open", g)
    BY <1>1, <1>2 DEF OpensFind
  <2>2. g \in CallType
    BY <1>2 DEF FsTypes
  <2> QED BY <1>1, <1>2, <2>1, <2>2 DEF NamedBy, CallType, Shapes, Shape
<1>4. CASE dir_close(t)
  BY <1>1, <1>4, CloseThenFinds DEF dir_close, Elsewhere
<1>5. CASE i <= DirSlots /\ Matches(i, g.name) /\ Go(t, "open_found", [g EXCEPT !.sector = entries[i].inode_sector])
  <2>1. PICK c : c = [g EXCEPT !.sector = entries[i].inode_sector]
    OBVIOUS
  <2>2. c.name = g.name /\ c.sector = entries[i].inode_sector
    BY <1>3, <2>1 DEF CallType
  <2>3. i \in 1 .. DirSlots
    BY <1>3, <1>5, FsAssumption
  <2>4. Found(c)
    BY <1>5, <2>2, <2>3 DEF Found, Matches
  <2>5. NamedBy(t, "open_found", c)
    BY <1>3, <2>2 DEF NamedBy, Erasing
  <2> QED BY <1>1, <1>5, <2>1, <2>4, <2>5, SameFind
<1>6. CASE Go(t, "open", [g EXCEPT !.ofs = i + 1])
  <2>1. PICK c : c = [g EXCEPT !.ofs = i + 1]
    OBVIOUS
  <2>2. c.name = g.name
    BY <1>3, <2>1 DEF CallType
  <2>3. NamedBy(t, "open", c)
    BY <1>3, <2>2 DEF NamedBy, Erasing
  <2> QED BY <1>1, <1>6, <2>1, <2>3, SameFind
<1> QED BY <1>2, <1>4, <1>5, <1>6 DEF LookupEntry

LEMMA RemoveFinds ==
  ASSUME FsTypes, OpensFind, NEW t \in Threads, RemoveLookup(t) \/ RemoveOpen(t)
  PROVE OpensFind'
<1>1. UNCHANGED entries /\ pc[t] \in {"remove", "remove_open"}
  BY DEF RemoveLookup, RemoveOpen, At
<1>2. PICK g : g = call[t]
  OBVIOUS
<1>3. g \in CallType /\ g.name \in Removes[t]
  <2>1. NamedBy(t, pc[t], g)
    BY <1>2 DEF OpensFind
  <2> QED BY <1>1, <1>2, <2>1 DEF NamedBy, Erasing, FsTypes
<1>4. CASE RemoveLookup(t)
  <2>1. PICK found \in lookup(g.name) :
       IF found = 0 THEN dir_close(t)
       ELSE Go(t, "remove_open", [g EXCEPT !.ofs = found, !.sector = entries[found].inode_sector])
    BY <1>2, <1>4 DEF RemoveLookup
  <2>2. CASE dir_close(t)
    BY <1>1, <2>2, CloseThenFinds DEF dir_close, Elsewhere
  <2>3. CASE Go(t, "remove_open", [g EXCEPT !.ofs = found, !.sector = entries[found].inode_sector])
    <3>1. PICK c : c = [g EXCEPT !.ofs = found, !.sector = entries[found].inode_sector]
      OBVIOUS
    <3>2. c.name = g.name
      BY <1>3, <3>1 DEF CallType
    <3>3. NamedBy(t, "remove_open", c)
      BY <1>3, <3>2 DEF NamedBy, Erasing
    <3> QED BY <1>1, <2>3, <3>1, <3>3, SameFind
  <2> QED BY <2>1, <2>2, <2>3
<1>5. CASE RemoveOpen(t)
  <2>1. PICK b \in Blocks \cup {None} :
          Go(t, IF b = None THEN "remove_done" ELSE "remove_erase", [g EXCEPT !.inode = b])
    BY <1>2, <1>5 DEF RemoveOpen
  <2>2. PICK to, c : to = (IF b = None THEN "remove_done" ELSE "remove_erase") /\ c = [g EXCEPT !.inode = b]
    OBVIOUS
  <2>3. c.name = g.name
    BY <1>3, <2>2 DEF CallType
  <2>4. NamedBy(t, to, c) /\ to # "open_found"
    BY <1>3, <2>2, <2>3 DEF NamedBy, Erasing
  <2> QED BY <1>1, <2>1, <2>2, <2>4, SameFind
<1> QED BY <1>4, <1>5

LEMMA AddFinds ==
  ASSUME ~BounceMayFail, FsTypes, OpensFind, NEW t \in Threads, dir_add(t)
  PROVE OpensFind'
<1>1. CASE Go(t, "undo", call[t]) /\ UNCHANGED entries
  BY <1>1, ElsewhereFinds DEF Elsewhere
<1>2. ASSUME NEW i \in free_slot, i <= DirSlots, dir_close(t),
             entries' = [entries EXCEPT ![i] =
                       [name |-> call[t].name, inode_sector |-> call[t].sector, in_use |-> TRUE]]
      PROVE OpensFind'
  <2>1. i \in 1 .. DirSlots /\ ~entries[i].in_use
    BY <1>2, FsAssumption DEF free_slot
  <2>2. \A j \in 1 .. DirSlots : entries[j].in_use => entries'[j] = entries[j]
    BY <1>2, <2>1 DEF FsTypes
  <2>3. PICK to, c : Go(t, to, c) /\ to \in {"user", "close"}
    BY <1>2 DEF dir_close, CloseThen
  <2>4. NamedBy(t, to, c) /\ to # "open_found"
    BY <2>3 DEF NamedBy, Erasing
  <2>5. ASSUME NEW u \in Threads, u # t, pc[u] = "open_found" PROVE Found(call[u])'
    <3>1. call'[u] = call[u] /\ Found(call[u])
      BY <2>3, <2>5, GoAt DEF OpensFind
    <3> QED BY <2>2, <3>1 DEF Found
  <2> QED BY <2>3, <2>4, <2>5, OthersFind
<1> QED BY <1>1, <1>2 DEF dir_add

LEMMA EraseFinds ==
  ASSUME ~BounceMayFail, NobodyElseRemoves, FsTypes, Removals, OpensFind, NEW t \in Threads, RemoveErase(t)
  PROVE OpensFind'
<1>1. pc[t] = "remove_erase" /\ Go(t, "remove_done", call[t])
  BY DEF RemoveErase, At
<1>2. PICK i : i = call[t].ofs
  OBVIOUS
<1>3. i \in 1 .. DirSlots /\ entries[i].name = call[t].name
  BY <1>1, <1>2 DEF Removals, FoundAt, Erasing
<1>4. call[t].name \in Removes[t]
  BY <1>1 DEF OpensFind, NamedBy, Erasing
<1>5. \A j \in 1 .. DirSlots : j # i => entries'[j] = entries[j]
  BY <1>2, <1>3 DEF RemoveErase, FsTypes
<1>6. NamedBy(t, "remove_done", call[t])
  BY DEF NamedBy, Erasing
<1>7. ASSUME NEW u \in Threads, u # t, pc[u] = "open_found" PROVE Found(call[u])'
  <2>1. call'[u] = call[u] /\ Found(call[u])
    BY <1>1, <1>7, GoAt DEF OpensFind
  <2>2. call[u].name \in Uses[u]
    BY <1>7 DEF OpensFind, NamedBy
  <2>3. call[u].name # call[t].name
    BY <1>4, <1>7, <2>2 DEF NobodyElseRemoves
  <2> QED BY <1>3, <1>5, <2>1, <2>3 DEF Found
<1> QED BY <1>1, <1>6, <1>7, OthersFind

LEMMA StillFinds ==
  ASSUME OpensFind, UNCHANGED <<pc, call, entries>>
  PROVE OpensFind'
BY DEF OpensFind, NamedBy, Found, Erasing

LEMMA FindsKept ==
  ASSUME ~BounceMayFail, NobodyElseRemoves, FsInv, OpensFind, [FsNext]_FsVars
  PROVE OpensFind'
<1>1. FsTypes /\ Shapes /\ Removals
  BY DEF FsInv
<1>2. CASE UNCHANGED FsVars
  BY <1>2, StillFinds DEF FsVars
<1>3. ASSUME NEW t \in Threads, KernelStep(t) PROVE OpensFind'
  <2>1. CASE \/ inode_close(t) \/ FreeInode(t) \/ FreeData(t) \/ AllocateInode(t) \/ AllocateData(t) \/ WriteInode(t)
             \/ Undo(t) \/ dir_lookup(t) \/ file_open(t) \/ RemoveDone(t) \/ RemoveClosed(t) \/ close_all_files(t)
    BY <1>1, <2>1, KernelElsewhere
  <2>2. CASE dir_open(t)
    BY <1>1, <2>2, dir_openFinds
  <2>3. CASE dir_add(t)
    BY <1>1, <2>3, AddFinds
  <2>4. CASE LookupEntry(t)
    BY <1>1, <2>4, LookupFinds
  <2>5. CASE RemoveLookup(t) \/ RemoveOpen(t)
    BY <1>1, <2>5, RemoveFinds
  <2>6. CASE RemoveErase(t)
    BY <1>1, <2>6, EraseFinds
  <2> QED BY <1>3, <2>1, <2>2, <2>3, <2>4, <2>5, <2>6 DEF KernelStep
<1>4. ASSUME NEW t \in Threads, UserStep(t) PROVE OpensFind'
  <2>1. CASE \E name \in Uses[t] :
       \/ \E size \in Sizes : dir_open_root(t, "create", name, size)
       \/ dir_open_root(t, "open", name, 0)
    BY <1>1, <2>1, RootFinds
  <2>2. CASE \E name \in Removes[t] : dir_open_root(t, "remove", name, 0)
    BY <1>1, <2>2, RootFinds
  <2>3. CASE \E fd \in Fds : Close(t, fd)
    BY <1>1, <2>3, CloseThenFinds DEF Close, file_close, Elsewhere
  <2>4. CASE \E fd \in Fds : \/ \E n \in Sizes : Transfer(t, fd, n)
                             \/ \E n \in Sizes \cup {0} : file_seek(t, fd, n)
    BY <2>4, StillFinds DEF Transfer, file_seek
  <2>5. CASE Exit(t)
    BY <1>1, <2>5, ElsewhereFinds DEF Exit, Elsewhere
  <2>6. CASE Fault(t)
    BY <2>6, StillFinds DEF Fault
  <2> QED BY <1>4, <2>1, <2>2, <2>3, <2>4, <2>5, <2>6 DEF UserStep
<1> QED BY <1>2, <1>3, <1>4 DEF FsNext

LEMMA FindsLinked == OpensFind => OpensLinked
BY DEF OpensFind, OpensLinked, Found, Linked

-----------------------------------------------------------------------------
(* The sectors of the device are accounted for and the files are           *)
(* consistent, as long as an entry that an open has found is still there   *)
(* when its inode is opened (filesys_open, dir_lookup), and no read of the *)
(* directory comes out short for want of memory.                           *)
THEOREM FilesCorrectIfLinked ==
  ASSUME ~BounceMayFail
  PROVE FsSpec /\ []OpensLinked => [](SectorsAccounted /\ FilesConsistent)
<1>1. FsInit => FsInv
  BY FsStart
<1>2. FsInv /\ OpensLinked /\ [FsNext]_FsVars => FsInv'
  BY FsKeeps
<1>3. FsInv => SectorsAccounted /\ FilesConsistent
  BY FsInvAccounts, FsInvConsistent
<1> QED BY <1>1, <1>2, <1>3, PTL DEF FsSpec

(* If no process removes a name that another one opens, that entry is      *)
(* always still there: whatever the processes create, open, remove, close  *)
(* and leave behind, a sector belongs to one file, and an open file is     *)
(* what the disk says (filesys.c, directory.c, inode.c, free-map.c).       *)
THEOREM FilesCorrect ==
  ASSUME ~BounceMayFail, NobodyElseRemoves
  PROVE FsSpec => [](SectorsAccounted /\ FilesConsistent)
<1>1. FsInit => FsInv /\ OpensFind
  <2>1. ASSUME FsInit PROVE OpensFind
    BY <2>1 DEF FsInit, OpensFind, NamedBy, Erasing
  <2> QED BY <2>1, FsStart
<1>2. FsInv /\ OpensFind /\ [FsNext]_FsVars => (FsInv /\ OpensFind)'
  BY FsKeeps, FindsKept, FindsLinked
<1>3. FsInv => SectorsAccounted /\ FilesConsistent
  BY FsInvAccounts, FsInvConsistent
<1> QED BY <1>1, <1>2, <1>3, PTL DEF FsSpec
=============================================================================
