------------------------- MODULE UserMemoryProofs -------------------------
(***************************************************************************)
(* Address spaces of UserMemory, for every number of processes, frames and *)
(* pages, every page size and every executable; then the ways into the      *)
(* kernel, for any devices, threads and programs: the interrupts and traps  *)
(* of KernelInterrupts and the calls of SystemCalls.                        *)
(***************************************************************************)
EXTENDS UserMemory, SystemCalls, ModuloLemmas, SequenceTheorems, TLAPS

TableNos == 0 .. UserPageCount \div TablePages - 1
EntryNos == 0 .. TablePages - 1
Entries == [present : BOOLEAN, frame : UFrames \cup {NULLF}, writable : BOOLEAN, dirty : BOOLEAN,
            accessed : BOOLEAN]
Segments == [read : Int, zero : Int, upage : Int, ofs : Int, w : BOOLEAN]
Loads == [image : Images \cup {NoLoad.image}, i : Nat \ {0}, seg : Segments, pd : KFrames \cup {NULLF}]

\* Where a process is: with a directory, with one it has disowned, without.
Building == {"header", "phdr", "segment", "stack", "args", "user", "panic", "overrun"}
Leaving == {"activate", "destroy"}

UmTypeOK ==
  /\ frames \subseteq KFrames \cup UFrames /\ cleared \subseteq UFrames
  /\ pagedir \in [Procs -> KFrames \cup {NULLF}]
  /\ pde \in [KFrames -> [TableNos -> KFrames \cup {NULLF}]]
  /\ pte \in [KFrames -> [EntryNos -> Entries]]
  /\ cr3 \in KFrames \cup {InitDir} /\ tlb \in [Pages -> Entries] /\ running \in Procs \cup {NoProc}
  /\ at \in [Procs -> Building \cup Leaving \cup {"new", "exit", "dead"}]
  /\ ld \in [Procs -> Loads]

\* Which directory a process answers for, by where it is.
StepInv ==
  \A p \in Procs :
    /\ at[p] \in Building => pagedir[p] # NULLF
    /\ at[p] \in {"new", "dead"} => pagedir[p] = NULLF
    /\ at[p] \in Leaving => pagedir[p] = NULLF /\ ld[p].pd # NULLF

\* Who owns which frame, for the directories d, the frames in use F, the
\* directories' and the tables' entries P and E, and the cleared frames C.
HasTable(d, P, p, i) == d[p] # NULLF /\ P[d[p]][i] # NULLF
Ent(d, P, E, p, i, k) == E[P[d[p]][i]][k]

OwnTypes(d, F, P, E, C) ==
  /\ d \in [Procs -> KFrames \cup {NULLF}] /\ F \subseteq KFrames \cup UFrames /\ C \subseteq UFrames
  /\ P \in [KFrames -> [TableNos -> KFrames \cup {NULLF}]] /\ E \in [KFrames -> [EntryNos -> Entries]]

\* Directories and page tables are in use, each for one purpose.
TablesOwned(d, F, P) ==
  /\ \A p \in Procs : d[p] # NULLF => d[p] \in F
  /\ \A p, q \in Procs : d[p] # NULLF /\ d[p] = d[q] => p = q
  /\ \A p \in Procs, i \in TableNos : HasTable(d, P, p, i) => P[d[p]][i] \in F
  /\ \A p, q \in Procs, i \in TableNos : HasTable(d, P, p, i) => P[d[p]][i] # d[q]
  /\ \A p, q \in Procs, i, j \in TableNos :
       HasTable(d, P, p, i) /\ HasTable(d, P, q, j) /\ P[d[p]][i] = P[d[q]][j] => p = q /\ i = j

\* So are the frames behind pages, the cleared ones too.
EntryUsed(e, F, C) ==
  /\ e.present => e.frame # NULLF /\ e.frame \notin C
  /\ e.frame # NULLF => e.frame \in F /\ (e.present \/ e.frame \in C)
PagesUsed(d, F, P, E, C) ==
  /\ C \subseteq F
  /\ \A p \in Procs, i \in TableNos, k \in EntryNos :
       HasTable(d, P, p, i) => EntryUsed(Ent(d, P, E, p, i, k), F, C)
PagesApart(d, P, E) ==
  \A p, q \in Procs, i, j \in TableNos, k, l \in EntryNos :
    /\ HasTable(d, P, p, i) /\ HasTable(d, P, q, j) /\ Ent(d, P, E, p, i, k).frame # NULLF
    /\ Ent(d, P, E, p, i, k).frame = Ent(d, P, E, q, j, l).frame
    => p = q /\ i = j /\ k = l

\* A frame in use has a purpose.
Purpose(d, P, E, C, f) ==
  \/ f \in C
  \/ \E p \in Procs : d[p] # NULLF /\ f = d[p]
  \/ \E p \in Procs, i \in TableNos : HasTable(d, P, p, i) /\ f = P[d[p]][i]
  \/ \E p \in Procs, i \in TableNos, k \in EntryNos : HasTable(d, P, p, i) /\ f = Ent(d, P, E, p, i, k).frame
NoLeak(d, F, P, E, C) == \A f \in F : Purpose(d, P, E, C, f)

Owned(d, F, P, E, C) ==
  TablesOwned(d, F, P) /\ PagesUsed(d, F, P, E, C) /\ PagesApart(d, P, E) /\ NoLeak(d, F, P, E, C)

dir == [p \in Procs |-> Directory(p)]
OwnInv == Owned(dir, frames, pde, pte, cleared)

\* The processor walks the running process's directory, or the base one.
CpuInv ==
  /\ cr3 # InitDir => running \in Procs /\ cr3 = dir[running] /\ at[running] # "destroy"
  /\ running \in Procs /\ pagedir[running] # NULLF => cr3 = pagedir[running]

TlbInv ==
  \A page \in Pages : tlb[page].present =>
    cr3 # InitDir /\ tlb[page].accessed /\ tlb[page] = lookup_page(cr3, page)

CoreInv == UmTypeOK /\ StepInv /\ OwnInv /\ CpuInv /\ TlbInv

\* The bytes of a segment below top are in memory as ImageInMemory wants them.
ByteLoaded(pd, ph, a) ==
  LET e == lookup_page(pd, pg_no(a))
      c == contents[e.frame]
      k == a - ph.vaddr
  IN /\ is_user_vaddr(a) /\ e.frame # NULLF /\ e.writable = ph.w
     /\ IF k < ph.filesz THEN pg_ofs(a) < c.n /\ c.ofs + pg_ofs(a) = ph.offset + k ELSE pg_ofs(a) >= c.n
BytesLoaded(pd, ph, top) == \A a \in ph.vaddr .. ph.vaddr + ph.memsz - 1 : a < top => ByteLoaded(pd, ph, a)

\* load_segment on its way through the segment of ph, at the page s.upage:
\* what is left to read and to clear, and what is in memory already.
SegStart(ph) == pg_round_down(ph.vaddr)
SegEnd(ph) == SegStart(ph) + pg_round_up(pg_ofs(ph.vaddr) + ph.memsz)
ReadBytes(ph) == IF ph.filesz > 0 THEN pg_ofs(ph.vaddr) + ph.filesz ELSE 0
Loading(pd, ph, s) ==
  LET done == s.upage * PageBytes - SegStart(ph)
  IN /\ s.w = ph.w /\ s.zero >= 0 /\ s.read + s.zero > 0 /\ done >= 0
     /\ done + s.read + s.zero = SegEnd(ph) - SegStart(ph)
     /\ s.read = IF ReadBytes(ph) > done THEN ReadBytes(ph) - done ELSE 0
     /\ s.read > 0 => s.ofs = pg_round_down(ph.offset) + done
     /\ BytesLoaded(pd, ph, s.upage * PageBytes)

Begun == {"phdr", "segment", "stack", "args", "user"}
InMemory(p, h) ==
  ld[p].image.phdrs[h].type = "load" =>
    /\ ld[p].image.phdrs[h].vaddr + ld[p].image.phdrs[h].memsz < PHYS_BASE
    /\ BytesLoaded(pagedir[p], ld[p].image.phdrs[h], PHYS_BASE)
ArgsMapped(p) ==
  LET page == pg_no(ArgStack(ld[p].image.args).esp)
  IN page \in Pages /\ \A g \in page .. UserPageCount - 1 : lookup_page(pagedir[p], g).frame # NULLF
MapOk(p) ==
  /\ at[p] = "user" => ArgsMapped(p)
  /\ at[p] \in Building => ~lookup_page(pagedir[p], 0).present
  /\ at[p] \in Building \ {"user"} => \A page \in Pages :
       lookup_page(pagedir[p], page).frame # NULLF => lookup_page(pagedir[p], page).present
HeadersOk(p) ==
  /\ at[p] # "panic"
  /\ at[p] \in {"new", "header"} => ld[p].i = 1
  /\ at[p] \in Building => ld[p].image \in Images
  /\ at[p] \in Begun => \A h \in 1 .. Len(ld[p].image.phdrs) :
       h < ld[p].i /\ (at[p] = "segment" => h < ld[p].i - 1) => InMemory(p, h)
  /\ at[p] = "segment" =>
       /\ ld[p].i - 1 \in 1 .. Len(ld[p].image.phdrs)
       /\ ld[p].image.phdrs[ld[p].i - 1].type = "load"
       /\ validate_segment(ld[p].image.phdrs[ld[p].i - 1], ld[p].image.length)
       /\ Loading(pagedir[p], ld[p].image.phdrs[ld[p].i - 1], ld[p].seg)
  /\ at[p] \in {"stack", "args", "user"} => ld[p].i > Len(ld[p].image.phdrs)
LoadOk(p) == MapOk(p) /\ HeadersOk(p)
LoadInv == contents \in [UFrames -> [ofs : Int, n : Int]] /\ \A p \in Procs : LoadOk(p)

-----------------------------------------------------------------------------
\* The scan of a pool's bitmap finds a frame where there is one.
LEMMA FirstFree ==
  ASSUME NEW S \in SUBSET Nat, S # {}
  PROVE  First(S) \in S
  BY LeastNat DEF First

LEMMA FreeFrame ==
  ASSUME NEW pool \in SUBSET Nat, FreeFrames(pool) # {}
  PROVE  First(FreeFrames(pool)) \in pool /\ First(FreeFrames(pool)) \notin frames
<1>1. FreeFrames(pool) \in SUBSET Nat
  BY DEF FreeFrames
<1>2. First(FreeFrames(pool)) \in FreeFrames(pool)
  BY <1>1, FirstFree
<1> QED BY <1>2 DEF FreeFrames

\* A page is an entry of a page table, and each entry is one page.
LEMMA PageSplit ==
  ASSUME NEW page \in Pages
  PROVE  /\ pd_no(page) \in TableNos /\ pt_no(page) \in EntryNos
         /\ page = pd_no(page) * TablePages + pt_no(page)
<1>0. PICK T \in Nat, n \in Nat : T = TablePages /\ T > 0 /\ n = UserPageCount /\ n % T = 0
  BY UmAssumption
<1>1. PICK q \in Int : q = n \div T
  BY <1>0
<1>2. n = q * T
  BY <1>0, <1>1
<1>3. PICK i \in Int, k \in Int : i = page \div T /\ k = page % T /\ k \in 0 .. T - 1 /\ page = i * T + k
  BY <1>0, <1>1 DEF Pages
<1>4. i \in 0 .. q - 1
  <2>1. i >= 0 BY <1>0, <1>1, <1>3 DEF Pages
  <2>2. SUFFICES ASSUME i >= q PROVE FALSE BY <2>1, <1>0, <1>1
  <2>3. i * T >= q * T BY <2>2, <1>0, <1>1
  <2> QED BY <2>3, <1>2, <1>3, <1>0, <1>1 DEF Pages
<1> QED BY <1>0, <1>1, <1>3, <1>4 DEF pd_no, pt_no, TableNos, EntryNos

LEMMA PageJoin ==
  ASSUME NEW i \in TableNos, NEW k \in EntryNos
  PROVE  \E page \in Pages : pd_no(page) = i /\ pt_no(page) = k
<1>0. PICK T \in Nat, n \in Nat : T = TablePages /\ T > 0 /\ n = UserPageCount /\ n % T = 0
  BY UmAssumption
<1>1. PICK q \in Int : q = n \div T
  BY <1>0
<1>2. n = q * T
  BY <1>0, <1>1
<1>3. i \in Int /\ i >= 0 /\ i <= q - 1 /\ k \in 0 .. T - 1
  BY <1>0, <1>1 DEF TableNos, EntryNos
<1>4. PICK page \in Int : page = i * T + k
  BY <1>3, <1>0, <1>1
<1>5. i * T >= 0 /\ i * T <= (q - 1) * T
  BY <1>3, <1>0, <1>1
<1>6. page \in Pages
  BY <1>2, <1>3, <1>4, <1>5, <1>0, <1>1 DEF Pages
<1>7. page % T = k
  BY <1>4, <1>3, <1>0, <1>1, ModUnique
<1>8. page \div T = i
  BY <1>4, <1>3, <1>0, <1>1
<1> QED BY <1>6, <1>7, <1>8, <1>0, <1>1 DEF pd_no, pt_no
-----------------------------------------------------------------------------
\* Each way of changing the tables keeps the ownership of frames.  A new
\* directory:
LEMMA NewDirectory ==
  ASSUME NEW d, NEW F, NEW P, NEW E, NEW C, OwnTypes(d, F, P, E, C), Owned(d, F, P, E, C),
         NEW p \in Procs, d[p] = NULLF, NEW f \in KFrames, f \notin F,
         NEW dd, dd = [d EXCEPT ![p] = f], NEW PP, PP = [P EXCEPT ![f] = NoTables]
  PROVE  OwnTypes(dd, F \cup {f}, PP, E, C) /\ Owned(dd, F \cup {f}, PP, E, C)
<1>0. NULLF \notin KFrames /\ NULLF \notin UFrames /\ KFrames \cap UFrames = {} /\ f # NULLF
  BY UmAssumption DEF NULLF
<1>1. OwnTypes(dd, F \cup {f}, PP, E, C)
  BY DEF OwnTypes, NoTables, TableNos
<1>2. dd[p] = f /\ \A q \in Procs : q # p => dd[q] = d[q]
  BY DEF OwnTypes
<1>3. \A i \in TableNos : ~HasTable(dd, PP, p, i)
  BY <1>2, <1>0 DEF OwnTypes, HasTable, NoTables, TableNos
<1>4. \A q \in Procs, i \in TableNos : q # p /\ d[q] # NULLF => PP[dd[q]][i] = P[d[q]][i]
  BY <1>2, <1>0 DEF OwnTypes, Owned, TablesOwned
<1>5. \A q \in Procs, i \in TableNos : HasTable(dd, PP, q, i) => q # p /\ HasTable(d, P, q, i) /\ PP[dd[q]][i] = P[d[q]][i]
  BY <1>2, <1>3, <1>4 DEF HasTable
<1>6. \A q \in Procs, i \in TableNos : HasTable(d, P, q, i) => q # p /\ HasTable(dd, PP, q, i)
  BY <1>2, <1>4 DEF HasTable
<1>7. TablesOwned(dd, F \cup {f}, PP)
  <2>1. \A q \in Procs : dd[q] # NULLF => dd[q] \in F \cup {f}
    BY <1>2 DEF Owned, TablesOwned
  <2>2. \A q, r \in Procs : dd[q] # NULLF /\ dd[q] = dd[r] => q = r
    BY <1>2 DEF Owned, TablesOwned
  <2>3. \A q \in Procs, i \in TableNos : HasTable(dd, PP, q, i) => PP[dd[q]][i] \in F
    BY <1>5 DEF Owned, TablesOwned
  <2>4. \A q, r \in Procs, i \in TableNos : HasTable(dd, PP, q, i) => PP[dd[q]][i] # dd[r]
    BY <1>2, <1>5, <2>3 DEF Owned, TablesOwned
  <2>5. \A q, r \in Procs, i, j \in TableNos :
          HasTable(dd, PP, q, i) /\ HasTable(dd, PP, r, j) /\ PP[dd[q]][i] = PP[dd[r]][j] => q = r /\ i = j
    BY <1>5 DEF Owned, TablesOwned
  <2> QED BY <2>1, <2>2, <2>3, <2>4, <2>5 DEF TablesOwned
<1>8. PagesUsed(dd, F \cup {f}, PP, E, C)
  <2>1. \A q \in Procs, i \in TableNos, k \in EntryNos :
          HasTable(dd, PP, q, i) => HasTable(d, P, q, i) /\ Ent(dd, PP, E, q, i, k) = Ent(d, P, E, q, i, k)
    BY <1>5 DEF Ent
  <2>2. \A e : EntryUsed(e, F, C) => EntryUsed(e, F \cup {f}, C)
    BY DEF EntryUsed
  <2> QED BY <2>1, <2>2 DEF Owned, PagesUsed
<1>9. PagesApart(dd, PP, E)
  <2>1. SUFFICES ASSUME NEW q \in Procs, NEW r \in Procs, NEW i \in TableNos, NEW j \in TableNos,
                        NEW k \in EntryNos, NEW l \in EntryNos, HasTable(dd, PP, q, i), HasTable(dd, PP, r, j),
                        Ent(dd, PP, E, q, i, k).frame # NULLF,
                        Ent(dd, PP, E, q, i, k).frame = Ent(dd, PP, E, r, j, l).frame
                 PROVE  q = r /\ i = j /\ k = l
    BY SMTT(40) DEF PagesApart
  <2>2. HasTable(d, P, q, i) /\ Ent(dd, PP, E, q, i, k) = Ent(d, P, E, q, i, k)
    BY <2>1, <1>5, ZenonT(40) DEF Ent
  <2>3. HasTable(d, P, r, j) /\ Ent(dd, PP, E, r, j, l) = Ent(d, P, E, r, j, l)
    BY <2>1, <1>5, ZenonT(40) DEF Ent
  <2>4. Ent(d, P, E, q, i, k).frame # NULLF /\ Ent(d, P, E, q, i, k).frame = Ent(d, P, E, r, j, l).frame
    BY <2>1, <2>2, <2>3, ZenonT(40)
  <2> QED BY <2>2, <2>3, <2>4, ZenonT(40) DEF Owned, PagesApart
<1>10. NoLeak(dd, F \cup {f}, PP, E, C)
  <2>1. Purpose(dd, PP, E, C, f)
    BY <1>0, <1>2 DEF Purpose
  <2>2. ASSUME NEW g \in F PROVE Purpose(dd, PP, E, C, g)
    <3>1. Purpose(d, P, E, C, g)
      BY DEF Owned, NoLeak
    <3>2. CASE \E q \in Procs : d[q] # NULLF /\ g = d[q]
      BY <3>2, <1>2 DEF Purpose
    <3>3. CASE \E q \in Procs, i \in TableNos : HasTable(d, P, q, i) /\ g = P[d[q]][i]
      <4>1. PICK q \in Procs, i \in TableNos : HasTable(d, P, q, i) /\ g = P[d[q]][i]
        BY <3>3
      <4>2. HasTable(dd, PP, q, i) /\ g = PP[dd[q]][i]
        BY <4>1, <1>5, <1>6
      <4> QED BY <4>2 DEF Purpose
    <3>4. CASE \E q \in Procs, i \in TableNos, k \in EntryNos : HasTable(d, P, q, i) /\ g = Ent(d, P, E, q, i, k).frame
      <4>1. PICK q \in Procs, i \in TableNos, k \in EntryNos : HasTable(d, P, q, i) /\ g = Ent(d, P, E, q, i, k).frame
        BY <3>4
      <4>2. HasTable(dd, PP, q, i) /\ g = Ent(dd, PP, E, q, i, k).frame
        BY <4>1, <1>5, <1>6 DEF Ent
      <4> QED BY <4>2 DEF Purpose
    <3> QED BY <3>1, <3>2, <3>3, <3>4 DEF Purpose
  <2> QED BY <2>1, <2>2 DEF NoLeak
<1> QED BY <1>1, <1>7, <1>8, <1>9, <1>10 DEF Owned
\* Writing one entry of a table changes that page of that process only.
Written(d, P, E, EE, p, i, k, e) ==
  /\ EE \in [KFrames -> [EntryNos -> Entries]]
  /\ Ent(d, P, EE, p, i, k) = e
  /\ \A q \in Procs, j \in TableNos, l \in EntryNos :
       HasTable(d, P, q, j) /\ ~(q = p /\ j = i /\ l = k) => Ent(d, P, EE, q, j, l) = Ent(d, P, E, q, j, l)

LEMMA EntryWritten ==
  ASSUME NEW d, NEW F, NEW P, NEW E, NEW C, OwnTypes(d, F, P, E, C), TablesOwned(d, F, P),
         NEW p \in Procs, NEW i \in TableNos, NEW k \in EntryNos, HasTable(d, P, p, i),
         NEW e \in Entries, NEW EE, EE = [E EXCEPT ![P[d[p]][i]][k] = e]
  PROVE  Written(d, P, E, EE, p, i, k, e)
<1>1. NULLF \notin KFrames /\ NULLF \notin UFrames
  BY UmAssumption DEF NULLF
<1>2. \A q \in Procs, j \in TableNos : HasTable(d, P, q, j) => P[d[q]][j] \in KFrames
  BY <1>1 DEF OwnTypes, HasTable
<1>3. PICK t \in KFrames : t = P[d[p]][i]
  BY <1>2
<1>4. EE = [E EXCEPT ![t] = [E[t] EXCEPT ![k] = e]] /\ E[t] \in [EntryNos -> Entries]
  BY <1>3 DEF OwnTypes
<1>5. EE \in [KFrames -> [EntryNos -> Entries]] /\ EE[t][k] = e
  <2>1. PICK h : h = [E[t] EXCEPT ![k] = e]
    OBVIOUS
  <2>2. h \in [EntryNos -> Entries] /\ h[k] = e
    BY <2>1, <1>4
  <2>3. EE = [E EXCEPT ![t] = h]
    BY <2>1, <1>4
  <2> QED BY <2>2, <2>3 DEF OwnTypes
<1>6. ASSUME NEW u \in KFrames, NEW l \in EntryNos, ~(u = t /\ l = k) PROVE EE[u][l] = E[u][l]
  BY <1>4, <1>6 DEF OwnTypes
<1>7. \A q \in Procs, j \in TableNos : HasTable(d, P, q, j) /\ P[d[q]][j] = t => q = p /\ j = i
  BY <1>3 DEF TablesOwned
<1> QED BY <1>2, <1>3, <1>5, <1>6, <1>7 DEF Ent, Written

\* A page that is mapped, its frame free until now.
LEMMA NewPage ==
  ASSUME NEW d, NEW F, NEW P, NEW E, NEW C, OwnTypes(d, F, P, E, C), Owned(d, F, P, E, C),
         NEW p \in Procs, NEW i \in TableNos, NEW k \in EntryNos, HasTable(d, P, p, i),
         ~Ent(d, P, E, p, i, k).present, NEW f \in UFrames, f \notin F,
         NEW e \in Entries, e.present, e.frame = f, NEW EE, EE = [E EXCEPT ![P[d[p]][i]][k] = e]
  PROVE  OwnTypes(d, F \cup {f}, P, EE, C) /\ Owned(d, F \cup {f}, P, EE, C)
<1>0. NULLF \notin KFrames /\ NULLF \notin UFrames /\ f # NULLF
  BY UmAssumption DEF NULLF
<1>1. /\ EE \in [KFrames -> [EntryNos -> Entries]]
      /\ Ent(d, P, EE, p, i, k) = e
      /\ \A q \in Procs, j \in TableNos, l \in EntryNos :
           HasTable(d, P, q, j) /\ ~(q = p /\ j = i /\ l = k) => Ent(d, P, EE, q, j, l) = Ent(d, P, E, q, j, l)
  <2>1. TablesOwned(d, F, P)
    BY DEF Owned
  <2>2. Written(d, P, E, EE, p, i, k, e)
    BY <2>1, EntryWritten, Zenon
  <2> QED BY <2>2 DEF Written
<1>2. OwnTypes(d, F \cup {f}, P, EE, C)
  BY <1>1 DEF OwnTypes
<1>3. TablesOwned(d, F \cup {f}, P)
  BY DEF Owned, TablesOwned
<1>4. PagesUsed(d, F \cup {f}, P, EE, C)
  <2>1. \A x : EntryUsed(x, F, C) => EntryUsed(x, F \cup {f}, C)
    BY DEF EntryUsed
  <2>2. EntryUsed(e, F \cup {f}, C)
    BY <1>0 DEF EntryUsed, Owned, PagesUsed
  <2>3. \A q \in Procs, j \in TableNos, l \in EntryNos : HasTable(d, P, q, j) => EntryUsed(Ent(d, P, E, q, j, l), F, C)
    BY DEF Owned, PagesUsed
  <2>4. ASSUME NEW q \in Procs, NEW j \in TableNos, NEW l \in EntryNos, HasTable(d, P, q, j)
        PROVE  EntryUsed(Ent(d, P, EE, q, j, l), F \cup {f}, C)
    <3>1. CASE q = p /\ j = i /\ l = k
      BY <3>1, <1>1, <2>2
    <3>2. CASE ~(q = p /\ j = i /\ l = k)
      BY <2>4, <3>2, <1>1, <2>1, <2>3
    <3> QED BY <3>1, <3>2
  <2> QED BY <2>4 DEF Owned, PagesUsed
<1>5. PagesApart(d, P, EE)
  <2>1. \A q \in Procs, j \in TableNos, l \in EntryNos : HasTable(d, P, q, j) => Ent(d, P, E, q, j, l).frame # f
    BY <1>0 DEF Owned, PagesUsed, EntryUsed
  <2> QED BY <2>1, <1>1 DEF Owned, PagesApart
<1>6. NoLeak(d, F \cup {f}, P, EE, C)
  <2>1. Purpose(d, P, EE, C, f)
    BY <1>1 DEF Purpose
  <2>2. ASSUME NEW g \in F PROVE Purpose(d, P, EE, C, g)
    <3>1. Purpose(d, P, E, C, g)
      BY DEF Owned, NoLeak
    <3>2. CASE \E q \in Procs, j \in TableNos, l \in EntryNos : HasTable(d, P, q, j) /\ g = Ent(d, P, E, q, j, l).frame
      <4>1. PICK q \in Procs, j \in TableNos, l \in EntryNos : HasTable(d, P, q, j) /\ g = Ent(d, P, E, q, j, l).frame
        BY <3>2
      <4>2. CASE q = p /\ j = i /\ l = k
        <5>1. g # NULLF
          BY <1>0 DEF OwnTypes
        <5>2. g \in C
          BY <4>1, <4>2, <5>1 DEF Owned, PagesUsed, EntryUsed
        <5> QED BY <5>2 DEF Purpose
      <4>3. CASE ~(q = p /\ j = i /\ l = k)
        BY ZenonT(40), <4>1, <4>3, <1>1 DEF Purpose
      <4> QED BY <4>2, <4>3
    <3> QED BY <3>1, <3>2 DEF Purpose
  <2> QED BY <2>1, <2>2 DEF NoLeak
<1> QED BY <1>2, <1>3, <1>4, <1>5, <1>6 DEF Owned

\* Bits of an entry other than present.
LEMMA EntryBits ==
  ASSUME NEW d, NEW F, NEW P, NEW E, NEW C, OwnTypes(d, F, P, E, C), Owned(d, F, P, E, C),
         NEW p \in Procs, NEW i \in TableNos, NEW k \in EntryNos, HasTable(d, P, p, i),
         NEW e \in Entries, e.present = Ent(d, P, E, p, i, k).present, e.frame = Ent(d, P, E, p, i, k).frame,
         NEW EE, EE = [E EXCEPT ![P[d[p]][i]][k] = e]
  PROVE  OwnTypes(d, F, P, EE, C) /\ Owned(d, F, P, EE, C)
<1>1. /\ EE \in [KFrames -> [EntryNos -> Entries]]
      /\ Ent(d, P, EE, p, i, k) = e
      /\ \A q \in Procs, j \in TableNos, l \in EntryNos :
           HasTable(d, P, q, j) /\ ~(q = p /\ j = i /\ l = k) => Ent(d, P, EE, q, j, l) = Ent(d, P, E, q, j, l)
  <2>1. TablesOwned(d, F, P)
    BY DEF Owned
  <2>2. Written(d, P, E, EE, p, i, k, e)
    BY <2>1, EntryWritten, Zenon
  <2> QED BY <2>2 DEF Written
<1>2. OwnTypes(d, F, P, EE, C)
  BY <1>1 DEF OwnTypes
<1>3. \A q \in Procs, j \in TableNos, l \in EntryNos : HasTable(d, P, q, j) =>
        /\ Ent(d, P, EE, q, j, l).present = Ent(d, P, E, q, j, l).present
        /\ Ent(d, P, EE, q, j, l).frame = Ent(d, P, E, q, j, l).frame
  <2>1. ASSUME NEW q \in Procs, NEW j \in TableNos, NEW l \in EntryNos, HasTable(d, P, q, j)
        PROVE  /\ Ent(d, P, EE, q, j, l).present = Ent(d, P, E, q, j, l).present
               /\ Ent(d, P, EE, q, j, l).frame = Ent(d, P, E, q, j, l).frame
    <3>1. CASE q = p /\ j = i /\ l = k
      BY <3>1, <1>1, Zenon
    <3>2. CASE ~(q = p /\ j = i /\ l = k)
      BY <2>1, <3>2, <1>1, Zenon
    <3> QED BY <3>1, <3>2
  <2> QED BY <2>1
<1>4. PagesUsed(d, F, P, EE, C)
  <2>1. ASSUME NEW q \in Procs, NEW j \in TableNos, NEW l \in EntryNos, HasTable(d, P, q, j)
        PROVE  EntryUsed(Ent(d, P, EE, q, j, l), F, C)
    <3>1. EntryUsed(Ent(d, P, E, q, j, l), F, C)
      BY <2>1 DEF Owned, PagesUsed
    <3> QED BY <3>1, <2>1, <1>3, Zenon DEF EntryUsed
  <2> QED BY <2>1 DEF Owned, PagesUsed
<1>5. PagesApart(d, P, EE)
  BY <1>3 DEF Owned, PagesApart
<1>6. NoLeak(d, F, P, EE, C)
  <2>1. ASSUME NEW g, Purpose(d, P, E, C, g) PROVE Purpose(d, P, EE, C, g)
    <3>1. CASE \E q \in Procs, j \in TableNos, l \in EntryNos : HasTable(d, P, q, j) /\ g = Ent(d, P, E, q, j, l).frame
      <4>1. PICK q \in Procs, j \in TableNos, l \in EntryNos : HasTable(d, P, q, j) /\ g = Ent(d, P, E, q, j, l).frame
        BY <3>1
      <4>2. g = Ent(d, P, EE, q, j, l).frame
        BY <4>1, <1>3
      <4> QED BY <4>1, <4>2 DEF Purpose
    <3> QED BY <2>1, <3>1 DEF Purpose
  <2> QED BY <2>1 DEF Owned, NoLeak
<1> QED BY <1>2, <1>4, <1>5, <1>6 DEF Owned

\* A page that pagedir_clear_page unmaps.
LEMMA EntryCleared ==
  ASSUME NEW d, NEW F, NEW P, NEW E, NEW C, OwnTypes(d, F, P, E, C), Owned(d, F, P, E, C),
         NEW p \in Procs, NEW i \in TableNos, NEW k \in EntryNos, HasTable(d, P, p, i),
         NEW f, f = Ent(d, P, E, p, i, k).frame, Ent(d, P, E, p, i, k).present,
         NEW e \in Entries, ~e.present, e.frame = f, NEW EE, EE = [E EXCEPT ![P[d[p]][i]][k] = e]
  PROVE  OwnTypes(d, F, P, EE, C \cup {f}) /\ Owned(d, F, P, EE, C \cup {f})
<1>0. f # NULLF /\ f \in F /\ f \in UFrames
  BY DEF Owned, PagesUsed, EntryUsed, Entries
<1>1. /\ EE \in [KFrames -> [EntryNos -> Entries]]
      /\ Ent(d, P, EE, p, i, k) = e
      /\ \A q \in Procs, j \in TableNos, l \in EntryNos :
           HasTable(d, P, q, j) /\ ~(q = p /\ j = i /\ l = k) => Ent(d, P, EE, q, j, l) = Ent(d, P, E, q, j, l)
  <2>1. TablesOwned(d, F, P)
    BY DEF Owned
  <2>2. Written(d, P, E, EE, p, i, k, e)
    BY <2>1, EntryWritten, Zenon
  <2> QED BY <2>2 DEF Written
<1>2. OwnTypes(d, F, P, EE, C \cup {f})
  BY <1>0, <1>1 DEF OwnTypes
<1>3. \A q \in Procs, j \in TableNos, l \in EntryNos : HasTable(d, P, q, j) =>
        Ent(d, P, EE, q, j, l).frame = Ent(d, P, E, q, j, l).frame
  <2>1. ASSUME NEW q \in Procs, NEW j \in TableNos, NEW l \in EntryNos, HasTable(d, P, q, j)
        PROVE  Ent(d, P, EE, q, j, l).frame = Ent(d, P, E, q, j, l).frame
    <3>1. CASE q = p /\ j = i /\ l = k
      BY <3>1, <1>1, Zenon
    <3>2. CASE ~(q = p /\ j = i /\ l = k)
      BY <2>1, <3>2, <1>1, Zenon
    <3> QED BY <3>1, <3>2
  <2> QED BY <2>1
<1>4. PagesUsed(d, F, P, EE, C \cup {f})
  <2>1. ASSUME NEW q \in Procs, NEW j \in TableNos, NEW l \in EntryNos, HasTable(d, P, q, j), ~(q = p /\ j = i /\ l = k)
        PROVE  EntryUsed(Ent(d, P, EE, q, j, l), F, C \cup {f})
    <3>1. EntryUsed(Ent(d, P, E, q, j, l), F, C) /\ Ent(d, P, E, q, j, l).frame # f
      BY <2>1, <1>0 DEF Owned, PagesUsed, PagesApart
    <3> QED BY <3>1, <2>1, <1>1 DEF EntryUsed
  <2>2. EntryUsed(e, F, C \cup {f})
    BY <1>0 DEF EntryUsed
  <2> QED BY <2>1, <2>2, <1>0, <1>1 DEF Owned, PagesUsed
<1>5. PagesApart(d, P, EE)
  BY <1>3 DEF Owned, PagesApart
<1>6. NoLeak(d, F, P, EE, C \cup {f})
  <2>1. ASSUME NEW g, Purpose(d, P, E, C, g) PROVE Purpose(d, P, EE, C \cup {f}, g)
    <3>1. CASE \E q \in Procs, j \in TableNos, l \in EntryNos : HasTable(d, P, q, j) /\ g = Ent(d, P, E, q, j, l).frame
      <4>1. PICK q \in Procs, j \in TableNos, l \in EntryNos : HasTable(d, P, q, j) /\ g = Ent(d, P, E, q, j, l).frame
        BY <3>1
      <4>2. g = Ent(d, P, EE, q, j, l).frame
        BY <4>1, <1>3
      <4> QED BY <4>1, <4>2 DEF Purpose
    <3> QED BY <2>1, <3>1 DEF Purpose
  <2> QED BY <2>1 DEF Owned, NoLeak
<1> QED BY <1>2, <1>4, <1>5, <1>6 DEF Owned
\* A page that is mapped, its page table made for it.
LEMMA NewTable ==
  ASSUME NEW d, NEW F, NEW P, NEW E, NEW C, OwnTypes(d, F, P, E, C), Owned(d, F, P, E, C),
         NEW p \in Procs, NEW i \in TableNos, NEW k \in EntryNos, d[p] # NULLF, P[d[p]][i] = NULLF,
         NEW f \in UFrames, f \notin F, NEW n \in KFrames, n \notin F,
         NEW e \in Entries, e.present, e.frame = f,
         NEW PP, PP = [P EXCEPT ![d[p]][i] = n], NEW EE, EE = [E EXCEPT ![n] = [NoPages EXCEPT ![k] = e]]
  PROVE  OwnTypes(d, F \cup {f, n}, PP, EE, C) /\ Owned(d, F \cup {f, n}, PP, EE, C)
<1>0. NULLF \notin KFrames /\ NULLF \notin UFrames /\ f # NULLF /\ n # NULLF /\ KFrames \cap UFrames = {}
  BY UmAssumption DEF NULLF
<1>1. PICK g \in KFrames : g = d[p]
  BY DEF OwnTypes
<1>2. PP = [P EXCEPT ![g] = [P[g] EXCEPT ![i] = n]] /\ P[g] \in [TableNos -> KFrames \cup {NULLF}]
  BY <1>1 DEF OwnTypes
<1>3. /\ PP \in [KFrames -> [TableNos -> KFrames \cup {NULLF}]] /\ PP[g][i] = n
      /\ \A j \in TableNos : j # i => PP[g][j] = P[g][j]
      /\ \A h \in KFrames : h # g => PP[h] = P[h]
  <2>1. PICK r : r = [P[g] EXCEPT ![i] = n]
    OBVIOUS
  <2>2. r \in [TableNos -> KFrames \cup {NULLF}] /\ r[i] = n /\ \A j \in TableNos : j # i => r[j] = P[g][j]
    BY <2>1, <1>2
  <2>3. PP = [P EXCEPT ![g] = r]
    BY <2>1, <1>2
  <2> QED BY <2>2, <2>3 DEF OwnTypes
<1>4. /\ EE \in [KFrames -> [EntryNos -> Entries]] /\ EE[n][k] = e
      /\ \A l \in EntryNos : l # k => EE[n][l] = NoEntry
      /\ \A h \in KFrames : h # n => EE[h] = E[h]
  <2>1. PICK r : r = [NoPages EXCEPT ![k] = e]
    OBVIOUS
  <2>2. NoEntry \in Entries
    BY DEF NoEntry, Entries
  <2>3. NoPages \in [EntryNos -> Entries] /\ \A l \in EntryNos : NoPages[l] = NoEntry
    BY <2>2 DEF NoPages, EntryNos
  <2>4. r \in [EntryNos -> Entries] /\ r[k] = e /\ \A l \in EntryNos : l # k => r[l] = NoEntry
    BY <2>1, <2>3
  <2>5. EE = [E EXCEPT ![n] = r]
    BY <2>1
  <2> QED BY <2>4, <2>5 DEF OwnTypes
<1>5. OwnTypes(d, F \cup {f, n}, PP, EE, C)
  BY <1>3, <1>4 DEF OwnTypes
<1>6. \A q \in Procs : d[q] # NULLF => d[q] \in F /\ d[q] \in KFrames /\ d[q] # n /\ (d[q] = g => q = p)
  BY <1>1 DEF Owned, TablesOwned, OwnTypes
<1>7. HasTable(d, PP, p, i) /\ PP[d[p]][i] = n /\ ~HasTable(d, P, p, i)
  BY <1>0, <1>1, <1>3 DEF HasTable
<1>8. ASSUME NEW q \in Procs, NEW j \in TableNos, ~(q = p /\ j = i), d[q] # NULLF
      PROVE  PP[d[q]][j] = P[d[q]][j] /\ (HasTable(d, PP, q, j) <=> HasTable(d, P, q, j))
  <2>1. PP[d[q]][j] = P[d[q]][j]
    BY <1>8, <1>1, <1>3, <1>6
  <2> QED BY <2>1 DEF HasTable
<1>9. \A q \in Procs, j \in TableNos : HasTable(d, P, q, j) =>
        P[d[q]][j] \in F /\ P[d[q]][j] # n /\ P[d[q]][j] \in KFrames /\ HasTable(d, PP, q, j) /\ PP[d[q]][j] = P[d[q]][j]
  <2>1. ASSUME NEW q \in Procs, NEW j \in TableNos, HasTable(d, P, q, j)
        PROVE  P[d[q]][j] \in F /\ P[d[q]][j] # n /\ P[d[q]][j] \in KFrames /\ HasTable(d, PP, q, j) /\ PP[d[q]][j] = P[d[q]][j]
    <3>1. d[q] # NULLF /\ ~(q = p /\ j = i) /\ P[d[q]][j] # NULLF
      BY <2>1 DEF HasTable
    <3>2. P[d[q]][j] \in F /\ P[d[q]][j] \in KFrames
      BY <2>1, <3>1 DEF Owned, TablesOwned, OwnTypes
    <3> QED BY <2>1, <3>1, <3>2, <1>8
  <2> QED BY <2>1
<1>10. \A q \in Procs, j \in TableNos : HasTable(d, PP, q, j) => HasTable(d, P, q, j) \/ (q = p /\ j = i)
  BY <1>8 DEF HasTable
<1>11. \A q \in Procs, j \in TableNos, l \in EntryNos : HasTable(d, P, q, j) =>
         Ent(d, PP, EE, q, j, l) = Ent(d, P, E, q, j, l)
  BY <1>4, <1>9 DEF Ent
<1>12. Ent(d, PP, EE, p, i, k) = e /\ \A l \in EntryNos : l # k => Ent(d, PP, EE, p, i, l) = NoEntry
  BY <1>4, <1>7 DEF Ent
<1>13. TablesOwned(d, F \cup {f, n}, PP)
  <2>1. \A q \in Procs : d[q] # NULLF => d[q] \in F \cup {f, n}
    BY <1>6
  <2>2. \A q, r \in Procs : d[q] # NULLF /\ d[q] = d[r] => q = r
    BY DEF Owned, TablesOwned
  <2>3. \A q \in Procs, j \in TableNos : HasTable(d, PP, q, j) => PP[d[q]][j] \in F \cup {f, n}
    BY <1>7, <1>9, <1>10
  <2>4. \A q, r \in Procs, j \in TableNos : HasTable(d, PP, q, j) => PP[d[q]][j] # d[r]
    <3>1. ASSUME NEW q \in Procs, NEW r \in Procs, NEW j \in TableNos, HasTable(d, PP, q, j) PROVE PP[d[q]][j] # d[r]
      <4>1. CASE q = p /\ j = i
        BY <4>1, <1>0, <1>6, <1>7
      <4>2. CASE HasTable(d, P, q, j)
        BY <4>2, <1>9 DEF Owned, TablesOwned
      <4> QED BY <3>1, <4>1, <4>2, <1>10
    <3> QED BY <3>1
  <2>5. \A q, r \in Procs, j, l \in TableNos :
          HasTable(d, PP, q, j) /\ HasTable(d, PP, r, l) /\ PP[d[q]][j] = PP[d[r]][l] => q = r /\ j = l
    <3>1. ASSUME NEW q \in Procs, NEW r \in Procs, NEW j \in TableNos, NEW l \in TableNos,
                 HasTable(d, PP, q, j), HasTable(d, PP, r, l), PP[d[q]][j] = PP[d[r]][l]
          PROVE  q = r /\ j = l
      <4>1. CASE HasTable(d, P, q, j) /\ HasTable(d, P, r, l)
        BY <4>1, <3>1, <1>9 DEF Owned, TablesOwned
      <4>2. CASE q = p /\ j = i /\ HasTable(d, P, r, l)
        BY <4>2, <3>1, <1>7, <1>9
      <4>3. CASE r = p /\ l = i /\ HasTable(d, P, q, j)
        BY <4>3, <3>1, <1>7, <1>9
      <4>4. CASE q = p /\ j = i /\ r = p /\ l = i
        BY <4>4
      <4>5. /\ HasTable(d, P, q, j) \/ (q = p /\ j = i)
            /\ HasTable(d, P, r, l) \/ (r = p /\ l = i)
        BY <3>1, <1>10
      <4> QED BY <4>1, <4>2, <4>3, <4>4, <4>5, Zenon
    <3> QED BY <3>1
  <2> QED BY <2>1, <2>2, <2>3, <2>4, <2>5 DEF TablesOwned
<1>14. PagesUsed(d, F \cup {f, n}, PP, EE, C)
  <2>1. \A x : EntryUsed(x, F, C) => EntryUsed(x, F \cup {f, n}, C)
    BY DEF EntryUsed
  <2>2. EntryUsed(e, F \cup {f, n}, C) /\ EntryUsed(NoEntry, F \cup {f, n}, C)
    BY <1>0 DEF EntryUsed, Owned, PagesUsed, NoEntry
  <2>3. \A q \in Procs, j \in TableNos, l \in EntryNos : HasTable(d, P, q, j) => EntryUsed(Ent(d, P, E, q, j, l), F, C)
    BY DEF Owned, PagesUsed
  <2>4. ASSUME NEW q \in Procs, NEW j \in TableNos, NEW l \in EntryNos, HasTable(d, PP, q, j)
        PROVE  EntryUsed(Ent(d, PP, EE, q, j, l), F \cup {f, n}, C)
    <3>1. CASE q = p /\ j = i
      BY <3>1, <1>12, <2>2
    <3>2. CASE HasTable(d, P, q, j)
      BY <3>2, <1>11, <2>1, <2>3
    <3> QED BY <2>4, <3>1, <3>2, <1>10
  <2> QED BY <2>4 DEF Owned, PagesUsed
<1>15. PagesApart(d, PP, EE)
  <2>1. \A q \in Procs, j \in TableNos, l \in EntryNos : HasTable(d, P, q, j) => Ent(d, PP, EE, q, j, l).frame # f
    <3>1. ASSUME NEW q \in Procs, NEW j \in TableNos, NEW l \in EntryNos, HasTable(d, P, q, j)
          PROVE  Ent(d, PP, EE, q, j, l).frame # f
      <4>1. EntryUsed(Ent(d, P, E, q, j, l), F, C)
        BY <3>1 DEF Owned, PagesUsed
      <4>2. Ent(d, PP, EE, q, j, l) = Ent(d, P, E, q, j, l)
        BY <3>1, <1>11
      <4> QED BY <4>1, <4>2, <1>0 DEF EntryUsed
    <3> QED BY <3>1
  <2>2. \A l \in EntryNos : l # k => Ent(d, PP, EE, p, i, l).frame = NULLF
    <3>1. NoEntry.frame = NULLF
      BY DEF NoEntry
    <3> QED BY <3>1, <1>12
  <2>3. ASSUME NEW q \in Procs, NEW r \in Procs, NEW j \in TableNos, NEW m \in TableNos, NEW l \in EntryNos, NEW o \in EntryNos,
               HasTable(d, PP, q, j), HasTable(d, PP, r, m), Ent(d, PP, EE, q, j, l).frame # NULLF,
               Ent(d, PP, EE, q, j, l).frame = Ent(d, PP, EE, r, m, o).frame
        PROVE  q = r /\ j = m /\ l = o
    <3>1. CASE HasTable(d, P, q, j) /\ HasTable(d, P, r, m)
      <4>1. Ent(d, PP, EE, q, j, l) = Ent(d, P, E, q, j, l) /\ Ent(d, PP, EE, r, m, o) = Ent(d, P, E, r, m, o)
        BY <3>1, <1>11
      <4>2. Ent(d, P, E, q, j, l).frame # NULLF /\ Ent(d, P, E, q, j, l).frame = Ent(d, P, E, r, m, o).frame
        BY <2>3, <4>1
      <4> QED BY <3>1, <4>2 DEF Owned, PagesApart
    <3>2. CASE q = p /\ j = i /\ r = p /\ m = i
      BY <2>3, <3>2, <2>2
    <3>3. CASE q = p /\ j = i /\ HasTable(d, P, r, m)
      <4>1. Ent(d, PP, EE, p, i, l).frame # f /\ Ent(d, PP, EE, p, i, l).frame # NULLF
        BY <2>3, <3>3, <2>1
      <4> QED BY <4>1, <2>2, <1>12
    <3>4. CASE HasTable(d, P, q, j) /\ r = p /\ m = i
      <4>1. Ent(d, PP, EE, p, i, o).frame # f /\ Ent(d, PP, EE, p, i, o).frame # NULLF
        BY <2>3, <3>4, <2>1
      <4> QED BY <4>1, <2>2, <1>12
    <3> QED BY <2>3, <3>1, <3>2, <3>3, <3>4, <1>10
  <2> QED BY <2>3 DEF PagesApart
<1>16. NoLeak(d, F \cup {f, n}, PP, EE, C)
  <2>1. Purpose(d, PP, EE, C, f)
    BY <1>12, <1>7 DEF Purpose
  <2>2. Purpose(d, PP, EE, C, n)
    BY <1>7 DEF Purpose
  <2>3. ASSUME NEW h \in F PROVE Purpose(d, PP, EE, C, h)
    <3>1. Purpose(d, P, E, C, h)
      BY DEF Owned, NoLeak
    <3>2. CASE \E q \in Procs, j \in TableNos : HasTable(d, P, q, j) /\ h = P[d[q]][j]
      <4>1. PICK q \in Procs, j \in TableNos : HasTable(d, P, q, j) /\ h = P[d[q]][j]
        BY <3>2
      <4>2. HasTable(d, PP, q, j) /\ h = PP[d[q]][j]
        BY <4>1, <1>9
      <4> QED BY <4>2 DEF Purpose
    <3>3. CASE \E q \in Procs, j \in TableNos, l \in EntryNos : HasTable(d, P, q, j) /\ h = Ent(d, P, E, q, j, l).frame
      <4>1. PICK q \in Procs, j \in TableNos, l \in EntryNos : HasTable(d, P, q, j) /\ h = Ent(d, P, E, q, j, l).frame
        BY <3>3
      <4>2. HasTable(d, PP, q, j) /\ h = Ent(d, PP, EE, q, j, l).frame
        BY <4>1, <1>9, <1>11
      <4> QED BY <4>2 DEF Purpose
    <3> QED BY <3>1, <3>2, <3>3 DEF Purpose
  <2> QED BY <2>1, <2>2, <2>3 DEF NoLeak
<1> QED BY <1>5, <1>13, <1>14, <1>15, <1>16 DEF Owned

\* pagedir_destroy: the directory, its tables and the pages that are mapped.
MappedBy(d, P, E, p, M) ==
  \A f : f \in M <=> \E i \in TableNos, k \in EntryNos :
    P[d[p]][i] # NULLF /\ Ent(d, P, E, p, i, k).present /\ f = Ent(d, P, E, p, i, k).frame

LEMMA Destroyed ==
  ASSUME NEW d, NEW F, NEW P, NEW E, NEW C, OwnTypes(d, F, P, E, C), Owned(d, F, P, E, C),
         NEW p \in Procs, d[p] # NULLF, NEW dd, dd = [d EXCEPT ![p] = NULLF],
         NEW T, T = {P[d[p]][i] : i \in TableNos} \ {NULLF},
         NEW M, MappedBy(d, P, E, p, M),
         NEW FF, FF = F \ ({d[p]} \cup T \cup M)
  PROVE  OwnTypes(dd, FF, P, E, C) /\ Owned(dd, FF, P, E, C)
<1>0. NULLF \notin KFrames /\ NULLF \notin UFrames /\ KFrames \cap UFrames = {}
  BY UmAssumption DEF NULLF
<1>1. OwnTypes(dd, FF, P, E, C)
  BY DEF OwnTypes
<1>2. dd[p] = NULLF /\ \A q \in Procs : q # p => dd[q] = d[q]
  BY DEF OwnTypes
<1>3. \A q \in Procs, j \in TableNos : HasTable(dd, P, q, j) <=> q # p /\ HasTable(d, P, q, j)
  BY <1>2 DEF HasTable
<1>4. d[p] \in KFrames /\ T \subseteq KFrames
  BY <1>0 DEF OwnTypes
<1>5. M \subseteq UFrames /\ M \cap C = {}
  <2>1. ASSUME NEW f \in M PROVE f \in UFrames /\ f \notin C
    <3>1. PICK i \in TableNos, k \in EntryNos :
            P[d[p]][i] # NULLF /\ Ent(d, P, E, p, i, k).present /\ f = Ent(d, P, E, p, i, k).frame
      BY <2>1 DEF MappedBy
    <3>2. HasTable(d, P, p, i) /\ Ent(d, P, E, p, i, k) \in Entries
      BY <3>1, <1>4 DEF HasTable, OwnTypes, Ent
    <3>3. EntryUsed(Ent(d, P, E, p, i, k), F, C)
      BY <3>2 DEF Owned, PagesUsed
    <3> QED BY <3>1, <3>2, <3>3 DEF EntryUsed, Entries
  <2> QED BY <2>1
<1>6. ASSUME NEW q \in Procs, q # p, d[q] # NULLF PROVE d[q] \in FF
  <2>1. d[q] \in F /\ d[q] # d[p] /\ d[q] \in KFrames
    BY <1>6 DEF Owned, TablesOwned, OwnTypes
  <2>2. d[q] \notin T
    BY <2>1, <1>0 DEF Owned, TablesOwned, HasTable
  <2> QED BY <2>1, <2>2, <1>0, <1>5
<1>7. ASSUME NEW q \in Procs, NEW j \in TableNos, q # p, HasTable(d, P, q, j) PROVE P[d[q]][j] \in FF
  <2>1. P[d[q]][j] \in F /\ P[d[q]][j] # d[p] /\ P[d[q]][j] \in KFrames
    BY <1>7 DEF Owned, TablesOwned, OwnTypes, HasTable
  <2>2. P[d[q]][j] \notin T
    BY <2>1, <1>0, <1>7 DEF Owned, TablesOwned, HasTable
  <2> QED BY <2>1, <2>2, <1>0, <1>5
<1>8. ASSUME NEW q \in Procs, NEW j \in TableNos, NEW l \in EntryNos, q # p, HasTable(d, P, q, j)
      PROVE  EntryUsed(Ent(d, P, E, q, j, l), FF, C)
  <2>1. EntryUsed(Ent(d, P, E, q, j, l), F, C) /\ Ent(d, P, E, q, j, l) \in Entries
    BY <1>8 DEF Owned, PagesUsed, OwnTypes, HasTable, Ent
  <2>2. SUFFICES ASSUME Ent(d, P, E, q, j, l).frame # NULLF PROVE Ent(d, P, E, q, j, l).frame \in FF
    BY <2>1 DEF EntryUsed
  <2>3. Ent(d, P, E, q, j, l).frame \in F /\ Ent(d, P, E, q, j, l).frame \in UFrames
    BY <2>1, <2>2 DEF EntryUsed, Entries
  <2>4. Ent(d, P, E, q, j, l).frame \notin M
    <3>1. SUFFICES ASSUME NEW i \in TableNos, NEW k \in EntryNos, P[d[p]][i] # NULLF,
                          Ent(d, P, E, q, j, l).frame = Ent(d, P, E, p, i, k).frame
                   PROVE  FALSE
      BY DEF MappedBy
    <3>2. HasTable(d, P, p, i)
      BY <3>1 DEF HasTable
    <3> QED BY <3>1, <3>2, <1>8, <2>2 DEF Owned, PagesApart
  <2> QED BY <2>3, <2>4, <1>0, <1>4
<1>9. TablesOwned(dd, FF, P)
  <2>1. \A q \in Procs : dd[q] # NULLF => dd[q] \in FF
    BY <1>2, <1>6
  <2>2. \A q, r \in Procs : dd[q] # NULLF /\ dd[q] = dd[r] => q = r
    BY <1>2 DEF Owned, TablesOwned
  <2>3. \A q \in Procs, j \in TableNos : HasTable(dd, P, q, j) => P[dd[q]][j] \in FF
    BY <1>2, <1>3, <1>7
  <2>4. \A q, r \in Procs, j \in TableNos : HasTable(dd, P, q, j) => P[dd[q]][j] # dd[r]
    <3>1. ASSUME NEW q \in Procs, NEW r \in Procs, NEW j \in TableNos, HasTable(dd, P, q, j) PROVE P[dd[q]][j] # dd[r]
      <4>1. q # p /\ HasTable(d, P, q, j) /\ P[dd[q]][j] = P[d[q]][j]
        BY <3>1, <1>2, <1>3
      <4>2. P[d[q]][j] # NULLF /\ P[d[q]][j] # d[r]
        BY <4>1 DEF HasTable, Owned, TablesOwned
      <4> QED BY <4>1, <4>2, <1>2
    <3> QED BY <3>1
  <2>5. \A q, r \in Procs, j, l \in TableNos :
          HasTable(dd, P, q, j) /\ HasTable(dd, P, r, l) /\ P[dd[q]][j] = P[dd[r]][l] => q = r /\ j = l
    BY <1>2, <1>3 DEF Owned, TablesOwned
  <2> QED BY <2>1, <2>2, <2>3, <2>4, <2>5 DEF TablesOwned
<1>10. \A q \in Procs, j \in TableNos, l \in EntryNos : q # p => Ent(dd, P, E, q, j, l) = Ent(d, P, E, q, j, l)
  BY <1>2 DEF Ent
<1>11. PagesUsed(dd, FF, P, E, C)
  <2>1. C \subseteq FF
    BY <1>0, <1>4, <1>5 DEF Owned, PagesUsed, OwnTypes
  <2>2. \A q \in Procs, j \in TableNos, l \in EntryNos : HasTable(dd, P, q, j) => EntryUsed(Ent(dd, P, E, q, j, l), FF, C)
    BY <1>3, <1>8, <1>10
  <2> QED BY <2>1, <2>2 DEF PagesUsed
<1>12. PagesApart(dd, P, E)
  <2>1. ASSUME NEW q \in Procs, NEW r \in Procs, NEW j \in TableNos, NEW m \in TableNos, NEW l \in EntryNos, NEW o \in EntryNos,
               HasTable(dd, P, q, j), HasTable(dd, P, r, m), Ent(dd, P, E, q, j, l).frame # NULLF,
               Ent(dd, P, E, q, j, l).frame = Ent(dd, P, E, r, m, o).frame
        PROVE  q = r /\ j = m /\ l = o
    <3>1. q # p /\ r # p /\ HasTable(d, P, q, j) /\ HasTable(d, P, r, m)
      BY <2>1, <1>3
    <3>2. Ent(dd, P, E, q, j, l) = Ent(d, P, E, q, j, l) /\ Ent(dd, P, E, r, m, o) = Ent(d, P, E, r, m, o)
      BY <3>1, <1>10
    <3>3. Ent(d, P, E, q, j, l).frame # NULLF /\ Ent(d, P, E, q, j, l).frame = Ent(d, P, E, r, m, o).frame
      BY <2>1, <3>2
    <3> QED BY <3>1, <3>3 DEF Owned, PagesApart
  <2> QED BY <2>1 DEF PagesApart
<1>13. NoLeak(dd, FF, P, E, C)
  <2>1. ASSUME NEW h \in FF PROVE Purpose(dd, P, E, C, h)
    <3>1. Purpose(d, P, E, C, h)
      BY <2>1 DEF Owned, NoLeak
    <3>2. CASE \E q \in Procs : d[q] # NULLF /\ h = d[q]
      BY <3>2, <2>1, <1>2 DEF Purpose
    <3>3. CASE \E q \in Procs, j \in TableNos : HasTable(d, P, q, j) /\ h = P[d[q]][j]
      <4>1. PICK q \in Procs, j \in TableNos : HasTable(d, P, q, j) /\ h = P[d[q]][j]
        BY <3>3
      <4>2. q # p
        BY <4>1, <2>1 DEF HasTable
      <4>3. HasTable(dd, P, q, j) /\ h = P[dd[q]][j]
        BY <4>1, <4>2, <1>2, <1>3
      <4> QED BY <4>3 DEF Purpose
    <3>4. CASE \E q \in Procs, j \in TableNos, l \in EntryNos : HasTable(d, P, q, j) /\ h = Ent(d, P, E, q, j, l).frame
      <4>1. PICK q \in Procs, j \in TableNos, l \in EntryNos : HasTable(d, P, q, j) /\ h = Ent(d, P, E, q, j, l).frame
        BY <3>4
      <4>2. CASE q # p
        <5>1. HasTable(dd, P, q, j) /\ h = Ent(dd, P, E, q, j, l).frame
          BY <4>1, <4>2, <1>3, <1>10
        <5> QED BY <5>1 DEF Purpose
      <4>3. CASE q = p
        <5>1. P[d[p]][j] # NULLF /\ h \notin M /\ h # NULLF
          BY <4>1, <4>3, <2>1, <1>0, <1>1 DEF HasTable, OwnTypes
        <5>2. ~Ent(d, P, E, p, j, l).present
          BY <4>1, <4>3, <5>1 DEF MappedBy
        <5>3. EntryUsed(Ent(d, P, E, p, j, l), F, C)
          BY <4>1, <4>3 DEF Owned, PagesUsed
        <5>4. h \in C
          BY <4>1, <4>3, <5>1, <5>2, <5>3 DEF EntryUsed
        <5> QED BY <5>4 DEF Purpose
      <4> QED BY <4>2, <4>3
    <3> QED BY <3>1, <3>2, <3>3, <3>4 DEF Purpose
  <2> QED BY <2>1 DEF NoLeak
<1> QED BY <1>1, <1>9, <1>11, <1>12, <1>13 DEF Owned
-----------------------------------------------------------------------------
LEMMA Constants ==
  /\ NULLF \notin KFrames /\ NULLF \notin UFrames /\ InitDir \notin KFrames /\ InitDir # NULLF
  /\ NoEntry \in Entries /\ NoEntry.present = FALSE /\ NoEntry.frame = NULLF
<1>1. NULLF \notin KFrames /\ NULLF \notin UFrames /\ InitDir \notin KFrames /\ InitDir # NULLF
  BY UmAssumption DEF NULLF, InitDir
<1>2. NoEntry \in Entries /\ NoEntry.present = FALSE /\ NoEntry.frame = NULLF
  BY DEF NoEntry, Entries
<1> QED BY <1>1, <1>2

\* The directories of a state in its types.
LEMMA DirTypes ==
  ASSUME UmTypeOK
  PROVE  /\ OwnTypes(dir, frames, pde, pte, cleared)
         /\ \A q \in Procs : dir[q] = Directory(q)
<1>1. \A q \in Procs : Directory(q) \in KFrames \cup {NULLF}
  BY DEF UmTypeOK, Directory, Loads
<1> QED BY <1>1 DEF UmTypeOK, OwnTypes, dir

LEMMA DirKept ==
  ASSUME \A q \in Procs : Directory(q)' = Directory(q)
  PROVE  dir' = dir
  BY DEF dir

\* What the processor finds for a page.
LEMMA Lookup ==
  ASSUME UmTypeOK, NEW q \in Procs, dir[q] # NULLF, NEW page \in Pages
  PROVE  /\ HasTable(dir, pde, q, pd_no(page)) => lookup_page(dir[q], page) = Ent(dir, pde, pte, q, pd_no(page), pt_no(page))
         /\ ~HasTable(dir, pde, q, pd_no(page)) => lookup_page(dir[q], page) = NoEntry
         /\ lookup_page(dir[q], page) \in Entries
<1>1. pd_no(page) \in TableNos /\ pt_no(page) \in EntryNos
  BY PageSplit
<1>2. HasTable(dir, pde, q, pd_no(page)) => lookup_page(dir[q], page) = Ent(dir, pde, pte, q, pd_no(page), pt_no(page))
  BY DEF HasTable, lookup_page, Ent
<1>3. ~HasTable(dir, pde, q, pd_no(page)) => lookup_page(dir[q], page) = NoEntry
  BY DEF HasTable, lookup_page
<1>4. HasTable(dir, pde, q, pd_no(page)) => Ent(dir, pde, pte, q, pd_no(page), pt_no(page)) \in Entries
  BY <1>1, DirTypes DEF HasTable, Ent, OwnTypes
<1> QED BY <1>2, <1>3, <1>4, Constants

\* An empty TLB caches nothing.
LEMMA TlbEmptied ==
  ASSUME tlb' = [page \in Pages |-> NoEntry]
  PROVE  TlbInv' /\ tlb' \in [Pages -> Entries]
  BY Constants DEF TlbInv

\* A step of load or of the program that changes no table.
LEMMA ControlStep ==
  ASSUME CoreInv, NEW p \in Procs, at[p] \in Building \cup {"new", "exit"}, NEW x \in Building \cup {"exit"},
         x \in Building => at[p] \in Building, at' = [at EXCEPT ![p] = x],
         ld' \in [Procs -> Loads], \A q \in Procs : ld'[q].pd = ld[q].pd,
         UNCHANGED <<frames, pagedir, pde, pte, cr3, tlb, running, cleared>>
  PROVE  CoreInv'
<1> USE DEF Building, Leaving
<1>1. UmTypeOK'
  BY DEF CoreInv, UmTypeOK
<1>2. at'[p] = x /\ \A q \in Procs : q # p => at'[q] = at[q]
  BY DEF CoreInv, UmTypeOK
<1>3. StepInv'
  BY <1>2 DEF CoreInv, StepInv
<1>4. \A q \in Procs : Directory(q)' = Directory(q)
  BY <1>2 DEF Directory
<1>5. dir' = dir
  BY <1>4, DirKept
<1>6. OwnInv'
  BY <1>5 DEF CoreInv, OwnInv
<1>7. CpuInv'
  BY <1>2, <1>5 DEF CoreInv, CpuInv
<1>8. TlbInv'
  BY DEF CoreInv, TlbInv, lookup_page
<1> QED BY <1>1, <1>3, <1>6, <1>7, <1>8 DEF CoreInv
\* load's locals keep their types, and the directory it remembers.
LEMMA LoadWritten ==
  ASSUME NEW l \in Loads, NEW s \in Segments, NEW img \in Images, NEW d \in KFrames \cup {NULLF}
  PROVE  /\ [l EXCEPT !.image = img] \in Loads /\ [l EXCEPT !.image = img].pd = l.pd
         /\ [l EXCEPT !.i = @ + 1] \in Loads /\ [l EXCEPT !.i = @ + 1].pd = l.pd
         /\ [l EXCEPT !.seg = s] \in Loads /\ [l EXCEPT !.seg = s].pd = l.pd
         /\ [l EXCEPT !.pd = d] \in Loads /\ [l EXCEPT !.pd = d].pd = d
<1>1. [l EXCEPT !.image = img] \in Loads /\ [l EXCEPT !.image = img].pd = l.pd
  BY DEF Loads
<1>2. [l EXCEPT !.i = @ + 1] \in Loads /\ [l EXCEPT !.i = @ + 1].pd = l.pd
  BY DEF Loads
<1>3. [l EXCEPT !.seg = s] \in Loads /\ [l EXCEPT !.seg = s].pd = l.pd
  BY DEF Loads
<1>4. [l EXCEPT !.pd = d] \in Loads /\ [l EXCEPT !.pd = d].pd = d
  BY DEF Loads
<1> QED BY <1>1, <1>2, <1>3, <1>4

LEMMA LoadsKept ==
  ASSUME ld \in [Procs -> Loads], NEW p \in Procs, NEW l \in Loads, l.pd = ld[p].pd, ld' = [ld EXCEPT ![p] = l]
  PROVE  ld' \in [Procs -> Loads] /\ \A q \in Procs : ld'[q].pd = ld[q].pd
  OBVIOUS

LEMMA HeaderTyped ==
  ASSUME UmTypeOK, NEW p \in Procs, ld[p].i <= Len(ld[p].image.phdrs)
  PROVE  ld[p].image \in Images /\ ld[p].i \in 1 .. Len(ld[p].image.phdrs) /\ ld[p].image.phdrs[ld[p].i] \in Phdrs
<1>1. ld[p].image \in Images \cup {NoLoad.image} /\ ld[p].i \in Nat \ {0}
  BY DEF UmTypeOK, Loads
<1>2. NoLoad.image.phdrs = <<>>
  BY DEF NoLoad
<1>3. ld[p].image \in Images
  BY <1>1, <1>2
<1>4. ld[p].image.phdrs \in Seq(Phdrs)
  BY <1>3, UmAssumption
<1>5. ld[p].i \in 1 .. Len(ld[p].image.phdrs)
  BY <1>1, <1>4
<1> QED BY <1>3, <1>4, <1>5

LEMMA SegmentTyped ==
  ASSUME NEW ph \in Phdrs
  PROVE  Segment(ph) \in Segments
<1>1. /\ ph.offset \in Int /\ ph.vaddr \in Int /\ ph.filesz \in Int /\ ph.memsz \in Int /\ ph.w \in BOOLEAN
      /\ PageBytes \in Nat \ {0} /\ AddressMod \in Nat \ {0}
  <2>1. AddressMod > 0
    BY UmAssumption
  <2> QED BY <2>1, UmAssumption DEF Phdrs
<1>2. \A a \in Int : pg_ofs(a) \in Int /\ pg_round_down(a) \in Int /\ pg_no(a) \in Int
  BY <1>1 DEF pg_ofs, pg_round_down, pg_no
<1>3. \A a \in Int : pg_round_up(a) \in Int
  BY <1>1, <1>2 DEF pg_round_up
<1> QED BY <1>1, <1>2, <1>3 DEF Segment, Segments

LEMMA HeaderStep ==
  ASSUME CoreInv, NEW p \in Procs, load_header(p) \/ push_arguments(p) \/ Exit(p), UNCHANGED <<running, cleared>>
  PROVE  CoreInv'
<1>1. ld' = ld /\ ld \in [Procs -> Loads]
  BY DEF CoreInv, UmTypeOK, load_header, push_arguments, Exit
<1>2. UNCHANGED <<frames, pagedir, pde, pte, cr3, tlb, running, cleared>>
  BY DEF load_header, push_arguments, Exit
<1>3. CASE load_header(p)
  BY <1>1, <1>2, <1>3, ControlStep DEF load_header, LoadFails, UmGo, Building
<1>4. CASE push_arguments(p)
  BY <1>1, <1>2, <1>4, ControlStep DEF push_arguments, UmGo, Building
<1>5. CASE Exit(p)
  BY <1>1, <1>2, <1>5, ControlStep DEF Exit, UmGo, Building
<1> QED BY <1>3, <1>4, <1>5

LEMMA PhdrStep ==
  ASSUME CoreInv, NEW p \in Procs, load_phdr(p), UNCHANGED <<running, cleared>>
  PROVE  CoreInv'
<1>0. UmTypeOK /\ ld \in [Procs -> Loads] /\ ld[p] \in Loads
  BY DEF CoreInv, UmTypeOK
<1>1. UNCHANGED <<frames, pagedir, pde, pte, cr3, tlb, running, cleared>> /\ at[p] = "phdr"
  BY DEF load_phdr
<1>2. \/ UNCHANGED ld /\ (UmGo(p, "stack") \/ UmGo(p, "exit"))
      \/ ld' = [ld EXCEPT ![p].i = @ + 1] /\ UmGo(p, "phdr")
      \/ /\ ld[p].i <= Len(ld[p].image.phdrs) /\ UmGo(p, "segment")
         /\ ld' = [ld EXCEPT ![p].i = @ + 1, ![p].seg = Segment(ld[p].image.phdrs[ld[p].i])]
  <2>1. CASE ld[p].i > Len(ld[p].image.phdrs)
    BY <2>1, Zenon DEF load_phdr
  <2>2. CASE ~(ld[p].i > Len(ld[p].image.phdrs))
    <3>1. ld[p].i <= Len(ld[p].image.phdrs)
      <4>1. ld[p].i \in Nat /\ ld[p].image.phdrs \in Seq(Phdrs)
        <5>1. NoLoad.image.phdrs = <<>> /\ <<>> \in Seq(Phdrs)
          BY DEF NoLoad
        <5> QED BY <1>0, <5>1, UmAssumption DEF Loads
      <4> QED BY <2>2, <4>1
    <3> QED BY <2>2, <3>1 DEF load_phdr, LoadFails
  <2> QED BY <2>1, <2>2
<1>3. ld' \in [Procs -> Loads] /\ \A q \in Procs : ld'[q].pd = ld[q].pd
  <2>1. CASE UNCHANGED ld
    BY <2>1, <1>0
  <2>2. CASE ld' = [ld EXCEPT ![p].i = @ + 1]
    <3>1. ld' = [ld EXCEPT ![p] = [ld[p] EXCEPT !.i = @ + 1]]
      BY <2>2, <1>0
    <3>2. [ld[p] EXCEPT !.i = @ + 1] \in Loads /\ [ld[p] EXCEPT !.i = @ + 1].pd = ld[p].pd
      BY <1>0 DEF Loads
    <3> QED BY <3>1, <3>2, <1>0, LoadsKept
  <2>3. CASE /\ ld[p].i <= Len(ld[p].image.phdrs)
             /\ ld' = [ld EXCEPT ![p].i = @ + 1, ![p].seg = Segment(ld[p].image.phdrs[ld[p].i])]
    <3>1. PICK s \in Segments : s = Segment(ld[p].image.phdrs[ld[p].i])
      BY <2>3, <1>0, HeaderTyped, SegmentTyped
    <3>2. ld' = [ld EXCEPT ![p] = [ld[p] EXCEPT !.i = @ + 1, !.seg = s]]
      BY <2>3, <3>1, <1>0
    <3>3. [ld[p] EXCEPT !.i = @ + 1, !.seg = s] \in Loads /\ [ld[p] EXCEPT !.i = @ + 1, !.seg = s].pd = ld[p].pd
      <4>0. [ld[p] EXCEPT !.i = @ + 1] \in Loads /\ [ld[p] EXCEPT !.i = @ + 1].pd = ld[p].pd
        BY <1>0 DEF Loads
      <4>1. PICK l \in Loads : l = [ld[p] EXCEPT !.i = @ + 1] /\ l.pd = ld[p].pd
        BY <4>0
      <4>2. [l EXCEPT !.seg = s] \in Loads /\ [l EXCEPT !.seg = s].pd = l.pd
        BY DEF Loads
      <4>3. [ld[p] EXCEPT !.i = @ + 1, !.seg = s] = [l EXCEPT !.seg = s]
        BY <4>1, <1>0
      <4> QED BY <4>1, <4>2, <4>3
    <3> QED BY <3>2, <3>3, <1>0, LoadsKept
  <2> QED BY <1>2, <2>1, <2>2, <2>3
<1>4. \E x \in {"stack", "exit", "phdr", "segment"} : at' = [at EXCEPT ![p] = x]
  BY <1>2 DEF UmGo
<1> QED BY <1>1, <1>3, <1>4, ControlStep DEF Building
LEMMA CreateStep ==
  ASSUME CoreInv, NEW p \in Procs, running = p, pagedir_create(p), UNCHANGED <<running, cleared>>
  PROVE  CoreInv'
<1>0. UmTypeOK /\ ld \in [Procs -> Loads] /\ ld[p] \in Loads /\ at[p] = "new" /\ pagedir[p] = NULLF
  BY DEF CoreInv, UmTypeOK, pagedir_create, StepInv
<1>1. ld' \in [Procs -> Loads] /\ \A q \in Procs : ld'[q].pd = ld[q].pd
  <2>1. PICK img \in Images : ld' = [ld EXCEPT ![p].image = img]
    BY DEF pagedir_create
  <2>2. ld' = [ld EXCEPT ![p] = [ld[p] EXCEPT !.image = img]]
    BY <2>1, <1>0
  <2>3. [ld[p] EXCEPT !.image = img] \in Loads /\ [ld[p] EXCEPT !.image = img].pd = ld[p].pd
    BY <1>0 DEF Loads
  <2> QED BY <2>2, <2>3, <1>0, LoadsKept
<1>2. CASE FreeFrames(KFrames) = {}
  <2>1. at' = [at EXCEPT ![p] = "exit"] /\ UNCHANGED <<frames, pagedir, pde, pte, cr3, tlb>>
    BY <1>2 DEF pagedir_create, LoadFails, UmGo
  <2> QED BY <2>1, <1>0, <1>1, ControlStep DEF Building
<1>3. CASE FreeFrames(KFrames) # {}
  <2>1. PICK f \in KFrames : f \notin frames /\ f = First(FreeFrames(KFrames))
    BY <1>3, FreeFrame, UmAssumption
  <2>2. /\ frames' = frames \cup {f} /\ pde' = [pde EXCEPT ![f] = NoTables] /\ pte' = pte
        /\ pagedir' = [pagedir EXCEPT ![p] = f] /\ pagedir_activate(f) /\ at' = [at EXCEPT ![p] = "header"]
    BY <1>3, <2>1 DEF pagedir_create, UmGo
  <2>3. f # NULLF
    BY Constants
  <2>4. cr3' = f /\ tlb' = [page \in Pages |-> NoEntry]
    BY <2>2, <2>3 DEF pagedir_activate
  <2>5. /\ at'[p] = "header" /\ \A q \in Procs : q # p => at'[q] = at[q]
        /\ pagedir'[p] = f /\ \A q \in Procs : q # p => pagedir'[q] = pagedir[q]
    BY <2>2, <1>0 DEF UmTypeOK
  <2>6. /\ dir[p] = NULLF /\ Directory(p)' = f /\ \A q \in Procs : q # p => Directory(q)' = Directory(q)
    BY <1>0, <1>1, <2>5, DirTypes DEF Directory
  <2>7. dir' = [dir EXCEPT ![p] = f]
    BY <2>6 DEF dir
  <2>8. OwnTypes(dir', frames', pde', pte', cleared') /\ Owned(dir', frames', pde', pte', cleared')
    BY <2>1, <2>2, <2>6, <2>7, <1>0, DirTypes, NewDirectory DEF CoreInv, OwnInv
  <2>9. UmTypeOK'
    <3>1. pagedir' \in [Procs -> KFrames \cup {NULLF}] /\ at' \in [Procs -> Building \cup Leaving \cup {"new", "exit", "dead"}]
      BY <2>2, <1>0 DEF UmTypeOK, Building
    <3>2. tlb' \in [Pages -> Entries]
      BY <2>4, TlbEmptied
    <3> QED BY <3>1, <3>2, <2>8, <2>4, <1>0, <1>1 DEF UmTypeOK, OwnTypes
  <2>10. StepInv'
    BY <2>5, <2>3, <1>1 DEF CoreInv, StepInv, Building, Leaving
  <2>11. CpuInv'
    BY <2>4, <2>5, <2>6, <2>7, <1>0, DirTypes DEF CpuInv, OwnTypes
  <2>12. TlbInv'
    BY <2>4, TlbEmptied
  <2> QED BY <2>8, <2>9, <2>10, <2>11, <2>12 DEF CoreInv, OwnInv
<1> QED BY <1>2, <1>3
LEMMA NewEntry ==
  ASSUME NEW f \in UFrames, NEW w \in BOOLEAN
  PROVE  /\ pte_create_user(f, w) \in Entries
         /\ pte_create_user(f, w).present /\ pte_create_user(f, w).frame = f /\ pte_create_user(f, w).writable = w
  BY DEF pte_create_user, Entries

\* A page that load installs: the directory is the running process's own, and
\* nothing was cached for the page.
LEMMA InstallStep ==
  ASSUME CoreInv, NEW p \in Procs, running = p, at[p] \in Building, NEW page \in Pages, NEW w \in BOOLEAN, NEW c,
         NEW next \in Building, Install(p, page, w, c, next), ld' \in [Procs -> Loads],
         \A q \in Procs : ld'[q].pd = ld[q].pd, UNCHANGED <<pagedir, cr3, tlb, running, cleared>>
  PROVE  CoreInv'
<1>0. /\ UmTypeOK /\ pagedir[p] # NULLF /\ Directory(p) = pagedir[p] /\ dir[p] = pagedir[p] /\ cr3 = pagedir[p]
      /\ OwnTypes(dir, frames, pde, pte, cleared) /\ Owned(dir, frames, pde, pte, cleared)
  BY DirTypes DEF CoreInv, StepInv, OwnInv, CpuInv, Directory, Building
<1>1. CASE at' = [at EXCEPT ![p] = "exit"] /\ UNCHANGED <<frames, pde, pte>>
  BY <1>1, ControlStep DEF Building
<1>2. CASE ~(at' = [at EXCEPT ![p] = "exit"] /\ UNCHANGED <<frames, pde, pte>>)
  <2>1. /\ FreeFrames(UFrames) # {} /\ ~Mapped(pagedir[p], page) /\ at' = [at EXCEPT ![p] = next]
        /\ pagedir_set_page(pagedir[p], page, First(FreeFrames(UFrames)), w)
    BY <1>2 DEF Install, LoadFails, UmGo
  <2>2. PICK f \in UFrames : f \notin frames /\ f = First(FreeFrames(UFrames))
    BY <2>1, FreeFrame, UmAssumption
  <2>3. PICK i \in TableNos, k \in EntryNos : i = pd_no(page) /\ k = pt_no(page)
    BY PageSplit
  <2>4. PICK e \in Entries : e = pte_create_user(f, w) /\ e.present /\ e.frame = f
    BY NewEntry
  <2>5. at'[p] = next /\ \A q \in Procs : q # p => at'[q] = at[q]
    BY <2>1, <1>0 DEF UmTypeOK
  <2>6. \A q \in Procs : Directory(q)' = Directory(q)
    BY <2>5, <1>0 DEF Directory, Building
  <2>7. dir' = dir
    BY <2>6, DirKept
  <2>8. /\ OwnTypes(dir, frames', pde', pte', cleared) /\ Owned(dir, frames', pde', pte', cleared)
        /\ \A h \in Pages : lookup_page(cr3, h).present => lookup_page(cr3, h)' = lookup_page(cr3, h)
    <3>1. CASE pde[pagedir[p]][i] # NULLF
      <4>1. HasTable(dir, pde, p, i) /\ ~Ent(dir, pde, pte, p, i, k).present
        BY <3>1, <1>0, <2>1, <2>3, Lookup DEF HasTable, Mapped
      <4>2. frames' = frames \cup {f} /\ pde' = pde /\ pte' = [pte EXCEPT ![pde[dir[p]][i]][k] = e]
        BY <3>1, <1>0, <2>1, <2>2, <2>3, <2>4 DEF pagedir_set_page
      <4>3. OwnTypes(dir, frames', pde', pte', cleared) /\ Owned(dir, frames', pde', pte', cleared)
        BY <4>1, <4>2, <1>0, <2>2, <2>4, NewPage, ZenonT(40)
      <4>4. Written(dir, pde, pte, pte', p, i, k, e)
        BY <4>1, <4>2, <1>0, EntryWritten, Zenon DEF Owned
      <4>5. ASSUME NEW h \in Pages, lookup_page(cr3, h).present PROVE lookup_page(cr3, h)' = lookup_page(cr3, h)
        <5>1. pd_no(h) \in TableNos /\ pt_no(h) \in EntryNos
          BY PageSplit
        <5>2. HasTable(dir, pde, p, pd_no(h)) /\ lookup_page(cr3, h) = Ent(dir, pde, pte, p, pd_no(h), pt_no(h))
          BY <4>5, <1>0, Lookup, Constants
        <5>3. ~(pd_no(h) = i /\ pt_no(h) = k)
          BY <5>2, <4>1, <4>5
        <5>4. Ent(dir, pde, pte', p, pd_no(h), pt_no(h)) = Ent(dir, pde, pte, p, pd_no(h), pt_no(h))
          BY <5>1, <5>2, <5>3, <4>4 DEF Written
        <5>5. lookup_page(cr3, h)' = Ent(dir, pde, pte', p, pd_no(h), pt_no(h))
          BY <5>2, <4>2, <1>0 DEF lookup_page, HasTable, Ent
        <5> QED BY <5>2, <5>4, <5>5
      <4> QED BY <4>3, <4>5
    <3>2. CASE pde[pagedir[p]][i] = NULLF
      <4>1. FreeFrames(KFrames) # {}
        BY <3>2, <2>1, <2>3 DEF pagedir_set_page
      <4>2. PICK n \in KFrames : n \notin frames /\ n = First(FreeFrames(KFrames))
        BY <4>1, FreeFrame, UmAssumption
      <4>3. /\ frames' = frames \cup {f, n} /\ pde' = [pde EXCEPT ![dir[p]][i] = n]
            /\ pte' = [pte EXCEPT ![n] = [NoPages EXCEPT ![k] = e]]
        BY <3>2, <1>0, <2>1, <2>2, <2>3, <2>4, <4>2 DEF pagedir_set_page
      <4>4. OwnTypes(dir, frames', pde', pte', cleared) /\ Owned(dir, frames', pde', pte', cleared)
        <5>1. frames \cup {f, n} = frames' BY <4>3
        <5>2. dir[p] = pagedir[p] /\ dir[p] # NULLF /\ pde[dir[p]][i] = NULLF BY <1>0, <3>2
        <5>3. /\ OwnTypes(dir, frames \cup {f, n}, pde', pte', cleared)
              /\ Owned(dir, frames \cup {f, n}, pde', pte', cleared)
          BY ONLY <1>0, <2>2, <2>4, <4>2, <4>3, <5>2, p \in Procs, NewTable, ZenonT(60)
        <5> QED BY ONLY <5>1, <5>3, Zenon
      <4>5. ASSUME NEW h \in Pages, lookup_page(cr3, h).present PROVE lookup_page(cr3, h)' = lookup_page(cr3, h)
        <5>1. pd_no(h) \in TableNos /\ pt_no(h) \in EntryNos
          BY PageSplit
        <5>2. HasTable(dir, pde, p, pd_no(h)) /\ lookup_page(cr3, h) = Ent(dir, pde, pte, p, pd_no(h), pt_no(h))
          BY <4>5, <1>0, Lookup, Constants
        <5>3. pd_no(h) # i
          BY <5>2, <3>2, <1>0 DEF HasTable
        <5>4. pde[cr3][pd_no(h)] # NULLF /\ pde[cr3][pd_no(h)] \in frames /\ cr3 \in KFrames
          BY <5>1, <5>2, <1>0 DEF HasTable, Owned, TablesOwned, OwnTypes
        <5>5. pde'[cr3][pd_no(h)] = pde[cr3][pd_no(h)]
          BY <5>1, <5>3, <5>4, <4>3, <1>0 DEF OwnTypes
        <5>6. pte'[pde[cr3][pd_no(h)]] = pte[pde[cr3][pd_no(h)]]
          BY <5>1, <5>4, <4>2, <4>3, <1>0 DEF OwnTypes
        <5> QED BY <5>4, <5>5, <5>6 DEF lookup_page
      <4> QED BY <4>4, <4>5
    <3> QED BY <3>1, <3>2
  <2>9. UmTypeOK'
    <3>1. at' \in [Procs -> Building \cup Leaving \cup {"new", "exit", "dead"}]
      BY <2>1, <1>0 DEF UmTypeOK
    <3> QED BY <3>1, <2>8, <1>0 DEF UmTypeOK, OwnTypes
  <2>10. StepInv'
    BY <2>5, <1>0 DEF CoreInv, StepInv, Building, Leaving
  <2>11. CpuInv'
    BY <2>5, <2>7 DEF CoreInv, CpuInv, Building
  <2>12. TlbInv'
    <3>1. ASSUME NEW h \in Pages, tlb[h].present
          PROVE  cr3 # InitDir /\ tlb[h].accessed /\ tlb[h] = lookup_page(cr3, h)'
      <4>1. cr3 # InitDir /\ tlb[h].accessed /\ tlb[h] = lookup_page(cr3, h)
        BY <3>1 DEF CoreInv, TlbInv
      <4>2. lookup_page(cr3, h)' = lookup_page(cr3, h)
        BY <3>1, <4>1, <2>8
      <4> QED BY <4>1, <4>2
    <3> QED BY <3>1 DEF TlbInv
  <2> QED BY <2>7, <2>8, <2>9, <2>10, <2>11, <2>12 DEF CoreInv, OwnInv
<1> QED BY <1>1, <1>2
LEMMA SegmentStep ==
  ASSUME CoreInv, NEW p \in Procs, running = p, load_segment(p), UNCHANGED <<running, cleared>>
  PROVE  CoreInv'
<1>0. /\ UmTypeOK /\ ld \in [Procs -> Loads] /\ ld[p] \in Loads /\ at[p] = "segment" /\ ld[p].seg \in Segments
      /\ UNCHANGED <<pagedir, cr3, tlb, running, cleared>>
  BY DEF CoreInv, UmTypeOK, Loads, load_segment
<1>1. PICK s \in Segments : s = ld[p].seg
  BY <1>0
<1>2. PICK n \in Int : n = IF s.read < PageBytes THEN s.read ELSE PageBytes
  BY UmAssumption DEF Segments
<1>3. CASE UNCHANGED <<frames, pde, pte, ld>> /\ (at' = [at EXCEPT ![p] = "panic"] \/ at' = [at EXCEPT ![p] = "exit"])
  BY <1>0, <1>3, ControlStep DEF Building
<1>4. CASE ~(UNCHANGED <<frames, pde, pte, ld>> /\ (at' = [at EXCEPT ![p] = "panic"] \/ at' = [at EXCEPT ![p] = "exit"]))
  <2>1. PICK next \in {"segment", "phdr"} :
          /\ s.upage \in Pages /\ Install(p, s.upage, s.w, [ofs |-> s.ofs, n |-> n], next)
          /\ ld' = [ld EXCEPT ![p].seg = [s EXCEPT !.read = @ - n, !.zero = @ - (PageBytes - n),
                                                   !.upage = @ + 1, !.ofs = @ + n]]
    BY <1>1, <1>2, <1>4 DEF load_segment, LoadFails, UmGo
  <2>2. PICK t : t = [s EXCEPT !.read = @ - n, !.zero = @ - (PageBytes - n), !.upage = @ + 1, !.ofs = @ + n]
    OBVIOUS
  <2>3. t \in Segments
    <3>1. t = [read |-> s.read - n, zero |-> s.zero - (PageBytes - n), upage |-> s.upage + 1, ofs |-> s.ofs + n, w |-> s.w]
      BY <2>2 DEF Segments
    <3>2. s.read - n \in Int /\ s.zero - (PageBytes - n) \in Int /\ s.upage + 1 \in Int /\ s.ofs + n \in Int /\ s.w \in BOOLEAN
      BY UmAssumption DEF Segments
    <3> QED BY <3>1, <3>2 DEF Segments
  <2>4. ld' = [ld EXCEPT ![p] = [ld[p] EXCEPT !.seg = t]]
    BY <2>1, <2>2, <1>0
  <2>5. [ld[p] EXCEPT !.seg = t] \in Loads /\ [ld[p] EXCEPT !.seg = t].pd = ld[p].pd
    BY <2>3, <1>0 DEF Loads
  <2>6. ld' \in [Procs -> Loads] /\ \A q \in Procs : ld'[q].pd = ld[q].pd
    BY <2>4, <2>5, <1>0, LoadsKept
  <2>7. s.w \in BOOLEAN
    BY DEF Segments
  <2> QED BY <2>1, <2>6, <2>7, <1>0, InstallStep DEF Building
<1> QED BY <1>3, <1>4

LEMMA StackStep ==
  ASSUME CoreInv, NEW p \in Procs, running = p, setup_stack(p), UNCHANGED <<running, cleared>>
  PROVE  CoreInv'
<1>1. UserPageCount - 1 \in Pages
  BY UmAssumption DEF Pages
<1>2. ld \in [Procs -> Loads] /\ UNCHANGED <<pagedir, cr3, tlb, ld>> /\ at[p] = "stack"
  BY DEF CoreInv, UmTypeOK, setup_stack
<1>3. Install(p, UserPageCount - 1, TRUE, [ofs |-> 0, n |-> 0], "args")
  BY DEF setup_stack
<1> QED BY <1>1, <1>2, <1>3, InstallStep DEF Building

\* An entry that changes, and what it says to the rest of the machine.
LEMMA EntryStep ==
  ASSUME CoreInv, NEW q \in Procs, at[q] = "user", NEW page \in Pages, HasTable(dir, pde, q, pd_no(page)),
         NEW e \in Entries, e.frame = lookup_page(pagedir[q], page).frame,
         pte' = [pte EXCEPT ![pde[pagedir[q]][pd_no(page)]][pt_no(page)] = e],
         \/ e.present = lookup_page(pagedir[q], page).present /\ cleared' = cleared
         \/ /\ lookup_page(pagedir[q], page).present /\ ~e.present
            /\ cleared' = cleared \cup {lookup_page(pagedir[q], page).frame},
         UNCHANGED <<frames, pagedir, pde, cr3, at, ld, running>>, tlb' \in [Pages -> Entries]
  PROVE  /\ UmTypeOK' /\ StepInv' /\ OwnInv' /\ CpuInv'
         /\ Written(dir, pde, pte, pte', q, pd_no(page), pt_no(page), e)
<1>0. /\ UmTypeOK /\ pagedir[q] # NULLF /\ dir[q] = pagedir[q]
      /\ OwnTypes(dir, frames, pde, pte, cleared) /\ Owned(dir, frames, pde, pte, cleared) /\ TablesOwned(dir, frames, pde)
  BY DirTypes DEF CoreInv, StepInv, OwnInv, Directory, Building, Owned
<1>1. PICK i \in TableNos, k \in EntryNos : i = pd_no(page) /\ k = pt_no(page)
  BY PageSplit
<1>2. HasTable(dir, pde, q, i) /\ lookup_page(pagedir[q], page) = Ent(dir, pde, pte, q, i, k)
  BY <1>0, <1>1, Lookup
<1>3. pte' = [pte EXCEPT ![pde[dir[q]][i]][k] = e]
  BY <1>0, <1>1
<1>4. Written(dir, pde, pte, pte', q, i, k, e)
  BY <1>0, <1>2, <1>3, EntryWritten, Zenon
<1>5. dir' = dir
  BY DirKept DEF Directory
<1>6. OwnTypes(dir, frames, pde, pte', cleared') /\ Owned(dir, frames, pde, pte', cleared')
  <2>1. CASE e.present = lookup_page(pagedir[q], page).present /\ cleared' = cleared
    <3>1. e.present = Ent(dir, pde, pte, q, i, k).present /\ e.frame = Ent(dir, pde, pte, q, i, k).frame
      BY <2>1, <1>2, Zenon
    <3>2. OwnTypes(dir, frames, pde, pte', cleared) /\ Owned(dir, frames, pde, pte', cleared)
      BY ONLY <3>1, <1>0, <1>2, <1>3, EntryBits, e \in Entries, q \in Procs, i \in TableNos, k \in EntryNos, Zenon
    <3> QED BY <3>2, <2>1
  <2>2. CASE /\ lookup_page(pagedir[q], page).present /\ ~e.present
             /\ cleared' = cleared \cup {lookup_page(pagedir[q], page).frame}
    <3>1. PICK f : f = Ent(dir, pde, pte, q, i, k).frame
      OBVIOUS
    <3>2. Ent(dir, pde, pte, q, i, k).present /\ ~e.present /\ e.frame = f /\ cleared' = cleared \cup {f}
      BY <2>2, <3>1, <1>2
    <3>3. OwnTypes(dir, frames, pde, pte', cleared \cup {f}) /\ Owned(dir, frames, pde, pte', cleared \cup {f})
      BY ONLY <3>1, <3>2, <1>0, <1>2, <1>3, EntryCleared, e \in Entries, q \in Procs, i \in TableNos, k \in EntryNos, Zenon
    <3> QED BY <3>2, <3>3
  <2> QED BY <2>1, <2>2
<1>7. OwnInv'
  BY <1>5, <1>6 DEF OwnInv
<1>8. UmTypeOK'
  BY <1>6, <1>0 DEF UmTypeOK, OwnTypes
<1>9. StepInv'
  BY DEF CoreInv, StepInv
<1>10. CpuInv'
  BY <1>5 DEF CoreInv, CpuInv
<1> QED BY <1>1, <1>4, <1>7, <1>8, <1>9, <1>10
LEMMA TouchStep ==
  ASSUME CoreInv, NEW p \in Procs, running = p, NEW page \in TouchPages, NEW write \in BOOLEAN, Touch(p, page, write),
         UNCHANGED <<running, cleared>>
  PROVE  CoreInv'
<1>0. /\ UmTypeOK /\ at[p] = "user" /\ pagedir[p] # NULLF /\ dir[p] = pagedir[p] /\ cr3 = pagedir[p] /\ page \in Pages
      /\ cr3 # InitDir /\ tlb \in [Pages -> Entries] /\ ld' = ld /\ UNCHANGED <<frames, pagedir, pde, cr3, ld>>
  BY DirTypes, UmAssumption, Constants DEF CoreInv, StepInv, CpuInv, Directory, Building, Touch, Pages, UmTypeOK
<1>1. CASE UNCHANGED <<pte, tlb>> /\ at' = [at EXCEPT ![p] = "exit"]
  BY <1>0, <1>1, ControlStep DEF Building, CoreInv, UmTypeOK
<1>2. CASE ~(UNCHANGED <<pte, tlb>> /\ at' = [at EXCEPT ![p] = "exit"])
  <2>1. PICK hit \in BOOLEAN : hit <=> tlb[page].present /\ (write => tlb[page].dirty)
    OBVIOUS
  <2>2. PICK e : e = IF hit THEN tlb[page] ELSE lookup_page(pagedir[p], page)
    OBVIOUS
  <2>3. PICK new : new = [e EXCEPT !.accessed = TRUE, !.dirty = @ \/ write]
    OBVIOUS
  <2>4. /\ e.present /\ at' = at /\ tlb' = [tlb EXCEPT ![page] = new]
        /\ pte' = IF hit THEN pte ELSE [pte EXCEPT ![pde[pagedir[p]][pd_no(page)]][pt_no(page)] = new]
    <3>1. hit = (tlb[page].present /\ (write => tlb[page].dirty))
      BY <2>1
    <3> QED BY <1>2, <2>2, <2>3, <3>1, Zenon DEF Touch, UmGo
  <2>5. e \in Entries
    BY <2>2, <1>0, Lookup
  <2>6. /\ new \in Entries /\ new.present = e.present /\ new.frame = e.frame /\ new.accessed
        /\ (e.accessed /\ (write => e.dirty) => new = e)
    <3>0. e.dirty \in BOOLEAN /\ e.accessed \in BOOLEAN /\ e.present \in BOOLEAN
      BY <2>5 DEF Entries
    <3>1. PICK x \in BOOLEAN : x = (e.dirty \/ write)
      OBVIOUS
    <3>2. new = [present |-> e.present, frame |-> e.frame, writable |-> e.writable, dirty |-> x, accessed |-> TRUE]
      BY <2>3, <2>5, <3>1 DEF Entries
    <3>3. e = [present |-> e.present, frame |-> e.frame, writable |-> e.writable, dirty |-> e.dirty, accessed |-> e.accessed]
      BY <2>5 DEF Entries
    <3>4. new \in Entries
      BY <3>2, <2>5 DEF Entries
    <3>5. e.accessed /\ (write => e.dirty) => e.accessed = TRUE /\ e.dirty = x
      BY <3>0, <3>1
    <3>6. new.present = e.present /\ new.frame = e.frame /\ new.accessed
      BY <3>2
    <3> QED BY <3>2, <3>3, <3>4, <3>5, <3>6
  <2>7. tlb' \in [Pages -> Entries] /\ tlb'[page] = new /\ \A h \in Pages : h # page => tlb'[h] = tlb[h]
    BY <2>4, <2>6, <1>0
  <2>8. CASE hit
    <3>1. tlb[page].accessed /\ e = tlb[page] /\ (write => e.dirty)
      BY <2>8, <2>1, <2>2, <1>0 DEF CoreInv, TlbInv
    <3>2. new = tlb[page]
      BY <3>1, <2>6
    <3>3. tlb' = tlb
      BY <3>2, <2>4, <1>0
    <3>4. UNCHANGED <<frames, pagedir, pde, pte, cr3, tlb, running, at, ld, cleared>>
      BY <3>3, <2>4, <2>8, <1>0
    <3>5. UmTypeOK' /\ StepInv' /\ CpuInv' /\ TlbInv'
      BY <3>4 DEF CoreInv, UmTypeOK, StepInv, CpuInv, TlbInv, lookup_page, dir, Directory
    <3>6. dir' = dir
      BY <3>4, DirKept DEF Directory
    <3> QED BY <3>4, <3>5, <3>6 DEF CoreInv, OwnInv
  <2>9. CASE ~hit
    <3>1. e = lookup_page(pagedir[p], page) /\ pte' = [pte EXCEPT ![pde[pagedir[p]][pd_no(page)]][pt_no(page)] = new]
      BY <2>9, <2>2, <2>4
    <3>2. HasTable(dir, pde, p, pd_no(page))
      BY <3>1, <2>4, <1>0, Lookup, Constants
    <3>3. UmTypeOK' /\ StepInv' /\ OwnInv' /\ CpuInv' /\ Written(dir, pde, pte, pte', p, pd_no(page), pt_no(page), new)
      BY <3>1, <3>2, <2>4, <2>6, <2>7, <1>0, EntryStep
    <3>4. ASSUME NEW h \in Pages, tlb'[h].present
          PROVE  cr3 # InitDir /\ tlb'[h].accessed /\ tlb'[h] = lookup_page(cr3, h)'
      <4>1. pd_no(h) \in TableNos /\ pt_no(h) \in EntryNos
        BY PageSplit
      <4>2. CASE h = page
        <5>1. Ent(dir, pde, pte', p, pd_no(page), pt_no(page)) = new
          BY <3>3 DEF Written
        <5>2. lookup_page(cr3, page)' = new
          BY <5>1, <3>2, <1>0 DEF lookup_page, Ent, HasTable
        <5> QED BY <5>2, <4>2, <2>6, <2>7, <1>0
      <4>3. CASE h # page
        <5>1. tlb'[h] = tlb[h] /\ tlb[h].accessed /\ tlb[h] = lookup_page(cr3, h) /\ lookup_page(cr3, h).present
          BY <4>3, <3>4, <2>7 DEF CoreInv, TlbInv
        <5>2. HasTable(dir, pde, p, pd_no(h)) /\ lookup_page(cr3, h) = Ent(dir, pde, pte, p, pd_no(h), pt_no(h))
          BY <5>1, <1>0, Lookup, Constants
        <5>3. ~(pd_no(h) = pd_no(page) /\ pt_no(h) = pt_no(page))
          BY <4>3, <1>0, PageSplit
        <5>4. Ent(dir, pde, pte', p, pd_no(h), pt_no(h)) = Ent(dir, pde, pte, p, pd_no(h), pt_no(h))
          BY <5>2, <5>3, <4>1, <3>3 DEF Written
        <5>5. lookup_page(cr3, h)' = Ent(dir, pde, pte', p, pd_no(h), pt_no(h))
          BY <5>2, <1>0 DEF lookup_page, HasTable, Ent
        <5> QED BY <5>1, <5>2, <5>4, <5>5, <1>0
      <4> QED BY <4>2, <4>3
    <3>5. TlbInv'
      BY <3>4, <1>0 DEF TlbInv
    <3> QED BY <3>3, <3>5 DEF CoreInv
  <2> QED BY <2>8, <2>9
<1> QED BY <1>1, <1>2

\* pagedir.c changes an entry of q, for whoever runs.
LEMMA ChangeStep ==
  ASSUME CoreInv, NEW q \in Procs, NEW page \in Pages, NEW e \in Entries, ChangeEntry(q, page, e),
         e.frame = lookup_page(pagedir[q], page).frame,
         \/ e.present = lookup_page(pagedir[q], page).present /\ cleared' = cleared
         \/ /\ lookup_page(pagedir[q], page).present /\ ~e.present
            /\ cleared' = cleared \cup {lookup_page(pagedir[q], page).frame},
         UNCHANGED running
  PROVE  CoreInv'
<1>0. /\ UmTypeOK /\ at[q] = "user" /\ pagedir[q] # NULLF /\ dir[q] = pagedir[q]
      /\ tlb \in [Pages -> Entries] /\ UNCHANGED <<frames, pagedir, pde, at, ld>>
      /\ pte' = [pte EXCEPT ![pde[pagedir[q]][pd_no(page)]][pt_no(page)] = e]
      /\ HasTable(dir, pde, q, pd_no(page)) /\ invalidate_pagedir(pagedir[q])
  BY DirTypes DEF CoreInv, StepInv, Directory, Building, ChangeEntry, UmTypeOK, HasTable
<1>1. \/ cr3 = pagedir[q] /\ cr3' = cr3 /\ tlb' = [h \in Pages |-> NoEntry]
      \/ cr3 # pagedir[q] /\ cr3' = cr3 /\ tlb' = tlb
  BY <1>0 DEF invalidate_pagedir, active_pd, pagedir_activate
<1>2. cr3' = cr3 /\ tlb' \in [Pages -> Entries]
  BY <1>0, <1>1, TlbEmptied
<1>3. UmTypeOK' /\ StepInv' /\ OwnInv' /\ CpuInv' /\ Written(dir, pde, pte, pte', q, pd_no(page), pt_no(page), e)
  BY <1>0, <1>2, EntryStep
<1>4. TlbInv'
  <2>1. CASE tlb' = [h \in Pages |-> NoEntry]
    BY <2>1, TlbEmptied
  <2>2. CASE cr3 # pagedir[q] /\ tlb' = tlb
    <3>1. ASSUME NEW h \in Pages, tlb[h].present PROVE cr3 # InitDir /\ tlb[h].accessed /\ tlb[h] = lookup_page(cr3, h)'
      <4>1. cr3 # InitDir /\ tlb[h].accessed /\ tlb[h] = lookup_page(cr3, h)
        BY <3>1 DEF CoreInv, TlbInv
      <4>2. running \in Procs /\ cr3 = dir[running] /\ running # q /\ dir[running] # NULLF
        BY <4>1, <2>2, <1>0, Constants DEF CoreInv, CpuInv, UmTypeOK
      <4>3. pd_no(h) \in TableNos /\ pt_no(h) \in EntryNos
        BY PageSplit
      <4>4. HasTable(dir, pde, running, pd_no(h)) /\ lookup_page(cr3, h) = Ent(dir, pde, pte, running, pd_no(h), pt_no(h))
        BY <4>1, <4>2, <3>1, <1>0, Lookup, Constants
      <4>5. Ent(dir, pde, pte', running, pd_no(h), pt_no(h)) = Ent(dir, pde, pte, running, pd_no(h), pt_no(h))
        BY <4>2, <4>3, <4>4, <1>3 DEF Written
      <4>6. lookup_page(cr3, h)' = Ent(dir, pde, pte', running, pd_no(h), pt_no(h))
        BY <4>2, <4>4, <1>0, <1>2 DEF lookup_page, HasTable, Ent
      <4> QED BY <4>1, <4>4, <4>5, <4>6
    <3> QED BY <3>1, <2>2, <1>2 DEF TlbInv
  <2> QED BY <1>1, <2>1, <2>2
<1> QED BY <1>3, <1>4 DEF CoreInv

LEMMA PagedirStep ==
  ASSUME CoreInv, NEW q \in Procs, NEW page \in TouchPages,
         pagedir_set_dirty(q, page) \/ pagedir_set_accessed(q, page) \/ pagedir_clear_page(q, page), UNCHANGED running
  PROVE  CoreInv'
<1>0. page \in Pages
  BY UmAssumption DEF Pages
<1>1. at[q] = "user"
  BY DEF pagedir_set_dirty, pagedir_set_accessed, pagedir_clear_page, ChangeEntry
<1>2. PICK e \in Entries : e = lookup_page(pagedir[q], page)
  BY <1>0, <1>1, DirTypes, Lookup DEF CoreInv, StepInv, Directory, Building
<1>3. CASE pagedir_set_dirty(q, page)
  <2>1. PICK x : x = [e EXCEPT !.dirty = FALSE]
    OBVIOUS
  <2>2. x \in Entries /\ x.frame = e.frame /\ x.present = e.present
    BY <2>1 DEF Entries
  <2>3. ChangeEntry(q, page, x) /\ cleared' = cleared
    BY <1>2, <1>3, <2>1 DEF pagedir_set_dirty
  <2> QED BY <1>0, <1>2, <2>2, <2>3, ChangeStep
<1>4. CASE pagedir_set_accessed(q, page)
  <2>1. PICK x : x = [e EXCEPT !.accessed = FALSE]
    OBVIOUS
  <2>2. x \in Entries /\ x.frame = e.frame /\ x.present = e.present
    BY <2>1 DEF Entries
  <2>3. ChangeEntry(q, page, x) /\ cleared' = cleared
    BY <1>2, <1>4, <2>1 DEF pagedir_set_accessed
  <2> QED BY <1>0, <1>2, <2>2, <2>3, ChangeStep
<1>5. CASE pagedir_clear_page(q, page)
  <2>1. PICK x : x = [e EXCEPT !.present = FALSE]
    OBVIOUS
  <2>2. x \in Entries /\ x.frame = e.frame /\ ~x.present
    BY <2>1 DEF Entries
  <2>3. ChangeEntry(q, page, x) /\ cleared' = cleared \cup {e.frame} /\ e.present
    BY <1>2, <1>5, <2>1 DEF pagedir_clear_page
  <2> QED BY <1>0, <1>2, <2>2, <2>3, ChangeStep
<1> QED BY <1>3, <1>4, <1>5
\* process_exit forgets the directory, but answers for it still.
LEMMA ForgetStep ==
  ASSUME CoreInv, NEW p \in Procs, running = p, exit_forget(p), UNCHANGED <<running, cleared>>
  PROVE  CoreInv'
<1>0. /\ UmTypeOK /\ at[p] = "exit" /\ ld \in [Procs -> Loads] /\ ld[p] \in Loads
      /\ pagedir \in [Procs -> KFrames \cup {NULLF}] /\ pagedir' = [pagedir EXCEPT ![p] = NULLF]
      /\ UNCHANGED <<frames, pde, pte, cr3, tlb>>
  BY DEF CoreInv, UmTypeOK, exit_forget
<1>1. PICK x \in {"dead", "activate"} : at' = [at EXCEPT ![p] = x] /\ (x = "dead" <=> pagedir[p] = NULLF)
  BY DEF exit_forget, UmGo
<1>2. ld' = [ld EXCEPT ![p] = [ld[p] EXCEPT !.pd = pagedir[p]]]
  BY <1>0 DEF exit_forget
<1>3. [ld[p] EXCEPT !.pd = pagedir[p]] \in Loads /\ [ld[p] EXCEPT !.pd = pagedir[p]].pd = pagedir[p]
  BY <1>0 DEF Loads
<1>4. /\ ld' \in [Procs -> Loads] /\ ld'[p].pd = pagedir[p] /\ \A q \in Procs : q # p => ld'[q] = ld[q]
  BY <1>0, <1>2, <1>3
<1>5. /\ at'[p] = x /\ \A q \in Procs : q # p => at'[q] = at[q]
      /\ pagedir'[p] = NULLF /\ \A q \in Procs : q # p => pagedir'[q] = pagedir[q]
  BY <1>0, <1>1 DEF UmTypeOK
<1>6. \A q \in Procs : Directory(q)' = Directory(q)
  BY <1>0, <1>1, <1>4, <1>5 DEF Directory
<1>7. dir' = dir
  BY <1>6, DirKept
<1>8. UmTypeOK'
  <2>1. at' \in [Procs -> Building \cup Leaving \cup {"new", "exit", "dead"}] /\ pagedir' \in [Procs -> KFrames \cup {NULLF}]
    BY <1>0, <1>1 DEF UmTypeOK, Leaving
  <2> QED BY <2>1, <1>0, <1>4 DEF UmTypeOK
<1>9. StepInv'
  BY <1>1, <1>4, <1>5 DEF CoreInv, StepInv, Building, Leaving
<1>10. CpuInv'
  BY <1>0, <1>1, <1>5, <1>7 DEF CoreInv, CpuInv
<1>11. OwnInv' /\ TlbInv'
  BY <1>0, <1>7 DEF CoreInv, OwnInv, TlbInv, lookup_page
<1> QED BY <1>8, <1>9, <1>10, <1>11 DEF CoreInv

LEMMA ActivateStep ==
  ASSUME CoreInv, NEW p \in Procs, running = p, exit_activate(p), UNCHANGED <<running, cleared>>
  PROVE  CoreInv'
<1>0. /\ UmTypeOK /\ at[p] = "activate" /\ pagedir[p] = NULLF /\ at' = [at EXCEPT ![p] = "destroy"]
      /\ cr3' = InitDir /\ tlb' = [page \in Pages |-> NoEntry] /\ UNCHANGED <<frames, pagedir, pde, pte, ld>>
  BY DEF CoreInv, StepInv, Leaving, exit_activate, pagedir_activate, UmGo
<1>1. at'[p] = "destroy" /\ \A q \in Procs : q # p => at'[q] = at[q]
  BY <1>0 DEF UmTypeOK
<1>2. \A q \in Procs : Directory(q)' = Directory(q)
  BY <1>0, <1>1 DEF Directory
<1>3. dir' = dir
  BY <1>2, DirKept
<1>4. UmTypeOK'
  <2>1. at' \in [Procs -> Building \cup Leaving \cup {"new", "exit", "dead"}]
    BY <1>0 DEF UmTypeOK, Leaving
  <2>2. tlb' \in [Pages -> Entries]
    BY <1>0, TlbEmptied
  <2> QED BY <2>1, <2>2, <1>0 DEF UmTypeOK
<1>5. StepInv'
  BY <1>0, <1>1 DEF CoreInv, StepInv, Building, Leaving
<1>6. CpuInv' /\ OwnInv'
  BY <1>0, <1>3 DEF CoreInv, CpuInv, OwnInv
<1>7. TlbInv'
  BY <1>0, TlbEmptied
<1> QED BY <1>4, <1>5, <1>6, <1>7 DEF CoreInv

LEMMA DestroyStep ==
  ASSUME CoreInv, NEW p \in Procs, running = p, pagedir_destroy(p), UNCHANGED <<running, cleared>>
  PROVE  CoreInv'
<1>0. /\ UmTypeOK /\ at[p] = "destroy" /\ pagedir[p] = NULLF /\ ld[p].pd # NULLF /\ cr3 = InitDir
      /\ at' = [at EXCEPT ![p] = "dead"] /\ UNCHANGED <<pagedir, pde, pte, cr3, tlb, ld>>
  BY DEF CoreInv, StepInv, CpuInv, Leaving, pagedir_destroy, UmGo
<1>1. at'[p] = "dead" /\ \A q \in Procs : q # p => at'[q] = at[q]
  BY <1>0 DEF UmTypeOK
<1>2. /\ OwnTypes(dir, frames, pde, pte, cleared) /\ Owned(dir, frames, pde, pte, cleared) /\ dir[p] = ld[p].pd
      /\ dir[p] # NULLF /\ dir[p] \in KFrames
  BY <1>0, DirTypes DEF CoreInv, OwnInv, Directory, OwnTypes
<1>3. Directory(p)' = NULLF /\ \A q \in Procs : q # p => Directory(q)' = Directory(q)
  BY <1>0, <1>1 DEF Directory
<1>4. dir' = [dir EXCEPT ![p] = NULLF]
  BY <1>3 DEF dir
<1>5. PICK T, M : T = TablesOf(dir[p]) /\ M = PagesOf(dir[p])
  OBVIOUS
<1>6. T = {pde[dir[p]][i] : i \in TableNos} \ {NULLF}
  BY <1>2, <1>5 DEF TablesOf, OwnTypes
<1>7. MappedBy(dir, pde, pte, p, M)
  <2>1. T \subseteq KFrames
    BY <1>2, <1>6 DEF OwnTypes
  <2>2. \A t \in T : DOMAIN pte[t] = EntryNos
    BY <2>1, <1>2 DEF OwnTypes
  <2>3. M = {e.frame : e \in {x \in UNION {{pte[t][i] : i \in DOMAIN pte[t]} : t \in T} : x.present}}
    BY <1>5 DEF PagesOf
  <2>4. \A f : f \in M <=> \E t \in T, k \in EntryNos : pte[t][k].present /\ f = pte[t][k].frame
    BY <2>2, <2>3
  <2>5. \A t : t \in T <=> \E i \in TableNos : t = pde[dir[p]][i] /\ t # NULLF
    BY <1>6
  <2> QED BY <2>4, <2>5 DEF Ent, MappedBy
<1>8. frames' = frames \ ({dir[p]} \cup T \cup M)
  BY <1>2, <1>5 DEF pagedir_destroy
<1>9. OwnTypes(dir', frames', pde, pte, cleared) /\ Owned(dir', frames', pde, pte, cleared)
  BY ONLY p \in Procs, <1>2, <1>4, <1>6, <1>7, <1>8, Destroyed, Zenon
<1>10. UmTypeOK'
  <2>1. at' \in [Procs -> Building \cup Leaving \cup {"new", "exit", "dead"}]
    BY <1>0 DEF UmTypeOK
  <2> QED BY <2>1, <1>0, <1>9 DEF UmTypeOK, OwnTypes
<1>11. StepInv'
  BY <1>0, <1>1 DEF CoreInv, StepInv, Building, Leaving
<1>12. CpuInv'
  BY <1>0 DEF CpuInv
<1>13. TlbInv'
  BY <1>0 DEF CoreInv, TlbInv
<1> QED BY <1>0, <1>9, <1>10, <1>11, <1>12, <1>13 DEF CoreInv, OwnInv

LEMMA SwitchStep ==
  ASSUME CoreInv, NEW t \in Procs \cup {NoProc}, process_activate(t)
  PROVE  CoreInv'
<1>0. /\ UmTypeOK /\ running' = t /\ tlb' = [page \in Pages |-> NoEntry]
      /\ UNCHANGED <<frames, pagedir, pde, pte, at, ld, cleared>>
      /\ t = NoProc => cr3' = InitDir
      /\ t # NoProc => cr3' = IF pagedir[t] = NULLF THEN InitDir ELSE pagedir[t]
  BY DEF CoreInv, process_activate, pagedir_activate
<1>1. dir' = dir
  BY <1>0, DirKept DEF Directory
<1>2. NoProc \notin Procs
  BY UmAssumption
<1>3. UmTypeOK'
  <2>1. tlb' \in [Pages -> Entries]
    BY <1>0, TlbEmptied
  <2>2. cr3' \in KFrames \cup {InitDir}
    BY <1>0 DEF UmTypeOK
  <2> QED BY <2>1, <2>2, <1>0 DEF UmTypeOK
<1>4. CpuInv'
  <2>1. CASE t = NoProc
    BY <2>1, <1>0, <1>2 DEF CpuInv
  <2>2. CASE t \in Procs /\ pagedir[t] # NULLF
    <3>1. at[t] \notin Leaving /\ dir[t] = pagedir[t]
      BY <2>2, <1>0, DirTypes DEF CoreInv, StepInv, Directory, Leaving
    <3> QED BY <3>1, <2>2, <1>0, <1>1, <1>2 DEF CpuInv, Leaving
  <2>3. CASE t \in Procs /\ pagedir[t] = NULLF
    BY <2>3, <1>0, <1>2 DEF CpuInv
  <2> QED BY <2>1, <2>2, <2>3
<1>5. StepInv' /\ OwnInv'
  BY <1>0, <1>1 DEF CoreInv, StepInv, OwnInv
<1>6. TlbInv'
  BY <1>0, TlbEmptied
<1> QED BY <1>3, <1>4, <1>5, <1>6 DEF CoreInv

-----------------------------------------------------------------------------
LEMMA CoreInit ==
  ASSUME UmInit
  PROVE  CoreInv
<1>1. NoLoad \in Loads
  <2>1. NoSegment \in Segments
    BY DEF NoSegment, Segments
  <2> QED BY <2>1 DEF NoLoad, Loads
<1>2. NoTables \in [TableNos -> KFrames \cup {NULLF}]
  BY DEF NoTables, TableNos
<1>3. NoPages \in [EntryNos -> Entries]
  BY Constants DEF NoPages, EntryNos
<1>4. UmTypeOK
  BY <1>1, <1>2, <1>3, Constants DEF UmInit, UmTypeOK
<1>5. \A q \in Procs : dir[q] = NULLF
  BY DEF UmInit, dir, Directory
<1>6. OwnInv
  BY <1>5 DEF UmInit, OwnInv, Owned, TablesOwned, PagesUsed, PagesApart, NoLeak, HasTable
<1>7. StepInv
  BY DEF UmInit, StepInv, Building, Leaving
<1>8. CpuInv /\ TlbInv
  BY Constants DEF UmInit, CpuInv, TlbInv
<1> QED BY <1>4, <1>6, <1>7, <1>8 DEF CoreInv

LEMMA CoreStep ==
  ASSUME CoreInv, [UmNext]_UmVars
  PROVE  CoreInv'
<1>1. ASSUME NEW p \in Procs, running = p, Step(p), UNCHANGED running PROVE CoreInv'
  <2>1. CASE (load_header(p) \/ push_arguments(p) \/ Exit(p)) /\ UNCHANGED cleared
    BY <1>1, <2>1, HeaderStep
  <2>2. CASE pagedir_create(p) /\ UNCHANGED cleared
    BY <1>1, <2>2, CreateStep
  <2>3. CASE load_phdr(p) /\ UNCHANGED cleared
    BY <1>1, <2>3, PhdrStep
  <2>4. CASE load_segment(p) /\ UNCHANGED cleared
    BY <1>1, <2>4, SegmentStep
  <2>5. CASE setup_stack(p) /\ UNCHANGED cleared
    BY <1>1, <2>5, StackStep
  <2>6. CASE exit_forget(p) /\ UNCHANGED cleared
    BY <1>1, <2>6, ForgetStep
  <2>7. CASE exit_activate(p) /\ UNCHANGED cleared
    BY <1>1, <2>7, ActivateStep
  <2>8. CASE pagedir_destroy(p) /\ UNCHANGED cleared
    BY <1>1, <2>8, DestroyStep
  <2>9. CASE (\E page \in TouchPages, write \in BOOLEAN : Touch(p, page, write)) /\ UNCHANGED cleared
    BY <1>1, <2>9, TouchStep
  <2>10. CASE \E q \in Procs, page \in TouchPages :
                pagedir_set_dirty(q, page) \/ pagedir_set_accessed(q, page) \/ pagedir_clear_page(q, page)
    BY <1>1, <2>10, PagedirStep
  <2> QED BY <1>1, <2>1, <2>2, <2>3, <2>4, <2>5, <2>6, <2>7, <2>8, <2>9, <2>10 DEF Step
<1>2. CASE UNCHANGED UmVars
  <2>1. dir' = dir
    BY <1>2, DirKept DEF UmVars, Directory
  <2> QED BY <1>2, <2>1 DEF UmVars, CoreInv, UmTypeOK, StepInv, OwnInv, CpuInv, TlbInv, lookup_page
<1> QED BY <1>1, <1>2, SwitchStep DEF UmNext

\* The two parts of the ownership as UserMemory states it.
LEMMA OwnedOnce ==
  ASSUME CoreInv
  PROVE  FramesOwnedOnce
<1>0. /\ UmTypeOK /\ OwnTypes(dir, frames, pde, pte, cleared) /\ Owned(dir, frames, pde, pte, cleared)
      /\ \A q \in Procs : dir[q] = Directory(q)
  BY DirTypes DEF CoreInv, OwnInv
<1>1. DOMAIN NoTables = TableNos
  BY DEF NoTables, TableNos
<1>2. PICK tables : tables = {s \in Owners \X DOMAIN NoTables : PageTable(s) # NULLF}
  OBVIOUS
<1>3. PICK backed : backed = {s \in Owners \X Pages : Backing(s) # NULLF}
  OBVIOUS
<1>4. \A p : p \in Owners <=> p \in Procs /\ dir[p] # NULLF
  BY <1>0 DEF Owners
<1>5. \A s \in tables : /\ s[1] \in Procs /\ s[2] \in TableNos /\ s = <<s[1], s[2]>> /\ HasTable(dir, pde, s[1], s[2])
                        /\ PageTable(s) = pde[dir[s[1]]][s[2]]
  BY <1>0, <1>1, <1>2, <1>4 DEF PageTable, HasTable
<1>6. \A p \in Procs, i \in TableNos : HasTable(dir, pde, p, i) =>
        <<p, i>> \in tables /\ PageTable(<<p, i>>) = pde[dir[p]][i]
  BY <1>0, <1>1, <1>2, <1>4 DEF PageTable, HasTable
<1>7. ASSUME NEW s \in backed
      PROVE  /\ s[1] \in Procs /\ s[2] \in Pages /\ s = <<s[1], s[2]>> /\ HasTable(dir, pde, s[1], pd_no(s[2]))
             /\ Backing(s) = Ent(dir, pde, pte, s[1], pd_no(s[2]), pt_no(s[2])).frame /\ Backing(s) # NULLF
  <2>1. s[1] \in Procs /\ dir[s[1]] # NULLF /\ s[2] \in Pages /\ s = <<s[1], s[2]>> /\ Backing(s) # NULLF
    BY <1>3, <1>4
  <2>2. Backing(s) = lookup_page(dir[s[1]], s[2]).frame
    BY <2>1, <1>0 DEF Backing
  <2>3. HasTable(dir, pde, s[1], pd_no(s[2]))
    BY <2>1, <2>2, <1>0, Lookup, Constants
  <2> QED BY <2>1, <2>2, <2>3, <1>0, Lookup
<1>8. ASSUME NEW p \in Procs, NEW i \in TableNos, NEW k \in EntryNos, HasTable(dir, pde, p, i),
             Ent(dir, pde, pte, p, i, k).frame # NULLF
      PROVE  \E s \in backed : Backing(s) = Ent(dir, pde, pte, p, i, k).frame
  <2>1. PICK page \in Pages : pd_no(page) = i /\ pt_no(page) = k
    BY PageJoin
  <2>2. dir[p] # NULLF
    BY <1>8 DEF HasTable
  <2>3. lookup_page(dir[p], page) = Ent(dir, pde, pte, p, i, k)
    BY <2>1, <2>2, <1>0, <1>8, Lookup
  <2>4. Backing(<<p, page>>) = Ent(dir, pde, pte, p, i, k).frame
    BY <2>3, <1>0 DEF Backing
  <2>5. <<p, page>> \in backed
    BY <2>2, <2>4, <1>3, <1>4, <1>8
  <2> QED BY <2>4, <2>5
<1>9. frames = {Directory(p) : p \in Owners} \cup {PageTable(s) : s \in tables} \cup {Backing(s) : s \in backed} \cup cleared
  <2>1. ASSUME NEW f \in frames
        PROVE  f \in {Directory(p) : p \in Owners} \cup {PageTable(s) : s \in tables} \cup {Backing(s) : s \in backed} \cup cleared
    <3>1. Purpose(dir, pde, pte, cleared, f) /\ f # NULLF
      BY <1>0, Constants DEF Owned, NoLeak, OwnTypes
    <3>2. CASE \E p \in Procs : dir[p] # NULLF /\ f = dir[p]
      BY <3>2, <1>0, <1>4
    <3>3. CASE \E p \in Procs, i \in TableNos : HasTable(dir, pde, p, i) /\ f = pde[dir[p]][i]
      BY <3>3, <1>6
    <3>4. CASE \E p \in Procs, i \in TableNos, k \in EntryNos : HasTable(dir, pde, p, i) /\ f = Ent(dir, pde, pte, p, i, k).frame
      BY <3>1, <3>4, <1>8
    <3> QED BY <3>1, <3>2, <3>3, <3>4 DEF Purpose
  <2>2. \A p \in Owners : Directory(p) \in frames
    BY <1>0, <1>4 DEF Owned, TablesOwned
  <2>3. \A s \in tables : PageTable(s) \in frames
    BY <1>0, <1>5 DEF Owned, TablesOwned
  <2>4. ASSUME NEW s \in backed PROVE Backing(s) \in frames
    <3>1. EntryUsed(Ent(dir, pde, pte, s[1], pd_no(s[2]), pt_no(s[2])), frames, cleared)
      BY <1>0, <1>7, PageSplit DEF Owned, PagesUsed
    <3> QED BY <3>1, <1>7 DEF EntryUsed
  <2>5. cleared \subseteq frames
    BY <1>0 DEF Owned, PagesUsed
  <2> QED BY <2>1, <2>2, <2>3, <2>4, <2>5
<1>10. \A p, q \in Owners : p # q => Directory(p) # Directory(q)
  BY <1>0, <1>4 DEF Owned, TablesOwned
<1>11. \A p \in Owners, s \in tables : Directory(p) # PageTable(s)
  BY <1>0, <1>4, <1>5 DEF Owned, TablesOwned
<1>12. \A s, t \in tables : s # t => PageTable(s) # PageTable(t)
  BY <1>0, <1>5 DEF Owned, TablesOwned
<1>13. ASSUME NEW s \in backed, NEW t \in backed, Backing(s) = Backing(t) PROVE s = t
  <2>1. s[1] = t[1] /\ pd_no(s[2]) = pd_no(t[2]) /\ pt_no(s[2]) = pt_no(t[2])
    BY <1>0, <1>7, <1>13, PageSplit DEF Owned, PagesApart
  <2>2. s[2] = t[2]
    BY <2>1, <1>7, PageSplit
  <2> QED BY <2>1, <2>2, <1>7
<1> QED BY <1>2, <1>3, <1>9, <1>10, <1>11, <1>12, <1>13 DEF FramesOwnedOnce

\* pagedir.c, process_exit and process_activate, wherever the context switch
\* comes: every frame has one owner, the processor walks a directory that is
\* allocated, and its TLB agrees with the page tables.
THEOREM AddressSpacesApart == UmSpec => [](FramesOwnedOnce /\ ActiveDirectoryLives /\ TranslationsFresh)
<1>1. UmInit => CoreInv
  BY CoreInit
<1>2. CoreInv /\ [UmNext]_UmVars => CoreInv'
  BY CoreStep
<1>3. CoreInv => FramesOwnedOnce /\ ActiveDirectoryLives /\ TranslationsFresh
  <2>1. SUFFICES ASSUME CoreInv PROVE FramesOwnedOnce /\ ActiveDirectoryLives /\ TranslationsFresh
    OBVIOUS
  <2>2. ActiveDirectoryLives
    <3>1. cr3 = InitDir \/ cr3 \in frames
      BY <2>1, Constants DEF CoreInv, CpuInv, OwnInv, Owned, TablesOwned, UmTypeOK
    <3>2. \A p \in Procs : running = p /\ Loaded(p) => cr3 = pagedir[p]
      BY <2>1 DEF CoreInv, CpuInv, StepInv, Building, Loaded
    <3> QED BY <3>1, <3>2 DEF ActiveDirectoryLives
  <2>3. TranslationsFresh
    BY <2>1 DEF CoreInv, TlbInv, TranslationsFresh
  <2> QED BY <2>1, <2>2, <2>3, OwnedOnce
<1> QED BY <1>1, <1>2, <1>3, PTL DEF UmSpec
-----------------------------------------------------------------------------
\* Addresses and pages.
LEMMA PageOf ==
  ASSUME NEW a \in Int, 0 <= a, a < PHYS_BASE
  PROVE  /\ pg_no(a) \in Pages /\ pg_ofs(a) \in Int /\ 0 <= pg_ofs(a) /\ pg_ofs(a) < PageBytes
         /\ a = pg_no(a) * PageBytes + pg_ofs(a)
<1>1. PICK B \in Nat, n \in Nat : B = PageBytes /\ B > 0 /\ n = UserPageCount
  BY UmAssumption
<1>2. PICK g \in Int, o \in Int : g = a \div B /\ o = a % B /\ o \in 0 .. B - 1 /\ a = g * B + o
  BY <1>1
<1>3. g >= 0
  BY <1>1, <1>2
<1>4. g < n
  <2>1. SUFFICES ASSUME g >= n PROVE FALSE
    BY <1>1, <1>2
  <2>2. g * B >= n * B
    BY <2>1, <1>1, <1>2
  <2> QED BY <2>2, <1>1, <1>2 DEF PHYS_BASE
<1> QED BY <1>1, <1>2, <1>3, <1>4 DEF pg_no, pg_ofs, Pages

LEMMA PageUnique ==
  ASSUME NEW a \in Int, NEW g \in Int, g * PageBytes <= a, a < g * PageBytes + PageBytes
  PROVE  pg_no(a) = g /\ pg_ofs(a) = a - g * PageBytes
<1>1. PICK B \in Nat : B = PageBytes /\ B > 0
  BY UmAssumption
<1>2. PICK r \in 0 .. B - 1 : r = a - g * B
  BY <1>1
<1>3. a = g * B + r
  BY <1>1, <1>2
<1>4. a % B = r
  BY <1>1, <1>3, ModUnique
<1>5. a \div B = g
  BY <1>1, <1>2, <1>3
<1> QED BY <1>1, <1>2, <1>4, <1>5 DEF pg_no, pg_ofs

LEMMA RoundUp ==
  ASSUME NEW x \in Int, 0 <= x, x + PageBytes - 1 < AddressMod
  PROVE  \E m \in Int : pg_round_up(x) = m * PageBytes /\ x <= m * PageBytes /\ m * PageBytes < x + PageBytes
<1>1. PICK B \in Nat, A \in Nat : B = PageBytes /\ B > 0 /\ A = AddressMod
  BY UmAssumption
<1>2. PICK y \in Int : y = x + B - 1
  BY <1>1
<1>3. y % A = y
  <2>1. y \in 0 .. A - 1 /\ y = 0 * A + y /\ A > 0
    BY <1>1, <1>2
  <2> QED BY <2>1, ModUnique
<1>4. PICK m \in Int, o \in Int : o = y % B /\ o \in 0 .. B - 1 /\ y = m * B + o
  BY <1>1, ModDef
<1>5. pg_round_up(x) = y - o
  BY <1>1, <1>2, <1>3, <1>4 DEF pg_round_up, pg_round_down, pg_ofs
<1>6. m * B = y - o
  BY <1>1, <1>4
<1> QED BY <1>1, <1>2, <1>4, <1>5, <1>6

\* What validate_segment accepts: the segment ends below PHYS_BASE, and the
\* pages load_segment fills are whole pages of user memory, none the first.
LEMMA SegmentFits ==
  ASSUME NEW ph \in Phdrs, NEW length, validate_segment(ph, length)
  PROVE  /\ SegStart(ph) \in Int /\ SegEnd(ph) \in Int /\ ReadBytes(ph) \in Int
         /\ SegStart(ph) = pg_no(ph.vaddr) * PageBytes /\ pg_no(ph.vaddr) \in Int
         /\ ph.vaddr >= SegStart(ph) /\ SegStart(ph) >= PageBytes
         /\ ph.vaddr + ph.memsz < PHYS_BASE /\ ph.vaddr + ph.memsz <= SegEnd(ph) /\ SegEnd(ph) <= PHYS_BASE
         /\ SegEnd(ph) > SegStart(ph) /\ \E m \in Int : SegEnd(ph) = m * PageBytes
         /\ 0 <= ReadBytes(ph) /\ ReadBytes(ph) <= SegEnd(ph) - SegStart(ph)
         /\ pg_ofs(ph.vaddr) = ph.vaddr - SegStart(ph) /\ ph.offset = pg_round_down(ph.offset) + pg_ofs(ph.vaddr)
<1>1. PICK B \in Nat, A \in Nat, n \in Nat, H \in Nat :
        B = PageBytes /\ B > 0 /\ A = AddressMod /\ n = UserPageCount /\ H = PHYS_BASE /\ H = n * B /\ H < A
  BY UmAssumption DEF PHYS_BASE
<1>2. PICK v \in Int, z \in Int, r \in Int, t \in Int :
        /\ v = ph.vaddr /\ z = ph.memsz /\ r = ph.filesz /\ t = ph.offset
        /\ v >= 0 /\ v < A /\ z >= 0 /\ z < A /\ r >= 0 /\ t >= 0
  BY <1>1 DEF Phdrs
<1>3. PICK e \in Int : e = (v + z) % A /\ (e = v + z \/ e = v + z - A)
  <2>1. CASE v + z < A
    <3>1. PICK y \in 0 .. A - 1 : y = v + z
      BY <2>1, <1>1, <1>2
    <3>2. y = 0 * A + y /\ A > 0 /\ y \in Int
      BY <3>1, <1>1
    <3>3. y % A = y
      BY <3>2, ModUnique
    <3> QED BY <3>1, <3>3, <1>2
  <2>2. CASE v + z >= A
    <3>1. v + z - A \in 0 .. A - 1 /\ v + z = 1 * A + (v + z - A) /\ A > 0
      BY <2>2, <1>1, <1>2
    <3>2. (v + z) % A = v + z - A
      BY <3>1, ModUnique, <1>2
    <3> QED BY <3>2, <1>1, <1>2
  <2> QED BY <2>1, <2>2, <1>1, <1>2
<1>4. z >= r /\ z # 0 /\ v < H /\ e < H /\ e >= v /\ v >= B /\ pg_ofs(t) = pg_ofs(v)
  BY <1>1, <1>2, <1>3 DEF validate_segment, is_user_vaddr
<1>5. e = v + z
  BY <1>1, <1>2, <1>3, <1>4
<1>6. PICK g \in Int, o \in Int : g = pg_no(v) /\ o = pg_ofs(v) /\ 0 <= o /\ o < B /\ v = g * B + o
  BY <1>1, <1>2, <1>4, PageOf DEF Pages
<1>7. PICK S \in Int : S = g * B /\ S = SegStart(ph) /\ S = v - o
  BY <1>1, <1>2, <1>6 DEF SegStart, pg_round_down
<1>8. S >= B
  <2>1. g > 0
    <3>1. SUFFICES ASSUME g <= 0 PROVE FALSE
      BY <1>6
    <3>2. g * B <= 0
      BY <3>1, <1>6, <1>1
    <3> QED BY <3>2, <1>4, <1>6, <1>1
  <2>2. g * B >= B
    BY <2>1, <1>1, <1>6
  <2> QED BY <2>2, <1>7
<1>9. PICK m \in Int : pg_round_up(o + z) = m * B /\ o + z <= m * B /\ m * B < o + z + B
  <2>1. o + z \in Int /\ 0 <= o + z /\ o + z + B - 1 < A
    BY <1>1, <1>2, <1>4, <1>5, <1>6, <1>7, <1>8
  <2> QED BY <2>1, <1>1, RoundUp
<1>10. SegEnd(ph) = S + m * B
  BY <1>2, <1>6, <1>7, <1>9 DEF SegEnd
<1>11. PICK k \in Int : k = g + m /\ SegEnd(ph) = k * B
  BY <1>1, <1>6, <1>7, <1>9, <1>10
<1>12. k * B < n * B + B
  BY <1>1, <1>4, <1>5, <1>7, <1>9, <1>10, <1>11
<1>13. k <= n
  <2>1. SUFFICES ASSUME k >= n + 1 PROVE FALSE
    BY <1>11, <1>1
  <2>2. k * B >= (n + 1) * B
    BY <2>1, <1>1, <1>11
  <2>3. (n + 1) * B = n * B + B
    BY <1>1
  <2> QED BY <2>2, <2>3, <1>12, <1>1, <1>11
<1>14. SegEnd(ph) <= H
  <2>1. k * B <= n * B
    BY <1>13, <1>1, <1>11
  <2> QED BY <2>1, <1>1, <1>11
<1>15. ReadBytes(ph) \in Int /\ 0 <= ReadBytes(ph) /\ ReadBytes(ph) <= m * B
  BY <1>1, <1>2, <1>4, <1>6, <1>9 DEF ReadBytes
<1>16. t = pg_round_down(t) + o
  <2>1. pg_ofs(t) = o
    BY <1>2, <1>4, <1>6
  <2> QED BY <2>1, <1>2, <1>6 DEF pg_round_down
<1>17. SegStart(ph) \in Int /\ SegEnd(ph) \in Int /\ ReadBytes(ph) \in Int
  BY <1>1, <1>7, <1>9, <1>10, <1>15
<1>18. SegStart(ph) = pg_no(ph.vaddr) * PageBytes /\ pg_no(ph.vaddr) \in Int
  BY <1>1, <1>2, <1>6, <1>7
<1>19. /\ ph.vaddr >= SegStart(ph) /\ SegStart(ph) >= PageBytes
       /\ ph.vaddr + ph.memsz < PHYS_BASE /\ ph.vaddr + ph.memsz <= SegEnd(ph) /\ SegEnd(ph) <= PHYS_BASE
       /\ SegEnd(ph) > SegStart(ph)
  <2>0. PICK w \in Int : w = m * B
    BY <1>1, <1>9
  <2>1. v >= S /\ S >= B /\ v + z < H /\ v + z <= S + w /\ S + w > S
    <3>1. S = v - o /\ o + z <= w /\ 0 <= o /\ z > 0
      <4>1. S = v - o /\ 0 <= o
        BY <1>6, <1>7
      <4>2. o + z <= w
        BY <2>0, <1>9
      <4>3. z > 0
        BY <1>2, <1>4
      <4> QED BY <4>1, <4>2, <4>3
    <3>2. v + z < H
      BY <1>4, <1>5
    <3> QED BY <3>1, <3>2, <1>8, <1>6
  <2> QED BY <2>0, <2>1, <1>1, <1>2, <1>7, <1>10, <1>14
<1>20. \E j \in Int : SegEnd(ph) = j * PageBytes
  BY <1>1, <1>11
<1>21. 0 <= ReadBytes(ph) /\ ReadBytes(ph) <= SegEnd(ph) - SegStart(ph)
  BY <1>1, <1>7, <1>9, <1>10, <1>15
<1>22. pg_ofs(ph.vaddr) = ph.vaddr - SegStart(ph) /\ ph.offset = pg_round_down(ph.offset) + pg_ofs(ph.vaddr)
  BY <1>2, <1>6, <1>7, <1>16
<1> QED BY <1>17, <1>18, <1>19, <1>20, <1>21, <1>22
-----------------------------------------------------------------------------
\* A step leaves to q what its pages hold.  Only the program's own bits, and
\* pages that are unmapped, may change.
FrameKept(q, page) ==
  LET e == lookup_page(pagedir[q], page)
      f == lookup_page(pagedir[q], page)'
  IN e.frame # NULLF => f.frame = e.frame /\ f.writable = e.writable /\ contents'[e.frame] = contents[e.frame]
EntryKept(q, page) ==
  LET e == lookup_page(pagedir[q], page)
      f == lookup_page(pagedir[q], page)'
  IN FrameKept(q, page) /\ (f.present => e.present) /\ (at[q] # "user" => f = e)
FramesKept(q) == pagedir'[q] = pagedir[q] /\ \A page \in Pages : FrameKept(q, page)
Kept(q) == pagedir'[q] = pagedir[q] /\ \A page \in Pages : EntryKept(q, page)


\* What installing a page leaves alone, and what it adds.
OthersKept(p) == \A q \in Procs : q # p /\ at[q] \in Building => Kept(q)
PagesKept(p, page) == \A h \in Pages : h # page =>
  LET e == lookup_page(pagedir[p], h)
  IN lookup_page(pagedir[p], h)' = e /\ (e.frame # NULLF => contents'[e.frame] = contents[e.frame])
MapsTo(p, page, w, c) == \E f \in UFrames : lookup_page(pagedir[p], page)' = pte_create_user(f, w) /\ contents'[f] = c
AllPresent(p) ==
  /\ ~lookup_page(pagedir[p], 0)'.present
  /\ \A h \in Pages : lookup_page(pagedir[p], h)'.frame # NULLF => lookup_page(pagedir[p], h)'.present

LEMMA KeptSame ==
  ASSUME NEW q \in Procs, pagedir'[q] = pagedir[q], UNCHANGED <<pde, pte, contents>>
  PROVE  Kept(q)
<1>1. \A page \in Pages : lookup_page(pagedir[q], page)' = lookup_page(pagedir[q], page)
  BY DEF lookup_page
<1> QED BY <1>1 DEF Kept, EntryKept, FrameKept

\* The owner of a directory, and the frames of its pages.
LEMMA BuildingDir ==
  ASSUME CoreInv, NEW q \in Procs, at[q] \in Building
  PROVE  /\ UmTypeOK /\ pagedir[q] # NULLF /\ dir[q] = pagedir[q] /\ pagedir[q] \in KFrames /\ pagedir[q] \in frames
         /\ \A page \in Pages :
              /\ lookup_page(pagedir[q], page) \in Entries
              /\ HasTable(dir, pde, q, pd_no(page)) =>
                   /\ lookup_page(pagedir[q], page) = Ent(dir, pde, pte, q, pd_no(page), pt_no(page))
                   /\ pde[pagedir[q]][pd_no(page)] \in frames /\ pde[pagedir[q]][pd_no(page)] \in KFrames
              /\ ~HasTable(dir, pde, q, pd_no(page)) => lookup_page(pagedir[q], page) = NoEntry
              /\ lookup_page(pagedir[q], page).frame # NULLF => lookup_page(pagedir[q], page).frame \in frames \cap UFrames
              /\ lookup_page(pagedir[q], page).present => lookup_page(pagedir[q], page).frame # NULLF
<1>1. /\ UmTypeOK /\ pagedir[q] # NULLF /\ dir[q] = pagedir[q] /\ pagedir[q] \in KFrames /\ pagedir[q] \in frames
      /\ OwnTypes(dir, frames, pde, pte, cleared) /\ Owned(dir, frames, pde, pte, cleared)
  BY ZenonT(40), DirTypes DEF CoreInv, StepInv, Directory, Building, UmTypeOK, OwnInv, Owned, TablesOwned
<1>2. ASSUME NEW page \in Pages
      PROVE  /\ lookup_page(pagedir[q], page) \in Entries
             /\ HasTable(dir, pde, q, pd_no(page)) =>
                  /\ lookup_page(pagedir[q], page) = Ent(dir, pde, pte, q, pd_no(page), pt_no(page))
                  /\ pde[pagedir[q]][pd_no(page)] \in frames /\ pde[pagedir[q]][pd_no(page)] \in KFrames
             /\ ~HasTable(dir, pde, q, pd_no(page)) => lookup_page(pagedir[q], page) = NoEntry
             /\ lookup_page(pagedir[q], page).frame # NULLF => lookup_page(pagedir[q], page).frame \in frames \cap UFrames
             /\ lookup_page(pagedir[q], page).present => lookup_page(pagedir[q], page).frame # NULLF
  <2>1. pd_no(page) \in TableNos /\ pt_no(page) \in EntryNos
    BY PageSplit
  <2>2. /\ lookup_page(pagedir[q], page) \in Entries
        /\ HasTable(dir, pde, q, pd_no(page)) => lookup_page(pagedir[q], page) = Ent(dir, pde, pte, q, pd_no(page), pt_no(page))
        /\ ~HasTable(dir, pde, q, pd_no(page)) => lookup_page(pagedir[q], page) = NoEntry
    BY <1>1, Lookup
  <2>3. HasTable(dir, pde, q, pd_no(page)) =>
          pde[pagedir[q]][pd_no(page)] \in frames /\ pde[pagedir[q]][pd_no(page)] \in KFrames
    BY <1>1, <2>1 DEF HasTable, Owned, TablesOwned, OwnTypes
  <2>4. CASE HasTable(dir, pde, q, pd_no(page))
    <3>1. EntryUsed(lookup_page(pagedir[q], page), frames, cleared)
      BY <1>1, <2>1, <2>2, <2>4 DEF Owned, PagesUsed
    <3>2. lookup_page(pagedir[q], page).frame \in UFrames \cup {NULLF}
      BY <2>2 DEF Entries
    <3> QED BY <2>2, <2>3, <2>4, <3>1, <3>2 DEF EntryUsed
  <2>5. CASE ~HasTable(dir, pde, q, pd_no(page))
    BY <2>2, <2>5, Constants
  <2> QED BY <2>4, <2>5
<1> QED BY <1>1, <1>2

\* An entry of p's that Touch or pagedir.c changes.
LEMMA KeptEntry ==
  ASSUME CoreInv, NEW q \in Procs, at[q] \in Building, NEW p \in Procs, at[p] = "user", NEW g \in Pages,
         HasTable(dir, pde, p, pd_no(g)), NEW e \in Entries, Written(dir, pde, pte, pte', p, pd_no(g), pt_no(g), e),
         e.frame = lookup_page(pagedir[p], g).frame, e.writable = lookup_page(pagedir[p], g).writable,
         e.present => lookup_page(pagedir[p], g).present, UNCHANGED <<pagedir, pde, contents>>
  PROVE  Kept(q)
<1>1. SUFFICES ASSUME NEW page \in Pages PROVE EntryKept(q, page)
  BY DEF Kept
<1>2. pd_no(page) \in TableNos /\ pt_no(page) \in EntryNos /\ pd_no(g) \in TableNos /\ pt_no(g) \in EntryNos
  BY PageSplit
<1>3. dir[q] = pagedir[q] /\ pagedir[q] # NULLF
  BY BuildingDir
<1>4. CASE ~HasTable(dir, pde, q, pd_no(page))
  <2>1. pde[pagedir[q]][pd_no(page)] = NULLF
    BY <1>3, <1>4 DEF HasTable
  <2>2. lookup_page(pagedir[q], page)' = lookup_page(pagedir[q], page)
    BY <2>1 DEF lookup_page
  <2> QED BY <2>2 DEF EntryKept, FrameKept
<1>5. CASE HasTable(dir, pde, q, pd_no(page))
  <2>1. lookup_page(pagedir[q], page) = Ent(dir, pde, pte, q, pd_no(page), pt_no(page))
    BY <1>5, BuildingDir
  <2>2. lookup_page(pagedir[q], page)' = Ent(dir, pde, pte', q, pd_no(page), pt_no(page))
    BY <1>3, <1>5 DEF lookup_page, HasTable, Ent
  <2>3. CASE ~(q = p /\ pd_no(page) = pd_no(g) /\ pt_no(page) = pt_no(g))
    <3>1. lookup_page(pagedir[q], page)' = lookup_page(pagedir[q], page)
      BY <2>1, <2>2, <2>3, <1>2, <1>5 DEF Written
    <3> QED BY <3>1 DEF EntryKept, FrameKept
  <2>4. CASE q = p /\ pd_no(page) = pd_no(g) /\ pt_no(page) = pt_no(g)
    <3>1. lookup_page(pagedir[q], page)' = e
      BY <2>2, <2>4 DEF Written
    <3>2. lookup_page(pagedir[q], page) = lookup_page(pagedir[p], g)
      BY <2>4 DEF lookup_page
    <3> QED BY <3>1, <3>2, <2>4 DEF EntryKept, FrameKept
  <2> QED BY <2>3, <2>4
<1> QED BY <1>4, <1>5

LEMMA KeptCreate ==
  ASSUME CoreInv, NEW q \in Procs, at[q] \in Building, NEW f \in KFrames, f \notin frames,
         pde' = [pde EXCEPT ![f] = NoTables], pagedir'[q] = pagedir[q], UNCHANGED <<pte, contents>>
  PROVE  Kept(q)
<1>1. pagedir[q] # f /\ pagedir[q] \in KFrames /\ pde \in [KFrames -> [TableNos -> KFrames \cup {NULLF}]]
  BY BuildingDir DEF UmTypeOK
<1>2. pde'[pagedir[q]] = pde[pagedir[q]]
  BY <1>1
<1>3. \A page \in Pages : lookup_page(pagedir[q], page)' = lookup_page(pagedir[q], page)
  BY <1>2 DEF lookup_page
<1> QED BY <1>3 DEF Kept, EntryKept, FrameKept

\* install_page: the page it maps is as it was filled, all others are kept.
LEMMA InstallMemory ==
  ASSUME CoreInv, NEW p \in Procs, at[p] \in Building, NEW page \in Pages, NEW w \in BOOLEAN, NEW c,
         NEW f \in UFrames, f \notin frames, contents \in [UFrames -> [ofs : Int, n : Int]],
         pagedir_set_page(pagedir[p], page, f, w), contents' = [contents EXCEPT ![f] = c], pagedir' = pagedir
  PROVE  OthersKept(p) /\ PagesKept(p, page) /\ MapsTo(p, page, w, c)
<1>0. /\ UmTypeOK /\ pagedir[p] # NULLF /\ dir[p] = pagedir[p] /\ pagedir[p] \in KFrames
      /\ OwnTypes(dir, frames, pde, pte, cleared) /\ Owned(dir, frames, pde, pte, cleared) /\ TablesOwned(dir, frames, pde)
  BY BuildingDir, DirTypes DEF CoreInv, OwnInv, Owned
<1>1. PICK i \in TableNos, k \in EntryNos : i = pd_no(page) /\ k = pt_no(page)
  BY PageSplit
<1>2. PICK e \in Entries : e = pte_create_user(f, w)
  BY NewEntry
<1>3. contents'[f] = c /\ \A g \in UFrames : g # f => contents'[g] = contents[g]
  OBVIOUS
<1>4. ASSUME NEW q \in Procs, at[q] \in Building, NEW h \in Pages, lookup_page(pagedir[q], h).frame # NULLF
      PROVE  contents'[lookup_page(pagedir[q], h).frame] = contents[lookup_page(pagedir[q], h).frame]
  BY <1>3, <1>4, BuildingDir
<1>5. /\ \A q \in Procs, h \in Pages : at[q] \in Building /\ ~(q = p /\ h = page) =>
             lookup_page(pagedir[q], h)' = lookup_page(pagedir[q], h)
      /\ lookup_page(pagedir[p], page)' = e
  <2>1. CASE pde[pagedir[p]][i] # NULLF
    <3>1. HasTable(dir, pde, p, i) /\ pde' = pde /\ pte' = [pte EXCEPT ![pde[dir[p]][i]][k] = e]
      BY <2>1, <1>0, <1>1, <1>2 DEF pagedir_set_page, HasTable
    <3>2. Written(dir, pde, pte, pte', p, i, k, e)
      BY <3>1, <1>0, EntryWritten, Zenon
    <3>3. lookup_page(pagedir[p], page)' = e
      BY <3>1, <3>2, <2>1, <1>0, <1>1 DEF lookup_page, Written, Ent
    <3>4. ASSUME NEW q \in Procs, NEW h \in Pages, at[q] \in Building, ~(q = p /\ h = page)
          PROVE  lookup_page(pagedir[q], h)' = lookup_page(pagedir[q], h)
      <4>1. pd_no(h) \in TableNos /\ pt_no(h) \in EntryNos /\ dir[q] = pagedir[q] /\ pagedir[q] # NULLF
        BY <3>4, PageSplit, BuildingDir
      <4>2. ~(q = p /\ pd_no(h) = i /\ pt_no(h) = k)
        BY <3>4, <1>1, PageSplit
      <4>3. CASE HasTable(dir, pde, q, pd_no(h))
        <5>1. Ent(dir, pde, pte', q, pd_no(h), pt_no(h)) = Ent(dir, pde, pte, q, pd_no(h), pt_no(h))
          BY <4>1, <4>2, <4>3, <3>2 DEF Written
        <5> QED BY <5>1, <4>1, <4>3, <3>1 DEF lookup_page, HasTable, Ent
      <4>4. CASE ~HasTable(dir, pde, q, pd_no(h))
        BY <4>1, <4>4, <3>1 DEF lookup_page, HasTable
      <4> QED BY <4>3, <4>4
    <3> QED BY <3>3, <3>4
  <2>2. CASE pde[pagedir[p]][i] = NULLF
    <3>1. FreeFrames(KFrames) # {}
      BY <2>2, <1>1 DEF pagedir_set_page
    <3>0. PICK n \in KFrames : n \notin frames /\ n = First(FreeFrames(KFrames))
      BY <3>1, FreeFrame, UmAssumption
    <3>2. n \in KFrames /\ n \notin frames /\ n = First(FreeFrames(KFrames)) /\ n # NULLF
      BY <3>0, Constants
    <3>3. PICK T : T = [NoPages EXCEPT ![k] = e]
      OBVIOUS
    <3>4. T[k] = e /\ \A l \in EntryNos : l # k => T[l] = NoEntry
      BY <3>3 DEF NoPages, EntryNos
    <3>5. pde' = [pde EXCEPT ![pagedir[p]][i] = n] /\ pte' = [pte EXCEPT ![n] = T]
      BY <2>2, <1>1, <1>2, <3>2, <3>3 DEF pagedir_set_page
    <3>6. pte'[n] = T /\ \A t \in KFrames : t # n => pte'[t] = pte[t]
      BY <3>5, <1>0 DEF UmTypeOK
    <3>7. /\ pde'[pagedir[p]][i] = n /\ \A j \in TableNos : j # i => pde'[pagedir[p]][j] = pde[pagedir[p]][j]
          /\ \A d \in KFrames : d # pagedir[p] => pde'[d] = pde[d]
      BY <3>5, <1>0 DEF UmTypeOK
    <3>8. lookup_page(pagedir[p], page)' = e
      BY <3>2, <3>4, <3>6, <3>7, <1>1 DEF lookup_page
    <3>9. ASSUME NEW q \in Procs, NEW h \in Pages, at[q] \in Building, ~(q = p /\ h = page)
          PROVE  lookup_page(pagedir[q], h)' = lookup_page(pagedir[q], h)
      <4>1. pd_no(h) \in TableNos /\ pt_no(h) \in EntryNos /\ dir[q] = pagedir[q] /\ pagedir[q] # NULLF /\ pagedir[q] \in KFrames
        BY <3>9, PageSplit, BuildingDir
      <4>2. CASE q = p /\ pd_no(h) = i
        <5>1. pt_no(h) # k
          BY <3>9, <4>2, <1>1, PageSplit
        <5>2. lookup_page(pagedir[q], h)' = NoEntry
          BY <5>1, <4>1, <4>2, <3>2, <3>4, <3>6, <3>7 DEF lookup_page
        <5>3. lookup_page(pagedir[q], h) = NoEntry
          BY <4>2, <2>2 DEF lookup_page
        <5> QED BY <5>2, <5>3
      <4>3. CASE ~(q = p /\ pd_no(h) = i)
        <5>1. pde'[pagedir[q]][pd_no(h)] = pde[pagedir[q]][pd_no(h)]
          <6>1. CASE q = p
            BY <6>1, <4>1, <4>3, <3>7
          <6>2. CASE q # p
            <7>1. pagedir[q] # pagedir[p]
              BY <6>2, <4>1, <1>0 DEF TablesOwned
            <7> QED BY <7>1, <4>1, <3>7
          <6> QED BY <6>1, <6>2
        <5>2. CASE pde[pagedir[q]][pd_no(h)] = NULLF
          BY <5>1, <5>2 DEF lookup_page
        <5>3. CASE pde[pagedir[q]][pd_no(h)] # NULLF
          <6>1. pde[pagedir[q]][pd_no(h)] \in frames /\ pde[pagedir[q]][pd_no(h)] \in KFrames
            BY <5>3, <4>1, <3>9, BuildingDir DEF HasTable
          <6>2. pte'[pde[pagedir[q]][pd_no(h)]] = pte[pde[pagedir[q]][pd_no(h)]]
            BY <6>1, <3>2, <3>6
          <6> QED BY <6>2, <5>1, <5>3 DEF lookup_page
        <5> QED BY <5>2, <5>3
      <4> QED BY <4>2, <4>3
    <3> QED BY <3>8, <3>9
  <2> QED BY <2>1, <2>2
<1>6. ASSUME NEW q \in Procs, q # p, at[q] \in Building PROVE Kept(q)
  BY <1>4, <1>5, <1>6 DEF Kept, EntryKept, FrameKept
<1>7. ASSUME NEW h \in Pages, h # page
      PROVE  /\ lookup_page(pagedir[p], h)' = lookup_page(pagedir[p], h)
             /\ lookup_page(pagedir[p], h).frame # NULLF =>
                  contents'[lookup_page(pagedir[p], h).frame] = contents[lookup_page(pagedir[p], h).frame]
  BY <1>4, <1>5, <1>7
<1>8. OthersKept(p) /\ PagesKept(p, page)
  BY <1>6, <1>7 DEF OthersKept, PagesKept
<1>9. MapsTo(p, page, w, c)
  BY <1>2, <1>3, <1>5 DEF MapsTo
<1> QED BY <1>8, <1>9
-----------------------------------------------------------------------------
LEMMA BytesKept ==
  ASSUME NEW q \in Procs, FramesKept(q), NEW ph \in Phdrs, NEW top, BytesLoaded(pagedir[q], ph, top)
  PROVE  BytesLoaded(pagedir[q], ph, top)'
<1>1. SUFFICES ASSUME NEW a \in ph.vaddr .. ph.vaddr + ph.memsz - 1, a < top PROVE ByteLoaded(pagedir[q], ph, a)'
  BY DEF BytesLoaded
<1>2. ByteLoaded(pagedir[q], ph, a)
  BY <1>1 DEF BytesLoaded
<1>3. a \in Int /\ 0 <= a /\ a < PHYS_BASE
  BY <1>1, <1>2 DEF ByteLoaded, is_user_vaddr, Phdrs
<1>4. PICK g \in Pages : g = pg_no(a)
  BY <1>3, PageOf
<1>5. PICK e, f : e = lookup_page(pagedir[q], g) /\ f = lookup_page(pagedir[q], g)'
  OBVIOUS
<1>6. e.frame # NULLF
  BY <1>2, <1>4, <1>5 DEF ByteLoaded
<1>7. f.frame = e.frame /\ f.writable = e.writable /\ contents'[e.frame] = contents[e.frame] /\ pagedir'[q] = pagedir[q]
  BY <1>5, <1>6 DEF FramesKept, FrameKept
<1> QED BY <1>2, <1>4, <1>5, <1>7 DEF ByteLoaded

LEMMA InMemoryKept ==
  ASSUME NEW q \in Procs, FramesKept(q), ld[q].image \in Images, ld'[q].image = ld[q].image,
         NEW h \in 1 .. Len(ld[q].image.phdrs), InMemory(q, h)
  PROVE  InMemory(q, h)'
<1>1. PICK ph \in Phdrs : ph = ld[q].image.phdrs[h]
  BY UmAssumption
<1>2. ph.type = "load" => ph.vaddr + ph.memsz < PHYS_BASE /\ BytesLoaded(pagedir[q], ph, PHYS_BASE)
  BY <1>1 DEF InMemory
<1>3. ph.type = "load" => BytesLoaded(pagedir[q], ph, PHYS_BASE)'
  BY <1>2, BytesKept
<1>4. ph = ld'[q].image.phdrs[h]
  BY <1>1
<1> QED BY <1>2, <1>3, <1>4 DEF InMemory

LEMMA ArgsKept ==
  ASSUME NEW q \in Procs, FramesKept(q), ArgsMapped(q), ld'[q].image = ld[q].image
  PROVE  ArgsMapped(q)'
<1>1. PICK page : page = pg_no(ArgStack(ld[q].image.args).esp)
  OBVIOUS
<1>2. page \in Pages /\ \A g \in page .. UserPageCount - 1 : lookup_page(pagedir[q], g).frame # NULLF
  BY <1>1, Zenon DEF ArgsMapped
<1>3. ASSUME NEW g \in page .. UserPageCount - 1 PROVE lookup_page(pagedir[q], g)'.frame # NULLF
  <2>1. g \in Pages
    BY <1>2, UmAssumption DEF Pages
  <2> QED BY <2>1, <1>2 DEF FramesKept, FrameKept
<1> QED BY <1>1, <1>2, <1>3 DEF ArgsMapped

\* A step of another process.
LEMMA LoadKept ==
  ASSUME NEW q \in Procs, LoadOk(q), at[q] \in Building => Kept(q), at'[q] = at[q], ld'[q] = ld[q]
  PROVE  LoadOk(q)'
<1>1. CASE at[q] \notin Building
  BY <1>1 DEF LoadOk, MapOk, HeadersOk, Building, Begun
<1>2. CASE at[q] \in Building
  <2>1. Kept(q) /\ FramesKept(q) /\ ld[q].image \in Images /\ 0 \in Pages
    BY <1>2, UmAssumption DEF LoadOk, HeadersOk, Pages, Kept, EntryKept, FramesKept
  <2>2. MapOk(q)'
    <3>1. ~lookup_page(pagedir[q], 0)'.present
      BY <1>2, <2>1 DEF LoadOk, MapOk, Kept, EntryKept
    <3>2. ASSUME at[q] # "user", NEW page \in Pages, lookup_page(pagedir[q], page)'.frame # NULLF
          PROVE  lookup_page(pagedir[q], page)'.present
      BY <1>2, <2>1, <3>2 DEF LoadOk, MapOk, Kept, EntryKept
    <3>3. at[q] = "user" => ArgsMapped(q)'
      BY <2>1, ArgsKept DEF LoadOk, MapOk
    <3> QED BY <3>1, <3>2, <3>3, <1>2 DEF MapOk
  <2>3. HeadersOk(q)'
    <3>1. ASSUME at[q] \in Begun, NEW h \in 1 .. Len(ld[q].image.phdrs), h < ld[q].i, at[q] = "segment" => h < ld[q].i - 1
          PROVE  InMemory(q, h)'
      <4>1. InMemory(q, h)
        BY <3>1 DEF LoadOk, HeadersOk
      <4> QED BY <4>1, <2>1, InMemoryKept
    <3>2. ASSUME at[q] = "segment" PROVE Loading(pagedir[q], ld[q].image.phdrs[ld[q].i - 1], ld[q].seg)'
      <4>1. PICK ph \in Phdrs : ph = ld[q].image.phdrs[ld[q].i - 1]
        BY <3>2, <2>1, UmAssumption DEF LoadOk, HeadersOk
      <4>2. PICK s : s = ld[q].seg
        OBVIOUS
      <4>3. Loading(pagedir[q], ph, s)
        BY <3>2, <4>1, <4>2 DEF LoadOk, HeadersOk
      <4>4. PICK top : top = s.upage * PageBytes
        OBVIOUS
      <4>5. BytesLoaded(pagedir[q], ph, top)'
        BY <4>3, <4>4, <2>1, BytesKept DEF Loading
      <4>6. Loading(pagedir[q], ph, s)'
        BY <4>3, <4>4, <4>5 DEF Loading
      <4> QED BY <4>1, <4>2, <4>6
    <3> QED BY <3>1, <3>2, <1>2 DEF LoadOk, HeadersOk
  <2> QED BY <2>2, <2>3 DEF LoadOk
<1> QED BY <1>1, <1>2


\* The step's own process, where its map stays, and the processes it leaves alone.
LEMMA MapKept ==
  ASSUME NEW q \in Procs, MapOk(q), Kept(q), at[q] \in Building, at'[q] \in Building, at[q] = "user" => at'[q] = "user",
         at'[q] = "user" => ArgsMapped(q)'
  PROVE  MapOk(q)'
<1>1. 0 \in Pages
  BY UmAssumption DEF Pages
<1>2. ~lookup_page(pagedir[q], 0)'.present
  BY <1>1 DEF MapOk, Kept, EntryKept
<1>3. ASSUME at'[q] # "user", NEW page \in Pages, lookup_page(pagedir[q], page)'.frame # NULLF
      PROVE  lookup_page(pagedir[q], page)'.present
  BY <1>3 DEF MapOk, Kept, EntryKept
<1> QED BY <1>2, <1>3 DEF MapOk

LEMMA LoadOthers ==
  ASSUME LoadInv, NEW p \in Procs, LoadOk(p)', contents' \in [UFrames -> [ofs : Int, n : Int]],
         \A q \in Procs : q # p => at'[q] = at[q] /\ ld'[q] = ld[q] /\ (at[q] \in Building => Kept(q))
  PROVE  LoadInv'
<1>1. ASSUME NEW q \in Procs, q # p PROVE LoadOk(q)'
  BY <1>1, LoadKept DEF LoadInv
<1> QED BY <1>1 DEF LoadInv

\* A process that leaves: nothing is claimed of it.
LEMMA LoadLeft ==
  ASSUME NEW q \in Procs, at'[q] \in {"exit", "activate", "destroy", "dead"}
  PROVE  LoadOk(q)'
  BY DEF LoadOk, MapOk, HeadersOk, Building, Begun
\* load_phdr begins a segment.
LEMMA LoadingBegins ==
  ASSUME NEW ph \in Phdrs, NEW length, validate_segment(ph, length), NEW pd
  PROVE  Loading(pd, ph, Segment(ph))
<1>1. /\ SegStart(ph) \in Int /\ SegEnd(ph) \in Int /\ ReadBytes(ph) \in Int
      /\ SegStart(ph) = pg_no(ph.vaddr) * PageBytes
      /\ ph.vaddr >= SegStart(ph) /\ SegEnd(ph) > SegStart(ph)
      /\ 0 <= ReadBytes(ph) /\ ReadBytes(ph) <= SegEnd(ph) - SegStart(ph)
  BY SegmentFits
<1>2. PICK s : s = Segment(ph)
  OBVIOUS
<1>3. /\ s.read = ReadBytes(ph) /\ s.zero = pg_round_up(pg_ofs(ph.vaddr) + ph.memsz) - ReadBytes(ph)
      /\ s.upage = pg_no(ph.vaddr) /\ s.ofs = pg_round_down(ph.offset) /\ s.w = ph.w
  BY <1>2 DEF Segment, ReadBytes
<1>4. s \in Segments
  BY <1>2, SegmentTyped
<1>5. PICK u \in Int : u = pg_round_up(pg_ofs(ph.vaddr) + ph.memsz) /\ SegEnd(ph) = SegStart(ph) + u
  <2>1. pg_round_up(pg_ofs(ph.vaddr) + ph.memsz) \in Int
    <3>1. /\ ph.vaddr \in Int /\ ph.memsz \in Int /\ PageBytes \in Nat \ {0} /\ AddressMod \in Nat \ {0}
      <4>1. AddressMod > 0
        BY UmAssumption
      <4> QED BY <4>1, UmAssumption DEF Phdrs
    <3> QED BY <3>1 DEF pg_ofs, pg_round_down, pg_round_up
  <2> QED BY <2>1 DEF SegEnd
<1>6. s.upage * PageBytes = SegStart(ph)
  BY <1>1, <1>3
<1>7. PICK done \in Int : done = s.upage * PageBytes - SegStart(ph) /\ done = 0
  BY <1>1, <1>6
<1>8. /\ s.w = ph.w /\ s.zero >= 0 /\ s.read + s.zero > 0 /\ done >= 0
      /\ done + s.read + s.zero = SegEnd(ph) - SegStart(ph)
      /\ s.read = IF ReadBytes(ph) > done THEN ReadBytes(ph) - done ELSE 0
  BY <1>1, <1>3, <1>5, <1>7
<1>9. s.ofs = pg_round_down(ph.offset) + done
  BY <1>3, <1>4, <1>7 DEF Segments
<1>10. BytesLoaded(pd, ph, s.upage * PageBytes)
  BY <1>1, <1>6 DEF BytesLoaded, Phdrs
<1> QED BY <1>2, <1>7, <1>8, <1>9, <1>10 DEF Loading

\* The pages of a segment are user pages, and never the first.
LEMMA LoadingInside ==
  ASSUME NEW ph \in Phdrs, NEW length, validate_segment(ph, length), NEW pd, NEW s \in Segments, Loading(pd, ph, s)
  PROVE  s.upage \in Pages /\ s.upage # 0
<1>1. /\ SegStart(ph) \in Int /\ SegEnd(ph) \in Int /\ SegStart(ph) >= PageBytes /\ SegEnd(ph) <= PHYS_BASE
  BY SegmentFits
<1>2. PICK B \in Nat, N \in Nat, S \in Int, T \in Int, g \in Int, x \in Int, y \in Int :
        /\ B = PageBytes /\ B > 0 /\ N = UserPageCount /\ S = SegStart(ph) /\ T = SegEnd(ph)
        /\ g = s.upage /\ x = s.read /\ y = s.zero
  <2>1. PICK B \in Nat, N \in Nat : B = PageBytes /\ B > 0 /\ N = UserPageCount
    BY UmAssumption
  <2>2. PICK g \in Int, x \in Int, y \in Int : g = s.upage /\ x = s.read /\ y = s.zero
    BY DEF Segments
  <2> QED BY <1>1, <2>1, <2>2
<1>3. PICK done : done = s.upage * PageBytes - SegStart(ph)
  OBVIOUS
<1>4. done >= 0 /\ s.read + s.zero > 0 /\ done + s.read + s.zero = SegEnd(ph) - SegStart(ph)
  BY <1>3, Zenon DEF Loading
<1>5. PICK G \in Int : G = g * B /\ done = G - S
  BY <1>2, <1>3
<1>6. G >= S /\ G < T
  <2>1. done >= 0 /\ x + y > 0 /\ done + x + y = T - S
    BY <1>4, <1>2, Zenon
  <2> QED BY ONLY <2>1, <1>5, G \in Int, S \in Int, T \in Int, x \in Int, y \in Int
<1>7. S >= B /\ T <= N * B
  BY <1>1, <1>2 DEF PHYS_BASE
<1>8. g > 0
  <2>1. SUFFICES ASSUME g <= 0 PROVE FALSE
    BY <1>2
  <2>2. g * B <= 0
    BY <2>1, <1>2
  <2> QED BY <2>2, <1>2, <1>5, <1>6, <1>7
<1>9. g < N
  <2>1. SUFFICES ASSUME g >= N PROVE FALSE
    BY <1>2
  <2>2. g * B >= N * B
    BY <2>1, <1>2
  <2> QED BY <2>2, <1>2, <1>5, <1>6, <1>7
<1> QED BY <1>2, <1>8, <1>9 DEF Pages

\* load_segment ends a page: the next one, or the end of the segment.
LEMMA LoadingGoesOn ==
  ASSUME NEW p \in Procs, NEW ph \in Phdrs, NEW length, validate_segment(ph, length),
         NEW s \in Segments, Loading(pagedir[p], ph, s), pagedir'[p] = pagedir[p],
         NEW n, n = IF s.read < PageBytes THEN s.read ELSE PageBytes,
         NEW t, t = [s EXCEPT !.read = @ - n, !.zero = @ - (PageBytes - n), !.upage = @ + 1, !.ofs = @ + n],
         NEW f \in UFrames, lookup_page(pagedir[p], s.upage)' = pte_create_user(f, s.w), contents'[f] = [ofs |-> s.ofs, n |-> n],
         PagesKept(p, s.upage)
  PROVE  /\ s.read > n \/ s.zero > PageBytes - n => Loading(pagedir[p], ph, t)'
         /\ ~(s.read > n \/ s.zero > PageBytes - n) => BytesLoaded(pagedir[p], ph, PHYS_BASE)'
<1>1. /\ SegStart(ph) \in Int /\ SegEnd(ph) \in Int /\ ReadBytes(ph) \in Int /\ pg_no(ph.vaddr) \in Int
      /\ SegStart(ph) = pg_no(ph.vaddr) * PageBytes /\ ph.vaddr >= SegStart(ph) /\ SegStart(ph) >= PageBytes
      /\ ph.vaddr + ph.memsz < PHYS_BASE /\ ph.vaddr + ph.memsz <= SegEnd(ph) /\ SegEnd(ph) <= PHYS_BASE
      /\ \E m \in Int : SegEnd(ph) = m * PageBytes
      /\ pg_ofs(ph.vaddr) = ph.vaddr - SegStart(ph) /\ ph.offset = pg_round_down(ph.offset) + pg_ofs(ph.vaddr)
  BY SegmentFits
<1>2. PICK B \in Nat, v \in Int, z \in Int, r \in Int, o \in Int, S \in Int, T \in Int, R \in Int, H \in Int, O \in Int :
        /\ B = PageBytes /\ B > 0 /\ v = ph.vaddr /\ z = ph.memsz /\ r = ph.filesz /\ o = ph.offset
        /\ S = SegStart(ph) /\ T = SegEnd(ph) /\ R = ReadBytes(ph) /\ H = PHYS_BASE /\ O = pg_round_down(ph.offset)
        /\ v >= S /\ S >= B /\ v + z < H /\ v + z <= T /\ T <= H /\ o = O + (v - S) /\ z >= 0 /\ r >= 0
  <2>1. PICK B \in Nat, v \in Int, z \in Int, r \in Int, o \in Int : B = PageBytes /\ B > 0 /\ v = ph.vaddr /\ z = ph.memsz
          /\ r = ph.filesz /\ o = ph.offset /\ z >= 0 /\ r >= 0
    BY UmAssumption DEF Phdrs
  <2>2. PICK H \in Int : H = PHYS_BASE
    BY UmAssumption DEF PHYS_BASE
  <2>3. PICK O \in Int : O = pg_round_down(ph.offset)
    BY <2>1 DEF pg_round_down, pg_ofs
  <2> QED BY <2>1, <2>2, <2>3, <1>1
<1>3. R = IF r > 0 THEN v - S + r ELSE 0
  BY <1>1, <1>2 DEF ReadBytes
<1>4. PICK x \in Int, y \in Int, g \in Int, w \in BOOLEAN, q \in Int :
        x = s.read /\ y = s.zero /\ g = s.upage /\ w = s.w /\ q = s.ofs
  BY DEF Segments
<1>5. PICK G \in Int : G = g * B
  BY <1>2, <1>4
<1>6. /\ w = ph.w /\ y >= 0 /\ x + y > 0 /\ G >= S /\ G + x + y = T
      /\ x = (IF R > G - S THEN R - (G - S) ELSE 0)
      /\ x > 0 => q = O + (G - S)
      /\ BytesLoaded(pagedir[p], ph, G)
  <2>1. PICK done : done = s.upage * PageBytes - SegStart(ph)
    OBVIOUS
  <2>2. done = G - S
    BY <2>1, <1>2, <1>4, <1>5
  <2>3. /\ s.w = ph.w /\ s.zero >= 0 /\ s.read + s.zero > 0 /\ done >= 0
        /\ done + s.read + s.zero = SegEnd(ph) - SegStart(ph)
        /\ s.read = (IF ReadBytes(ph) > done THEN ReadBytes(ph) - done ELSE 0)
        /\ s.read > 0 => s.ofs = pg_round_down(ph.offset) + done
        /\ BytesLoaded(pagedir[p], ph, s.upage * PageBytes)
    BY <2>1, Zenon DEF Loading
  <2>4. BytesLoaded(pagedir[p], ph, G)
    BY <2>3, <1>2, <1>4, <1>5
  <2>9. w = ph.w
    BY <2>3, <1>4, Zenon
  <2>5. y >= 0 /\ x + y > 0 /\ G >= S
    BY <2>2, <2>3, <1>2, <1>4, <1>5
  <2>6. G + x + y = T
    <3>1. done + x + y = T - S
      BY <2>3, <1>2, <1>4, Zenon
    <3>2. x \in Int /\ y \in Int /\ G \in Int /\ S \in Int /\ T \in Int
      BY <1>2, <1>4, <1>5
    <3> QED BY ONLY <3>1, <3>2, <2>2
  <2>7. x = (IF R > G - S THEN R - (G - S) ELSE 0)
    BY <2>2, <2>3, <1>2, <1>4, <1>5
  <2>8. x > 0 => q = O + (G - S)
    BY <2>2, <2>3, <1>2, <1>4, <1>5
  <2> QED BY <2>4, <2>5, <2>6, <2>7, <2>8, <2>9
<1>7. n \in Int /\ n = (IF x < B THEN x ELSE B) /\ 0 <= n /\ n <= B /\ x >= 0
  BY <1>2, <1>4, <1>6
\* whole pages are left
<1>8. T >= G + B
  <2>1. PICK m \in Int : T = m * B
    BY <1>1, <1>2
  <2>2. m > g
    <3>1. SUFFICES ASSUME m <= g PROVE FALSE
      BY <2>1, <1>4
    <3>2. m * B <= g * B
      BY <3>1, <2>1, <1>2, <1>4
    <3> QED BY <3>2, <2>1, <1>5, <1>6
  <2>3. m * B >= (g + 1) * B
    BY <2>1, <2>2, <1>2, <1>4
  <2>4. (g + 1) * B = G + B
    BY <1>2, <1>4, <1>5
  <2> QED BY <2>1, <2>3, <2>4
<1>9. /\ t.read = x - n /\ t.zero = y - (B - n) /\ t.upage = g + 1 /\ t.ofs = q + n /\ t.w = w
  BY <1>2, <1>4 DEF Segments
<1>10. (g + 1) * B = G + B
  BY <1>2, <1>4, <1>5
<1>11. y - (B - n) >= 0
  BY <1>2, <1>4, <1>6, <1>7, <1>8
\* the bytes of this page and of the ones before
<1>12. BytesLoaded(pagedir[p], ph, G + B)'
  <2>1. SUFFICES ASSUME NEW a \in ph.vaddr .. ph.vaddr + ph.memsz - 1, a < G + B PROVE ByteLoaded(pagedir[p], ph, a)'
    BY DEF BytesLoaded
  <2>2. a \in Int /\ v <= a /\ a < v + z /\ 0 <= a /\ a < H /\ is_user_vaddr(a)
    BY <2>1, <1>2 DEF is_user_vaddr
  <2>3. CASE a < G
    <3>1. ByteLoaded(pagedir[p], ph, a)
      BY <2>1, <2>3, <1>6 DEF BytesLoaded
    <3>2. PICK h \in Pages : h = pg_no(a)
      BY <2>2, <1>2, PageOf
    <3>3. h # g
      <4>1. SUFFICES ASSUME h = g PROVE FALSE
        OBVIOUS
      <4>2. a = g * B + pg_ofs(a) /\ pg_ofs(a) >= 0 /\ pg_ofs(a) \in Int
        BY <4>1, <3>2, <2>2, <1>2, PageOf
      <4> QED BY <4>2, <2>3, <2>2, <1>5
    <3>4. PICK e : e = lookup_page(pagedir[p], h)
      OBVIOUS
    <3>5. lookup_page(pagedir[p], h)' = e /\ e.frame # NULLF /\ contents'[e.frame] = contents[e.frame]
      <4>1. e.frame # NULLF
        BY <3>1, <3>2, <3>4 DEF ByteLoaded
      <4> QED BY <4>1, <3>3, <3>4, <1>4 DEF PagesKept
    <3> QED BY <3>1, <3>2, <3>4, <3>5 DEF ByteLoaded
  <2>4. CASE a >= G
    <3>1. pg_no(a) = g /\ pg_ofs(a) = a - G
      BY <2>1, <2>2, <2>4, <1>2, <1>4, <1>5, PageUnique
    <3>2. PICK e \in Entries : e = lookup_page(pagedir[p], g)' /\ e.frame = f /\ e.writable = w
      BY <1>4, NewEntry
    <3>3. f # NULLF
      BY Constants
    <3>4. contents'[f].n = n /\ contents'[f].ofs = q
      BY <1>4
    <3>5. CASE a - v < r
      <4>1. a - G < n /\ q + (a - G) = o + (a - v)
        BY <3>5, <2>1, <2>2, <2>4, <1>2, <1>3, <1>6, <1>7
      <4> QED BY <4>1, <3>1, <3>2, <3>3, <3>4, <3>5, <2>2, <1>2, <1>6 DEF ByteLoaded
    <3>6. CASE ~(a - v < r)
      <4>1. a - G >= n
        BY <3>6, <2>1, <2>2, <2>4, <1>2, <1>3, <1>6, <1>7
      <4> QED BY <4>1, <3>1, <3>2, <3>3, <3>4, <3>6, <2>2, <1>2, <1>6 DEF ByteLoaded
    <3> QED BY <3>5, <3>6
  <2> QED BY <2>2, <2>3, <2>4, <1>5
<1>13. ASSUME x > n \/ y > B - n PROVE Loading(pagedir[p], ph, t)'
  <2>1. PICK done \in Int : done = (g + 1) * B - S /\ done = G + B - S
    BY <1>2, <1>5, <1>10
  <2>2. (x - n) + (y - (B - n)) > 0
    BY <1>13, <1>2, <1>4, <1>7, <1>11
  <2>3. done + (x - n) + (y - (B - n)) = T - S /\ done >= 0
    BY <2>1, <1>2, <1>4, <1>5, <1>6, <1>7
  <2>4. x - n = (IF R > done THEN R - done ELSE 0)
    BY <2>1, <1>2, <1>4, <1>5, <1>6, <1>7
  <2>5. x - n > 0 => q + n = O + done
    BY <2>1, <1>2, <1>4, <1>5, <1>6, <1>7
  <2>6. BytesLoaded(pagedir[p], ph, (g + 1) * B)'
    BY <1>10, <1>12
  <2> QED BY <2>1, <2>2, <2>3, <2>4, <2>5, <2>6, <1>2, <1>6, <1>9, <1>11 DEF Loading
<1>14. ASSUME ~(x > n \/ y > B - n) PROVE BytesLoaded(pagedir[p], ph, PHYS_BASE)'
  <2>1. G + B >= T
    BY <1>14, <1>2, <1>4, <1>5, <1>6, <1>7
  <2>2. \A a \in ph.vaddr .. ph.vaddr + ph.memsz - 1 : a < G + B
    BY <2>1, <1>2, <1>5
  <2> QED BY <2>2, <1>12 DEF BytesLoaded
<1> QED BY <1>2, <1>4, <1>13, <1>14
-----------------------------------------------------------------------------
\* The steps of load and of the program that change no table.
LEMMA LoadControl ==
  ASSUME CoreInv, LoadInv, NEW p \in Procs, UNCHANGED <<pagedir, pde, pte, contents>>,
         NEW x, at' = [at EXCEPT ![p] = x], \A q \in Procs : q # p => ld'[q] = ld[q], LoadOk(p)'
  PROVE  LoadInv'
<1>1. \A q \in Procs : q # p => at'[q] = at[q]
  BY DEF CoreInv, UmTypeOK
<1>2. \A q \in Procs : Kept(q)
  BY KeptSame
<1> QED BY <1>1, <1>2, LoadOthers DEF LoadInv

LEMMA HeaderLoads ==
  ASSUME CoreInv, LoadInv, NEW p \in Procs, load_header(p) \/ push_arguments(p) \/ Exit(p)
  PROVE  LoadInv'
<1>1. UNCHANGED <<pagedir, pde, pte, contents, ld>>
  BY DEF load_header, push_arguments, Exit
<1>2. PICK x \in {"exit", "phdr", "user", "overrun"} :
        /\ at' = [at EXCEPT ![p] = x] /\ (x = "phdr" => at[p] = "header") /\ (x \in {"user", "overrun"} => at[p] = "args")
  BY DEF load_header, push_arguments, Exit, LoadFails, UmGo
<1>3. at'[p] = x
  BY <1>2 DEF CoreInv, UmTypeOK
<1>4. CASE x = "exit"
  BY <1>1, <1>2, <1>3, <1>4, LoadLeft, LoadControl
<1>5. CASE x # "exit"
  <2>0. Kept(p) /\ FramesKept(p) /\ MapOk(p) /\ HeadersOk(p) /\ at[p] \in Building /\ at'[p] \in Building
    BY <1>1, <1>2, <1>3, <1>5, KeptSame DEF LoadInv, LoadOk, Building, Kept, FramesKept, EntryKept
  <2>1. MapOk(p)'
    <3>1. ASSUME x = "user" PROVE ArgsMapped(p)'
      <4>1. PICK page : page = pg_no(ArgStack(ld[p].image.args).esp)
        OBVIOUS
      <4>2. push_arguments(p)
        <5>1. at[p] = "args"
          BY <3>1, <1>2
        <5> QED BY <5>1 DEF load_header, Exit
      <4>3. page \in Pages /\ \A g \in page .. UserPageCount - 1 : Mapped(pagedir[p], g)
        BY <3>1, <4>1, <4>2, <1>3 DEF push_arguments, UmGo, CoreInv, UmTypeOK
      <4>4. ASSUME NEW g \in page .. UserPageCount - 1 PROVE lookup_page(pagedir[p], g).frame # NULLF
        <5>1. g \in Pages
          BY <4>3, UmAssumption DEF Pages
        <5> QED BY <5>1, <4>3, <2>0, BuildingDir DEF Mapped
      <4>5. ArgsMapped(p)
        BY <4>1, <4>3, <4>4 DEF ArgsMapped
      <4> QED BY <4>5, <2>0, <1>1, ArgsKept
    <3> QED BY <3>1, <2>0, <1>2, <1>3, <1>5, MapKept
  <2>2. ld[p].image \in Images /\ ld[p].image.phdrs \in Seq(Phdrs)
    BY <2>0, UmAssumption DEF HeadersOk
  <2>3. CASE at[p] = "header" /\ x = "phdr"
    <3>1. ld'[p].i = 1 /\ ld'[p].image = ld[p].image
      BY <2>0, <2>3, <1>1 DEF HeadersOk
    <3>2. HeadersOk(p)'
      BY <3>1, <2>2, <2>3, <1>3 DEF HeadersOk
    <3> QED BY <3>2, <2>1, <1>1, <1>2, LoadControl DEF LoadOk
  <2>4. CASE at[p] = "args" /\ x \in {"user", "overrun"}
    <3>1. ASSUME NEW h \in 1 .. Len(ld[p].image.phdrs), h < ld[p].i PROVE InMemory(p, h)'
      BY <3>1, <2>0, <2>2, <2>4, <1>1, InMemoryKept DEF HeadersOk, Begun
    <3>2. HeadersOk(p)'
      BY <3>1, <2>0, <2>2, <2>4, <1>1, <1>3 DEF HeadersOk, Begun, Building
    <3> QED BY <3>2, <2>1, <1>1, <1>2, LoadControl DEF LoadOk
  <2> QED BY <2>3, <2>4, <1>2, <1>5
<1> QED BY <1>4, <1>5

LEMMA PhdrLoads ==
  ASSUME CoreInv, LoadInv, NEW p \in Procs, load_phdr(p)
  PROVE  LoadInv'
<1>0. UmTypeOK /\ ld \in [Procs -> Loads] /\ ld[p] \in Loads /\ MapOk(p) /\ HeadersOk(p) /\ at \in [Procs -> Building \cup Leaving \cup {"new", "exit", "dead"}]
  BY DEF CoreInv, UmTypeOK, LoadInv, LoadOk
<1>1. UNCHANGED <<frames, pagedir, pde, pte, contents>> /\ at[p] = "phdr"
  BY DEF load_phdr
<1>2. Kept(p) /\ FramesKept(p) /\ ld[p].image \in Images /\ ld[p].image.phdrs \in Seq(Phdrs) /\ ld[p].i \in Nat
  <2>1. ld[p].image \in Images /\ ld[p].i \in Nat
    BY <1>0, <1>1 DEF HeadersOk, Building, Loads
  <2> QED BY <2>1, <1>1, KeptSame, UmAssumption DEF Kept, FramesKept, EntryKept
<1>3. ASSUME NEW h \in 1 .. Len(ld[p].image.phdrs), h < ld[p].i PROVE InMemory(p, h)
  BY <1>0, <1>1, <1>3 DEF HeadersOk, Begun
<1>4. CASE ld[p].i > Len(ld[p].image.phdrs)
  <2>1. at' = [at EXCEPT ![p] = "stack"] /\ ld' = ld
    BY <1>4, Zenon DEF load_phdr, UmGo
  <2>2. at'[p] = "stack"
    BY <2>1, <1>0
  <2>3. MapOk(p)'
    BY <2>2, <1>0, <1>1, <1>2, MapKept DEF Building
  <2>4. ASSUME NEW h \in 1 .. Len(ld[p].image.phdrs), h < ld[p].i PROVE InMemory(p, h)'
    BY <2>1, <2>4, <1>2, <1>3, InMemoryKept
  <2>5. HeadersOk(p)'
    BY <2>1, <2>2, <2>4, <1>2, <1>4 DEF HeadersOk, Begun
  <2> QED BY <2>1, <2>3, <2>5, <1>1, LoadControl DEF LoadOk
<1>5. CASE ~(ld[p].i > Len(ld[p].image.phdrs))
  <2>1. PICK ph \in Phdrs : ph = ld[p].image.phdrs[ld[p].i] /\ ld[p].i \in 1 .. Len(ld[p].image.phdrs)
    BY <1>0, <1>2, <1>5, HeaderTyped
  <2>2. \/ at' = [at EXCEPT ![p] = "exit"] /\ ld' = ld
        \/ ph.type = "ignored" /\ at' = [at EXCEPT ![p] = "phdr"] /\ ld' = [ld EXCEPT ![p].i = @ + 1]
        \/ /\ ph.type = "load" /\ validate_segment(ph, ld[p].image.length) /\ at' = [at EXCEPT ![p] = "segment"]
           /\ ld' = [ld EXCEPT ![p].i = @ + 1, ![p].seg = Segment(ph)]
    <3>1. ph.type \in {"ignored", "dynamic", "load"}
      BY DEF Phdrs
    <3> QED BY <3>1, <2>1, <1>5 DEF load_phdr, LoadFails, UmGo
  <2>3. CASE at' = [at EXCEPT ![p] = "exit"] /\ ld' = ld
    <3>1. at'[p] = "exit"
      BY <2>3, <1>0
    <3> QED BY <2>3, <3>1, <1>1, LoadLeft, LoadControl
  <2>4. CASE ph.type = "ignored" /\ at' = [at EXCEPT ![p] = "phdr"] /\ ld' = [ld EXCEPT ![p].i = @ + 1]
    <3>1. at'[p] = "phdr" /\ ld'[p].i = ld[p].i + 1 /\ ld'[p].image = ld[p].image /\ \A q \in Procs : q # p => ld'[q] = ld[q]
      BY <2>4, <1>0 DEF Loads
    <3>2. MapOk(p)'
      BY <3>1, <1>0, <1>1, <1>2, MapKept DEF Building
    <3>3. ASSUME NEW h \in 1 .. Len(ld[p].image.phdrs), h < ld[p].i + 1 PROVE InMemory(p, h)'
      <4>1. CASE h < ld[p].i
        BY <4>1, <3>1, <1>2, <1>3, InMemoryKept
      <4>2. CASE h = ld[p].i
        BY <4>2, <3>1, <2>1, <2>4 DEF InMemory
      <4> QED BY <4>1, <4>2, <3>3, <1>2
    <3>4. HeadersOk(p)'
      BY <3>1, <3>3, <1>2 DEF HeadersOk, Begun
    <3> QED BY <2>4, <3>1, <3>2, <3>4, <1>1, LoadControl DEF LoadOk
  <2>5. CASE /\ ph.type = "load" /\ validate_segment(ph, ld[p].image.length) /\ at' = [at EXCEPT ![p] = "segment"]
             /\ ld' = [ld EXCEPT ![p].i = @ + 1, ![p].seg = Segment(ph)]
    <3>0. PICK s \in Segments : s = Segment(ph)
      BY SegmentTyped
    <3>1. /\ at'[p] = "segment" /\ ld'[p].i = ld[p].i + 1 /\ ld'[p].image = ld[p].image /\ ld'[p].seg = s
          /\ \A q \in Procs : q # p => ld'[q] = ld[q]
      BY <2>5, <3>0, <1>0 DEF Loads
    <3>2. MapOk(p)'
      BY <3>1, <1>0, <1>1, <1>2, MapKept DEF Building
    <3>3. ASSUME NEW h \in 1 .. Len(ld[p].image.phdrs), h < ld[p].i PROVE InMemory(p, h)'
      BY <3>3, <3>1, <1>2, <1>3, InMemoryKept
    <3>4. PICK d : d = pagedir'[p]
      OBVIOUS
    <3>5. Loading(pagedir[p], ph, s)'
      <4>1. PICK top : top = s.upage * PageBytes
        OBVIOUS
      <4>2. Loading(pagedir[p], ph, s)
        BY <3>0, <2>5, LoadingBegins
      <4>3. BytesLoaded(pagedir[p], ph, top)'
        BY <4>1, <4>2, <1>2, BytesKept DEF Loading
      <4> QED BY <4>1, <4>2, <4>3 DEF Loading
    <3>6. ld[p].i + 1 - 1 = ld[p].i
      BY <1>2
    <3>7. HeadersOk(p)'
      <4>1. ld'[p].i - 1 = ld[p].i /\ ld'[p].image = ld[p].image /\ ld'[p].seg = s /\ at'[p] = "segment"
        BY <3>1, <1>2
      <4>2. /\ ld'[p].i - 1 \in 1 .. Len(ld'[p].image.phdrs) /\ ld'[p].image.phdrs[ld'[p].i - 1] = ph
            /\ ph.type = "load" /\ validate_segment(ph, ld'[p].image.length)
        BY <4>1, <2>1, <2>5
      <4>3. Loading(pagedir[p], ld[p].image.phdrs[ld[p].i - 1], ld[p].seg)'
        BY <4>1, <4>2, <3>5
      <4>4. \A h \in 1 .. Len(ld'[p].image.phdrs) : h < ld'[p].i - 1 => InMemory(p, h)'
        BY <4>1, <3>3
      <4> QED BY <4>1, <4>2, <4>3, <4>4, <1>2 DEF HeadersOk
    <3> QED BY <2>5, <3>1, <3>2, <3>7, <1>1, LoadControl DEF LoadOk
  <2> QED BY <2>2, <2>3, <2>4, <2>5
<1> QED BY <1>4, <1>5

\* install_page in load: only the page it maps changes, and no byte was there.
LEMMA InstallLoads ==
  ASSUME CoreInv, LoadInv, NEW p \in Procs, at[p] \in {"segment", "stack"}, NEW page \in Pages, page # 0,
         NEW w \in BOOLEAN, NEW c \in [ofs : Int, n : Int], NEW next, Install(p, page, w, c, next),
         at' # [at EXCEPT ![p] = "exit"], pagedir' = pagedir
  PROVE  /\ contents' \in [UFrames -> [ofs : Int, n : Int]] /\ at' = [at EXCEPT ![p] = next]
         /\ OthersKept(p) /\ FramesKept(p) /\ AllPresent(p) /\ PagesKept(p, page) /\ MapsTo(p, page, w, c)
<1>0. at[p] \in Building /\ MapOk(p) /\ contents \in [UFrames -> [ofs : Int, n : Int]] /\ 0 \in Pages
  BY UmAssumption DEF Building, LoadInv, LoadOk, Pages
<1>1. /\ FreeFrames(UFrames) # {} /\ ~Mapped(pagedir[p], page) /\ at' = [at EXCEPT ![p] = next]
      /\ pagedir_set_page(pagedir[p], page, First(FreeFrames(UFrames)), w)
      /\ contents' = [contents EXCEPT ![First(FreeFrames(UFrames))] = c]
  BY DEF Install, LoadFails, UmGo
<1>2. PICK f \in UFrames : f \notin frames /\ f = First(FreeFrames(UFrames))
  BY <1>1, FreeFrame, UmAssumption
<1>9. f \notin frames
  BY <1>2
<1>3. OthersKept(p) /\ PagesKept(p, page) /\ MapsTo(p, page, w, c)
  <2>1. pagedir_set_page(pagedir[p], page, f, w) /\ contents' = [contents EXCEPT ![f] = c]
    BY <1>1, <1>2, Zenon
  <2>2. f \in UFrames /\ pagedir' = pagedir
    BY <1>2
  <2> QED BY ONLY CoreInv, p \in Procs, page \in Pages, w \in BOOLEAN, <1>0, <1>9, <2>1, <2>2, InstallMemory
<1>4. lookup_page(pagedir[p], page).frame = NULLF
  BY <1>0, <1>1 DEF MapOk, Mapped, Building
<1>5. FramesKept(p)
  BY <1>3, <1>4 DEF FramesKept, FrameKept, PagesKept
<1>6. ~lookup_page(pagedir[p], 0)'.present
  BY <1>0, <1>3 DEF MapOk, PagesKept
<1>7. \A h \in Pages : lookup_page(pagedir[p], h)'.frame # NULLF => lookup_page(pagedir[p], h)'.present
  <2>1. lookup_page(pagedir[p], page)'.present
    BY <1>3, NewEntry DEF MapsTo
  <2>2. \A h \in Pages : lookup_page(pagedir[p], h).frame # NULLF => lookup_page(pagedir[p], h).present
    BY <1>0 DEF MapOk, Building
  <2> QED BY <2>1, <2>2, <1>3 DEF PagesKept
<1>8. contents' \in [UFrames -> [ofs : Int, n : Int]]
  BY <1>0, <1>1, <1>2
<1> QED BY <1>1, <1>3, <1>5, <1>6, <1>7, <1>8 DEF AllPresent

LEMMA InstallFails ==
  ASSUME CoreInv, LoadInv, NEW p \in Procs, NEW page, NEW w, NEW c, NEW next, next # "exit", Install(p, page, w, c, next),
         at' = [at EXCEPT ![p] = "exit"], pagedir' = pagedir, \A q \in Procs : q # p => ld'[q] = ld[q]
  PROVE  LoadInv'
<1>1. at'[p] = "exit" /\ at \in [Procs -> Building \cup Leaving \cup {"new", "exit", "dead"}]
  BY DEF CoreInv, UmTypeOK
<1>2. at' # [at EXCEPT ![p] = next]
  BY <1>1
<1>3. UNCHANGED <<pde, pte, contents>>
  BY <1>2 DEF Install, UmGo
<1> QED BY <1>1, <1>3, LoadLeft, LoadControl

LEMMA StackLoads ==
  ASSUME CoreInv, LoadInv, NEW p \in Procs, setup_stack(p)
  PROVE  LoadInv'
<1>0. /\ at[p] = "stack" /\ at \in [Procs -> Building \cup Leaving \cup {"new", "exit", "dead"}]
      /\ UNCHANGED <<pagedir, ld>> /\ HeadersOk(p)
  BY DEF setup_stack, CoreInv, UmTypeOK, LoadInv, LoadOk
<1>1. UserPageCount - 1 \in Pages /\ UserPageCount - 1 # 0
  BY UmAssumption DEF Pages
<1>2. PICK c : c = [ofs |-> 0, n |-> 0] /\ c \in [ofs : Int, n : Int]
  <2>1. [ofs |-> 0, n |-> 0] \in [ofs : Int, n : Int]
    OBVIOUS
  <2> QED BY <2>1, Zenon
<1>3. Install(p, UserPageCount - 1, TRUE, c, "args")
  BY <1>2 DEF setup_stack
<1>4. CASE at' = [at EXCEPT ![p] = "exit"]
  BY <1>0, <1>3, <1>4, InstallFails
<1>5. CASE at' # [at EXCEPT ![p] = "exit"]
  <2>1. /\ contents' \in [UFrames -> [ofs : Int, n : Int]] /\ at' = [at EXCEPT ![p] = "args"]
        /\ OthersKept(p) /\ FramesKept(p) /\ AllPresent(p)
    <3>1. at[p] \in {"segment", "stack"} /\ TRUE \in BOOLEAN
      BY <1>0
    <3> QED BY <3>1, <1>0, <1>1, <1>2, <1>3, <1>5, InstallLoads
  <2>2. at'[p] = "args" /\ \A q \in Procs : q # p => at'[q] = at[q]
    BY <2>1, <1>0
  <2>3. MapOk(p)'
    BY <2>1, <2>2 DEF MapOk, AllPresent
  <2>4. ld[p].image \in Images /\ ld[p].image.phdrs \in Seq(Phdrs)
    BY <1>0, UmAssumption DEF HeadersOk, Building
  <2>5. ASSUME NEW h \in 1 .. Len(ld[p].image.phdrs), h < ld[p].i PROVE InMemory(p, h)'
    BY <2>1, <2>4, <2>5, <1>0, InMemoryKept DEF HeadersOk, Begun
  <2>6. HeadersOk(p)'
    BY <2>2, <2>4, <2>5, <1>0 DEF HeadersOk, Begun
  <2> QED BY <2>1, <2>2, <2>3, <2>6, <1>0, LoadOthers DEF LoadOk, OthersKept
<1> QED BY <1>4, <1>5

LEMMA SegmentLoads ==
  ASSUME CoreInv, LoadInv, NEW p \in Procs, load_segment(p)
  PROVE  LoadInv'
<1>0. /\ at[p] = "segment" /\ at \in [Procs -> Building \cup Leaving \cup {"new", "exit", "dead"}]
      /\ ld \in [Procs -> Loads] /\ ld[p] \in Loads /\ ld[p].seg \in Segments /\ ld[p].i \in Nat
      /\ pagedir' = pagedir /\ HeadersOk(p) /\ contents \in [UFrames -> [ofs : Int, n : Int]]
  BY DEF load_segment, CoreInv, UmTypeOK, LoadInv, LoadOk, Loads
<1>1. ld[p].image \in Images /\ ld[p].image.phdrs \in Seq(Phdrs)
  BY <1>0, UmAssumption DEF HeadersOk, Building
<1>2. PICK i \in 1 .. Len(ld[p].image.phdrs), ph \in Phdrs : i = ld[p].i - 1 /\ ph = ld[p].image.phdrs[i]
  BY <1>0, <1>1 DEF HeadersOk
<1>3. PICK s \in Segments : s = ld[p].seg
  BY <1>0
<1>4. ph.type = "load" /\ validate_segment(ph, ld[p].image.length) /\ Loading(pagedir[p], ph, s)
  BY <1>0, <1>2, <1>3 DEF HeadersOk
<1>5. PICK n \in Int : n = IF s.read < PageBytes THEN s.read ELSE PageBytes
  BY UmAssumption DEF Segments
<1>6. s.upage \in Pages /\ s.upage # 0
  BY <1>4, LoadingInside
<1>7. PICK more \in BOOLEAN : more = (s.read > n \/ s.zero > PageBytes - n)
  OBVIOUS
<1>8. PICK t : t = [s EXCEPT !.read = @ - n, !.zero = @ - (PageBytes - n), !.upage = @ + 1, !.ofs = @ + n]
  OBVIOUS
<1>9. PICK next \in {"segment", "phdr"} : next = IF more THEN "segment" ELSE "phdr"
  OBVIOUS
<1>10. PICK c \in [ofs : Int, n : Int] : c = [ofs |-> s.ofs, n |-> n]
  BY DEF Segments
<1>11. \/ at' = [at EXCEPT ![p] = "exit"] /\ UNCHANGED <<pde, pte, contents, ld>>
       \/ Install(p, s.upage, s.w, c, next) /\ ld' = [ld EXCEPT ![p].seg = t]
  <2>1. \/ at' = [at EXCEPT ![p] = "exit"] /\ UNCHANGED <<pde, pte, contents, ld>>
        \/ Install(p, s.upage, s.w, [ofs |-> s.ofs, n |-> n], IF more THEN "segment" ELSE "phdr") /\ ld' = [ld EXCEPT ![p].seg = t]
    BY <1>3, <1>5, <1>6, <1>7, <1>8 DEF load_segment, LoadFails, UmGo
  <2> QED BY <2>1, <1>9, <1>10
<1>12. CASE at' = [at EXCEPT ![p] = "exit"] /\ UNCHANGED <<pde, pte, contents, ld>>
  <2>1. at'[p] = "exit"
    BY <1>0, <1>12
  <2> QED BY <2>1, <1>0, <1>12, LoadLeft, LoadControl
<1>13. CASE Install(p, s.upage, s.w, c, next) /\ ld' = [ld EXCEPT ![p].seg = t]
  <2>1. /\ ld'[p].seg = t /\ ld'[p].i = ld[p].i /\ ld'[p].image = ld[p].image /\ \A q \in Procs : q # p => ld'[q] = ld[q]
    BY <1>0, <1>13 DEF Loads
  <2>2. CASE at' = [at EXCEPT ![p] = "exit"]
    BY <2>1, <2>2, <1>0, <1>9, <1>13, InstallFails
  <2>3. CASE at' # [at EXCEPT ![p] = "exit"]
    <3>0. s.w \in BOOLEAN
      BY DEF Segments
    <3>1. /\ contents' \in [UFrames -> [ofs : Int, n : Int]] /\ at' = [at EXCEPT ![p] = next]
          /\ OthersKept(p) /\ FramesKept(p) /\ AllPresent(p) /\ PagesKept(p, s.upage) /\ MapsTo(p, s.upage, s.w, c)
      BY <3>0, <2>3, <1>0, <1>6, <1>13, InstallLoads
    <3>2. PICK f \in UFrames : lookup_page(pagedir[p], s.upage)' = pte_create_user(f, s.w) /\ contents'[f] = [ofs |-> s.ofs, n |-> n]
      BY <3>1, <1>10 DEF MapsTo
    <3>3. /\ more => Loading(pagedir[p], ph, t)'
          /\ ~more => BytesLoaded(pagedir[p], ph, PHYS_BASE)'
      <4>1. /\ s.read > n \/ s.zero > PageBytes - n => Loading(pagedir[p], ph, t)'
            /\ ~(s.read > n \/ s.zero > PageBytes - n) => BytesLoaded(pagedir[p], ph, PHYS_BASE)'
        BY <3>1, <3>2, <1>0, <1>4, <1>5, <1>8, LoadingGoesOn
      <4> QED BY <4>1, <1>7
    <3>4. at'[p] = next /\ \A q \in Procs : q # p => at'[q] = at[q]
      BY <3>1, <1>0
    <3>5. MapOk(p)'
      BY <3>1, <3>4 DEF MapOk, AllPresent
    <3>6. ASSUME NEW h \in 1 .. Len(ld[p].image.phdrs), h < ld[p].i - 1 PROVE InMemory(p, h)'
      <4>1. InMemory(p, h)
        BY <3>6, <1>0 DEF HeadersOk, Begun
      <4> QED BY <4>1, <3>1, <2>1, <1>1, InMemoryKept
    <3>7. CASE more
      <4>1. at'[p] = "segment"
        BY <3>4, <3>7, <1>9
      <4>2. HeadersOk(p)'
        BY <4>1, <3>3, <3>6, <3>7, <2>1, <1>1, <1>2, <1>4 DEF HeadersOk
      <4> QED BY <4>2, <3>1, <3>4, <3>5, <2>1, LoadOthers DEF LoadOk, OthersKept
    <3>8. CASE ~more
      <4>1. at'[p] = "phdr"
        BY <3>4, <3>8, <1>9
      <4>2. InMemory(p, i)'
        <5>1. ph.vaddr + ph.memsz < PHYS_BASE
          BY <1>4, SegmentFits
        <5> QED BY <5>1, <3>3, <3>8, <2>1, <1>2 DEF InMemory
      <4>3. ASSUME NEW h \in 1 .. Len(ld[p].image.phdrs), h < ld[p].i PROVE InMemory(p, h)'
        <5>1. h < ld[p].i - 1 \/ h = i
          BY <4>3, <1>0, <1>2
        <5> QED BY <5>1, <4>2, <3>6
      <4>4. HeadersOk(p)'
        BY <4>1, <4>3, <2>1, <1>1 DEF HeadersOk
      <4> QED BY <4>4, <3>1, <3>4, <3>5, <2>1, LoadOthers DEF LoadOk, OthersKept
    <3> QED BY <3>7, <3>8
  <2> QED BY <2>2, <2>3
<1> QED BY <1>11, <1>12, <1>13

\* load's new directory maps nothing.
LEMMA CreateLoads ==
  ASSUME CoreInv, LoadInv, NEW p \in Procs, pagedir_create(p)
  PROVE  LoadInv'
<1>0. /\ at[p] = "new" /\ at \in [Procs -> Building \cup Leaving \cup {"new", "exit", "dead"}] /\ HeadersOk(p)
      /\ ld \in [Procs -> Loads] /\ ld[p] \in Loads /\ pagedir \in [Procs -> KFrames \cup {NULLF}]
      /\ pde \in [KFrames -> [TableNos -> KFrames \cup {NULLF}]]
      /\ contents' = contents /\ pte' = pte /\ contents \in [UFrames -> [ofs : Int, n : Int]]
  BY DEF pagedir_create, CoreInv, UmTypeOK, LoadInv, LoadOk
<1>1. PICK img \in Images : ld' = [ld EXCEPT ![p].image = img]
  BY DEF pagedir_create
<1>2. ld'[p].image \in Images /\ ld'[p].i = ld[p].i /\ \A q \in Procs : q # p => ld'[q] = ld[q]
  BY <1>0, <1>1 DEF Loads
<1>3. CASE FreeFrames(KFrames) = {}
  <2>1. at' = [at EXCEPT ![p] = "exit"] /\ UNCHANGED <<pagedir, pde>>
    BY <1>3 DEF pagedir_create, LoadFails, UmGo
  <2>2. at'[p] = "exit"
    BY <2>1, <1>0
  <2> QED BY <2>1, <2>2, <1>0, <1>2, LoadLeft, LoadControl
<1>4. CASE FreeFrames(KFrames) # {}
  <2>1. PICK f \in KFrames : f \notin frames /\ f = First(FreeFrames(KFrames))
    BY <1>4, FreeFrame, UmAssumption
  <2>2. /\ pde' = [pde EXCEPT ![f] = NoTables] /\ pagedir' = [pagedir EXCEPT ![p] = f] /\ at' = [at EXCEPT ![p] = "header"]
    BY <1>4, <2>1 DEF pagedir_create, UmGo
  <2>3. /\ at'[p] = "header" /\ \A q \in Procs : q # p => at'[q] = at[q]
        /\ pagedir'[p] = f /\ \A q \in Procs : q # p => pagedir'[q] = pagedir[q]
    BY <2>2, <1>0
  <2>4. ASSUME NEW q \in Procs, q # p, at[q] \in Building PROVE Kept(q)
    BY <2>1, <2>2, <2>3, <2>4, <1>0, KeptCreate
  <2>5. ASSUME NEW page \in Pages PROVE lookup_page(pagedir[p], page)' = NoEntry
    <3>1. pd_no(page) \in TableNos
      BY PageSplit
    <3>2. pde'[f][pd_no(page)] = NULLF
      BY <3>1, <2>2, <1>0 DEF NoTables, TableNos
    <3> QED BY <3>2, <2>3 DEF lookup_page
  <2>6. MapOk(p)'
    <3>1. 0 \in Pages
      BY UmAssumption DEF Pages
    <3> QED BY <3>1, <2>3, <2>5, Constants DEF MapOk
  <2>7. HeadersOk(p)'
    BY <2>3, <1>0, <1>2 DEF HeadersOk, Begun
  <2> QED BY <2>3, <2>4, <2>6, <2>7, <1>0, <1>2, LoadOthers DEF LoadOk
<1> QED BY <1>3, <1>4

\* A step that keeps every process where it is, and its pages.
LEMMA LoadsStay ==
  ASSUME LoadInv, \A q \in Procs : at[q] \in Building => Kept(q), UNCHANGED <<at, ld, contents>>
  PROVE  LoadInv'
<1>1. ASSUME NEW q \in Procs PROVE LoadOk(q)'
  BY <1>1, LoadKept DEF LoadInv
<1> QED BY <1>1 DEF LoadInv

\* The processor or pagedir.c changes the bits of an entry, or unmaps the page.
LEMMA EntryLoads ==
  ASSUME CoreInv, LoadInv, NEW p \in Procs, at[p] = "user", NEW g \in Pages, NEW e \in Entries,
         pde[pagedir[p]][pd_no(g)] # NULLF, pte' = [pte EXCEPT ![pde[pagedir[p]][pd_no(g)]][pt_no(g)] = e],
         e.frame = lookup_page(pagedir[p], g).frame, e.writable = lookup_page(pagedir[p], g).writable,
         e.present => lookup_page(pagedir[p], g).present, UNCHANGED <<pagedir, pde, contents, at, ld>>
  PROVE  LoadInv'
<1>0. at[p] \in Building
  BY DEF Building
<1>1. /\ UmTypeOK /\ pagedir[p] # NULLF /\ dir[p] = pagedir[p]
      /\ OwnTypes(dir, frames, pde, pte, cleared) /\ TablesOwned(dir, frames, pde)
  BY <1>0, BuildingDir, DirTypes DEF CoreInv, OwnInv, Owned
<1>2. pd_no(g) \in TableNos /\ pt_no(g) \in EntryNos
  BY PageSplit
<1>3. HasTable(dir, pde, p, pd_no(g)) /\ pte' = [pte EXCEPT ![pde[dir[p]][pd_no(g)]][pt_no(g)] = e]
  BY <1>1 DEF HasTable
<1>4. Written(dir, pde, pte, pte', p, pd_no(g), pt_no(g), e)
  BY <1>1, <1>2, <1>3, EntryWritten, Zenon
<1>5. ASSUME NEW q \in Procs, at[q] \in Building PROVE Kept(q)
  BY <1>3, <1>4, <1>5, KeptEntry
<1> QED BY <1>5, LoadsStay

LEMMA TouchLoads ==
  ASSUME CoreInv, LoadInv, NEW p \in Procs, NEW page \in TouchPages, NEW write \in BOOLEAN, Touch(p, page, write)
  PROVE  LoadInv'
<1>0. /\ UmTypeOK /\ at[p] = "user" /\ pagedir[p] # NULLF /\ dir[p] = pagedir[p] /\ page \in Pages
      /\ UNCHANGED <<pagedir, pde, contents, ld>> /\ at \in [Procs -> Building \cup Leaving \cup {"new", "exit", "dead"}]
  BY DirTypes, UmAssumption DEF CoreInv, StepInv, Directory, Building, Touch, Pages, UmTypeOK
<1>1. CASE UNCHANGED pte /\ at' = [at EXCEPT ![p] = "exit"]
  <2>1. at'[p] = "exit"
    BY <1>0, <1>1
  <2> QED BY <2>1, <1>0, <1>1, LoadLeft, LoadControl
<1>2. CASE UNCHANGED <<pte, at>>
  BY <1>0, <1>2, KeptSame, LoadsStay
<1>3. CASE ~(UNCHANGED pte /\ at' = [at EXCEPT ![p] = "exit"]) /\ ~UNCHANGED <<pte, at>>
  <2>1. PICK e : e = lookup_page(pagedir[p], page)
    OBVIOUS
  <2>2. PICK new : new = [e EXCEPT !.accessed = TRUE, !.dirty = @ \/ write]
    OBVIOUS
  <2>3. e.present /\ at' = at /\ pte' = [pte EXCEPT ![pde[pagedir[p]][pd_no(page)]][pt_no(page)] = new]
    BY <1>3, <2>1, <2>2, Zenon DEF Touch, UmGo
  <2>4. e \in Entries
    BY <2>1, <1>0, Lookup
  <2>5. new \in Entries /\ new.present = e.present /\ new.frame = e.frame /\ new.writable = e.writable
    <3>1. PICK x \in BOOLEAN : x = (e.dirty \/ write)
      OBVIOUS
    <3>2. new = [present |-> e.present, frame |-> e.frame, writable |-> e.writable, dirty |-> x, accessed |-> TRUE]
      BY <2>2, <2>4, <3>1 DEF Entries
    <3>3. new \in Entries
      BY <3>2, <2>4 DEF Entries
    <3>4. new.present = e.present /\ new.frame = e.frame /\ new.writable = e.writable
      BY <3>2
    <3> QED BY <3>3, <3>4
  <2>6. pde[pagedir[p]][pd_no(page)] # NULLF
    BY <2>1, <2>3, <1>0, Lookup, Constants DEF HasTable
  <2> QED BY <2>1, <2>3, <2>5, <2>6, <1>0, EntryLoads
<1> QED BY <1>1, <1>2, <1>3

LEMMA PagedirLoads ==
  ASSUME CoreInv, LoadInv, NEW q \in Procs, NEW page \in TouchPages,
         pagedir_set_dirty(q, page) \/ pagedir_set_accessed(q, page) \/ pagedir_clear_page(q, page)
  PROVE  LoadInv'
<1>0. page \in Pages
  BY UmAssumption DEF Pages
<1>1. at[q] = "user"
  BY DEF pagedir_set_dirty, pagedir_set_accessed, pagedir_clear_page, ChangeEntry
<1>2. PICK e \in Entries : e = lookup_page(pagedir[q], page)
  BY <1>0, <1>1, DirTypes, Lookup DEF CoreInv, StepInv, Directory, Building
<1>3. PICK x \in Entries : ChangeEntry(q, page, x) /\ x.frame = e.frame /\ x.writable = e.writable /\ (x.present => e.present)
  <2>1. CASE pagedir_set_dirty(q, page)
    <3>1. PICK x : x = [e EXCEPT !.dirty = FALSE]
      OBVIOUS
    <3>2. x \in Entries /\ x.frame = e.frame /\ x.present = e.present /\ x.writable = e.writable
      BY <3>1 DEF Entries
    <3> QED BY <1>2, <2>1, <3>1, <3>2 DEF pagedir_set_dirty
  <2>2. CASE pagedir_set_accessed(q, page)
    <3>1. PICK x : x = [e EXCEPT !.accessed = FALSE]
      OBVIOUS
    <3>2. x \in Entries /\ x.frame = e.frame /\ x.present = e.present /\ x.writable = e.writable
      BY <3>1 DEF Entries
    <3> QED BY <1>2, <2>2, <3>1, <3>2 DEF pagedir_set_accessed
  <2>3. CASE pagedir_clear_page(q, page)
    <3>1. PICK x : x = [e EXCEPT !.present = FALSE]
      OBVIOUS
    <3>2. x \in Entries /\ x.frame = e.frame /\ ~x.present /\ x.writable = e.writable
      BY <3>1 DEF Entries
    <3> QED BY <1>2, <2>3, <3>1, <3>2 DEF pagedir_clear_page
  <2> QED BY <2>1, <2>2, <2>3
<1>4. /\ UNCHANGED <<pagedir, pde, contents, at, ld>> /\ pde[pagedir[q]][pd_no(page)] # NULLF
      /\ pte' = [pte EXCEPT ![pde[pagedir[q]][pd_no(page)]][pt_no(page)] = x]
  BY <1>3 DEF ChangeEntry
<1> QED BY <1>0, <1>1, <1>2, <1>3, <1>4, EntryLoads

\* process_exit, and what is not the step's own process.
LEMMA ExitLoads ==
  ASSUME CoreInv, LoadInv, NEW p \in Procs, exit_forget(p) \/ exit_activate(p) \/ pagedir_destroy(p)
  PROVE  LoadInv'
<1>0. /\ at \in [Procs -> Building \cup Leaving \cup {"new", "exit", "dead"}] /\ ld \in [Procs -> Loads]
      /\ pagedir \in [Procs -> KFrames \cup {NULLF}] /\ contents \in [UFrames -> [ofs : Int, n : Int]]
  BY DEF CoreInv, UmTypeOK, LoadInv
<1>1. UNCHANGED <<pde, pte, contents>>
  BY DEF exit_forget, exit_activate, pagedir_destroy
<1>2. \E x \in {"activate", "destroy", "dead"} : at' = [at EXCEPT ![p] = x]
  BY DEF exit_forget, exit_activate, pagedir_destroy, UmGo
<1>3. at'[p] \in {"activate", "destroy", "dead"} /\ \A q \in Procs : q # p => at'[q] = at[q]
  BY <1>0, <1>2
<1>4. \A q \in Procs : q # p => ld'[q] = ld[q] /\ pagedir'[q] = pagedir[q]
  BY <1>0 DEF exit_forget, exit_activate, pagedir_destroy
<1>5. ASSUME NEW q \in Procs, q # p PROVE Kept(q)
  BY <1>1, <1>4, <1>5, KeptSame
<1> QED BY <1>0, <1>1, <1>3, <1>4, <1>5, LoadLeft, LoadOthers

LEMMA LoadInit ==
  ASSUME UmInit
  PROVE  LoadInv
<1>1. contents \in [UFrames -> [ofs : Int, n : Int]]
  BY DEF UmInit
<1>2. \A p \in Procs : at[p] = "new" /\ ld[p].i = 1
  BY DEF UmInit, NoLoad
<1> QED BY <1>1, <1>2 DEF LoadInv, LoadOk, MapOk, HeadersOk, Building, Begun

LEMMA LoadStep ==
  ASSUME CoreInv, LoadInv, [UmNext]_UmVars
  PROVE  LoadInv'
<1>1. ASSUME NEW p \in Procs, Step(p) PROVE LoadInv'
  BY <1>1, HeaderLoads, PhdrLoads, CreateLoads, SegmentLoads, StackLoads, ExitLoads, TouchLoads, PagedirLoads DEF Step
<1>2. CASE UNCHANGED <<pagedir, pde, pte, contents, at, ld>>
  BY <1>2, KeptSame, LoadsStay
<1> QED BY <1>1, <1>2 DEF UmNext, UmVars, process_activate

\* process.c's load: whatever the program headers say, the kernel's assertion on
\* addresses never fails, and a process that starts has in memory what they
\* describe, byte for byte, until it exits.
THEOREM ImagesLoaded == UmSpec => [](UmNoPanic /\ ImageInMemory)
<1>1. UmInit => CoreInv /\ LoadInv
  BY CoreInit, LoadInit
<1>2. CoreInv /\ LoadInv /\ [UmNext]_UmVars => (CoreInv /\ LoadInv)'
  BY CoreStep, LoadStep
<1>3. CoreInv /\ LoadInv => UmNoPanic /\ ImageInMemory
  <2>1. SUFFICES ASSUME CoreInv, LoadInv PROVE UmNoPanic /\ ImageInMemory
    OBVIOUS
  <2>2. UmNoPanic
    BY <2>1 DEF UmNoPanic, LoadInv, LoadOk, HeadersOk
  <2>3. ASSUME NEW p \in Procs, Loaded(p)
        PROVE  /\ ~Mapped(pagedir[p], 0)
               /\ \A i \in DOMAIN ld[p].image.phdrs :
                    LET ph == ld[p].image.phdrs[i]
                    IN ph.type = "load" => \A k \in 0 .. ph.memsz - 1 :
                         LET a == ph.vaddr + k
                             e == lookup_page(pagedir[p], pg_no(a))
                             c == contents[e.frame]
                         IN /\ is_user_vaddr(a) /\ e.frame # NULLF /\ e.writable = ph.w
                            /\ IF k < ph.filesz THEN pg_ofs(a) < c.n /\ c.ofs + pg_ofs(a) = ph.offset + k
                               ELSE pg_ofs(a) >= c.n
    <3>1. at[p] = "user" /\ MapOk(p) /\ HeadersOk(p)
      BY <2>1, <2>3 DEF Loaded, LoadInv, LoadOk
    <3>2. ~Mapped(pagedir[p], 0)
      BY <3>1 DEF MapOk, Mapped, Building
    <3>3. ld[p].image.phdrs \in Seq(Phdrs) /\ ld[p].i \in Nat /\ ld[p].i > Len(ld[p].image.phdrs)
      BY <3>1, <2>1, UmAssumption DEF HeadersOk, Building, CoreInv, UmTypeOK, Loads
    <3>4. ASSUME NEW i \in DOMAIN ld[p].image.phdrs, NEW ph, ph = ld[p].image.phdrs[i], ph.type = "load",
                 NEW k \in 0 .. ph.memsz - 1
          PROVE  ByteLoaded(pagedir[p], ph, ph.vaddr + k) /\ (ph.vaddr + k) - ph.vaddr = k
      <4>1. i \in 1 .. Len(ld[p].image.phdrs) /\ i < ld[p].i /\ ph \in Phdrs
        BY <3>3, <3>4
      <4>2. InMemory(p, i)
        BY <3>1, <4>1 DEF HeadersOk, Begun
      <4>3. PICK v \in Int, m \in Int : v = ph.vaddr /\ m = ph.memsz
        BY <4>1 DEF Phdrs
      <4>4. ph.vaddr + ph.memsz < PHYS_BASE /\ BytesLoaded(pagedir[p], ph, PHYS_BASE)
        BY <3>4, <4>2 DEF InMemory
      <4>7. PICK H \in Int : H = PHYS_BASE
        BY UmAssumption DEF PHYS_BASE
      <4>5. /\ ph.vaddr + k \in ph.vaddr .. ph.vaddr + ph.memsz - 1 /\ (ph.vaddr + k) - ph.vaddr = k
        BY <3>4, <4>3
      <4>6. ph.vaddr + k < PHYS_BASE
        BY <3>4, <4>3, <4>4, <4>7
      <4> QED BY <4>4, <4>5, <4>6 DEF BytesLoaded
    <3>5. ASSUME NEW i \in DOMAIN ld[p].image.phdrs, ld[p].image.phdrs[i].type = "load",
                 NEW k \in 0 .. ld[p].image.phdrs[i].memsz - 1
          PROVE  LET ph == ld[p].image.phdrs[i]
                     a == ph.vaddr + k
                     e == lookup_page(pagedir[p], pg_no(a))
                     c == contents[e.frame]
                 IN /\ is_user_vaddr(a) /\ e.frame # NULLF /\ e.writable = ph.w
                    /\ IF k < ph.filesz THEN pg_ofs(a) < c.n /\ c.ofs + pg_ofs(a) = ph.offset + k
                       ELSE pg_ofs(a) >= c.n
      <4>1. PICK ph : ph = ld[p].image.phdrs[i]
        OBVIOUS
      <4>2. ByteLoaded(pagedir[p], ph, ph.vaddr + k) /\ (ph.vaddr + k) - ph.vaddr = k
        BY <3>4, <3>5, <4>1
      <4> QED BY <4>1, <4>2, Zenon DEF ByteLoaded
    <3> QED BY <3>2, <3>5, ZenonT(40)
  <2> QED BY <2>2, <2>3 DEF ImageInMemory
<1> QED BY <1>1, <1>2, <1>3, PTL DEF UmSpec
-----------------------------------------------------------------------------
\* Where the argument strings begin.
Tops(b, lengths, k, n) ==
  /\ b \in [k .. n + 1 -> Int] /\ b[n + 1] = PHYS_BASE
  /\ \A i \in k .. n : b[i] = b[i + 1] - (lengths[i] + 1)

LEMMA TopsExist ==
  ASSUME NEW n \in Nat, NEW L, \A i \in 1 .. n : L[i] \in Nat
  PROVE  \E b : Tops(b, L, 1, n)
<1>0. PICK H \in Int : H = PHYS_BASE
  BY UmAssumption DEF PHYS_BASE
<1>1. PICK S : S = {m \in 0 .. n : ~ \E b : Tops(b, L, n + 1 - m, n)}
  OBVIOUS
<1>2. CASE S = {}
  <2>1. \E b : Tops(b, L, n + 1 - n, n)
    BY <1>1, <1>2
  <2>2. n + 1 - n = 1
    OBVIOUS
  <2> QED BY <2>1, <2>2
<1>3. CASE S # {}
  <2>1. PICK x \in S : \A y \in S : x <= y
    <3>1. S \in SUBSET Nat
      BY <1>1
    <3> QED BY <3>1, <1>3, LeastNat
  <2>2. x \in 0 .. n /\ ~ \E b : Tops(b, L, n + 1 - x, n)
    BY <2>1, <1>1
  <2>3. x # 0
    <3>1. SUFFICES ASSUME x = 0 PROVE FALSE
      OBVIOUS
    <3>2. PICK b : b = [i \in n + 1 .. n + 1 |-> H]
      OBVIOUS
    <3>3. Tops(b, L, n + 1, n)
      BY <3>2, <1>0 DEF Tops
    <3>4. n + 1 - 0 = n + 1
      OBVIOUS
    <3> QED BY <3>1, <3>3, <3>4, <2>2
  <2>4. x - 1 \in 0 .. n /\ x - 1 \notin S
    BY <2>1, <2>2, <2>3
  <2>5. PICK b : Tops(b, L, n + 1 - (x - 1), n)
    BY <2>4, <1>1
  <2>6. PICK k \in 1 .. n : k = n + 1 - x /\ n + 1 - (x - 1) = k + 1
    BY <2>2, <2>3
  <2>7. Tops(b, L, k + 1, n)
    BY <2>5, <2>6
  <2>8. PICK c : c = [i \in k .. n + 1 |-> IF i = k THEN b[k + 1] - (L[k] + 1) ELSE b[i]]
    OBVIOUS
  <2>9. b[k + 1] - (L[k] + 1) \in Int
    BY <2>6, <2>7 DEF Tops
  <2>10. c \in [k .. n + 1 -> Int] /\ c[n + 1] = PHYS_BASE
    BY <2>6, <2>7, <2>8, <2>9 DEF Tops
  <2>11. ASSUME NEW i \in k .. n PROVE c[i] = c[i + 1] - (L[i] + 1)
    <3>1. CASE i = k
      BY <3>1, <2>6, <2>8
    <3>2. CASE i # k
      <4>1. i \in k + 1 .. n /\ i \in k .. n + 1 /\ i + 1 \in k .. n + 1 /\ i + 1 # k
        BY <3>2, <2>6
      <4> QED BY <3>2, <4>1, <2>7, <2>8 DEF Tops
    <3> QED BY <3>1, <3>2
  <2>12. Tops(c, L, k, n)
    BY <2>10, <2>11 DEF Tops
  <2> QED BY <2>12, <2>2, <2>6
<1> QED BY <1>2, <1>3

LEMMA BelowTops ==
  ASSUME NEW n \in Nat, NEW L, \A i \in 1 .. n : L[i] \in Nat
  PROVE  Tops(Below(L, n), L, 1, n)
<1>1. PICK b : Tops(b, L, 1, n)
  BY TopsExist
<1>2. b = [i \in 1 .. n + 1 |-> IF i = n + 1 THEN PHYS_BASE ELSE b[i + 1] - (L[i] + 1)]
  <2>1. \A i \in 1 .. n + 1 : b[i] = IF i = n + 1 THEN PHYS_BASE ELSE b[i + 1] - (L[i] + 1)
    BY SMTT(40), <1>1 DEF Tops
  <2> QED BY <1>1, <2>1 DEF Tops
<1>3. PICK c : c = Below(L, n)
  OBVIOUS
<1>4. c = [i \in 1 .. n + 1 |-> IF i = n + 1 THEN PHYS_BASE ELSE c[i + 1] - (L[i] + 1)]
  BY <1>2, <1>3, Zenon DEF Below
<1>5. c[n + 1] = PHYS_BASE /\ \A i \in 1 .. n : c[i] = c[i + 1] - (L[i] + 1)
  <2>1. n + 1 \in 1 .. n + 1
    OBVIOUS
  <2>2. c[n + 1] = PHYS_BASE
    BY <1>4, <2>1
  <2>3. ASSUME NEW i \in 1 .. n PROVE c[i] = c[i + 1] - (L[i] + 1)
    <3>1. i \in 1 .. n + 1 /\ i # n + 1
      OBVIOUS
    <3> QED BY <1>4, <3>1
  <2> QED BY <2>2, <2>3
<1>6. PICK S : S = {m \in 0 .. n : c[n + 1 - m] # b[n + 1 - m]}
  OBVIOUS
<1>7. S = {}
  <2>1. SUFFICES ASSUME S # {} PROVE FALSE
    OBVIOUS
  <2>2. PICK x \in S : \A y \in S : x <= y
    <3>1. S \in SUBSET Nat
      BY <1>6
    <3> QED BY <3>1, <2>1, LeastNat
  <2>3. x \in 0 .. n /\ c[n + 1 - x] # b[n + 1 - x]
    BY <2>2, <1>6
  <2>4. x # 0
    <3>1. n + 1 - 0 = n + 1
      OBVIOUS
    <3> QED BY <3>1, <2>3, <1>1, <1>5 DEF Tops
  <2>5. x - 1 \in 0 .. n /\ x - 1 \notin S
    BY <2>2, <2>3, <2>4
  <2>6. PICK k \in 1 .. n : k = n + 1 - x /\ n + 1 - (x - 1) = k + 1
    BY <2>3, <2>4
  <2>7. c[k + 1] = b[k + 1]
    BY <2>5, <2>6, <1>6
  <2>8. c[k] = b[k]
    BY <2>7, <1>1, <1>5 DEF Tops
  <2> QED BY <2>3, <2>6, <2>8
<1>8. ASSUME NEW i \in 1 .. n + 1 PROVE c[i] = b[i]
  <2>1. n + 1 - i \in 0 .. n /\ n + 1 - (n + 1 - i) = i
    OBVIOUS
  <2> QED BY <2>1, <1>6, <1>7
<1>9. c \in [1 .. n + 1 -> Int]
  <2>1. \A i \in 1 .. n + 1 : c[i] \in Int
    BY <1>1, <1>8 DEF Tops
  <2>2. PICK h : h = [i \in 1 .. n + 1 |-> IF i = n + 1 THEN PHYS_BASE ELSE c[i + 1] - (L[i] + 1)]
    OBVIOUS
  <2>3. c = h
    BY <1>4, <2>2, Zenon
  <2>4. \A i \in 1 .. n + 1 : h[i] \in Int
    BY <2>1, <2>3
  <2> QED BY <2>2, <2>3, <2>4
<1> QED BY <1>3, <1>5, <1>9 DEF Tops

\* They lie apart, from low to high.
LEMMA TopsApart ==
  ASSUME NEW n \in Nat, NEW L, \A i \in 1 .. n : L[i] \in Nat, NEW b, Tops(b, L, 1, n),
         NEW i \in 1 .. n + 1, NEW j \in i .. n + 1
  PROVE  b[i] <= b[j]
<1>1. PICK S : S = {x \in i .. n + 1 : ~(b[i] <= b[x])}
  OBVIOUS
<1>2. SUFFICES ASSUME S # {} PROVE FALSE
  BY <1>1
<1>3. PICK x \in S : \A y \in S : x <= y
  <2>1. S \in SUBSET Nat
    BY <1>1
  <2> QED BY <2>1, <1>2, LeastNat
<1>4. x \in i .. n + 1 /\ ~(b[i] <= b[x]) /\ b \in [1 .. n + 1 -> Int]
  BY <1>1, <1>3 DEF Tops
<1>5. x # i
  BY <1>4
<1>6. x - 1 \in i .. n + 1 /\ x - 1 \notin S /\ x - 1 \in 1 .. n
  BY <1>3, <1>4, <1>5
<1>7. b[i] <= b[x - 1]
  BY <1>1, <1>6
<1>8. b[x - 1] = b[x] - (L[x - 1] + 1)
  <2>1. (x - 1) + 1 = x
    BY <1>4
  <2> QED BY <2>1, <1>6 DEF Tops
<1>9. b[x] \in Int /\ b[x - 1] \in Int /\ b[i] \in Int /\ L[x - 1] \in Nat
  BY <1>4, <1>6
<1> QED BY <1>4, <1>7, <1>8, <1>9

LEMMA ArgumentsPlaced ==
  ASSUME NEW L \in Seq(Nat), NEW s, s = ArgStack(L)
  PROVE  /\ s.esp \in Int /\ s.argc \in Nat
         /\ s.esp % 4 = 0 /\ s.argv = s.esp + 12
         /\ \A i \in 1 .. s.argc : \A a \in s.str[i] .. s.str[i] + L[i] : s.argv + 4 * (s.argc + 1) <= a /\ is_user_vaddr(a)
         /\ \A i, j \in 1 .. s.argc : i # j => (s.str[i] .. s.str[i] + L[i]) \cap (s.str[j] .. s.str[j] + L[j]) = {}
<1>1. PICK n \in Nat : n = (IF Len(L) < MaxArgs THEN Len(L) ELSE MaxArgs) /\ n <= Len(L)
  BY UmAssumption
<1>2. \A i \in 1 .. n : L[i] \in Nat
  BY <1>1
<1>3. PICK b : b = Below(L, n)
  OBVIOUS
<1>4. Tops(b, L, 1, n)
  BY <1>2, <1>3, BelowTops
<1>5. b \in [1 .. n + 1 -> Int] /\ b[n + 1] = PHYS_BASE /\ 1 \in 1 .. n + 1 /\ n + 1 \in 1 .. n + 1 /\ b[1] \in Int
  BY <1>4 DEF Tops
<1>6. \A i \in 1 .. n + 1, j \in 1 .. n + 1 : i <= j => b[i] <= b[j]
  <2>1. SUFFICES ASSUME NEW i \in 1 .. n + 1, NEW j \in 1 .. n + 1, i <= j PROVE b[i] <= b[j]
    OBVIOUS
  <2>2. j \in i .. n + 1
    BY <2>1
  <2> QED BY <2>2, <1>2, <1>4, TopsApart
<1>7. PICK W \in Int : W = b[1] - (b[1] % 4) /\ W % 4 = 0 /\ W <= b[1]
  <2>1. PICK x \in Int : x = b[1]
    BY <1>5
  <2>2. x - (x % 4) \in Int /\ (x - (x % 4)) % 4 = 0 /\ x - (x % 4) <= x
    OBVIOUS
  <2> QED BY <2>1, <2>2
<1>8. s = [argc |-> n, str |-> [i \in 1 .. n |-> b[i]], argv |-> W - 4 - 4 * n, esp |-> W - 16 - 4 * n]
  BY <1>1, <1>3, <1>7, Zenon DEF ArgStack
<1>9. s.argc = n /\ s.argv = W - 4 - 4 * n /\ s.esp = W - 16 - 4 * n /\ \A i \in 1 .. n : s.str[i] = b[i]
  BY <1>8
<1>10. s.esp % 4 = 0 /\ s.argv = s.esp + 12 /\ s.argv + 4 * (s.argc + 1) = W /\ s.esp \in Int
  <2>1. (W - 16 - 4 * n) % 4 = 0
    BY <1>7
  <2> QED BY <2>1, <1>9
<1>11. ASSUME NEW i \in 1 .. n
       PROVE  /\ b[i] \in Int /\ L[i] \in Nat /\ W <= b[i] /\ b[i] + L[i] < b[i + 1] /\ b[i + 1] \in Int /\ b[i + 1] <= PHYS_BASE
  <2>1. i \in 1 .. n + 1 /\ i + 1 \in 1 .. n + 1 /\ 1 <= i /\ i + 1 <= n + 1
    OBVIOUS
  <2>2. b[1] <= b[i] /\ b[i + 1] <= b[n + 1] /\ b[i] \in Int /\ b[i + 1] \in Int /\ L[i] \in Nat
    BY <2>1, <1>2, <1>5, <1>6
  <2>3. b[i] = b[i + 1] - (L[i] + 1)
    BY <1>4 DEF Tops
  <2>4. PICK u \in Int, v \in Int, l \in Int : u = b[i] /\ v = b[i + 1] /\ l = L[i]
    BY <2>2
  <2>5. u = v - (l + 1) /\ W <= u /\ v <= PHYS_BASE
    BY <2>2, <2>3, <2>4, <1>5, <1>7
  <2>6. u + l < v
    BY ONLY <2>5, u \in Int, v \in Int, l \in Int
  <2> QED BY <2>2, <2>4, <2>5, <2>6
<1>12. ASSUME NEW i \in 1 .. n, NEW a \in b[i] .. b[i] + L[i] PROVE W <= a /\ is_user_vaddr(a)
  <2>1. PICK H \in Int : H = PHYS_BASE
    BY UmAssumption DEF PHYS_BASE
  <2>2. PICK u \in Int, v \in Int, l \in Int : u = b[i] /\ v = b[i + 1] /\ l = L[i] /\ W <= u /\ u + l < v /\ v <= H
    <3>1. b[i] \in Int /\ L[i] \in Int /\ b[i + 1] \in Int /\ W <= b[i] /\ b[i] + L[i] < b[i + 1] /\ b[i + 1] <= H
      BY <2>1, <1>11
    <3> QED BY ONLY <3>1
  <2>3. a \in u .. u + l
    BY <2>2, <1>12
  <2>4. W <= a /\ a < H
    <3>1. a \in Int /\ u <= a /\ a <= u + l
      BY <2>3
    <3>2. W <= u /\ u + l < v /\ v <= H
      BY <2>2
    <3> QED BY ONLY <3>1, <3>2, W \in Int, H \in Int, u \in Int, v \in Int, l \in Int
  <2> QED BY <2>1, <2>4 DEF is_user_vaddr
<1>13. ASSUME NEW i \in 1 .. n, NEW j \in 1 .. n, i < j, NEW a \in b[i] .. b[i] + L[i], NEW c \in b[j] .. b[j] + L[j] PROVE a < c
  <2>1. b[i + 1] <= b[j]
    BY <1>6, <1>13
  <2>2. PICK u \in Int, v \in Int, l \in Int : u = b[i] /\ v = b[i + 1] /\ l = L[i] /\ u + l < v
    <3>1. b[i] \in Int /\ L[i] \in Int /\ b[i + 1] \in Int /\ b[i] + L[i] < b[i + 1]
      BY <1>11
    <3> QED BY ONLY <3>1
  <2>3. PICK x \in Int, m \in Int : x = b[j] /\ m = L[j]
    BY SMTT(40), <1>11
  <2>4. a \in u .. u + l /\ c \in x .. x + m /\ v <= x
    BY <2>1, <2>2, <2>3, <1>13
  <2>5. a \in Int /\ c \in Int /\ a <= u + l /\ x <= c
    BY <2>4
  <2>6. u + l < v /\ v <= x
    BY <2>2, <2>4
  <2> QED BY ONLY <2>5, <2>6, u \in Int, v \in Int, l \in Int, x \in Int
<1>14. ASSUME NEW i \in 1 .. n, NEW j \in 1 .. n, i # j PROVE (b[i] .. b[i] + L[i]) \cap (b[j] .. b[j] + L[j]) = {}
  <2>1. SUFFICES ASSUME NEW a \in b[i] .. b[i] + L[i], a \in b[j] .. b[j] + L[j] PROVE FALSE
    OBVIOUS
  <2>2. i < j \/ j < i
    BY <1>14
  <2>3. a \in Int
    BY <1>11
  <2> QED BY <2>1, <2>2, <2>3, <1>13
<1>15. ASSUME NEW i \in 1 .. s.argc, NEW a \in s.str[i] .. s.str[i] + L[i]
       PROVE  s.argv + 4 * (s.argc + 1) <= a /\ is_user_vaddr(a)
  <2>1. i \in 1 .. n /\ a \in b[i] .. b[i] + L[i]
    BY <1>9
  <2> QED BY <2>1, <1>10, <1>12
<1>16. ASSUME NEW i \in 1 .. s.argc, NEW j \in 1 .. s.argc, i # j
       PROVE  (s.str[i] .. s.str[i] + L[i]) \cap (s.str[j] .. s.str[j] + L[j]) = {}
  <2>1. i \in 1 .. n /\ j \in 1 .. n /\ s.str[i] = b[i] /\ s.str[j] = b[j]
    BY <1>9
  <2> QED BY <2>1, <1>14, <1>16
<1>17. s.argc \in Nat
  BY <1>9
<1> QED BY ONLY <1>10, <1>15, <1>16, <1>17

LEMMA ArgumentsOk ==
  ASSUME CoreInv, LoadInv
  PROVE  ArgumentsInPlace
<1>1. ASSUME NEW p \in Procs, Loaded(p), NEW s, s = ArgStack(ld[p].image.args), NEW Bytes,
             Bytes = [i \in 1 .. s.argc |-> s.str[i] .. s.str[i] + ld[p].image.args[i]]
      PROVE  /\ s.esp % 4 = 0 /\ s.argv = s.esp + 12
             /\ \A i \in 1 .. s.argc :
                  /\ \A a \in Bytes[i] : s.argv + 4 * (s.argc + 1) <= a /\ is_user_vaddr(a)
                  /\ \A j \in 1 .. s.argc : i # j => Bytes[i] \cap Bytes[j] = {}
             /\ \A g \in pg_no(s.esp) .. UserPageCount - 1 : lookup_page(pagedir[p], g).frame # NULLF
  <2>1. at[p] = "user" /\ MapOk(p) /\ ld[p].image \in Images
    BY <1>1 DEF Loaded, LoadInv, LoadOk, HeadersOk, Building
  <2>2. PICK L \in Seq(Nat) : L = ld[p].image.args
    BY <2>1, UmAssumption
  <2>3. /\ s.esp % 4 = 0 /\ s.argv = s.esp + 12
        /\ \A i \in 1 .. s.argc : \A a \in s.str[i] .. s.str[i] + L[i] : s.argv + 4 * (s.argc + 1) <= a /\ is_user_vaddr(a)
        /\ \A i, j \in 1 .. s.argc : i # j => (s.str[i] .. s.str[i] + L[i]) \cap (s.str[j] .. s.str[j] + L[j]) = {}
    <3>1. s = ArgStack(L)
      BY <1>1, <2>2
    <3> QED BY <3>1, ArgumentsPlaced
  <2>4. \A i \in 1 .. s.argc : Bytes[i] = s.str[i] .. s.str[i] + L[i]
    BY <1>1, <2>2
  <2>5. \A g \in pg_no(s.esp) .. UserPageCount - 1 : lookup_page(pagedir[p], g).frame # NULLF
    BY <1>1, <2>1, Zenon DEF MapOk, ArgsMapped
  <2>6. ASSUME NEW i \in 1 .. s.argc PROVE \A a \in Bytes[i] : s.argv + 4 * (s.argc + 1) <= a /\ is_user_vaddr(a)
    BY <2>3, <2>4, ZenonT(40)
  <2>7. ASSUME NEW i \in 1 .. s.argc, NEW j \in 1 .. s.argc, i # j PROVE Bytes[i] \cap Bytes[j] = {}
    BY <2>3, <2>4, <2>7, Zenon
  <2> QED BY ONLY <2>3, <2>5, <2>6, <2>7, Zenon
<1> QED BY <1>1, Zenon DEF ArgumentsInPlace
-----------------------------------------------------------------------------
\* What the system calls make of an address.
LEMMA PageNo ==
  ASSUME NEW a \in Nat
  PROVE  /\ pg_no(a) \in Nat /\ pg_no(a) * PageBytes <= a /\ a < pg_no(a) * PageBytes + PageBytes
         /\ pg_round_down(a) = pg_no(a) * PageBytes
<1>1. PICK B \in Nat : B = PageBytes /\ B > 0
  BY UmAssumption
<1>2. PICK g \in Int, o \in Int : g = a \div B /\ o = a % B /\ o \in 0 .. B - 1 /\ a = g * B + o
  BY <1>1
<1>3. g >= 0
  BY <1>1, <1>2
<1>4. a - o = g * B /\ g * B <= a /\ a < g * B + B
  BY <1>1, <1>2
<1> QED BY <1>1, <1>2, <1>3, <1>4 DEF pg_no, pg_round_down, pg_ofs

LEMMA PageBelow ==
  ASSUME NEW a \in Nat, NEW g \in Int
  PROVE  g <= pg_no(a) <=> g * PageBytes <= a
<1>1. PICK B \in Nat, h \in Int, G \in Int, K \in Int :
        B = PageBytes /\ B > 0 /\ h = pg_no(a) /\ G = g * B /\ K = h * B /\ K <= a /\ a < K + B
  <2>1. PICK B \in Nat, h \in Int : B = PageBytes /\ B > 0 /\ h = pg_no(a) /\ h * B <= a /\ a < h * B + B
    <3>1. PICK B \in Nat : B = PageBytes /\ B > 0
      BY UmAssumption
    <3>2. PICK h \in Int : h = pg_no(a) /\ h * PageBytes <= a /\ a < h * PageBytes + PageBytes
      BY PageNo
    <3> QED BY <3>1, <3>2
  <2>2. g * B \in Int /\ h * B \in Int
    OBVIOUS
  <2> QED BY <2>1, <2>2
<1>2. ASSUME g <= h PROVE G <= a
  <2>1. g * B <= h * B
    BY <1>1, <1>2
  <2> QED BY <2>1, <1>1
<1>3. ASSUME g > h PROVE G > a
  <2>1. g >= h + 1
    BY <1>3
  <2>2. g * B >= (h + 1) * B
    BY <2>1, <1>1
  <2>3. (h + 1) * B = K + B
    BY <1>1
  <2> QED BY <2>2, <2>3, <1>1
<1> QED BY <1>1, <1>2, <1>3

\* Mapped page by page, from the one of the first byte to the one of the last.
RangeMapped(p, start, size) ==
  \A g \in pg_no(start) .. pg_no(start + size - 1) : g \in Pages /\ Mapped(pagedir[p], g)

\* validate_buffer, where the end of the buffer does not wrap.
LEMMA BufferMapped ==
  ASSUME NEW p \in Procs, NEW start \in Nat, NEW size \in Nat \ {0}, start + size + PageBytes <= AddressMod,
         validate_buffer(p, start, size)
  PROVE  RangeMapped(p, start, size)
<1>1. PICK B \in Nat, A \in Nat, H \in Int : B = PageBytes /\ B > 0 /\ A = AddressMod /\ H = PHYS_BASE /\ A > 0
  <2>1. PICK B \in Nat, A \in Nat : B = PageBytes /\ B > 0 /\ A = AddressMod
    BY UmAssumption
  <2>2. PICK H \in Int : H = PHYS_BASE
    BY UmAssumption DEF PHYS_BASE
  <2> QED BY <2>1, <2>2
<1>2. PICK end \in Nat, last \in Nat : end = start + size /\ last = end - 1
  OBVIOUS
<1>3. end % A = end /\ last % A = last
  <2>1. end \in 0 .. A - 1 /\ last \in 0 .. A - 1
    BY <1>1, <1>2
  <2>2. end = 0 * A + end /\ last = 0 * A + last
    BY <1>1
  <2> QED BY <2>1, <2>2, <1>1, ModUnique
<1>4. last < H
  <2>1. is_user_vaddr(last)
    BY <1>1, <1>2, <1>3 DEF validate_buffer
  <2> QED BY <2>1, <1>1 DEF is_user_vaddr
<1>5. \A page \in Pages :
        pg_round_down(start) <= page * PageBytes /\ page * PageBytes < pg_round_up(end) => Mapped(pagedir[p], page)
  BY <1>1, <1>2, <1>3 DEF validate_buffer
<1>6. PICK m \in Int : pg_round_up(end) = m * PageBytes /\ end <= m * PageBytes
  <2>1. end \in Int /\ 0 <= end /\ end + PageBytes - 1 < AddressMod
    BY <1>1, <1>2
  <2> QED BY <2>1, RoundUp
<1>7. ASSUME NEW g \in pg_no(start) .. pg_no(last) PROVE g \in Pages /\ Mapped(pagedir[p], g)
  <2>1. pg_no(start) \in Nat /\ pg_no(last) \in Pages /\ pg_round_down(start) = pg_no(start) * PageBytes
    BY <1>1, <1>4, PageNo, PageOf
  <2>2. g \in Int /\ pg_no(start) <= g /\ g <= pg_no(last) /\ g \in Pages
    <3>1. PICK s \in Nat, k \in Pages : s = pg_no(start) /\ k = pg_no(last) /\ g \in s .. k
      BY <2>1
    <3> QED BY <3>1, UmAssumption DEF Pages
  <2>3. g * PageBytes <= last
    BY <2>2, PageBelow
  <2>4. pg_no(start) * PageBytes <= g * PageBytes
    BY <2>1, <2>2, <1>1
  <2>5. PICK G \in Int, M \in Int : G = g * PageBytes /\ M = m * PageBytes
    BY <2>2, <1>1
  <2>6. G < M
    BY <2>3, <2>5, <1>2, <1>6
  <2> QED BY <2>1, <2>2, <2>4, <2>5, <2>6, <1>5, <1>6
<1>8. start + size - 1 = last
  BY <1>2
<1> QED BY <1>7, <1>8 DEF RangeMapped

\* validate_string, byte for byte.
LEMMA StringMapped ==
  ASSUME NEW p \in Procs, NEW start \in Nat, NEW size \in Nat \ {0}
  PROVE  validate_string(p, start, size - 1) <=> start # 0 /\ RangeMapped(p, start, size)
<1>1. PICK B \in Nat, N \in Nat, H \in Int : B = PageBytes /\ B > 0 /\ N = UserPageCount /\ H = PHYS_BASE /\ H = N * B
  <2>1. PICK B \in Nat, N \in Nat : B = PageBytes /\ B > 0 /\ N = UserPageCount
    BY UmAssumption
  <2> QED BY <2>1 DEF PHYS_BASE
<1>2. PICK last \in Nat : last = start + size - 1 /\ last = start + (size - 1)
  OBVIOUS
<1>3. ASSUME validate_string(p, start, size - 1) PROVE start # 0 /\ RangeMapped(p, start, size)
  <2>1. \A i \in start .. last : i # 0 /\ i < H /\ Mapped(pagedir[p], pg_no(i))
    BY <1>1, <1>2, <1>3 DEF validate_string, validate_pointer, is_user_vaddr
  <2>2. start # 0
    BY <2>1, <1>2
  <2>3. ASSUME NEW g \in pg_no(start) .. pg_no(last) PROVE g \in Pages /\ Mapped(pagedir[p], g)
    <3>1. PICK s \in Int, k \in Int : s = pg_no(start) /\ k = pg_no(last) /\ g \in s .. k
      BY <2>3, PageNo
    <3>2. PICK G \in Int : G = g * PageBytes
      BY <3>1, <1>1
    <3>3. G <= last
      BY <3>1, <3>2, PageBelow
    <3>4. start < G + B
      <4>1. start < s * PageBytes + PageBytes
        BY <3>1, PageNo
      <4>2. s * B <= g * B
        BY <3>1, <1>1
      <4> QED BY <4>1, <4>2, <3>1, <3>2, <1>1
    <3>5. PICK i \in start .. last : G <= i /\ i < G + B
      <4>1. CASE G <= start
        BY <4>1, <3>2, <3>4, <1>2
      <4>2. CASE G > start
        BY <4>2, <3>2, <3>3, <1>1, <1>2
      <4> QED BY <4>1, <4>2, <3>2
    <3>6. pg_no(i) = g
      BY <3>1, <3>2, <3>5, <1>1, PageUnique
    <3>7. i < H /\ Mapped(pagedir[p], g) /\ i \in Int /\ 0 <= i
      BY <2>1, <3>5, <3>6
    <3> QED BY <3>6, <3>7, <1>1, PageOf
  <2> QED BY <2>2, <2>3, <1>2 DEF RangeMapped
<1>4. ASSUME start # 0, RangeMapped(p, start, size) PROVE validate_string(p, start, size - 1)
  <2>1. ASSUME NEW i \in start .. last PROVE i # 0 /\ is_user_vaddr(i) /\ Mapped(pagedir[p], pg_no(i))
    <3>1. i \in Nat /\ i # 0 /\ start <= i /\ i <= last
      BY <1>4, <1>2
    <3>2. PICK g \in Int, G \in Int : g = pg_no(i) /\ G = g * PageBytes /\ G <= i /\ i < G + PageBytes
      <4>1. PICK g \in Int : g = pg_no(i) /\ g * PageBytes <= i /\ i < g * PageBytes + PageBytes
        BY <3>1, PageNo
      <4>2. g * PageBytes \in Int
        BY <1>1
      <4> QED BY <4>1, <4>2
    <3>3. g <= pg_no(last)
      BY <3>1, <3>2, PageBelow
    <3>4. pg_no(start) <= g
      <4>1. PICK s \in Int : s = pg_no(start) /\ s * PageBytes <= start
        BY <3>1, PageNo
      <4>2. s * PageBytes <= i
        <5>1. PICK K \in Int : K = s * PageBytes
          BY <1>1
        <5> QED BY <5>1, <4>1, <3>1
      <4> QED BY <4>1, <4>2, <3>1, <3>2, PageBelow
    <3>5. g \in pg_no(start) .. pg_no(last)
      BY <3>2, <3>3, <3>4, PageNo
    <3>6. g \in Pages /\ Mapped(pagedir[p], g)
      BY <3>5, <1>2, <1>4 DEF RangeMapped
    <3>7. i < H
      <4>1. g <= N - 1
        BY <3>6, <1>1 DEF Pages
      <4>2. g + 1 <= N
        BY <4>1
      <4>3. (g + 1) * B <= N * B
        BY <4>2, <1>1
      <4>4. (g + 1) * B = G + B
        BY <3>2, <1>1
      <4> QED BY <4>3, <4>4, <3>1, <3>2, <1>1
    <3> QED BY <3>1, <3>2, <3>6, <3>7, <1>1 DEF is_user_vaddr
  <2> QED BY <2>1, <1>2 DEF validate_string, validate_pointer
<1> QED BY <1>3, <1>4

LEMMA PointersChecked == ValidatedIsMapped
<1>1. ASSUME NEW p \in Procs, NEW page \in Pages, NEW d \in {0, 1, PageBytes - 1},
             NEW size \in {0, 1, 2, PageBytes, PageBytes + 2}, NEW start, start = page * PageBytes + d, size > 0
      PROVE  /\ validate_buffer(p, start, size) => \A g \in page .. pg_no(start + size - 1) : g \in Pages /\ Mapped(pagedir[p], g)
             /\ \/ /\ validate_string(p, start, size - 1) /\ start # 0
                   /\ \A g \in page .. pg_no(start + size - 1) : g \in Pages /\ Mapped(pagedir[p], g)
                \/ /\ ~validate_string(p, start, size - 1)
                   /\ start = 0 \/ ~ \A g \in page .. pg_no(start + size - 1) : g \in Pages /\ Mapped(pagedir[p], g)
  <2>1. PICK B \in Nat, N \in Nat, A \in Nat, G \in Int :
          B = PageBytes /\ B > 1 /\ N = UserPageCount /\ A = AddressMod /\ N * B + 2 * B < A /\ G = page * B
    <3>1. PICK B \in Nat, N \in Nat, A \in Nat : B = PageBytes /\ B > 1 /\ N = UserPageCount /\ A = AddressMod
      BY UmAssumption
    <3>2. N * B + 2 * B < A
      BY <3>1, UmAssumption
    <3>3. page * B \in Int
      BY <3>1 DEF Pages
    <3> QED BY <3>1, <3>2, <3>3
  <2>2. page \in Int /\ 0 <= page /\ page <= N - 1
    BY <2>1 DEF Pages
  <2>3. G >= 0 /\ G + B <= N * B
    <3>1. page + 1 <= N
      BY <2>1, <2>2
    <3>2. (page + 1) * B <= N * B
      BY <3>1, <2>1, <2>2
    <3>3. (page + 1) * B = G + B
      BY <2>1, <2>2
    <3>4. page * B >= 0
      BY <2>1, <2>2
    <3> QED BY <3>2, <3>3, <3>4, <2>1
  <2>4. start = G + d /\ d \in Int /\ 0 <= d /\ d < B /\ start \in Nat
    BY <2>1, <2>3, <1>1
  <2>5. pg_no(start) = page
    BY <2>1, <2>2, <2>4, PageUnique
  <2>6. size \in Nat \ {0} /\ size <= B + 2
    BY <2>1, <1>1
  <2>7. start + size + PageBytes <= AddressMod
    <3>1. PICK H \in Int : H = N * B
      BY <2>1
    <3> QED BY <3>1, <2>1, <2>3, <2>4, <2>6
  <2>8. RangeMapped(p, start, size) <=> \A g \in page .. pg_no(start + size - 1) : g \in Pages /\ Mapped(pagedir[p], g)
    BY <2>5 DEF RangeMapped
  <2>9. validate_buffer(p, start, size) => RangeMapped(p, start, size)
    BY <2>4, <2>6, <2>7, BufferMapped
  <2>10. validate_string(p, start, size - 1) <=> start # 0 /\ RangeMapped(p, start, size)
    BY <2>4, <2>6, StringMapped
  <2> QED BY <2>8, <2>9, <2>10
<1>2. ASSUME NEW p \in Procs, NEW page \in Pages, NEW d \in {0, 1, PageBytes - 1},
             NEW size \in {0, 1, 2, PageBytes, PageBytes + 2}
      PROVE  LET start == page * PageBytes + d
                 all == \A g \in page .. pg_no(start + size - 1) : g \in Pages /\ Mapped(pagedir[p], g)
             IN /\ validate_buffer(p, start, size) /\ size > 0 => all
                /\ size > 0 => (validate_string(p, start, size - 1) <=> start # 0 /\ all)
  <2>1. PICK start : start = page * PageBytes + d
    OBVIOUS
  <2>2. PICK all \in BOOLEAN : all <=> \A g \in page .. pg_no(start + size - 1) : g \in Pages /\ Mapped(pagedir[p], g)
    OBVIOUS
  <2>3. size > 0 => (validate_buffer(p, start, size) => all) /\ (validate_string(p, start, size - 1) <=> start # 0 /\ all)
    <3>1. SUFFICES ASSUME size > 0
                   PROVE  (validate_buffer(p, start, size) => all) /\ (validate_string(p, start, size - 1) <=> start # 0 /\ all)
      OBVIOUS
    <3>2. validate_buffer(p, start, size) => all
      BY <3>1, <2>1, <2>2, <1>1
    <3>3. validate_string(p, start, size - 1) <=> start # 0 /\ all
      BY <3>1, <2>1, <2>2, <1>1
    <3> QED BY <3>2, <3>3
  <2> QED BY <2>1, <2>2, <2>3, Zenon
<1> QED BY <1>2, Zenon DEF ValidatedIsMapped

\* process.c, pagedir.c and syscall.c together, for every number of processes,
\* frames and pages and whatever executables there are: wherever a load fails
\* and whenever the context switch comes, each process has the memory its
\* executable and its command line describe, for itself, and the kernel believes
\* no pointer that leaves it.
THEOREM AddressSpacesCorrect == UmSpec => []AddressSpacesSound
<1>1. CoreInv /\ LoadInv => ArgumentsInPlace
  BY ArgumentsOk
<1>2. UmInit => CoreInv /\ LoadInv
  BY CoreInit, LoadInit
<1>3. CoreInv /\ LoadInv /\ [UmNext]_UmVars => (CoreInv /\ LoadInv)'
  BY CoreStep, LoadStep
<1>4. UmSpec => []ArgumentsInPlace
  BY <1>1, <1>2, <1>3, PTL DEF UmSpec
<1>5. (FramesOwnedOnce /\ ActiveDirectoryLives /\ TranslationsFresh) /\ (UmNoPanic /\ ImageInMemory) /\ ArgumentsInPlace
        => AddressSpacesSound
  BY PointersChecked DEF AddressSpacesSound
<1> QED BY <1>4, <1>5, AddressSpacesApart, ImagesLoaded, PTL

-----------------------------------------------------------------------------
(* Interrupts (KernelInterrupts), for any threads and devices.  The         *)
(* invariant says what a stack of frames can look like: at most the         *)
(* innermost frame has the interrupts off, all others were interrupted with *)
(* them on; a thread that does not run is in no handler.                    *)

\* Where a frame can be: of a device, of a trap.
DeviceAts == {"handler", "handled", "exit"}
TrapAts == {"exit", "kill", "page_fault", "trap_interrupt", "syscall_handler", "trap_syscall",
            "in_syscall"}
TrapFrames == [vec : Nat, if : BOOLEAN, tf : BOOLEAN, at : DeviceAts \cup TrapAts]

FrameOK(f) ==
  /\ f \in TrapFrames /\ f.if
  /\ External(f.vec) => f.at \in DeviceAts
  /\ ~External(f.vec) => f.at \in TrapAts
  /\ f.vec = 1 => f.at \in {"kill", "trap_interrupt", "exit"}

\* The innermost frame of s: it keeps the interrupts off, it is in a handler of a
\* device, it is at the start of page_fault.
Innermost(s) == s[Len(s)]
Mutes(f) == External(f.vec) \/ f.at = "page_fault" \/ (f.vec = 1 /\ f.at # "kill")
Masked(s) == s # <<>> /\ Mutes(Innermost(s))
InHandler(s) == s # <<>> /\ External(Innermost(s).vec) /\ Innermost(s).at \in {"handler", "handled"}
AtFault(s) == s # <<>> /\ Innermost(s).at = "page_fault"

StackOK(s) ==
  /\ s \in Seq(TrapFrames)
  /\ \A i \in 1 .. Len(s) : FrameOK(s[i])
  /\ \A i \in 1 .. Len(s) : i < Len(s) => ~Mutes(s[i])

Running(s, on, in) == StackOK(s) /\ (on <=> ~Masked(s)) /\ (in <=> InHandler(s))
Away(s, lvl) == StackOK(s) /\ (lvl <=> ~Masked(s)) /\ ~InHandler(s) /\ ~AtFault(s)

\* What the controllers hold in service for the handler that runs, if one does.
InService(p, in, v) ==
  /\ ~in => p.master = {} /\ p.slave = {}
  /\ in => /\ p.master = {MasterLevel(v)} \/ p.master = {}
           /\ p.slave = IF v >= 40 THEN {v - 40} ELSE {}

\* The gates after exception_init, syscall_init and perhaps slowdown_init.
HandlerNames == {"NULL", "timer", "kbd", "device", "kill", "page_fault", "syscall_handler",
                 "trap_interrupt", "trap_syscall"}
Gate == [dpl : Nat, off : BOOLEAN, handler : HandlerNames]
Vector(v) == v \in {1, 3, 13, 14, Syscall} \/ (v \in Nat /\ External(v))
GatesOK(t) ==
  /\ \A v : Vector(v) <=> v \in DOMAIN t
  /\ \A v : Vector(v) => t[v] \in Gate
  /\ \A v \in Nat : External(v) => t[v].off
  /\ t[14].off /\ t[14].handler = "page_fault"
  /\ t[1].handler = IF t[1].off THEN "trap_interrupt" ELSE "kill"
  /\ ~t[3].off /\ t[3].handler = "kill"
  /\ ~t[13].off /\ t[13].handler = "kill"
  /\ ~t[Syscall].off /\ t[Syscall].handler \in {"syscall_handler", "trap_syscall"}

KiTypeOK ==
  /\ core \in [on : IThreads, if : BOOLEAN, tf : BOOLEAN, cr2 : IThreads \cup {NoThread}]
  /\ stacks \in [IThreads -> Seq(TrapFrames)]
  /\ level \in [IThreads -> BOOLEAN]
  /\ ext \in [in : BOOLEAN, yield : BOOLEAN]
  /\ pic \in [pending : SUBSET Lines, master : SUBSET Nat, slave : SUBSET Nat]
  /\ fault \in [IThreads -> IThreads]

KiInv ==
  /\ KiTypeOK /\ GatesOK(idt) /\ ~failed
  /\ Running(stacks[core.on], core.if, ext.in)
  /\ AtFault(stacks[core.on]) => core.cr2 = core.on
  /\ \A t \in IThreads : t # core.on => Away(stacks[t], level[t])
  /\ InService(pic, ext.in, Innermost(stacks[core.on]).vec)
  /\ \A t \in IThreads : fault[t] = t

CoreType == [on : IThreads, if : BOOLEAN, tf : BOOLEAN, cr2 : IThreads \cup {NoThread}]
PicType == [pending : SUBSET Lines, master : SUBSET Nat, slave : SUBSET Nat]

LEMMA LineNumbers == ASSUME NEW v \in Lines PROVE v \in Nat /\ External(v)
BY InterruptAssumption DEF External

\* How a stack stays one: a frame on top of a thread with the interrupts on, ...
LEMMA PushFrame ==
  ASSUME NEW s, StackOK(s), ~Masked(s), NEW f, FrameOK(f)
  PROVE  StackOK(Append(s, f)) /\ Append(s, f) # <<>> /\ Innermost(Append(s, f)) = f
<1> DEFINE r == Append(s, f)
<1>1. s \in Seq(TrapFrames) /\ f \in TrapFrames BY DEF StackOK, FrameOK
<1>2. r \in Seq(TrapFrames) /\ Len(r) = Len(s) + 1 /\ r[Len(s) + 1] = f /\ Len(s) \in Nat
      /\ \A i \in 1 .. Len(s) : r[i] = s[i]
  BY <1>1
<1> HIDE DEF r
<1>3. r # <<>> /\ Innermost(r) = f BY <1>2 DEF Innermost
<1>4. ASSUME NEW i \in 1 .. Len(r) PROVE FrameOK(r[i]) /\ (i < Len(r) => ~Mutes(r[i]))
  <2>1. CASE i = Len(s) + 1 BY <2>1, <1>2
  <2>2. CASE i < Len(s)
    <3>1. i \in 1 .. Len(s) BY <2>2, <1>2
    <3> QED BY <3>1, <2>2, <1>2 DEF StackOK
  <2>3. CASE i = Len(s)
    <3>1. i \in 1 .. Len(s) /\ s # <<>> BY <2>3, <1>2
    <3>2. ~Mutes(s[i]) BY <3>1, <2>3 DEF Masked, Innermost
    <3> QED BY <3>1, <3>2, <1>2 DEF StackOK
  <2> QED BY <2>1, <2>2, <2>3, <1>2
<1>5. StackOK(r) BY <1>2, <1>4 DEF StackOK
<1> QED BY <1>3, <1>5 DEF r

\* ... the innermost frame at another place, ...
LEMMA MoveFrame ==
  ASSUME NEW s, StackOK(s), s # <<>>, NEW x, FrameOK([Innermost(s) EXCEPT !.at = x]),
         NEW r, r = [s EXCEPT ![Len(s)].at = x]
  PROVE  StackOK(r) /\ r # <<>> /\ Innermost(r) = [Innermost(s) EXCEPT !.at = x]
<1> DEFINE f == [Innermost(s) EXCEPT !.at = x]
<1>1. s \in Seq(TrapFrames) /\ f \in TrapFrames /\ FrameOK(f) BY DEF StackOK, FrameOK
<1>2. r = [s EXCEPT ![Len(s)] = f] BY <1>1 DEF Innermost
<1> HIDE DEF f
<1>3. Len(s) \in Nat /\ Len(s) \in 1 .. Len(s) BY <1>1
<1>4. r \in Seq(TrapFrames) /\ Len(r) = Len(s) /\ r[Len(s)] = f
      /\ \A i \in 1 .. Len(s) : i # Len(s) => r[i] = s[i]
  BY <1>1, <1>2, <1>3, ExceptSeq
<1>5. r # <<>> /\ Innermost(r) = f BY <1>3, <1>4 DEF Innermost
<1>6. ASSUME NEW i \in 1 .. Len(r) PROVE FrameOK(r[i]) /\ (i < Len(r) => ~Mutes(r[i]))
  BY <1>1, <1>3, <1>4 DEF StackOK
<1>7. StackOK(r) BY <1>4, <1>6 DEF StackOK
<1> QED BY <1>5, <1>7 DEF f

\* ... and without its innermost frame: what it interrupted had them on.
LEMMA PopFrame ==
  ASSUME NEW s, StackOK(s), s # <<>>
  PROVE  /\ StackOK(SubSeq(s, 1, Len(s) - 1)) /\ ~Masked(SubSeq(s, 1, Len(s) - 1))
         /\ ~InHandler(SubSeq(s, 1, Len(s) - 1)) /\ ~AtFault(SubSeq(s, 1, Len(s) - 1))
<1> DEFINE r == SubSeq(s, 1, Len(s) - 1)
<1>1. s \in Seq(TrapFrames) /\ Len(s) \in Nat /\ Len(s) >= 1 BY DEF StackOK
<1>2. r \in Seq(TrapFrames) /\ Len(r) = Len(s) - 1 /\ \A i \in 1 .. Len(s) - 1 : r[i] = s[i]
  <2>2. \A i \in 1 .. Len(s) - 1 : s[i] \in TrapFrames BY <1>1
  <2> DEFINE n == Len(s) - 1
  <2>3. n \in Int /\ 1 \in Int /\ n >= 0 BY <1>1
  <2> HIDE DEF n
  <2>4. /\ SubSeq(s, 1, n) \in Seq(TrapFrames)
        /\ Len(SubSeq(s, 1, n)) = IF 1 <= n THEN n - 1 + 1 ELSE 0
        /\ \A i \in 1 .. n - 1 + 1 : SubSeq(s, 1, n)[i] = s[1 + i - 1]
    BY <2>2, <2>3, SubSeqProperties DEF n
  <2>5. Len(SubSeq(s, 1, n)) = n /\ \A i \in 1 .. n : SubSeq(s, 1, n)[i] = s[i]
    BY <2>3, <2>4
  <2>6. r = SubSeq(s, 1, n) /\ n = Len(s) - 1 BY DEF n
  <2> HIDE DEF r
  <2> QED BY <2>4, <2>5, <2>6
<1> HIDE DEF r
<1>3. ASSUME NEW i \in 1 .. Len(r) PROVE FrameOK(r[i]) /\ ~Mutes(r[i])
  BY <1>1, <1>2 DEF StackOK
<1>4. StackOK(r) BY <1>2, <1>3 DEF StackOK
<1>5. ASSUME r # <<>> PROVE ~Mutes(r[Len(r)])
  <2>1. Len(r) \in 1 .. Len(r) BY <1>2, <1>5
  <2> QED BY <2>1, <1>3
<1>6. ~Masked(r) /\ ~InHandler(r) /\ ~AtFault(r)
  BY <1>5 DEF Masked, InHandler, AtFault, Innermost, Mutes
<1> QED BY <1>4, <1>6 DEF r

\* A thread with the interrupts on, or past its handler, is as if switched away.
LEMMA EmptyStack == StackOK(<<>>) /\ ~Masked(<<>>) /\ ~InHandler(<<>>) /\ ~AtFault(<<>>)
BY DEF StackOK, Masked, InHandler, AtFault

LEMMA UnmaskedRests == ASSUME NEW s, ~Masked(s) PROVE ~InHandler(s) /\ ~AtFault(s)
BY DEF Masked, InHandler, AtFault, Mutes

-----------------------------------------------------------------------------
\* A step of the thread that runs, which stays on the CPU.
LEMMA StepHere ==
  ASSUME KiInv, NEW r, stacks' = [stacks EXCEPT ![core.on] = r],
         core' \in CoreType, core'.on = core.on, ext' \in [in : BOOLEAN, yield : BOOLEAN],
         pic' \in PicType, fault' = fault, level' = level, GatesOK(idt'), ~failed',
         Running(r, core'.if, ext'.in), AtFault(r) => core'.cr2 = core.on,
         InService(pic', ext'.in, Innermost(r).vec)
  PROVE  KiInv'
<1>1. core.on \in IThreads /\ r \in Seq(TrapFrames) BY DEF KiInv, KiTypeOK, Running, StackOK
<1>2. stacks' \in [IThreads -> Seq(TrapFrames)] /\ stacks'[core.on] = r
      /\ \A t \in IThreads : t # core.on => stacks'[t] = stacks[t]
  BY <1>1 DEF KiInv, KiTypeOK
<1>3. KiTypeOK' BY <1>2 DEF KiInv, KiTypeOK, CoreType, PicType
<1> QED BY <1>1, <1>2, <1>3 DEF KiInv

\* A step that switches to t, with no handler of a device left open.
LEMMA StepThere ==
  ASSUME KiInv, NEW r, stacks' = [stacks EXCEPT ![core.on] = r],
         NEW l \in BOOLEAN, level' = [level EXCEPT ![core.on] = l], NEW t \in IThreads,
         core' = [core EXCEPT !.on = t, !.if = level'[t]],
         ext' \in [in : BOOLEAN, yield : BOOLEAN], ~ext'.in,
         pic' \in PicType, pic'.master = {}, pic'.slave = {},
         fault' = [fault EXCEPT ![core.on] = core.on] \/ fault' = fault, idt' = idt, ~failed', Away(r, l)
  PROVE  KiInv'
<1>1. core.on \in IThreads /\ r \in Seq(TrapFrames) /\ core \in CoreType
  BY DEF KiInv, KiTypeOK, Away, StackOK, CoreType
<1>2. stacks' \in [IThreads -> Seq(TrapFrames)] /\ stacks'[core.on] = r
      /\ \A u \in IThreads : u # core.on => stacks'[u] = stacks[u]
  BY <1>1 DEF KiInv, KiTypeOK
<1>3. level' \in [IThreads -> BOOLEAN] /\ level'[core.on] = l
      /\ \A u \in IThreads : u # core.on => level'[u] = level[u]
  BY <1>1 DEF KiInv, KiTypeOK
<1>4. core' \in CoreType /\ core'.on = t /\ core'.if = level'[t] BY <1>1, <1>3 DEF CoreType
<1>5. fault' \in [IThreads -> IThreads] /\ \A u \in IThreads : fault'[u] = u
  BY <1>1 DEF KiInv, KiTypeOK
<1>6. KiTypeOK' BY <1>2, <1>3, <1>4, <1>5 DEF KiTypeOK, CoreType, PicType
<1>7. \A u \in IThreads : Away(stacks'[u], level'[u])
  BY <1>2, <1>3 DEF KiInv
<1>8. Running(stacks'[t], core'.if, ext'.in) /\ ~AtFault(stacks'[t])
  BY <1>4, <1>7 DEF Running, Away
<1>9. InService(pic', ext'.in, Innermost(stacks'[t]).vec) BY DEF InService
<1> QED BY <1>4, <1>5, <1>6, <1>7, <1>8, <1>9 DEF KiInv

-----------------------------------------------------------------------------
(* The steps.                                                               *)

\* A table that takes gate g for vector v.
Tabled(t) == (\A v : Vector(v) <=> v \in DOMAIN t) /\ \A v : Vector(v) => t[v] \in Gate
Takes(r, t, v, g) == Tabled(r) /\ r[v] = g /\ \A u : Vector(u) /\ u # v => r[u] = t[u]

LEMMA Registered ==
  ASSUME NEW t, Tabled(t), NEW v, Vector(v), NEW dpl \in Nat, NEW lvl, NEW h \in HandlerNames
  PROVE  Takes(register_handler(t, v, dpl, lvl, h), t, v, make_gate(dpl, lvl, h))
<1> DEFINE g == make_gate(dpl, lvl, h)
           r == [t EXCEPT ![v] = g]
<1>1. g \in Gate BY DEF make_gate, Gate
<1>2. v \in DOMAIN t BY DEF Tabled
<1> HIDE DEF g
<1>3. DOMAIN r = DOMAIN t /\ r[v] = g /\ \A u \in DOMAIN t : u # v => r[u] = t[u] BY <1>2
<1> HIDE DEF r
<1>4. Takes(r, t, v, g) BY <1>1, <1>3 DEF Tabled, Takes
<1> QED BY <1>4 DEF r, g, register_handler

LEMMA GateKinds ==
  ASSUME NEW dpl, NEW h
  PROVE  /\ make_gate(dpl, "INTR_OFF", h).off /\ ~make_gate(dpl, "INTR_ON", h).off
         /\ make_gate(dpl, "INTR_OFF", h).handler = h /\ make_gate(dpl, "INTR_ON", h).handler = h
<1>1. make_gate(dpl, "INTR_OFF", h).off = ("INTR_OFF" = "INTR_OFF") BY Zenon DEF make_gate
<1>2. make_gate(dpl, "INTR_ON", h).off = ("INTR_ON" = "INTR_OFF") BY Zenon DEF make_gate
<1>3. "INTR_ON" # "INTR_OFF" OBVIOUS
<1>4. make_gate(dpl, "INTR_OFF", h).handler = h /\ make_gate(dpl, "INTR_ON", h).handler = h BY DEF make_gate
<1> QED BY <1>1, <1>2, <1>3, <1>4, Zenon

\* External interrupts keep interrupt gates.
Closed(t) == \A v \in Nat : External(v) => t[v].off
LEMMA StayClosed ==
  ASSUME NEW t, NEW r, NEW v, NEW g, Takes(r, t, v, g), Closed(t), External(v) => g.off
  PROVE  Closed(r)
BY DEF Closed, Takes, Vector

LEMMA BootGates == ASSUME NEW t \in BootTables PROVE GatesOK(t)
<1> DEFINE a == intr_register_ext(intr_init, 32, "timer")
           b == intr_register_ext(a, 33, "kbd")
           c == intr_register_int(b, 3, 3, "INTR_ON", "kill")
           d == intr_register_int(c, 1, 0, "INTR_ON", "kill")
           e == intr_register_int(d, 13, 0, "INTR_ON", "kill")
           f == intr_register_int(e, 14, 0, "INTR_OFF", "page_fault")
           g == intr_register_int(f, Syscall, 3, "INTR_ON", "syscall_handler")
           h == intr_register_int(g, 1, 0, "INTR_OFF", "trap_interrupt")
           k == intr_bypass_int(h, Syscall, "trap_syscall")
<1>1. Vector(1) /\ Vector(3) /\ Vector(13) /\ Vector(14) /\ Vector(Syscall) /\ Vector(32) /\ Vector(33)
  BY DEF Vector, External
<1>2. ~External(1) /\ ~External(3) /\ ~External(13) /\ ~External(14) /\ ~External(Syscall)
  BY DEF External, Syscall
<1>3. /\ "timer" \in HandlerNames /\ "kbd" \in HandlerNames /\ "kill" \in HandlerNames
      /\ "page_fault" \in HandlerNames /\ "syscall_handler" \in HandlerNames
      /\ "trap_interrupt" \in HandlerNames /\ 0 \in Nat /\ 3 \in Nat
  BY DEF HandlerNames
<1>4. Tabled(intr_init) /\ Closed(intr_init)
  <2>1. \A v : Vector(v) <=> v \in {1, 3, 13, 14, Syscall} \/ v \in 32 .. 47 BY DEF Vector, External
  <2> QED BY <2>1 DEF Tabled, Closed, intr_init, make_gate, Gate, HandlerNames, Vector
<1> HIDE DEF a, b, c, d, e, f, g, h, k
<1>5. Takes(a, intr_init, 32, make_gate(0, "INTR_OFF", "timer"))
  BY <1>1, <1>3, <1>4, Registered DEF a, intr_register_ext
<1>6. Takes(b, a, 33, make_gate(0, "INTR_OFF", "kbd"))
  BY <1>1, <1>3, <1>5, Registered DEF b, intr_register_ext, Takes
<1>7. Takes(c, b, 3, make_gate(3, "INTR_ON", "kill"))
  BY <1>1, <1>3, <1>6, Registered DEF c, intr_register_int, Takes
<1>8. Takes(d, c, 1, make_gate(0, "INTR_ON", "kill"))
  BY <1>1, <1>3, <1>7, Registered DEF d, intr_register_int, Takes
<1>9. Takes(e, d, 13, make_gate(0, "INTR_ON", "kill"))
  BY <1>1, <1>3, <1>8, Registered DEF e, intr_register_int, Takes
<1>10. Takes(f, e, 14, make_gate(0, "INTR_OFF", "page_fault"))
  BY <1>1, <1>3, <1>9, Registered DEF f, intr_register_int, Takes
<1>11. Takes(g, f, Syscall, make_gate(3, "INTR_ON", "syscall_handler"))
  BY <1>1, <1>3, <1>10, Registered DEF g, intr_register_int, Takes
<1>12. Takes(h, g, 1, make_gate(0, "INTR_OFF", "trap_interrupt"))
  BY <1>1, <1>3, <1>11, Registered DEF h, intr_register_int, Takes
<1>13. Closed(a) BY <1>4, <1>5, StayClosed, GateKinds
<1>14. Closed(b) BY <1>6, <1>13, StayClosed, GateKinds
<1>15. Closed(c) BY <1>2, <1>7, <1>14, StayClosed
<1>16. Closed(d) BY <1>2, <1>8, <1>15, StayClosed
<1>17. Closed(e) BY <1>2, <1>9, <1>16, StayClosed
<1>18. Closed(f) BY <1>2, <1>10, <1>17, StayClosed
<1>19. Closed(g) BY <1>2, <1>11, <1>18, StayClosed
<1>20. Closed(h) BY <1>2, <1>12, <1>19, StayClosed
<1>21. /\ g[3] = make_gate(3, "INTR_ON", "kill") /\ g[1] = make_gate(0, "INTR_ON", "kill")
       /\ g[13] = make_gate(0, "INTR_ON", "kill") /\ g[14] = make_gate(0, "INTR_OFF", "page_fault")
  BY <1>1, <1>7, <1>8, <1>9, <1>10, <1>11 DEF Takes, Syscall
<1>22. h[3] = g[3] /\ h[13] = g[13] /\ h[14] = g[14] /\ h[Syscall] = g[Syscall]
  BY <1>1, <1>12 DEF Takes, Syscall
<1>23. GatesOK(g)
  <2>1. g[Syscall] = make_gate(3, "INTR_ON", "syscall_handler") /\ Tabled(g) BY <1>11 DEF Takes
  <2> QED BY <2>1, <1>19, <1>21, GateKinds DEF GatesOK, Tabled, Closed
<1>24. GatesOK(k)
  <2>1. Syscall \in DOMAIN h /\ h[Syscall] \in Gate /\ Tabled(h) BY <1>1, <1>12 DEF Tabled, Takes
  <2>2. k[Syscall] = [h[Syscall] EXCEPT !.handler = "trap_syscall"] /\ DOMAIN k = DOMAIN h
        /\ \A v \in DOMAIN h : v # Syscall => k[v] = h[v]
    BY <2>1 DEF k, intr_bypass_int
  <2>3. k[Syscall] \in Gate /\ k[Syscall].off = h[Syscall].off /\ k[Syscall].handler = "trap_syscall"
    BY <2>1, <2>2 DEF Gate, HandlerNames
  <2>4. Takes(k, h, Syscall, k[Syscall]) BY <2>1, <2>2, <2>3 DEF Takes, Tabled
  <2>5. Closed(k) BY <2>4, <1>2, <1>20, StayClosed
  <2>6. k[1] = h[1] /\ k[3] = h[3] /\ k[13] = h[13] /\ k[14] = h[14] BY <1>1, <2>4 DEF Takes, Syscall
  <2>7. h[1] = make_gate(0, "INTR_OFF", "trap_interrupt") BY <1>12 DEF Takes
  <2>8. h[Syscall] = make_gate(3, "INTR_ON", "syscall_handler") BY <1>11, <1>22 DEF Takes
  <2>9. ~k[Syscall].off BY <2>3, <2>8, GateKinds
  <2>10. /\ k[14].off /\ k[14].handler = "page_fault" /\ k[1].off /\ k[1].handler = "trap_interrupt"
         /\ ~k[3].off /\ k[3].handler = "kill" /\ ~k[13].off /\ k[13].handler = "kill"
    BY <2>6, <2>7, <1>21, <1>22, GateKinds
  <2> QED BY <2>3, <2>4, <2>5, <2>9, <2>10 DEF GatesOK, Closed, Takes, Tabled
<1>25. t = g \/ t = k BY DEF BootTables, a, b, c, d, e, f, g, h, k, syscall_init, exception_init, slowdown_init
<1> QED BY <1>23, <1>24, <1>25

LEMMA KiInvInit == KiInit => KiInv
<1> SUFFICES ASSUME KiInit PROVE KiInv OBVIOUS
<1>1. KiTypeOK BY InterruptAssumption DEF KiInit, KiTypeOK
<1>2. GatesOK(idt) BY BootGates DEF KiInit
<1>3. IIdle \in IThreads BY InterruptAssumption
<1> QED BY <1>1, <1>2, <1>3, EmptyStack DEF KiInit, KiInv, Running, Away, InService

LEMMA KiRegisterLate == KiInv /\ RegisterLate => KiInv'
<1> SUFFICES ASSUME KiInv, NEW v \in {36, 46}, idt' = intr_register_ext(idt, v, "device"),
             UNCHANGED <<core, stacks, level, ext, pic, fault, failed>> PROVE KiInv'
  BY DEF RegisterLate
<1>1. GatesOK(idt) BY DEF KiInv
<1>2. v \in Nat /\ External(v) /\ Vector(v) /\ v # 14 /\ v # 1 /\ v # 3 /\ v # 13 /\ v # Syscall
  BY DEF External, Vector, Syscall
<1> DEFINE g == [dpl |-> 0, off |-> TRUE, handler |-> "device"]
<1>3. idt' = [idt EXCEPT ![v] = g]
  BY DEF intr_register_ext, register_handler, make_gate
<1>4. GatesOK(idt')
  <2>8. g \in Gate /\ g.off BY DEF Gate, HandlerNames
  <2>9. v \in DOMAIN idt BY <1>1, <1>2 DEF GatesOK
  <2> HIDE DEF g
  <2>1. /\ \A u : Vector(u) <=> u \in DOMAIN idt
        /\ \A u : Vector(u) => idt[u] \in Gate
        /\ \A u \in Nat : External(u) => idt[u].off
    BY <1>1 DEF GatesOK
  <2>2. DOMAIN idt' = DOMAIN idt /\ idt'[v] = g /\ \A u \in DOMAIN idt : u # v => idt'[u] = idt[u]
    BY <1>3, <2>9
  <2>3. \A u : Vector(u) => idt'[u] \in Gate BY <2>1, <2>2, <2>8
  <2>4. \A u \in Nat : External(u) => idt'[u].off BY <2>1, <2>2, <2>8 DEF Vector
  <2>5. \A u \in {1, 3, 13, 14, Syscall} : idt'[u] = idt[u] BY <1>2, <2>1, <2>2 DEF Vector
  <2>6. \A u : Vector(u) <=> u \in DOMAIN idt' BY <2>1, <2>2
  <2> QED BY <1>1, <2>3, <2>4, <2>5, <2>6 DEF GatesOK
<1> QED BY <1>4 DEF KiInv, KiTypeOK

LEMMA KiRaise == KiInv /\ Raise => KiInv'
<1> SUFFICES ASSUME KiInv, NEW v \in Lines, pic' = [pic EXCEPT !.pending = @ \cup {v}],
             UNCHANGED <<core, stacks, level, idt, ext, fault, failed>> PROVE KiInv'
  BY DEF Raise
<1>1. pic' \in PicType /\ pic'.master = pic.master /\ pic'.slave = pic.slave BY DEF KiInv, KiTypeOK, PicType
<1> QED BY <1>1 DEF KiInv, KiTypeOK, PicType, InService

\* The frame that the CPU pushes, when the interrupts are on.
LEMMA KiEnter ==
  ASSUME KiInv, core.if, NEW v \in Nat, Vector(v), NEW place, Enter(v, place),
         FrameOK([vec |-> v, if |-> TRUE, tf |-> core.tf, at |-> place])
  PROVE  LET r == Append(stacks[core.on], [vec |-> v, if |-> TRUE, tf |-> core.tf, at |-> place])
         IN  /\ stacks' = [stacks EXCEPT ![core.on] = r] /\ StackOK(r) /\ r # <<>>
             /\ Innermost(r) = [vec |-> v, if |-> TRUE, tf |-> core.tf, at |-> place]
             /\ core' \in CoreType /\ core'.on = core.on /\ (core'.if <=> ~idt[v].off)
             /\ v = 14 => core'.cr2 = core.on
<1> DEFINE f == [vec |-> v, if |-> TRUE, tf |-> core.tf, at |-> place]
<1>1. core \in CoreType /\ idt[v].off \in BOOLEAN BY DEF KiInv, KiTypeOK, CoreType, GatesOK, Gate
<1>2. core' = [core EXCEPT !.if = core.if /\ ~idt[v].off, !.tf = FALSE,
                          !.cr2 = IF v = 14 THEN core.on ELSE core.cr2]
  BY DEF Enter, me
<1>3. core' \in CoreType /\ core'.on = core.on /\ (core'.if <=> ~idt[v].off)
      /\ (v = 14 => core'.cr2 = core.on)
  BY <1>1, <1>2 DEF CoreType
<1>4. core.if = TRUE BY <1>1 DEF CoreType
<1>5. stacks' = [stacks EXCEPT ![core.on] = Append(stacks[core.on], f)] BY <1>4 DEF Enter, me
<1>6. StackOK(stacks[core.on]) /\ ~Masked(stacks[core.on]) BY DEF KiInv, Running
<1> QED BY <1>3, <1>5, <1>6, PushFrame

\* With the interrupts on, no handler of a device runs.
LEMMA KiOpen == ASSUME KiInv, core.if PROVE ~ext.in /\ pic.master = {} /\ pic.slave = {}
<1>1. ~Masked(stacks[core.on]) BY DEF KiInv, Running
<1>2. ~ext.in BY <1>1, UnmaskedRests DEF KiInv, Running
<1> QED BY <1>2 DEF KiInv, InService

LEMMA KiEnterExternal ==
  ASSUME KiInv, core.if, NEW v \in Nat, External(v), EnterExternal(v), UNCHANGED <<level, idt, fault>>,
         pic' \in PicType, InService(pic', TRUE, v)
  PROVE  KiInv'
<1> DEFINE f == [vec |-> v, if |-> TRUE, tf |-> core.tf, at |-> "handler"]
           r == Append(stacks[core.on], f)
<1>1. FrameOK(f)
  BY DEF KiInv, KiTypeOK, FrameOK, TrapFrames, DeviceAts, TrapAts, External
<1>2. Vector(v) /\ idt[v].off /\ v # 14 BY DEF KiInv, GatesOK, Vector, External
<1>3. /\ stacks' = [stacks EXCEPT ![core.on] = r] /\ StackOK(r) /\ r # <<>> /\ Innermost(r) = f
      /\ core' \in CoreType /\ core'.on = core.on /\ (core'.if <=> ~idt[v].off)
  BY <1>1, <1>2, KiEnter DEF EnterExternal
<1> HIDE DEF r, f
<1>4. f.vec = v /\ f.at = "handler" BY DEF f
<1>5. ~core'.if BY <1>2, <1>3
<1>6. ~failed' BY <1>5, KiOpen DEF EnterExternal
<1>7. ext' \in [in : BOOLEAN, yield : BOOLEAN] /\ ext'.in BY DEF EnterExternal
<1>8. Running(r, core'.if, ext'.in) BY <1>3, <1>4, <1>5, <1>7 DEF Running, Masked, Mutes, InHandler
<1>9. ~AtFault(r) BY <1>3, <1>4 DEF AtFault
<1>10. InService(pic', ext'.in, Innermost(r).vec) BY <1>3, <1>4, <1>7 DEF InService
<1>11. GatesOK(idt') BY DEF KiInv
<1> QED BY <1>3, <1>6, <1>7, <1>8, <1>9, <1>10, <1>11, StepHere

LEMMA KiDeliver == KiInv /\ Deliver => KiInv'
<1> SUFFICES ASSUME KiInv, NEW v \in pic.pending, core.if, UNCHANGED <<level, idt, fault>>, EnterExternal(v),
             pic' = [pic EXCEPT !.pending = @ \ {v}, !.master = @ \cup {MasterLevel(v)},
                                !.slave = IF v >= 40 THEN @ \cup {v - 40} ELSE @] PROVE KiInv'
  BY DEF Deliver
<1>1. v \in Nat /\ External(v) /\ pic \in PicType BY LineNumbers DEF KiInv, KiTypeOK, PicType
<1>2. MasterLevel(v) \in Nat /\ (v >= 40 => v - 40 \in Nat) BY <1>1 DEF MasterLevel, External
<1>3. pic.master = {} /\ pic.slave = {} BY KiOpen
<1>4. pic' \in PicType /\ pic'.master = {MasterLevel(v)} /\ pic'.slave = IF v >= 40 THEN {v - 40} ELSE {}
  BY <1>1, <1>2, <1>3 DEF PicType
<1>5. InService(pic', TRUE, v) BY <1>4 DEF InService
<1> QED BY <1>1, <1>4, <1>5, KiEnterExternal

LEMMA KiSpurious == KiInv /\ Spurious => KiInv'
<1> SUFFICES ASSUME KiInv, core.if, EnterExternal(39), UNCHANGED <<level, idt, pic, fault>> PROVE KiInv'
  BY DEF Spurious
<1>1. External(39) BY DEF External
<1>2. pic' \in PicType /\ pic'.master = {} /\ pic'.slave = {} BY KiOpen DEF KiInv, KiTypeOK, PicType
<1>3. InService(pic', TRUE, 39) BY <1>2 DEF InService
<1> QED BY <1>1, <1>2, <1>3, KiEnterExternal

\* The body of an external handler: the frame moves from "handler" to "handled".
LEMMA KiExternalBody == KiInv /\ ExternalBody => KiInv'
<1> DEFINE s == stacks[core.on]
           r == [s EXCEPT ![Len(s)].at = "handled"]
<1> SUFFICES ASSUME KiInv, s # <<>>, Innermost(s).at = "handler", External(Innermost(s).vec),
             failed' = (core.if \/ ~ext.in), NEW y \in BOOLEAN, ext' = [ext EXCEPT !.yield = y],
             stacks' = [stacks EXCEPT ![core.on] = r], UNCHANGED <<core, level, idt, pic, fault>> PROVE KiInv'
  BY DEF ExternalBody, Top, me, Innermost
<1>1. StackOK(s) /\ InHandler(s) /\ Masked(s)
  BY DEF KiInv, Running, InHandler, Masked, Mutes
<1>2. ~core.if /\ ext.in BY <1>1 DEF KiInv, Running
<1>3. Innermost(s) \in TrapFrames /\ FrameOK(Innermost(s)) BY <1>1 DEF StackOK, Innermost
<1>4. FrameOK([Innermost(s) EXCEPT !.at = "handled"])
  BY <1>3 DEF FrameOK, TrapFrames, DeviceAts, TrapAts, External
<1> HIDE DEF s
<1>5. StackOK(r) /\ r # <<>> /\ Innermost(r) = [Innermost(s) EXCEPT !.at = "handled"]
  BY <1>1, <1>4, MoveFrame
<1> HIDE DEF r
<1>6. Innermost(r).vec = Innermost(s).vec /\ Innermost(r).at = "handled" BY <1>3, <1>5 DEF TrapFrames
<1>7. ext' \in [in : BOOLEAN, yield : BOOLEAN] /\ ext'.in = ext.in BY DEF KiInv, KiTypeOK
<1>8. Running(r, core'.if, ext'.in) /\ ~AtFault(r)
  BY <1>2, <1>5, <1>6, <1>7 DEF Running, Masked, Mutes, InHandler, AtFault
<1>9. InService(pic', ext'.in, Innermost(r).vec)
  BY <1>6, <1>7 DEF KiInv, InService, s
<1>10. core' \in CoreType /\ pic' \in PicType /\ GatesOK(idt') /\ ~failed'
  BY <1>2 DEF KiInv, KiTypeOK, CoreType, PicType
<1> QED BY <1>7, <1>8, <1>9, <1>10, StepHere

\* The end of interrupt leaves no interrupt in service.
LEMMA EndsAll == ASSUME NEW n \in Nat PROVE EndIf({n}) = {} /\ EndIf({}) = {}
<1>1. (CHOOSE s \in {n} : \A q \in {n} : s <= q) = n OBVIOUS
<1> QED BY <1>1 DEF EndIf, Ended

LEMMA KiExternalEnd == KiInv /\ ExternalEnd => KiInv'
<1> DEFINE s == stacks[core.on]
           r == [s EXCEPT ![Len(s)].at = "exit"]
           f == Innermost(s)
<1> SUFFICES ASSUME KiInv, s # <<>>, f.at = "handled", ext' = [ext EXCEPT !.in = FALSE],
             pic' = pic_end_of_interrupt(f.vec), stacks' = [stacks EXCEPT ![core.on] = r],
             \/ UNCHANGED <<core, level>>
             \/ \E t \in IThreads : Switch(t, [level EXCEPT ![core.on] = core.if]),
             UNCHANGED <<idt, fault, failed>> PROVE KiInv'
  BY DEF ExternalEnd, Top, me, Innermost
<1>1. StackOK(s) BY DEF KiInv, Running
<1>2. f \in TrapFrames /\ FrameOK(f) BY <1>1 DEF StackOK, Innermost
<1>3. External(f.vec) BY <1>2 DEF FrameOK, TrapAts
<1>4. InHandler(s) /\ Masked(s) BY <1>3 DEF InHandler, Masked, Mutes
<1>5. core \in CoreType /\ pic \in PicType /\ ~core.if /\ ext.in
  BY <1>4 DEF KiInv, Running, KiTypeOK, CoreType, PicType
<1>6. pic' \in PicType /\ pic'.master = {} /\ pic'.slave = {}
  <2>1. f.vec \in Nat /\ MasterLevel(f.vec) \in Nat /\ (f.vec >= 40 => f.vec - 40 \in Nat)
    BY <1>2, <1>3 DEF TrapFrames, MasterLevel, External
  <2>2. InService(pic, TRUE, f.vec) BY <1>5 DEF KiInv
  <2>3. EndIf(pic.master) = {} BY <2>1, <2>2, EndsAll DEF InService
  <2>4. (IF f.vec >= 40 THEN EndIf(pic.slave) ELSE pic.slave) = {} BY <2>1, <2>2, EndsAll DEF InService
  <2> QED BY <1>5, <2>3, <2>4 DEF pic_end_of_interrupt, PicType
<1>7. FrameOK([f EXCEPT !.at = "exit"])
  BY <1>2, <1>3 DEF FrameOK, TrapFrames, DeviceAts, TrapAts, External
<1> HIDE DEF s
<1>8. StackOK(r) /\ r # <<>> /\ Innermost(r) = [f EXCEPT !.at = "exit"]
  BY <1>1, <1>7, MoveFrame
<1> HIDE DEF r
<1>9. Innermost(r).vec = f.vec /\ Innermost(r).at = "exit" BY <1>2, <1>8 DEF TrapFrames
<1>10. Masked(r) /\ ~InHandler(r) /\ ~AtFault(r) BY <1>3, <1>8, <1>9 DEF Masked, Mutes, InHandler, AtFault
<1>11. ext' \in [in : BOOLEAN, yield : BOOLEAN] /\ ~ext'.in BY DEF KiInv, KiTypeOK
<1>12. InService(pic', ext'.in, Innermost(r).vec) BY <1>6, <1>11 DEF InService
<1>13. GatesOK(idt) /\ ~failed' BY DEF KiInv
<1>14. CASE UNCHANGED <<core, level>>
  <2>1. Running(r, core'.if, ext'.in) BY <1>5, <1>8, <1>10, <1>11, <1>14 DEF Running
  <2> QED BY <1>5, <1>6, <1>10, <1>11, <1>12, <1>13, <1>14, <2>1, StepHere
<1>15. ASSUME NEW t \in IThreads, Switch(t, [level EXCEPT ![core.on] = core.if]) PROVE KiInv'
  <2>1. level' = [level EXCEPT ![core.on] = core.if] /\ core' = [core EXCEPT !.on = t, !.if = level'[t]]
    BY <1>15 DEF Switch
  <2>2. core.if \in BOOLEAN /\ Away(r, core.if) BY <1>5, <1>8, <1>10 DEF CoreType, Away
  <2> QED BY <1>6, <1>11, <1>13, <2>1, <2>2, StepThere
<1> QED BY <1>14, <1>15

\* iret: what the frame interrupted had the interrupts on.
LEMMA KiIret == KiInv /\ Iret => KiInv'
<1> DEFINE s == stacks[core.on]
           r == SubSeq(s, 1, Len(s) - 1)
           f == Innermost(s)
<1> SUFFICES ASSUME KiInv, s # <<>>, f.at = "exit", stacks' = [stacks EXCEPT ![core.on] = r],
             core' = [core EXCEPT !.if = f.if, !.tf = f.tf],
             UNCHANGED <<level, idt, ext, pic, fault, failed>> PROVE KiInv'
  BY DEF Iret, Leave, Top, me, Innermost
<1>1. StackOK(s) /\ ~InHandler(s) BY DEF KiInv, Running, InHandler
<1>2. f \in TrapFrames /\ f.if BY <1>1 DEF StackOK, FrameOK, Innermost
<1>3. ~ext.in BY <1>1 DEF KiInv, Running
<1> HIDE DEF s
<1>4. StackOK(r) /\ ~Masked(r) /\ ~InHandler(r) /\ ~AtFault(r) BY <1>1, PopFrame
<1> HIDE DEF r
<1>5. core' \in CoreType /\ core'.on = core.on /\ core'.if BY <1>2 DEF KiInv, KiTypeOK, CoreType, TrapFrames
<1>6. Running(r, core'.if, ext'.in) BY <1>3, <1>4, <1>5 DEF Running
<1>7. InService(pic', ext'.in, Innermost(r).vec) BY <1>3 DEF KiInv, InService
<1> QED BY <1>4, <1>5, <1>6, <1>7, StepHere DEF KiInv, KiTypeOK, PicType

\* A trap of user code, through a gate that user code may use or the general
\* protection fault's.
LEMMA KiUserTrap == KiInv /\ UserTrap => KiInv'
<1> SUFFICES ASSUME KiInv, stacks[core.on] = <<>>, NEW w \in {1, 3, 13, 14, Syscall}, Enter(w, idt[w].handler),
             UNCHANGED <<level, idt, ext, pic, fault, failed>> PROVE KiInv'
  <2>1. ASSUME NEW v \in {1, 3, 14, Syscall}, NEW asked \in BOOLEAN
        PROVE  (IF asked /\ idt[v].dpl < 3 THEN 13 ELSE v) \in {1, 3, 13, 14, Syscall}
    OBVIOUS
  <2> QED BY <2>1 DEF UserTrap, me
<1> DEFINE place == idt[w].handler
           f == [vec |-> w, if |-> TRUE, tf |-> core.tf, at |-> place]
           r == Append(stacks[core.on], f)
<1>1. core.if /\ core \in CoreType /\ ~ext.in /\ pic.master = {} /\ pic.slave = {}
  BY EmptyStack, KiOpen DEF KiInv, Running, KiTypeOK, CoreType
<1>2. Vector(w) /\ w \in Nat /\ ~External(w) BY DEF Vector, External, Syscall
<1>3. GatesOK(idt) BY DEF KiInv
<1>4. place \in TrapAts /\ (w = 1 => place \in {"kill", "trap_interrupt"})
  BY <1>3 DEF GatesOK, TrapAts
<1>5. (place = "page_fault" <=> w = 14) /\ (idt[w].off <=> Mutes(f))
  BY <1>2, <1>3 DEF GatesOK, Mutes, Syscall
<1> HIDE DEF place
<1>6. FrameOK(f) BY <1>1, <1>2, <1>4 DEF FrameOK, TrapFrames, CoreType
<1>7. /\ stacks' = [stacks EXCEPT ![core.on] = r] /\ StackOK(r) /\ r # <<>> /\ Innermost(r) = f
      /\ core' \in CoreType /\ core'.on = core.on /\ (core'.if <=> ~idt[w].off)
      /\ w = 14 => core'.cr2 = core.on
  BY <1>1, <1>2, <1>6, KiEnter DEF place
<1> HIDE DEF r
<1>8. ~InHandler(r) /\ (AtFault(r) => w = 14) BY <1>2, <1>5, <1>7 DEF InHandler, AtFault
<1>9. Running(r, core'.if, ext'.in) BY <1>1, <1>5, <1>7, <1>8 DEF Running, Masked
<1>10. InService(pic', ext'.in, Innermost(r).vec) BY <1>1 DEF InService
<1> QED BY <1>1, <1>3, <1>7, <1>8, <1>9, <1>10, StepHere DEF KiInv, KiTypeOK, PicType

\* The end of trap_interrupt and of a system call, and the start of one under
\* trap_syscall: the frame of a trap moves on.
LEMMA KiMoves ==
  ASSUME KiInv, stacks[core.on] # <<>>, NEW x \in {"exit", "in_syscall", "kill"},
         Innermost(stacks[core.on]).at \in TrapAts \ {"exit", "page_fault"},
         Innermost(stacks[core.on]).vec = 1 => x = "exit",
         Innermost(stacks[core.on]).at # "kill",
         stacks' = [stacks EXCEPT ![core.on][Len(stacks[core.on])].at = x],
         NEW b \in BOOLEAN, core' = [core EXCEPT !.tf = b],
         UNCHANGED <<level, idt, ext, pic, fault, failed>>
  PROVE  KiInv'
<1> DEFINE s == stacks[core.on]
           f == Innermost(s)
           g == [f EXCEPT !.at = x]
           r == [s EXCEPT ![Len(s)].at = x]
<1>1. StackOK(s) BY DEF KiInv, Running
<1>2. f \in TrapFrames /\ FrameOK(f) BY <1>1 DEF StackOK, Innermost
<1>3. ~External(f.vec) BY <1>2 DEF FrameOK, DeviceAts, TrapAts
<1>4. g \in TrapFrames /\ g.vec = f.vec /\ g.at = x /\ g.if = f.if BY <1>2 DEF TrapFrames, TrapAts
<1>5. FrameOK(g) /\ (Mutes(g) <=> Mutes(f)) BY <1>2, <1>3, <1>4 DEF FrameOK, TrapAts, Mutes
<1> HIDE DEF f
<1>6. stacks' = [stacks EXCEPT ![core.on] = r] OBVIOUS
<1> HIDE DEF s
<1>7. StackOK(r) /\ r # <<>> /\ Innermost(r) = g BY <1>1, <1>5, MoveFrame DEF f, s
<1> HIDE DEF r, g
<1>8. (Masked(r) <=> Masked(s)) /\ ~InHandler(r) /\ ~InHandler(s) /\ ~AtFault(r)
  BY <1>3, <1>4, <1>5, <1>7 DEF Masked, InHandler, AtFault, f, s
<1>9. core' \in CoreType /\ core'.on = core.on /\ core'.if = core.if BY DEF KiInv, KiTypeOK, CoreType
<1>10. Running(r, core'.if, ext'.in) /\ ~ext.in BY <1>7, <1>8, <1>9 DEF KiInv, Running, s
<1>11. InService(pic', ext'.in, Innermost(r).vec) BY <1>10 DEF KiInv, InService
<1> QED BY <1>6, <1>8, <1>9, <1>10, <1>11, StepHere DEF KiInv, KiTypeOK, PicType

LEMMA KiTrapReturns == KiInv /\ TrapReturns => KiInv'
<1> SUFFICES ASSUME KiInv, TrapReturns PROVE KiInv' OBVIOUS
<1>1. /\ stacks[core.on] # <<>> /\ stacks' = [stacks EXCEPT ![core.on][Len(stacks[core.on])].at = "exit"]
      /\ Innermost(stacks[core.on]).at \in {"trap_interrupt", "syscall_handler", "in_syscall"}
      /\ core' = [core EXCEPT !.tf = FALSE] /\ UNCHANGED <<level, idt, ext, pic, fault, failed>>
  BY DEF TrapReturns, slowdown_disable, Top, me, Innermost
<1> QED BY <1>1, KiMoves DEF TrapAts

LEMMA KiEnable == KiInv /\ slowdown_enable => KiInv'
<1> SUFFICES ASSUME KiInv, slowdown_enable PROVE KiInv' OBVIOUS
<1>1. /\ stacks[core.on] # <<>> /\ stacks' = [stacks EXCEPT ![core.on][Len(stacks[core.on])].at = "in_syscall"]
      /\ Innermost(stacks[core.on]).at = "trap_syscall"
      /\ core' = [core EXCEPT !.tf = TRUE] /\ UNCHANGED <<level, idt, ext, pic, fault, failed>>
  BY DEF slowdown_enable, Top, me, Innermost
<1>2. FrameOK(Innermost(stacks[core.on])) BY <1>1 DEF KiInv, Running, StackOK, Innermost
<1>3. Innermost(stacks[core.on]).vec # 1 BY <1>1, <1>2 DEF FrameOK
<1> QED BY <1>1, <1>3, KiMoves DEF TrapAts

\* A switch away from a thread that is in no handler and at no fault.
LEMMA KiSyscallBlocks == KiInv /\ SyscallBlocks => KiInv'
<1> SUFFICES ASSUME KiInv, stacks[core.on] # <<>>,
             Innermost(stacks[core.on]).at \in {"syscall_handler", "in_syscall"},
             NEW t \in IThreads, Switch(t, [level EXCEPT ![core.on] = core.if]),
             UNCHANGED <<stacks, idt, ext, pic, fault, failed>> PROVE KiInv'
  BY DEF SyscallBlocks, Top, me, Innermost
<1> DEFINE s == stacks[core.on]
<1>1. core \in CoreType /\ Running(s, core.if, ext.in) BY DEF KiInv, KiTypeOK, CoreType
<1>2. ~InHandler(s) /\ ~AtFault(s) BY DEF InHandler, AtFault
<1>3. ~ext.in /\ Away(s, core.if) BY <1>1, <1>2 DEF Running, Away
<1>4. pic' \in PicType /\ pic'.master = {} /\ pic'.slave = {} BY <1>3 DEF KiInv, KiTypeOK, PicType, InService
<1>5. level' = [level EXCEPT ![core.on] = core.if] /\ core' = [core EXCEPT !.on = t, !.if = level'[t]]
  BY DEF Switch
<1>6. stacks' = [stacks EXCEPT ![core.on] = s] BY DEF KiInv, KiTypeOK
<1>7. core.if \in BOOLEAN /\ ext' \in [in : BOOLEAN, yield : BOOLEAN] /\ ~ext'.in /\ ~failed'
  BY <1>1, <1>3 DEF CoreType, KiInv, KiTypeOK
<1> HIDE DEF s
<1> QED BY <1>3, <1>4, <1>5, <1>6, <1>7, StepThere

LEMMA KiPageFault == KiInv /\ page_fault => KiInv'
<1> DEFINE s == stacks[core.on]
           r == [s EXCEPT ![Len(s)].at = "kill"]
           f == Innermost(s)
           g == [f EXCEPT !.at = "kill"]
<1> SUFFICES ASSUME KiInv, s # <<>>, f.at = "page_fault", fault' = [fault EXCEPT ![core.on] = core.cr2],
             core' = [core EXCEPT !.if = TRUE], failed' = ext.in, stacks' = [stacks EXCEPT ![core.on] = r],
             UNCHANGED <<level, idt, ext, pic>> PROVE KiInv'
  BY DEF page_fault, Top, me, Innermost
<1>1. StackOK(s) BY DEF KiInv, Running
<1>2. f \in TrapFrames /\ FrameOK(f) BY <1>1 DEF StackOK, Innermost
<1>3. ~External(f.vec) BY <1>2 DEF FrameOK, DeviceAts
<1>4. AtFault(s) /\ ~InHandler(s) BY <1>3 DEF AtFault, InHandler
<1>5. core.cr2 = core.on /\ ~ext.in BY <1>4 DEF KiInv, Running
<1>6. core.on \in IThreads BY DEF KiInv, KiTypeOK
<1>7. fault' = fault BY <1>5, <1>6 DEF KiInv, KiTypeOK
<1>8. g \in TrapFrames /\ g.vec = f.vec /\ g.at = "kill" /\ g.if = f.if BY <1>2 DEF TrapFrames, TrapAts
<1>9. FrameOK(g) /\ ~Mutes(g) BY <1>2, <1>3, <1>8 DEF FrameOK, TrapAts, Mutes
<1> HIDE DEF s, f
<1>10. StackOK(r) /\ r # <<>> /\ Innermost(r) = g BY <1>1, <1>9, MoveFrame DEF f
<1> HIDE DEF r, g
<1>11. ~Masked(r) /\ ~InHandler(r) /\ ~AtFault(r) BY <1>9, <1>10, UnmaskedRests DEF Masked
<1>12. core' \in CoreType /\ core'.on = core.on /\ core'.if BY DEF KiInv, KiTypeOK, CoreType
<1>13. Running(r, core'.if, ext'.in) BY <1>5, <1>10, <1>11, <1>12 DEF Running
<1>14. InService(pic', ext'.in, Innermost(r).vec) BY <1>5 DEF KiInv, InService
<1> QED BY <1>5, <1>7, <1>11, <1>12, <1>13, <1>14, StepHere DEF KiInv, KiTypeOK, PicType

LEMMA KiKill == KiInv /\ kill => KiInv'
<1> SUFFICES ASSUME KiInv, stacks[core.on] # <<>>, Innermost(stacks[core.on]).at = "kill",
             stacks' = [stacks EXCEPT ![core.on] = <<>>], fault' = [fault EXCEPT ![core.on] = core.on],
             NEW t \in IThreads, Switch(t, [level EXCEPT ![core.on] = TRUE]),
             UNCHANGED <<idt, ext, pic, failed>> PROVE KiInv'
  BY DEF kill, Top, me, Innermost
<1>1. ~InHandler(stacks[core.on]) BY DEF InHandler
<1>2. ~ext.in BY <1>1 DEF KiInv, Running
<1>3. pic' \in PicType /\ pic'.master = {} /\ pic'.slave = {} BY <1>2 DEF KiInv, KiTypeOK, PicType, InService
<1>4. Away(<<>>, TRUE) BY EmptyStack DEF Away
<1>5. level' = [level EXCEPT ![core.on] = TRUE] /\ core' = [core EXCEPT !.on = t, !.if = level'[t]]
  BY DEF Switch
<1> QED BY <1>2, <1>3, <1>4, <1>5, StepThere DEF KiInv, KiTypeOK

LEMMA KiIdle == KiInv /\ idle => KiInv'
<1> SUFFICES ASSUME KiInv, stacks[core.on] = <<>>,
             NEW t \in IThreads, Switch(t, [level EXCEPT ![core.on] = TRUE]),
             UNCHANGED <<stacks, idt, ext, pic, fault, failed>> PROVE KiInv'
  BY DEF idle, me
<1>1. ~ext.in BY EmptyStack DEF KiInv, Running
<1>2. pic' \in PicType /\ pic'.master = {} /\ pic'.slave = {} BY <1>1 DEF KiInv, KiTypeOK, PicType, InService
<1>3. Away(<<>>, TRUE) BY EmptyStack DEF Away
<1>4. level' = [level EXCEPT ![core.on] = TRUE] /\ core' = [core EXCEPT !.on = t, !.if = level'[t]]
  BY DEF Switch
<1>5. stacks' = [stacks EXCEPT ![core.on] = <<>>] BY DEF KiInv, KiTypeOK
<1> QED BY <1>1, <1>2, <1>3, <1>4, <1>5, StepThere DEF KiInv, KiTypeOK

LEMMA KiInvStep == KiInv /\ [KiNext]_kiVars => KiInv'
<1> SUFFICES ASSUME KiInv, [KiNext]_kiVars PROVE KiInv' OBVIOUS
<1>1. CASE UNCHANGED kiVars BY <1>1 DEF kiVars, KiInv, KiTypeOK
<1> QED
  BY <1>1, KiRegisterLate, KiRaise, KiDeliver, KiSpurious, KiExternalBody, KiExternalEnd, KiIret, KiUserTrap,
     KiTrapReturns, KiEnable, KiSyscallBlocks, KiPageFault, KiKill, KiIdle DEF KiNext

LEMMA KiInvImplies == KiInv => HandlersAssert /\ NoLineShutOut /\ FaultAddressOwn /\ LevelsRestored
<1> SUFFICES ASSUME KiInv PROVE HandlersAssert /\ NoLineShutOut /\ FaultAddressOwn /\ LevelsRestored OBVIOUS
<1>1. LevelsRestored
  <2> SUFFICES ASSUME ~core.if PROVE LevelsRestored BY DEF LevelsRestored
  <2>1. Masked(stacks[core.on]) /\ StackOK(stacks[core.on]) BY DEF KiInv, Running
  <2>2. FrameOK(Innermost(stacks[core.on])) BY <2>1 DEF StackOK, Masked, Innermost
  <2>3. Innermost(stacks[core.on]).at \notin {"syscall_handler", "trap_syscall", "in_syscall", "kill"}
    BY <2>1, <2>2 DEF Masked, Mutes, FrameOK, DeviceAts
  <2> QED BY <2>1, <2>3 DEF LevelsRestored, Masked, Top, me, Innermost
<1> QED BY <1>1 DEF KiInv, HandlersAssert, NoLineShutOut, FaultAddressOwn, InService

-----------------------------------------------------------------------------
(* System calls (SystemCalls), for any arguments and stacks.                *)

\* The calls of the library have the number that the handler looks up, and push
\* what it uses.
Named(name) == \E i \in DOMAIN SYS : SYS[i] = name
LEMMA Numbers ==
  ASSUME NEW name, Named(name)
  PROVE  NumberOf(name) \in 0 .. Len(SYS) - 1 /\ SYS[NumberOf(name) + 1] = name
<1> DEFINE i == CHOOSE j \in DOMAIN SYS : SYS[j] = name
<1>1. i \in DOMAIN SYS /\ SYS[i] = name BY DEF Named
<1>2. DOMAIN SYS = 1 .. 21 /\ Len(SYS) = 21 BY DEF SYS
<1>3. NumberOf(name) = i - 1 BY DEF NumberOf
<1> HIDE DEF i
<1> QED BY <1>1, <1>2, <1>3

LEMMA Lookups ==
  /\ \A name \in Handled : name # "sleep" => Used(name) = StubArgs(name) /\ Checked(name) >= Used(name)
  /\ \A name \in Handled : StubArgs(name) \in 0 .. 3 /\ Checked(name) \in 0 .. 3 /\ Used(name) \in 0 .. 3
  /\ "exit" \in Handled /\ Named("exit") /\ "sleep" \in Handled
<1>1. Handled = {"halt", "exit", "exec", "wait", "create", "remove", "open", "filesize", "read", "write",
                 "seek", "tell", "close", "sleep"}
  BY DEF Handled, SYS
<1>2. Named("exit") BY DEF Named, SYS
<1> QED BY <1>1, <1>2 DEF StubArgs, Checked, Used

LEMMA NoneNamed == ~Named("none")
BY DEF Named, SYS

LEMMA ArgCounts ==
  /\ \A name : StubArgs(name) \in Nat
  /\ StubArgs("exit") = 1 /\ StubArgs("sleep") = 1
  /\ "exit" \notin Pointers /\ Checked("exit") = 2
BY DEF StubArgs, Pointers, Checked

\* A call as a stub makes it: it has its arguments, and sleep's is a time to come.
CallOK(c) ==
  /\ Named(c.name) /\ c.args \in Seq(Int) /\ Len(c.args) = StubArgs(c.name)
  /\ c.name = "sleep" => c.args[1] > 0 /\ c.args[1] < WordValues
Pushed(s, c, b) == s = <<NumberOf(c.name)>> \o c.args \o b

SyInv ==
  /\ ustack \in Seq(Int) /\ before \in Frames
  /\ upc \in {"user", "trap", "return", "dead", "off"}
  /\ upc = "user" => ustack = before
  /\ upc # "user" => ucall.name # "none"
  /\ ByLibrary => CallOK(ucall)
  /\ ByLibrary /\ upc # "user" => Pushed(ustack, ucall, before)
  /\ ArgumentsArrive /\ WordsOnStack

\* What is on the stack after a stub has pushed.
LEMMA StackOf ==
  ASSUME NEW c, CallOK(c), NEW b \in Seq(Int), NEW s, Pushed(s, c, b)
  PROVE  /\ s \in Seq(Int) /\ Len(s) = 1 + Len(c.args) + Len(b) /\ s[1] = NumberOf(c.name)
         /\ \A i \in 1 .. Len(c.args) : s[i + 1] = c.args[i]
         /\ SubSeq(s, 2 + Len(c.args), Len(s)) = b
<1> DEFINE n == NumberOf(c.name)
           a == c.args
<1>1. n \in Int /\ a \in Seq(Int)
  <2>1. NumberOf(c.name) \in 0 .. Len(SYS) - 1 BY Numbers DEF CallOK
  <2> QED BY <2>1 DEF CallOK
<1>2. s = <<n>> \o a \o b BY DEF Pushed
<1> HIDE DEF n, a
<1>3. <<n>> \in Seq(Int) BY <1>1
<1> DEFINE h == <<n>> \o a
<1>4. h \in Seq(Int) /\ Len(h) = 1 + Len(a) /\ h[1] = n /\ \A i \in 1 .. Len(a) : h[i + 1] = a[i]
  BY <1>1, <1>3
<1> HIDE DEF h
<1>5. s = h \o b BY <1>2 DEF h
<1>6. /\ s \in Seq(Int) /\ Len(s) = Len(h) + Len(b) /\ (\A i \in 1 .. Len(h) : s[i] = h[i])
      /\ \A i \in 1 .. Len(b) : s[Len(h) + i] = b[i]
  <2>1. h \in Seq(Int) /\ b \in Seq(Int) /\ Len(h) \in Nat /\ Len(b) \in Nat BY <1>4
  <2>2. /\ s \in Seq(Int) /\ Len(s) = Len(h) + Len(b)
        /\ \A i \in 1 .. Len(h) + Len(b) : s[i] = IF i <= Len(h) THEN h[i] ELSE b[i - Len(h)]
    BY <1>5, <2>1, ConcatProperties
  <2>3. \A i \in 1 .. Len(h) : i \in 1 .. Len(h) + Len(b) /\ i <= Len(h) BY <2>1
  <2>4. \A i \in 1 .. Len(b) : Len(h) + i \in 1 .. Len(h) + Len(b) /\ ~(Len(h) + i <= Len(h))
                               /\ (Len(h) + i) - Len(h) = i
    BY <2>1
  <2> QED BY <2>2, <2>3, <2>4
<1>7. s[1] = n /\ \A i \in 1 .. Len(a) : s[i + 1] = a[i]
  <2>1. Len(a) \in Nat /\ 1 \in 1 .. Len(h) /\ \A i \in 1 .. Len(a) : i + 1 \in 1 .. Len(h)
    BY <1>1, <1>4
  <2> QED BY <1>4, <1>6, <2>1
<1>8. SubSeq(s, 2 + Len(a), Len(s)) = b
  <2> DEFINE k == 2 + Len(a)
             r == SubSeq(s, k, Len(s))
  <2>1. k \in Int /\ Len(s) \in Int /\ k >= 1 /\ Len(b) = Len(s) - k + 1 /\ Len(b) \in Nat /\ k = Len(h) + 1
    BY <1>1, <1>4, <1>6
  <2>2. \A i \in k .. Len(s) : s[i] \in Int BY <1>6, <2>1
  <2> HIDE DEF k
  <2>3. /\ r \in Seq(Int) /\ Len(r) = (IF k <= Len(s) THEN Len(s) - k + 1 ELSE 0)
        /\ \A i \in 1 .. Len(s) - k + 1 : r[i] = s[k + i - 1]
    BY <2>1, <2>2, SubSeqProperties
  <2> HIDE DEF r
  <2>4. Len(r) = Len(b) BY <2>1, <2>3
  <2>5. \A i \in 1 .. Len(b) : r[i] = b[i]
    <3> TAKE i \in 1 .. Len(b)
    <3>1. k + i - 1 = Len(h) + i BY <2>1
    <3> QED BY <1>6, <2>1, <2>3, <3>1
  <2>6. r = b BY <2>3, <2>4, <2>5, SeqEqual
  <2> QED BY <2>6 DEF r, k
<1> QED BY <1>4, <1>6, <1>7, <1>8 DEF n, a

LEMMA SyInvInit == SyInit => SyInv
BY SyAssumption DEF SyInit, SyInv, ByLibrary, NoCall, ArgumentsArrive, WordsOnStack

LEMMA StubMakes ==
  ASSUME NEW name, Named(name), NEW args \in [1 .. StubArgs(name) -> ArgWords], Stub(name, args)
  PROVE  \/ UNCHANGED <<ustack, upc, ucall>>
         \/ \E c : CallOK(c) /\ ucall' = c /\ Pushed(ustack', c, ustack) /\ upc' = "trap"
<1>1. CASE StubExits(name, args)
  <2> DEFINE c == [name |-> "exit", args |-> <<-1>>]
  <2>0. name # "sleep" BY <1>1 DEF StubExits
  <2>1. syscall("exit", <<-1>>) BY <1>1, <2>0, Zenon DEF Stub
  <2>2. <<-1>> \in Seq(Int) /\ Len(<<-1>>) = StubArgs("exit") BY ArgCounts
  <2>3. CallOK(c) BY <2>2, Lookups DEF CallOK
  <2> QED BY <2>1, <2>3 DEF syscall, Push, Pushed
<1>2. CASE ~StubExits(name, args) /\ name = "sleep" /\ args[1] <= 0
  BY <1>2, Zenon DEF Stub
<1>3. CASE ~StubExits(name, args) /\ ~(name = "sleep" /\ args[1] <= 0)
  <2> DEFINE c == [name |-> name, args |-> args]
  <2>1. syscall(name, args) BY <1>3, Zenon DEF Stub
  <2>2. StubArgs(name) \in Nat BY ArgCounts
  <2>3. args \in Seq(Int) /\ Len(args) = StubArgs(name)
    <3> DEFINE n == StubArgs(name)
    <3>1. n \in Nat /\ args \in [1 .. n -> Int] BY <2>2, SyAssumption
    <3> HIDE DEF n
    <3>2. args \in Seq(Int) /\ Len(args) = n BY <3>1
    <3> QED BY <3>2 DEF n
  <2>4. name = "sleep" => args[1] > 0 /\ args[1] < WordValues
    <3> HAVE name = "sleep"
    <3>1. 1 \in 1 .. StubArgs(name) BY ArgCounts
    <3>2. args[1] \in ArgWords BY <3>1
    <3>3. args[1] \in Int /\ args[1] < WordValues BY <3>2, SyAssumption
    <3>4. ~(args[1] <= 0) BY <1>3
    <3> QED BY <3>3, <3>4
  <2>5. CallOK(c) BY <2>3, <2>4 DEF CallOK
  <2> QED BY <2>1, <2>5 DEF syscall, Push, Pushed
<1> QED BY <1>1, <1>2, <1>3

LEMMA SyStub ==
  ASSUME SyInv, NEW name, Named(name), NEW args \in [1 .. StubArgs(name) -> ArgWords], Stub(name, args)
  PROVE  SyInv'
<1>1. upc = "user" /\ before' = ustack /\ ustack = before /\ UNCHANGED <<kcall, ustatus>> BY DEF Stub, SyInv
<1>2. CASE UNCHANGED <<ustack, upc, ucall>>
  BY <1>1, <1>2 DEF SyInv, ByLibrary, ArgumentsArrive, WordsOnStack
<1>3. ASSUME NEW c, CallOK(c), ucall' = c, Pushed(ustack', c, ustack), upc' = "trap" PROVE SyInv'
  <2>1. ustack \in Seq(Int) BY DEF SyInv
  <2>2. ustack' \in Seq(Int) BY <1>3, <2>1, StackOf
  <2>3. c.name # "none" BY <1>3, NoneNamed DEF CallOK
  <2> QED BY <1>1, <1>3, <2>2, <2>3 DEF SyInv, ByLibrary, ArgumentsArrive, WordsOnStack
<1> QED BY <1>2, <1>3, StubMakes

LEMMA SyRaw == SyInv /\ Raw => SyInv'
<1> SUFFICES ASSUME SyInv, Raw PROVE SyInv' OBVIOUS
<1>1. upc = "user" /\ before' = ustack /\ ustack = before /\ UNCHANGED <<kcall, ustatus>> /\ upc' = "trap"
      /\ ucall'.name = "raw"
  BY DEF Raw, SyInv, NoCall
<1>2. ustack' \in Seq(Int)
  <2>1. ustack \in Seq(Int) BY DEF SyInv
  <2>2. ASSUME NEW n \in -1 .. Len(SYS), NEW k \in 1 .. Len(ustack) + 1
        PROVE  <<n>> \o SubSeq(ustack, k, Len(ustack)) \in Seq(Int)
    <3>1. k \in Int /\ Len(ustack) \in Int /\ \A i \in k .. Len(ustack) : ustack[i] \in Int BY <2>1
    <3>2. SubSeq(ustack, k, Len(ustack)) \in Seq(Int) BY <3>1, SubSeqProperties
    <3>3. n \in Int BY DEF SYS
    <3> QED BY <3>2, <3>3
  <2>3. <<>> \in Seq(Int) OBVIOUS
  <2> QED BY <2>2, <2>3 DEF Raw
<1> QED BY <1>1, <1>2 DEF SyInv, ByLibrary, ArgumentsArrive, WordsOnStack

LEMMA SyStubReturns == SyInv /\ StubReturns => SyInv'
<1> SUFFICES ASSUME SyInv, StubReturns PROVE SyInv' OBVIOUS
<1>1. upc = "return" /\ upc' = "user" /\ UNCHANGED <<before, ucall, kcall, ustatus>> BY DEF StubReturns
<1>2. before \in Seq(Int) BY SyAssumption DEF SyInv
<1>3. ustack' = before
  <2>1. CASE ucall.name = "raw" BY <2>1 DEF StubReturns
  <2>2. CASE ByLibrary
    <3>1. CallOK(ucall) /\ Pushed(ustack, ucall, before) BY <1>1, <2>2 DEF SyInv
    <3>2. SubSeq(ustack, 2 + Len(ucall.args), Len(ustack)) = before BY <1>2, <3>1, StackOf
    <3> QED BY <2>2, <3>2 DEF StubReturns, ByLibrary
  <2> QED BY <1>1, <2>1, <2>2 DEF ByLibrary, SyInv
<1> QED BY <1>1, <1>2, <1>3 DEF SyInv, ByLibrary, ArgumentsArrive, WordsOnStack

\* What the handler finds on a stack that a stub made.
LEMMA FindsCall ==
  ASSUME SyInv, ByLibrary, upc = "trap"
  PROVE  /\ OnStack(0, 1) /\ ustack[1] \in 0 .. Len(SYS) - 1 /\ SYS[ustack[1] + 1] = ucall.name
         /\ ucall.args \in Seq(Int) /\ Len(ucall.args) = StubArgs(ucall.name) /\ CallOK(ucall)
         /\ \A i \in 1 .. Len(ucall.args) : ustack[i + 1] = ucall.args[i]
         /\ ustack \in Seq(Int) /\ Len(ustack) >= 2 + Len(ucall.args)
<1>1. CallOK(ucall) /\ Pushed(ustack, ucall, before) BY DEF SyInv
<1>2. before \in Seq(Int) /\ before # <<>> BY SyAssumption DEF SyInv
<1>3. Len(before) \in Nat /\ Len(before) >= 1 BY <1>2
<1>4. /\ ustack \in Seq(Int) /\ Len(ustack) = 1 + Len(ucall.args) + Len(before)
      /\ ustack[1] = NumberOf(ucall.name)
      /\ \A i \in 1 .. Len(ucall.args) : ustack[i + 1] = ucall.args[i]
  BY <1>1, <1>2, StackOf
<1>5. ucall.args \in Seq(Int) /\ Len(ucall.args) = StubArgs(ucall.name) /\ Len(ucall.args) \in Nat
  BY <1>1 DEF CallOK
<1>6. OnStack(0, 1) /\ Len(ustack) >= 2 + Len(ucall.args) BY <1>3, <1>4, <1>5 DEF OnStack
<1>7. ustack[1] \in 0 .. Len(SYS) - 1 /\ SYS[ustack[1] + 1] = ucall.name
  BY <1>1, <1>4, Numbers DEF CallOK
<1> QED BY <1>1, <1>4, <1>5, <1>6, <1>7

\* The handler refuses, ...
LEMMA SyRefused ==
  ASSUME SyInv, upc = "trap", Refused, UNCHANGED <<ustack, before, ucall>>,
         ~(ByLibrary /\ ucall.name = "exit")
  PROVE  SyInv'
<1>1. upc' = "dead" /\ ustatus' = -1 /\ kcall' = NoCall BY DEF Refused
<1> QED BY <1>1 DEF SyInv, ByLibrary, ArgumentsArrive, WordsOnStack

\* ... which it never does with the library's exit, ...
LEMMA ExitHandled ==
  ASSUME SyInv, ByLibrary, upc = "trap", ucall.name = "exit"
  PROVE  OnStack(1, 2) /\ ustack[2] = ucall.args[1]
<1>1. /\ Len(ucall.args) = StubArgs("exit") /\ ucall.args \in Seq(Int)
      /\ \A i \in 1 .. Len(ucall.args) : ustack[i + 1] = ucall.args[i]
      /\ ustack \in Seq(Int) /\ Len(ustack) >= 2 + Len(ucall.args)
  BY FindsCall
<1>2. StubArgs("exit") = 1 BY ArgCounts
<1>3. 1 \in 1 .. Len(ucall.args) BY <1>1, <1>2
<1>4. ustack[1 + 1] = ucall.args[1] BY <1>1, <1>3
<1>5. Len(ustack) \in Nat /\ Len(ustack) >= 3 BY <1>1, <1>2
<1> QED BY <1>4, <1>5 DEF OnStack

\* ... or calls the function with what is on the stack.
LEMMA SyCalls ==
  ASSUME SyInv, upc = "trap", NEW name \in Handled, ustack[1] \in 0 .. Len(SYS) - 1,
         name = SYS[ustack[1] + 1], OnStack(0, 1),
         Checked(name) > 0 => OnStack(1, Checked(name)),
         kcall' = [name |-> name, args |-> ArgsOf(name), words |-> 1 + Used(name)],
         upc' = CASE name = "halt" -> "off" [] name = "exit" -> "dead" [] OTHER -> "return",
         ustatus' = IF name = "exit" THEN ustack[2] ELSE ustatus,
         UNCHANGED <<ustack, before, ucall>>
  PROVE  SyInv'
<1>1. Len(ustack) \in Nat BY DEF SyInv
<1>2. Checked(name) \in 0 .. 3 /\ Used(name) \in 0 .. 3
      /\ (name # "sleep" => Used(name) = StubArgs(name) /\ Checked(name) >= Used(name))
  BY Lookups
<1>3. name # "sleep" => 1 + Used(name) <= Len(ustack)
  BY <1>1, <1>2 DEF OnStack
<1>4. WordsOnStack' BY <1>3 DEF WordsOnStack
<1>5. upc' \in {"return", "dead", "off"} /\ (upc' = "dead" <=> name = "exit")
  <2>1. CASE name = "halt" BY <2>1, Zenon
  <2>2. CASE name = "exit" BY <2>2, Zenon
  <2>3. CASE name # "halt" /\ name # "exit" BY <2>3, Zenon
  <2> QED BY <2>1, <2>2, <2>3
<1>6. ArgumentsArrive'
  <2> SUFFICES ASSUME ByLibrary PROVE ArgumentsArrive'
    BY DEF ArgumentsArrive, ByLibrary
  <2>1. name = ucall.name BY FindsCall
  <2>2. /\ ucall.args \in Seq(Int) /\ Len(ucall.args) = StubArgs(name) /\ CallOK(ucall)
        /\ \A i \in 1 .. Len(ucall.args) : ustack[i + 1] = ucall.args[i]
    BY <2>1, FindsCall
  <2>3. name # "sleep" => ArgsOf(name) = ucall.args
    <3> HAVE name # "sleep"
    <3>1. Used(name) = Len(ucall.args) BY <1>2, <2>2
    <3>2. ArgsOf(name) = [i \in 1 .. Len(ucall.args) |-> ustack[i + 1]] BY <3>1 DEF ArgsOf
    <3> DEFINE a == ucall.args
               n == Len(a)
               r == [i \in 1 .. n |-> ustack[i + 1]]
    <3>3. a \in Seq(Int) /\ n \in Nat /\ \A i \in 1 .. n : ustack[i + 1] = a[i] BY <2>2
    <3> HIDE DEF a
    <3>4. \A i \in 1 .. n : a[i] \in Int BY <3>3
    <3>5. n = Len(a) OBVIOUS
    <3> HIDE DEF n
    <3>6. r \in [1 .. n -> Int] /\ \A i \in 1 .. n : r[i] = a[i] BY <3>3, <3>4
    <3> HIDE DEF r
    <3>7. n \in Nat /\ r \in [1 .. n -> Int] BY <3>3, <3>6
    <3>9. r \in Seq(Int) /\ Len(r) = n BY ONLY <3>7
    <3>8. r = a BY <3>3, <3>5, <3>6, <3>9, SeqEqual
    <3> QED BY <3>2, <3>8 DEF a, n, r
  <2>4. name = "sleep" => ArgsOf(name)[1] % WordValues = ucall.args[1]
    <3> HAVE name = "sleep"
    <3> DEFINE a == ucall.args[1]
               h == StackWord(3)
    <3>1. 1 \in 1 .. Len(ucall.args) BY <2>2, ArgCounts
    <3>2. a \in Int /\ a > 0 /\ a < WordValues BY <2>1, <2>2, <3>1 DEF CallOK
    <3>3. ustack[1 + 1] = a BY <2>2, <3>1
    <3>4. Len(ustack) >= 2 BY <1>1, <2>1, <2>2, <3>1, FindsCall
    <3>5. StackWord(2) = a BY <1>1, <3>3, <3>4 DEF StackWord
    <3>6. h \in Int BY <1>1 DEF StackWord, SyInv
    <3>7. ArgsOf(name) = <<(a % WordValues) + WordValues * h>> BY <3>5 DEF ArgsOf
    <3> HIDE DEF a, h
    <3>8. WordValues \in Nat \ {0} BY SyAssumption
    <3>9. a % WordValues = a BY <3>2, <3>8
    <3> DEFINE y == a + WordValues * h
    <3>10. y \in Int /\ y = a + h * WordValues /\ WordValues > 0 BY <3>2, <3>6, <3>8
    <3>11. ArgsOf(name)[1] = y BY <3>7, <3>9
    <3> HIDE DEF y
    <3>12. y % WordValues = a BY <3>2, <3>6, <3>8, <3>9, <3>10, ModShift
    <3> QED BY <3>11, <3>12 DEF a
  <2>5. name = "exit" => ustatus' = ucall.args[1] BY <2>1, ExitHandled
  <2> QED BY <1>5, <2>1, <2>3, <2>4, <2>5 DEF ArgumentsArrive, ByLibrary
<1>7. ByLibrary' <=> ByLibrary BY DEF ByLibrary
<1> QED BY <1>4, <1>5, <1>6, <1>7 DEF SyInv

LEMMA SyHandler == SyInv /\ syscall_handler => SyInv'
<1> SUFFICES ASSUME SyInv, syscall_handler PROVE SyInv' OBVIOUS
<1> DEFINE name == SYS[ustack[1] + 1]
           found == OnStack(0, 1) /\ ustack[1] \in 0 .. Len(SYS) - 1
<1>1. upc = "trap" /\ UNCHANGED <<ustack, before, ucall>> BY DEF syscall_handler
<1>2. \/ ~found /\ Refused
      \/ /\ found /\ (name \notin Handled \/ (Checked(name) > 0 /\ ~OnStack(1, Checked(name))) \/ name \in Pointers)
         /\ Refused
      \/ /\ found /\ name \in Handled /\ (Checked(name) > 0 => OnStack(1, Checked(name)))
         /\ kcall' = [name |-> name, args |-> ArgsOf(name), words |-> 1 + Used(name)]
         /\ upc' = (CASE name = "halt" -> "off" [] name = "exit" -> "dead" [] OTHER -> "return")
         /\ ustatus' = IF name = "exit" THEN ustack[2] ELSE ustatus
  BY Zenon DEF syscall_handler
<1>3. ByLibrary => found /\ name = ucall.name BY <1>1, FindsCall
<1>4. ByLibrary /\ ucall.name = "exit"
        => name \in Handled /\ Checked(name) = 2 /\ OnStack(1, 2) /\ name \notin Pointers
  BY <1>1, <1>3, ExitHandled, Lookups, ArgCounts
<1> HIDE DEF name
<1>5. CASE Refused /\ ~(ByLibrary /\ ucall.name = "exit") BY <1>1, <1>5, SyRefused
<1>6. CASE /\ found /\ name \in Handled /\ (Checked(name) > 0 => OnStack(1, Checked(name)))
           /\ kcall' = [name |-> name, args |-> ArgsOf(name), words |-> 1 + Used(name)]
           /\ upc' = (CASE name = "halt" -> "off" [] name = "exit" -> "dead" [] OTHER -> "return")
           /\ ustatus' = IF name = "exit" THEN ustack[2] ELSE ustatus
  BY <1>1, <1>6, SyCalls DEF name
<1> QED BY <1>2, <1>3, <1>4, <1>5, <1>6, Zenon

LEMMA SyInvStep == SyInv /\ [SyNext]_SyVars => SyInv'
<1> SUFFICES ASSUME SyInv, [SyNext]_SyVars PROVE SyInv' OBVIOUS
<1>1. CASE UNCHANGED SyVars BY <1>1 DEF SyVars, SyInv, ByLibrary, ArgumentsArrive, WordsOnStack
<1>2. ASSUME NEW name \in {SYS[i] : i \in DOMAIN SYS}, NEW args \in [1 .. StubArgs(name) -> ArgWords],
             Stub(name, args) PROVE SyInv'
  <2>1. Named(name) BY DEF Named
  <2> QED BY <1>2, <2>1, SyStub
<1> QED BY <1>1, <1>2, SyRaw, SyHandler, SyStubReturns DEF SyNext

LEMMA SyInvImplies == SyInv => ArgumentsArrive /\ WordsOnStack /\ StackRestored
BY DEF SyInv, StackRestored

\* KernelEntered: whatever devices raise and wherever traps, faults and thread
\* switches fall, the handlers' assertions hold, no line is shut out, a process
\* is told its own fault address and comes back at the level it left; and a
\* system call's arguments, status and stack are what the stub gave and left.
THEOREM EntryCorrect == KiSpec /\ SySpec => []KernelEntered
<1>1. KiSpec => []KiInv BY KiInvInit, KiInvStep, PTL DEF KiSpec
<1>2. SySpec => []SyInv BY SyInvInit, SyInvStep, PTL DEF SySpec
<1>3. KiInv /\ SyInv => KernelEntered BY KiInvImplies, SyInvImplies DEF KernelEntered
<1> QED BY <1>1, <1>2, <1>3, PTL

=============================================================================
