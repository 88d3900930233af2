----------------------------- MODULE UserMemory -----------------------------
(***************************************************************************)
(* The address space of a Pintos process: load (userprog/process.c) builds *)
(* it from an executable, pagedir.c keeps it, process_exit takes it down,  *)
(* the processor walks it through its TLB, and the system calls check      *)
(* pointers against it (userprog/syscall.c).  A step of a process runs     *)
(* while it is the running thread; a context switch may come between any   *)
(* two.  Frames of the kernel pool hold directories and page tables,       *)
(* frames of the user pool hold pages; a page's contents are               *)
(* [ofs, n]: n bytes of the file from ofs, then zeros.                     *)
(***************************************************************************)
EXTENDS Integers, Sequences, FiniteSets

CONSTANTS Procs,          \* user processes
          KFrames, UFrames, \* frames of the two pools, numbers
          PageBytes,      \* PGSIZE
          UserPageCount,  \* pages below PHYS_BASE
          TablePages,     \* pages one page table maps
          AddressMod,     \* a pointer counts modulo this
          Images,         \* executables and command lines: [ok, length, phdrs, args];
                          \* args are the lengths of the tokens
          MaxArgs,        \* 32: room in argv
          TouchPages      \* bound: the pages that programs and pagedir.c's callers use

NoProc == "idle"

\* A program header as it is read from the file: any words.
Phdrs == [type : {"ignored", "dynamic", "load"}, w : BOOLEAN,
          offset : 0 .. AddressMod - 1, vaddr : 0 .. AddressMod - 1,
          filesz : 0 .. AddressMod - 1, memsz : 0 .. AddressMod - 1]

ASSUME UmAssumption ==
  /\ KFrames \subseteq Nat /\ UFrames \subseteq Nat /\ KFrames \cap UFrames = {}
  /\ PageBytes \in Nat \ {0, 1} /\ TablePages \in Nat \ {0} /\ MaxArgs \in Nat \ {0} /\ AddressMod \in Nat
  /\ UserPageCount \in Nat \ {0, 1} /\ UserPageCount % TablePages = 0
  /\ UserPageCount * PageBytes + 2 * PageBytes < AddressMod
  /\ NoProc \notin Procs /\ TouchPages \subseteq 0 .. UserPageCount - 1
  /\ Images \subseteq [ok : BOOLEAN, length : Nat, phdrs : Seq(Phdrs), args : Seq(Nat)]

VARIABLES frames,    \* frames in use
          pagedir,   \* thread->pagedir, by process
          pde,       \* page directories: a page table for each index
          pte,       \* page tables: an entry for each index
          contents,  \* what a user frame holds
          cr3, tlb,  \* the processor: active directory, cached entries by page
          running,   \* the thread that runs: a process, or NoProc
          at,        \* per process: where it is in start_process or exit
          ld,        \* per process: load's locals
          cleared    \* frames that pagedir_clear_page left to its caller

UmVars == <<frames, pagedir, pde, pte, contents, cr3, tlb, running, at, ld, cleared>>

NULLF == -1
InitDir == -2   \* init_page_dir: kernel mappings only
PHYS_BASE == UserPageCount * PageBytes
Pages == 0 .. UserPageCount - 1
pd_no(page) == page \div TablePages
pt_no(page) == page % TablePages
NoEntry == [present |-> FALSE, frame |-> NULLF, writable |-> FALSE, dirty |-> FALSE, accessed |-> FALSE]
NoTables == [i \in 0 .. UserPageCount \div TablePages - 1 |-> NULLF]
NoPages == [i \in 0 .. TablePages - 1 |-> NoEntry]
NoSegment == [read |-> 0, zero |-> 0, upage |-> 0, ofs |-> 0, w |-> FALSE]
NoLoad == [image |-> [ok |-> FALSE, length |-> 0, phdrs |-> <<>>, args |-> <<>>], i |-> 1, seg |-> NoSegment,
           pd |-> NULLF]

UmInit ==
  /\ frames = {} /\ pagedir = [p \in Procs |-> NULLF]
  /\ pde = [f \in KFrames |-> NoTables] /\ pte = [f \in KFrames |-> NoPages]
  /\ contents = [f \in UFrames |-> [ofs |-> 0, n |-> 0]]
  /\ cr3 = InitDir /\ tlb = [page \in Pages |-> NoEntry] /\ running = NoProc
  /\ at = [p \in Procs |-> "new"] /\ ld = [p \in Procs |-> NoLoad]
  /\ cleared = {}

-----------------------------------------------------------------------------
\* vaddr.h
pg_no(a) == a \div PageBytes
pg_ofs(a) == a % PageBytes
pg_round_down(a) == a - pg_ofs(a)
pg_round_up(a) == pg_round_down((a + PageBytes - 1) % AddressMod)
is_user_vaddr(a) == a < PHYS_BASE

\* The lowest free frame of a pool, as palloc's bitmap scan finds it.
FreeFrames(pool) == pool \ frames
First(fs) == CHOOSE f \in fs : \A g \in fs : f <= g

\* pagedir_activate: loading CR3 empties the TLB.
pagedir_activate(pd) ==
  /\ cr3' = IF pd = NULLF THEN InitDir ELSE pd
  /\ tlb' = [page \in Pages |-> NoEntry]

\* lookup_page without create, and pagedir_get_page on it.
lookup_page(pd, page) ==
  LET pt == pde[pd][pd_no(page)]
  IN IF pt = NULLF THEN NoEntry ELSE pte[pt][pt_no(page)]
Mapped(pd, page) == lookup_page(pd, page).present

pte_create_user(f, w) == [present |-> TRUE, frame |-> f, writable |-> w, dirty |-> FALSE, accessed |-> FALSE]

UmGo(p, step) == at' = [at EXCEPT ![p] = step]

\* A context switch: thread_schedule_tail calls process_activate.
process_activate(t) ==
  /\ t # running /\ running' = t
  /\ pagedir_activate(IF t = NoProc THEN NULLF ELSE pagedir[t])
  /\ UNCHANGED <<frames, pagedir, pde, pte, contents, at, ld, cleared>>

-----------------------------------------------------------------------------
\* load: a page directory, then the file and its header.
\* (LoadFails is "goto done" with success false; start_process then calls
\* thread_exit.)
LoadFails(p) == UmGo(p, "exit")

pagedir_create(p) ==
  /\ at[p] = "new"
  /\ \E img \in Images : ld' = [ld EXCEPT ![p].image = img]
  /\ IF FreeFrames(KFrames) = {}
     THEN LoadFails(p) /\ UNCHANGED <<frames, pagedir, pde, cr3, tlb>>
     ELSE LET f == First(FreeFrames(KFrames))
          IN /\ frames' = frames \cup {f} /\ pde' = [pde EXCEPT ![f] = NoTables]
             /\ pagedir' = [pagedir EXCEPT ![p] = f] /\ pagedir_activate(f)
             /\ UmGo(p, "header")
  /\ UNCHANGED <<pte, contents>>

\* The header read from the file is that of an executable, or not.
load_header(p) ==
  /\ at[p] = "header"
  /\ IF ld[p].image.ok THEN UmGo(p, "phdr") ELSE LoadFails(p)
  /\ UNCHANGED <<frames, pagedir, pde, pte, contents, cr3, tlb, ld>>

validate_segment(ph, length) ==
  LET end == (ph.vaddr + ph.memsz) % AddressMod
  IN /\ pg_ofs(ph.offset) = pg_ofs(ph.vaddr) /\ ph.offset <= length
     /\ ph.memsz >= ph.filesz /\ ph.memsz # 0
     /\ is_user_vaddr(ph.vaddr) /\ is_user_vaddr(end)
     /\ end >= ph.vaddr /\ ph.vaddr >= PageBytes

\* What load asks load_segment for.
Segment(ph) ==
  LET read == IF ph.filesz > 0 THEN pg_ofs(ph.vaddr) + ph.filesz ELSE 0
  IN [read |-> read, zero |-> pg_round_up(pg_ofs(ph.vaddr) + ph.memsz) - read,
      upage |-> pg_no(ph.vaddr), ofs |-> pg_round_down(ph.offset), w |-> ph.w]

\* One program header; after the last, the stack.
load_phdr(p) ==
  /\ at[p] = "phdr"
  /\ LET img == ld[p].image
         ph == img.phdrs[ld[p].i]
     IN IF ld[p].i > Len(img.phdrs) THEN UmGo(p, "stack") /\ UNCHANGED ld
        ELSE CASE ph.type = "ignored" -> UmGo(p, "phdr") /\ ld' = [ld EXCEPT ![p].i = @ + 1]
               [] ph.type = "dynamic" -> LoadFails(p) /\ UNCHANGED ld
               [] ph.type = "load" /\ ~validate_segment(ph, img.length) -> LoadFails(p) /\ UNCHANGED ld
               [] OTHER -> UmGo(p, "segment") /\ ld' = [ld EXCEPT ![p].i = @ + 1, ![p].seg = Segment(ph)]
  /\ UNCHANGED <<frames, pagedir, pde, pte, contents, cr3, tlb>>

\* pagedir_set_page for the frame f: lookup_page makes a page table where there
\* is none.
pagedir_set_page(pd, page, f, w) ==
  LET pt == pde[pd][pd_no(page)]
      new == First(FreeFrames(KFrames))
      entry == pte_create_user(f, w)
  IN \/ /\ pt # NULLF /\ frames' = frames \cup {f}
        /\ pte' = [pte EXCEPT ![pt][pt_no(page)] = entry] /\ UNCHANGED pde
     \/ /\ pt = NULLF /\ FreeFrames(KFrames) # {} /\ frames' = frames \cup {f, new}
        /\ pde' = [pde EXCEPT ![pd][pd_no(page)] = new]
        /\ pte' = [pte EXCEPT ![new] = [NoPages EXCEPT ![pt_no(page)] = entry]]

\* A frame from the user pool, filled and mapped at page by install_page.  What
\* fails gives the frame back.
Install(p, page, w, c, next) ==
  LET pd == pagedir[p]
      f == First(FreeFrames(UFrames))
      noTable == pde[pd][pd_no(page)] = NULLF /\ FreeFrames(KFrames) = {}
  IN \/ /\ FreeFrames(UFrames) = {} \/ Mapped(pd, page) \/ noTable
        /\ LoadFails(p) /\ UNCHANGED <<frames, pde, pte, contents>>
     \/ /\ FreeFrames(UFrames) # {} /\ ~Mapped(pd, page)
        /\ pagedir_set_page(pd, page, f, w)
        /\ contents' = [contents EXCEPT ![f] = c] /\ UmGo(p, next)

\* One page of a segment.  A page past PHYS_BASE fails pagedir_get_page's
\* ASSERT, a file that ends early fails the load.
load_segment(p) ==
  LET s == ld[p].seg
      n == IF s.read < PageBytes THEN s.read ELSE PageBytes
      more == s.read > n \/ s.zero > PageBytes - n
  IN /\ at[p] = "segment"
     /\ \/ /\ s.upage \notin Pages /\ UmGo(p, "panic") /\ UNCHANGED <<frames, pde, pte, contents, ld>>
        \/ /\ s.upage \in Pages /\ s.ofs + n > ld[p].image.length
           /\ LoadFails(p) /\ UNCHANGED <<frames, pde, pte, contents, ld>>
        \/ /\ s.upage \in Pages /\ s.ofs + n <= ld[p].image.length
           /\ Install(p, s.upage, s.w, [ofs |-> s.ofs, n |-> n], IF more THEN "segment" ELSE "phdr")
           /\ ld' = [ld EXCEPT ![p].seg = [s EXCEPT !.read = @ - n, !.zero = @ - (PageBytes - n),
                                                    !.upage = @ + 1, !.ofs = @ + n]]
     /\ UNCHANGED <<pagedir, cr3, tlb>>

setup_stack(p) ==
  /\ at[p] = "stack" /\ Install(p, UserPageCount - 1, TRUE, [ofs |-> 0, n |-> 0], "args")
  /\ UNCHANGED <<pagedir, cr3, tlb, ld>>

\* start_process: the strings from the last to the first below PHYS_BASE ...
Below(lengths, n) ==
  LET below[i \in 1 .. n + 1] == IF i = n + 1 THEN PHYS_BASE ELSE below[i + 1] - (lengths[i] + 1) IN below

\* ... down to a word boundary, a null word, argv's words, argv, argc and a
\* return address.  str[i] is where string i begins.
ArgStack(lengths) ==
  LET n == IF Len(lengths) < MaxArgs THEN Len(lengths) ELSE MaxArgs
      below == Below(lengths, n)
      words == below[1] - (below[1] % 4)
  IN [argc |-> n, str |-> [i \in 1 .. n |-> below[i]], argv |-> words - 4 - 4 * n, esp |-> words - 16 - 4 * n]

\* The kernel writes them itself: below the stack's page it faults, unless a
\* segment is mapped there.
push_arguments(p) ==
  /\ at[p] = "args"
  /\ LET page == pg_no(ArgStack(ld[p].image.args).esp)
     IN IF page \in Pages /\ \A g \in page .. UserPageCount - 1 : Mapped(pagedir[p], g) THEN UmGo(p, "user") ELSE UmGo(p, "overrun")
  /\ UNCHANGED <<frames, pagedir, pde, pte, contents, cr3, tlb, ld>>

-----------------------------------------------------------------------------
\* The process touches a page.  The processor uses the TLB's entry, or walks
\* the tables and sets the accessed bit; the first write also sets the dirty
\* bit.  What is not allowed is a page fault, and that is the process's end.
Touch(p, page, write) ==
  LET pt == pde[pagedir[p]][pd_no(page)]
      cached == tlb[page]
      hit == cached.present /\ (write => cached.dirty)
      e == IF hit THEN cached ELSE lookup_page(pagedir[p], page)
      new == [e EXCEPT !.accessed = TRUE, !.dirty = @ \/ write]
  IN /\ at[p] = "user"
     /\ \/ /\ e.present /\ (write => e.writable)
           /\ pte' = IF hit THEN pte ELSE [pte EXCEPT ![pt][pt_no(page)] = new]
           /\ tlb' = [tlb EXCEPT ![page] = new] /\ UNCHANGED at
        \/ /\ ~(e.present /\ (write => e.writable)) /\ UmGo(p, "exit") /\ UNCHANGED <<pte, tlb>>
     /\ UNCHANGED <<frames, pagedir, pde, contents, cr3, ld>>

Alive(p) == pagedir[p] # NULLF

active_pd == cr3
invalidate_pagedir(pd) == IF active_pd = pd THEN pagedir_activate(pd) ELSE UNCHANGED <<cr3, tlb>>

\* pagedir_set_dirty and pagedir_set_accessed to false, pagedir_clear_page: by
\* the kernel, for the process q and on behalf of any thread.
ChangeEntry(q, page, e) ==
  /\ at[q] = "user"
  /\ LET pt == pde[pagedir[q]][pd_no(page)]
     IN pt # NULLF /\ pte' = [pte EXCEPT ![pt][pt_no(page)] = e]
  /\ invalidate_pagedir(pagedir[q])
  /\ UNCHANGED <<frames, pagedir, pde, contents, at, ld>>
pagedir_set_dirty(q, page) ==
  ChangeEntry(q, page, [lookup_page(pagedir[q], page) EXCEPT !.dirty = FALSE]) /\ UNCHANGED cleared
pagedir_set_accessed(q, page) ==
  ChangeEntry(q, page, [lookup_page(pagedir[q], page) EXCEPT !.accessed = FALSE]) /\ UNCHANGED cleared
pagedir_clear_page(q, page) ==
  /\ Alive(q) /\ lookup_page(pagedir[q], page).present
  /\ ChangeEntry(q, page, [lookup_page(pagedir[q], page) EXCEPT !.present = FALSE])
  /\ cleared' = cleared \cup {lookup_page(pagedir[q], page).frame}

\* The process ends of its own accord.
Exit(p) == at[p] = "user" /\ UmGo(p, "exit") /\ UNCHANGED <<frames, pagedir, pde, pte, contents, cr3, tlb, ld>>

\* process_exit: pagedir becomes NULL, the base directory is activated, the
\* old one is destroyed with all it refers to.
exit_forget(p) ==
  /\ at[p] = "exit" /\ ld' = [ld EXCEPT ![p].pd = pagedir[p]]
  /\ pagedir' = [pagedir EXCEPT ![p] = NULLF]
  /\ UmGo(p, IF pagedir[p] = NULLF THEN "dead" ELSE "activate")
  /\ UNCHANGED <<frames, pde, pte, contents, cr3, tlb>>

\* mistake: the directory is destroyed while it is active
exit_activateNot(p) ==
  /\ at[p] = "activate" /\ UmGo(p, "destroy")
  /\ UNCHANGED <<frames, pagedir, pde, pte, contents, cr3, tlb, ld>>

exit_activate(p) ==
  /\ at[p] = "activate" /\ pagedir_activate(NULLF) /\ UmGo(p, "destroy")
  /\ UNCHANGED <<frames, pagedir, pde, pte, contents, ld>>

TablesOf(pd) == {pde[pd][i] : i \in DOMAIN pde[pd]} \ {NULLF}
PagesOf(pd) == {e.frame : e \in {x \in UNION {{pte[t][i] : i \in DOMAIN pte[t]} : t \in TablesOf(pd)} : x.present}}

pagedir_destroy(p) ==
  /\ at[p] = "destroy" /\ frames' = frames \ ({ld[p].pd} \cup TablesOf(ld[p].pd) \cup PagesOf(ld[p].pd))
  /\ UmGo(p, "dead") /\ UNCHANGED <<pagedir, pde, pte, contents, cr3, tlb, ld>>

Step(p) ==
  \/ /\ pagedir_create(p) \/ load_header(p) \/ load_phdr(p) \/ load_segment(p) \/ setup_stack(p)
        \/ push_arguments(p) \/ Exit(p) \/ exit_forget(p) \/ exit_activate(p) \/ pagedir_destroy(p)
        \/ \E page \in TouchPages, write \in BOOLEAN : Touch(p, page, write)
     /\ UNCHANGED cleared
  \/ \E q \in Procs, page \in TouchPages :
       pagedir_set_dirty(q, page) \/ pagedir_set_accessed(q, page) \/ pagedir_clear_page(q, page)

Panicked == \E p \in Procs : at[p] \in {"panic", "overrun"}

UmNext == \/ \E p \in Procs : ~Panicked /\ running = p /\ Step(p) /\ UNCHANGED running
          \/ \E t \in Procs \cup {NoProc} : ~Panicked /\ process_activate(t)

UmSpec == UmInit /\ [][UmNext]_UmVars

-----------------------------------------------------------------------------
\* syscall.c
validate_pointer(p, a) == a # 0 /\ is_user_vaddr(a) /\ Mapped(pagedir[p], pg_no(a))

validate_string(p, a, n) == \A i \in a .. a + n : validate_pointer(p, i)

\* start + size is computed in a pointer and may wrap.
validate_buffer(p, start, size) ==
  LET end == (start + size) % AddressMod
  IN /\ validate_pointer(p, start) /\ (size > 0 => is_user_vaddr((end - 1) % AddressMod))
     /\ \A page \in Pages :
          pg_round_down(start) <= page * PageBytes /\ page * PageBytes < pg_round_up(end) => Mapped(pagedir[p], page)

-----------------------------------------------------------------------------
Loaded(p) == at[p] = "user"
\* The directory a process answers for, until pagedir_destroy; its page tables
\* and what backs its pages.
Directory(p) == IF at[p] \in {"activate", "destroy"} THEN ld[p].pd ELSE pagedir[p]
Owners == {p \in Procs : Directory(p) # NULLF}
PageTable(s) == pde[Directory(s[1])][s[2]]
Backing(s) == lookup_page(Directory(s[1]), s[2]).frame

\* Every frame in use is one page of one process, or a directory or a page
\* table of one: a load that fails half way and an exit leave none behind,
\* none is freed twice, and no two uses share one.  (A page that
\* pagedir_clear_page unmapped is its caller's to free.)
FramesOwnedOnce ==
  LET tables == {s \in Owners \X DOMAIN NoTables : PageTable(s) # NULLF}
      backed == {s \in Owners \X Pages : Backing(s) # NULLF}
  IN /\ frames = {Directory(p) : p \in Owners} \cup {PageTable(s) : s \in tables}
                  \cup {Backing(s) : s \in backed} \cup cleared
     /\ \A p, q \in Owners : p # q => Directory(p) # Directory(q)
     /\ \A p \in Owners, s \in tables : Directory(p) # PageTable(s)
     /\ \A s, t \in tables : s # t => PageTable(s) # PageTable(t)
     /\ \A s, t \in backed : s # t => Backing(s) # Backing(t)

\* The directory the processor walks is the base directory or one that is
\* still allocated, whenever the context switch comes; and while a process
\* runs its own program, it is the process's own.
ActiveDirectoryLives ==
  /\ cr3 = InitDir \/ cr3 \in frames
  /\ \A p \in Procs : running = p /\ Loaded(p) => cr3 = pagedir[p]

\* Nothing the TLB caches outlives what the page tables say: a page cleared is
\* no longer reachable, and a page whose dirty bit is set back gets it again
\* at the next write, also when the kernel changes the tables of a process
\* that runs.
TranslationsFresh ==
  \A page \in Pages : tlb[page].present =>
    cr3 # InitDir /\ (\A f \in {"present", "frame", "writable", "dirty", "accessed"} : tlb[page][f] = lookup_page(cr3, page)[f])

\* What a loaded process finds in memory is its file: byte for byte the
\* segment's bytes from the file, then zeros up to memsz; never at page 0,
\* never read-only where the header says writable.
ImageInMemory ==
  \A p \in Procs : Loaded(p) =>
    /\ ~Mapped(pagedir[p], 0)
    /\ \A i \in DOMAIN ld[p].image.phdrs :
         LET ph == ld[p].image.phdrs[i]
         IN ph.type = "load" => \A k \in 0 .. ph.memsz - 1 :
              LET a == ph.vaddr + k
                  e == lookup_page(pagedir[p], pg_no(a))
                  c == contents[e.frame]
              IN /\ is_user_vaddr(a) /\ e.frame # NULLF /\ e.writable = ph.w
                 /\ IF k < ph.filesz THEN pg_ofs(a) < c.n /\ c.ofs + pg_ofs(a) = ph.offset + k
                    ELSE pg_ofs(a) >= c.n

\* The kernel's assertions about addresses hold whatever the headers say.
UmNoPanic == \A p \in Procs : at[p] # "panic"

\* A process starts with its arguments as the C calling convention wants them:
\* the words aligned, argv just above argc and its pointer, nothing
\* overlapping, and all of it in memory the process has.
ArgumentsInPlace ==
  \A p \in Procs : Loaded(p) =>
    LET s == ArgStack(ld[p].image.args)
        Bytes == [i \in 1 .. s.argc |-> s.str[i] .. s.str[i] + ld[p].image.args[i]]
    IN /\ s.esp % 4 = 0 /\ s.argv = s.esp + 12
       /\ \A i \in 1 .. s.argc :
            /\ \A a \in Bytes[i] : s.argv + 4 * (s.argc + 1) <= a /\ is_user_vaddr(a)
            /\ \A j \in 1 .. s.argc : i # j => Bytes[i] \cap Bytes[j] = {}
       /\ \A g \in pg_no(s.esp) .. UserPageCount - 1 : lookup_page(pagedir[p], g).frame # NULLF

\* A buffer or a string that the system calls accept is mapped byte for byte,
\* where its end does not wrap.
ValidatedIsMapped ==
  \A p \in Procs : Loaded(p) =>
    \A page \in Pages, d \in {0, 1, PageBytes - 1}, size \in {0, 1, 2, PageBytes, PageBytes + 2} :
      LET start == page * PageBytes + d
          all == \A g \in page .. pg_no(start + size - 1) : g \in Pages /\ Mapped(pagedir[p], g)
      IN /\ validate_buffer(p, start, size) /\ size > 0 => all
         /\ size > 0 => (validate_string(p, start, size - 1) <=> start # 0 /\ all)

\* Whenever the context switch comes and wherever a load fails, a process has
\* the memory its executable describes, for itself, and the kernel believes no
\* pointer that leaves it (process.c, pagedir.c, syscall.c).
AddressSpacesSound ==
  /\ FramesOwnedOnce /\ ActiveDirectoryLives /\ TranslationsFresh /\ ImageInMemory
  /\ UmNoPanic /\ ArgumentsInPlace /\ ValidatedIsMapped
=============================================================================
