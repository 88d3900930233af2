----------------------- MODULE ProcessLifecycleProofs -----------------------
(***************************************************************************)
(* Proofs about exec, wait and exit, for any number of threads and blocks, *)
(* any statuses and any bound on who starts whom; and about the programs   *)
(* that relay the console of the emulator Pintos runs in.                  *)
(***************************************************************************)
EXTENDS ProcessLifecycle, SquishRelay, SequenceTheorems, TLAPS

-----------------------------------------------------------------------------
(* What holds whatever fails: who refers to which block.                   *)

Waits == {"waitSema", "waitDec", "waitTest", "waitRemove", "waitFree", "waitReturn"}

\* A thread that was started knows its block; the initial thread is no child.
StartedRefs ==
  \A c \in Proc :
    /\ c = Root => ppc[c] \in {"user", "execWait"} \cup Waits
    /\ ppc[c] # "unborn" /\ c # Root => shared[c].block \in Block
    /\ ppc[c] \notin {"unborn", "load"} /\ c # Root => pcRef[c] = shared[c].block
    /\ ppc[c] \in {"unborn", "load"} => shared[c].sema = 0

\* A parent in exec or wait has the block of the child it asks for.
CallRefs ==
  \A p \in Proc :
    /\ ppc[p] \in Waits => target[p] \in Block
    /\ ppc[p] = "execWait" =>
         /\ arg[p] # Root /\ ppc[arg[p]] # "unborn" /\ <<p, arg[p]>> \in MayExec
         /\ target[p] = shared[arg[p]].block

\* Each child being started has one parent in exec.
OneParent ==
  \A p, q \in Proc : ppc[p] = "execWait" /\ ppc[q] = "execWait" /\ arg[p] = arg[q] => p = q

\* A block names a child only after the child has reported that it loaded.
NamedLoaded ==
  \A b \in Block : block[b].child # NoBlock =>
    /\ block[b].child # Root /\ ppc[block[b].child] \notin {"unborn", "load"}
    /\ shared[block[b].child].status

RefsInv == PlTypeOK /\ StartedRefs /\ CallRefs /\ OneParent /\ NamedLoaded

-----------------------------------------------------------------------------
(* What holds while no load has failed and no block was freed twice.       *)

\* The parent of c is still in exec: c's block does not name c yet.
Starting(c) == \E p \in Proc : ppc[p] = "execWait" /\ arg[p] = c

\* c's block is still the one that was allocated for it.
Current(c) == block[shared[c].block].child = c \/ Starting(c)

\* The block of a child being started is allocated, on no list, and of no other.
StartingBlocks ==
  \A p \in Proc : ppc[p] = "execWait" =>
    /\ block[target[p]].child = NoBlock /\ block[target[p]].waiters
    /\ onFreeList[target[p]] = 0
    /\ \A q \in Proc : target[p] \notin children[q]
    /\ \A q \in Proc : ppc[q] = "execWait" /\ p # q => target[p] # target[q]

\* A block is on one list at most and then names a child of the list's owner.
ListedBlocks ==
  \A p \in Proc : \A b \in children[p] :
    /\ block[b].child # NoBlock /\ <<p, block[b].child>> \in MayExec
    /\ \A q \in Proc : b \in children[q] => p = q

\* A block that names a child is allocated, for that child.
NamedBlocks ==
  \A b \in Block : block[b].child # NoBlock =>
    /\ shared[block[b].child].block = b /\ onFreeList[b] = 0
    /\ block[b].waiters /\ block[b].linked

\* A free block is on the free list once, and not a zero in it.
FreeBlocks ==
  \A b \in Block : onFreeList[b] # 0 => onFreeList[b] = 1 /\ block[b].alive # 0

\* A block is free, of a child being started, or names its child.
BlockUse ==
  \A b \in Block : \/ onFreeList[b] # 0 \/ block[b].child # NoBlock
                   \/ \E p \in Proc : ppc[p] = "execWait" /\ target[p] = b

\* Until it has told its parent, a child's block is its own.
OwnBlock ==
  \A c \in Proc : c # Root /\ ppc[c] \notin {"unborn", "exitTest", "exitRemove", "exitFree", "dead"}
    => Current(c)

Told == {"exitTest", "exitRemove", "exitFree", "dead"}

\* alive_count, sema and exit_status of a child's block, by how far child and
\* parent have come.
CounterOf(c) ==
  LET b == block[shared[c].block]
  IN  /\ ppc[c] \notin Exiting => b.alive = 2 /\ b.sema = 0
      /\ ppc[c] = "exitUp" => b.alive = 1 /\ b.sema = 0 /\ b.status = exitStatus[c]
      /\ ppc[c] \in Told =>
           /\ b.status = exitStatus[c]
           /\ \/ b.sema \in {0, 1} /\ b.alive = 1
              \/ /\ b.sema = 0 /\ b.alive = 0
                 /\ \E p \in Proc : ppc[p] \in {"waitTest", "waitRemove", "waitFree"} /\ arg[p] = c

Counters == \A c \in Proc : c # Root /\ ppc[c] # "unborn" /\ Current(c) => CounterOf(c)

\* A parent that waits has the block of its child on its list.
Waiting ==
  \A p \in Proc : ppc[p] \in {"waitSema", "waitDec"} =>
    /\ target[p] \in children[p] /\ block[target[p]].child = arg[p]
    /\ ppc[p] = "waitDec" =>
         ppc[arg[p]] \in Told /\ block[target[p]].alive = 1 /\ block[target[p]].sema = 0

\* A parent that was woken has the status of its child; the block it waited
\* on is still the child's, and then nobody else has it on a list, or is not.
Woken ==
  \A p \in Proc : ppc[p] \in {"waitTest", "waitRemove", "waitFree", "waitReturn"} =>
    /\ ppc[arg[p]] \in Told /\ exitStatus[arg[p]] = status[p] /\ <<p, arg[p]>> \in MayExec
    /\ target[p] = shared[arg[p]].block /\ arg[p] # Root
    /\ ~Starting(arg[p])
    /\ block[target[p]].child = arg[p] =>
         /\ ppc[p] # "waitReturn" /\ block[target[p]].alive = 0
         /\ \A q \in Proc : target[p] \in children[q] => q = p

\* One thread at a time frees a block, which is allocated and names a child.
Freers ==
  \A q \in Proc, b \in Block : Freeing(q, b) =>
    /\ block[b].child # NoBlock /\ block[b].alive = 0
    /\ \A r \in Proc : Freeing(r, b) => r = q
    /\ ppc[q] \in {"waitFree", "exitFree"} => \A r \in Proc : b \notin children[r]

\* A status that was returned is that of an exited child whose block is gone.
Returned ==
  \A w \in waited :
    /\ ppc[w[2]] \in Told /\ exitStatus[w[2]] = w[3] /\ <<w[1], w[2]>> \in MayExec
    /\ w[2] # Root /\ ~Current(w[2])

ProtocolInv ==
  /\ StartingBlocks /\ ListedBlocks /\ NamedBlocks /\ FreeBlocks /\ BlockUse /\ OwnBlock /\ Counters
  /\ Waiting /\ Woken /\ Freers /\ Returned /\ panic # "freed"

UnspoiledInv == Unspoiled => ProtocolInv

-----------------------------------------------------------------------------
(* The invariant that needs no condition.                                  *)

\* A block, as its fields.
BlockRec == [child : Proc \cup {NoBlock}, status : Int, alive : Int, sema : Nat,
             waiters : BOOLEAN, linked : BOOLEAN]

LEMMA NewBlocks == Cleared \in BlockRec /\ NewParentChild \in BlockRec
BY DEF Cleared, NewParentChild, BlockRec

\* The types of what the actions change one thread or block of.
LEMMA TypeFacts ==
  ASSUME PlTypeOK
  PROVE  /\ \A p \in Proc : /\ shared[p].status \in BOOLEAN /\ shared[p].sema \in 0 .. 1
                            /\ shared[p].block \in Block \cup {NoBlock}
                            /\ arg[p] \in Proc
         /\ \A b \in Block : block[b] \in BlockRec
         /\ block \in [Block -> BlockRec]
BY DEF PlTypeOK, BlockRec

\* Writing one or two fields of a block leaves the others.
LEMMA WriteSema ==
  ASSUME NEW r \in BlockRec, NEW n \in Nat
  PROVE  LET s == [r EXCEPT !.sema = n]
         IN  /\ s \in BlockRec /\ s.sema = n /\ s.child = r.child /\ s.status = r.status
             /\ s.alive = r.alive /\ s.waiters = r.waiters /\ s.linked = r.linked
BY DEF BlockRec

LEMMA WriteAlive ==
  ASSUME NEW r \in BlockRec, NEW n \in Int
  PROVE  LET s == [r EXCEPT !.alive = n]
         IN  /\ s \in BlockRec /\ s.alive = n /\ s.child = r.child /\ s.status = r.status
             /\ s.sema = r.sema /\ s.waiters = r.waiters /\ s.linked = r.linked
BY DEF BlockRec

LEMMA WriteStatus ==
  ASSUME NEW r \in BlockRec, NEW x \in Int, NEW n \in Int
  PROVE  LET s == [r EXCEPT !.status = x, !.alive = n]
         IN  /\ s \in BlockRec /\ s.alive = n /\ s.child = r.child /\ s.status = x
             /\ s.sema = r.sema /\ s.waiters = r.waiters /\ s.linked = r.linked
BY DEF BlockRec

LEMMA WriteChild ==
  ASSUME NEW r \in BlockRec, NEW c \in Proc
  PROVE  LET s == [r EXCEPT !.child = c, !.linked = TRUE]
         IN  /\ s \in BlockRec /\ s.alive = r.alive /\ s.child = c /\ s.status = r.status
             /\ s.sema = r.sema /\ s.waiters = r.waiters /\ s.linked = TRUE
BY DEF BlockRec

\* A child's report.
LEMMA WriteReport ==
  ASSUME NEW B, NEW r \in [status : BOOLEAN, sema : 0 .. 1, block : B], NEW t \in BOOLEAN, NEW n \in 0 .. 1
  PROVE  [r EXCEPT !.status = t, !.sema = n] \in [status : BOOLEAN, sema : 0 .. 1, block : B]
OBVIOUS

\* One block is written; the child it names stays or is forgotten.
LEMMA WriteBlock ==
  ASSUME PlTypeOK, NEW b \in Block, NEW r \in BlockRec, block' = [block EXCEPT ![b] = r],
         r.child \in {block[b].child, NoBlock}
  PROVE  /\ block' \in [Block -> BlockRec] /\ \A x \in Block : block'[x].child \in {block[x].child, NoBlock}
         /\ block'[b] = r /\ \A x \in Block \ {b} : block'[x] = block[x]
BY TypeFacts

LEMMA RefsExecute ==
  ASSUME RefsInv, NEW p \in Proc, NEW c \in Proc, Execute(p, c)
  PROVE  RefsInv'
<1> USE DEF RefsInv
<1>1. PICK b \in Block :
        /\ onFreeList[b] > 0
        /\ onFreeList' = [onFreeList EXCEPT ![b] = @ - 1]
        /\ block' = [block EXCEPT ![b] = NewParentChild]
        /\ shared' = [shared EXCEPT ![c] = [status |-> FALSE, sema |-> 0, block |-> b]]
        /\ target' = [target EXCEPT ![p] = b]
  BY DEF Execute
<1>2. /\ arg' = [arg EXCEPT ![p] = c] /\ ppc[p] = "user" /\ ppc[c] = "unborn" /\ <<p, c>> \in MayExec
      /\ ppc' = [ppc EXCEPT ![p] = "execWait", ![c] = "load"]
      /\ UNCHANGED <<children, pcRef, exitStatus, status, waited, killed, raced, panic>>
  BY DEF Execute, MayExecute, At
<1>3. PlTypeOK'
  <2>1. block' \in [Block -> BlockRec] BY <1>1, TypeFacts, NewBlocks
  <2>2. shared' \in [Proc -> [status : BOOLEAN, sema : 0 .. 1, block : Block \cup {NoBlock}]]
    BY <1>1 DEF PlTypeOK
  <2>3. /\ ppc' \in [Proc -> {"unborn", "load", "user", "execWait", "waitSema", "waitDec",
                        "waitTest", "waitRemove", "waitFree", "waitReturn", "exitDec",
                        "exitUp", "exitTest", "exitRemove", "exitFree", "dead"}]
    BY <1>2 DEF PlTypeOK
  <2>4. arg' \in [Proc -> Proc] /\ target' \in [Proc -> Block \cup {NoBlock}] BY <1>1, <1>2 DEF PlTypeOK
  <2>5. onFreeList' \in [Block -> Nat] BY <1>1 DEF PlTypeOK
  <2> QED BY <1>2, <2>1, <2>2, <2>3, <2>4, <2>5 DEF PlTypeOK, BlockRec
<1>4. c # Root /\ p # c BY <1>2 DEF StartedRefs, Waits
<1>5. /\ ppc'[p] = "execWait" /\ ppc'[c] = "load" /\ arg'[p] = c /\ target'[p] = b
      /\ \A q \in Proc \ {p, c} : ppc'[q] = ppc[q]
      /\ \A q \in Proc \ {p} : arg'[q] = arg[q] /\ target'[q] = target[q]
      /\ shared'[c].block = b /\ shared'[c].sema = 0
      /\ \A q \in Proc \ {c} : shared'[q] = shared[q]
      /\ \A x \in Block \ {b} : block'[x] = block[x]
      /\ block'[b].child = NoBlock
  BY <1>1, <1>2, <1>4 DEF PlTypeOK, NewParentChild
<1>6. StartedRefs' BY ZenonT(40), <1>2, <1>4, <1>5 DEF StartedRefs, Waits
<1>7. \A q \in Proc : ppc[q] = "execWait" => arg[q] \in Proc /\ arg[q] # c BY <1>2, TypeFacts DEF CallRefs
<1>8. CallRefs' /\ OneParent'
  <2>1. ASSUME NEW q \in Proc, ppc'[q] \in Waits PROVE target'[q] \in Block
    BY <1>4, <1>5, <2>1 DEF CallRefs, Waits
  <2>2. ASSUME NEW q \in Proc, ppc'[q] = "execWait"
        PROVE  /\ arg'[q] # Root /\ ppc'[arg'[q]] # "unborn" /\ <<q, arg'[q]>> \in MayExec
               /\ target'[q] = shared'[arg'[q]].block
    <3>1. CASE q = p BY <1>2, <1>4, <1>5, <3>1
    <3>2. CASE q # p
      <4>1. ppc[q] = "execWait" /\ arg'[q] = arg[q] /\ target'[q] = target[q] BY <1>4, <1>5, <2>2, <3>2
      <4>2. arg[q] \in Proc /\ arg[q] # c BY <1>7, <4>1
      <4>3. ppc'[arg[q]] # "unborn" BY <1>5, <4>1, <4>2 DEF CallRefs
      <4> QED BY <1>5, <4>1, <4>2, <4>3 DEF CallRefs
    <3> QED BY <3>1, <3>2
  <2>3. ASSUME NEW q \in Proc, NEW r \in Proc, ppc'[q] = "execWait", ppc'[r] = "execWait", arg'[q] = arg'[r]
        PROVE  q = r
    <3>1. CASE q # p /\ r # p
      <4>1. ppc[q] = "execWait" /\ ppc[r] = "execWait" BY <1>4, <1>5, <2>3, <3>1
      <4> QED BY <1>5, <2>3, <3>1, <4>1 DEF OneParent
    <3>2. CASE q = p BY <1>4, <1>5, <1>7, <2>3, <3>2
    <3>3. CASE r = p BY <1>4, <1>5, <1>7, <2>3, <3>3
    <3> QED BY <3>1, <3>2, <3>3
  <2> QED BY <2>1, <2>2, <2>3 DEF CallRefs, OneParent
<1>9. NamedLoaded'
  <2> SUFFICES ASSUME NEW x \in Block, block'[x].child # NoBlock
               PROVE  /\ block'[x].child # Root /\ ppc'[block'[x].child] \notin {"unborn", "load"}
                      /\ shared'[block'[x].child].status
    BY DEF NamedLoaded
  <2>1. x # b /\ block'[x] = block[x] BY <1>5
  <2>2. PICK d : d = block[x].child OBVIOUS
  <2>3. d \in Proc /\ d # Root /\ d # c /\ ppc[d] \notin {"unborn", "load"} /\ shared[d].status
    BY <1>2, <2>1, <2>2, TypeFacts DEF NamedLoaded, BlockRec
  <2>4. shared'[d].status /\ ppc'[d] \notin {"unborn", "load"} BY <1>5, <2>3
  <2> QED BY <2>1, <2>2, <2>3, <2>4
<1> QED BY <1>3, <1>6, <1>8, <1>9

\* Steps of one thread that neither start nor finish an exec.
LEMMA RefsKeep ==
  ASSUME RefsInv, PlTypeOK', NEW p \in Proc, UNCHANGED <<shared, pcRef>>,
         ppc[p] \notin {"unborn", "load", "execWait"}, ppc'[p] \notin {"unborn", "load", "execWait"},
         p = Root => ppc'[p] \in {"user"} \cup Waits, ppc'[p] \in Waits => target'[p] \in Block,
         \A q \in Proc \ {p} : ppc'[q] = ppc[q] /\ arg'[q] = arg[q] /\ target'[q] = target[q],
         \A x \in Block : block'[x].child \in {block[x].child, NoBlock}
  PROVE  RefsInv'
<1> USE DEF RefsInv
<1>1. StartedRefs' BY DEF StartedRefs, Waits
<1>2. CallRefs' /\ OneParent'
  <2>1. ASSUME NEW q \in Proc, ppc'[q] \in Waits PROVE target'[q] \in Block BY <2>1 DEF CallRefs
  <2>2. ASSUME NEW q \in Proc, ppc'[q] = "execWait"
        PROVE  /\ q # p /\ ppc[q] = "execWait" /\ arg'[q] = arg[q]
               /\ arg'[q] # Root /\ ppc'[arg'[q]] # "unborn" /\ <<q, arg'[q]>> \in MayExec
               /\ target'[q] = shared'[arg'[q]].block
    <3>1. q # p /\ ppc[q] = "execWait" BY <2>2
    <3>2. arg'[q] = arg[q] /\ target'[q] = target[q] /\ arg[q] \in Proc BY <3>1, TypeFacts
    <3>3. ppc'[arg[q]] # "unborn" BY <3>1, <3>2 DEF CallRefs
    <3> QED BY <3>1, <3>2, <3>3 DEF CallRefs
  <2>3. ASSUME NEW q \in Proc, NEW r \in Proc, ppc'[q] = "execWait", ppc'[r] = "execWait", arg'[q] = arg'[r]
        PROVE  q = r
    BY <2>2, <2>3 DEF OneParent
  <2> QED BY <2>1, <2>2, <2>3 DEF CallRefs, OneParent
<1>3. NamedLoaded'
  <2> SUFFICES ASSUME NEW x \in Block, block'[x].child # NoBlock
               PROVE  /\ block'[x].child # Root /\ ppc'[block'[x].child] \notin {"unborn", "load"}
                      /\ shared'[block'[x].child].status
    BY DEF NamedLoaded
  <2>1. block'[x].child = block[x].child OBVIOUS
  <2>2. PICK d : d = block[x].child OBVIOUS
  <2>3. d \in Proc /\ d # Root /\ ppc[d] \notin {"unborn", "load"} /\ shared[d].status
    BY <2>1, <2>2, TypeFacts DEF NamedLoaded, BlockRec
  <2> QED BY <2>1, <2>2, <2>3
<1> QED BY <1>1, <1>2, <1>3

LEMMA RefsExecuted ==
  ASSUME RefsInv, NEW p \in Proc, Executed(p)
  PROVE  RefsInv'
<1> USE DEF RefsInv
<1> DEFINE c == arg[p]
           b == target[p]
<1>1. /\ ppc[p] = "execWait" /\ shared[c].sema > 0 /\ shared' = [shared EXCEPT ![c].sema = @ - 1]
      /\ ppc' = [ppc EXCEPT ![p] = "user"]
      /\ UNCHANGED <<pcRef, exitStatus, arg, target, status, waited, killed, raced, panic>>
  BY DEF Executed, At, PlGoto
<1>2. c \in Proc /\ b \in Block /\ c # Root /\ ppc[c] \notin {"unborn", "load"}
  <2>1. c \in Proc /\ c # Root /\ ppc[c] # "unborn" /\ b = shared[c].block BY <1>1, TypeFacts DEF CallRefs
  <2>2. shared[c].sema # 0 BY <1>1, <2>1, TypeFacts
  <2> QED BY <2>1, <2>2 DEF StartedRefs
<1>3. /\ shared'[c].status = shared[c].status /\ shared'[c].block = shared[c].block
      /\ shared'[c].sema = shared[c].sema - 1
      /\ \A q \in Proc \ {c} : shared'[q] = shared[q]
      /\ ppc'[p] = "user" /\ \A q \in Proc \ {p} : ppc'[q] = ppc[q]
  BY <1>1, <1>2 DEF PlTypeOK
<1>4. /\ block' \in [Block -> BlockRec] /\ onFreeList' \in [Block -> Nat] /\ children' \in [Proc -> SUBSET Block]
      /\ \A x \in Block : block'[x].child \in {block[x].child, NoBlock} \/ (block'[x].child = c /\ shared[c].status)
  <2>1. CASE /\ shared[c].status /\ block' = [block EXCEPT ![b].child = c, ![b].linked = TRUE]
             /\ children' = [children EXCEPT ![p] = @ \cup {b}] /\ UNCHANGED onFreeList
    <3> HIDE DEF c, b
    <3>1. block' = [block EXCEPT ![b] = [block[b] EXCEPT !.child = c, !.linked = TRUE]]
      BY <1>2, <2>1, TypeFacts DEF BlockRec
    <3>2. [block[b] EXCEPT !.child = c, !.linked = TRUE] \in BlockRec BY <1>2, TypeFacts DEF BlockRec
    <3>3. block' \in [Block -> BlockRec] BY <1>2, <3>1, <3>2, TypeFacts
    <3>4. \A x \in Block : block'[x].child \in {block[x].child, c} BY <1>2, <3>1, TypeFacts DEF BlockRec
    <3> QED BY <1>2, <2>1, <3>3, <3>4 DEF PlTypeOK
  <2>2. CASE Free(b) /\ UNCHANGED children
    BY <1>2, <2>2, NewBlocks, TypeFacts DEF Free, PlTypeOK, Cleared, BlockRec
  <2> QED BY <2>1, <2>2 DEF Executed
<1>5. PlTypeOK'
  <2>1. shared' \in [Proc -> [status : BOOLEAN, sema : 0 .. 1, block : Block \cup {NoBlock}]]
    <3> HIDE DEF c, b
    <3> DEFINE rec == [status : BOOLEAN, sema : 0 .. 1, block : Block \cup {NoBlock}]
    <3>1. shared \in [Proc -> rec] BY DEF PlTypeOK
    <3>2. shared[c].sema - 1 \in 0 .. 1 BY <1>1, <1>2, TypeFacts
    <3>3. [shared[c] EXCEPT !.sema = @ - 1] \in rec BY <1>2, <3>1, <3>2
    <3>4. shared' = [shared EXCEPT ![c] = [shared[c] EXCEPT !.sema = @ - 1]] BY <1>1
    <3> QED BY <1>2, <3>1, <3>3, <3>4
  <2> QED BY <1>1, <1>4, <2>1 DEF PlTypeOK, BlockRec
<1>6. StartedRefs' BY <1>1, <1>2, <1>3 DEF StartedRefs, Waits
<1>7. CallRefs' /\ OneParent'
  <2>1. ASSUME NEW q \in Proc, ppc'[q] \in Waits PROVE target'[q] \in Block
    BY <1>1, <1>3, <2>1 DEF CallRefs, Waits
  <2>2. ASSUME NEW q \in Proc, ppc'[q] = "execWait"
        PROVE  /\ q # p /\ ppc[q] = "execWait"
               /\ arg'[q] # Root /\ ppc'[arg'[q]] # "unborn" /\ <<q, arg'[q]>> \in MayExec
               /\ target'[q] = shared'[arg'[q]].block
    <3>1. q # p /\ ppc[q] = "execWait" BY <1>3, <2>2
    <3>2. arg[q] \in Proc /\ arg'[q] = arg[q] /\ target'[q] = target[q] BY <1>1, TypeFacts
    <3>3. ppc'[arg[q]] # "unborn" BY <1>3, <3>1, <3>2 DEF CallRefs
    <3>4. shared'[arg[q]].block = shared[arg[q]].block BY <1>3, <3>2
    <3> QED BY <3>1, <3>2, <3>3, <3>4 DEF CallRefs
  <2>3. ASSUME NEW q \in Proc, NEW r \in Proc, ppc'[q] = "execWait", ppc'[r] = "execWait", arg'[q] = arg'[r]
        PROVE  q = r
    BY <1>1, <2>2, <2>3 DEF OneParent
  <2> QED BY <2>1, <2>2, <2>3 DEF CallRefs, OneParent
<1>8. NamedLoaded'
  <2> SUFFICES ASSUME NEW x \in Block, block'[x].child # NoBlock
               PROVE  /\ block'[x].child # Root /\ ppc'[block'[x].child] \notin {"unborn", "load"}
                      /\ shared'[block'[x].child].status
    BY DEF NamedLoaded
  <2>1. CASE block'[x].child = c /\ shared[c].status BY <1>2, <1>3, <2>1
  <2>2. CASE block'[x].child = block[x].child
    <3>1. PICK d : d = block[x].child OBVIOUS
    <3>2. d \in Proc /\ d # Root /\ ppc[d] \notin {"unborn", "load"} /\ shared[d].status
      BY <2>2, <3>1, TypeFacts DEF NamedLoaded, BlockRec
    <3>3. shared'[d].status /\ ppc'[d] \notin {"unborn", "load"} BY <1>3, <3>2
    <3> QED BY <2>2, <3>1, <3>2, <3>3
  <2> QED BY <1>4, <2>1, <2>2
<1> QED BY <1>5, <1>6, <1>7, <1>8

LEMMA RefsStart ==
  ASSUME RefsInv, NEW c \in Proc, StartProcess(c)
  PROVE  RefsInv'
<1> USE DEF RefsInv
<1>1. PICK success \in BOOLEAN :
        /\ shared' = [shared EXCEPT ![c].status = success, ![c].sema = @ + 1]
        /\ exitStatus' = [exitStatus EXCEPT ![c] = IF success THEN @ ELSE -1]
        /\ ppc' = [ppc EXCEPT ![c] = IF success THEN "user" ELSE "exitDec"]
  BY DEF StartProcess, PlGoto
<1>2. /\ ppc[c] = "load" /\ pcRef' = [pcRef EXCEPT ![c] = shared[c].block]
      /\ UNCHANGED <<block, onFreeList, children, arg, target, status, waited, killed, raced, panic>>
  BY DEF StartProcess, At
<1>3. c # Root /\ shared[c].sema = 0 /\ shared[c].block \in Block BY <1>2 DEF StartedRefs, Waits
<1>4. PlTypeOK'
  <2>1. shared' \in [Proc -> [status : BOOLEAN, sema : 0 .. 1, block : Block \cup {NoBlock}]]
    <3>1. shared[c] \in [status : BOOLEAN, sema : 0 .. 1, block : Block \cup {NoBlock}] BY DEF PlTypeOK
    <3>2. [shared[c] EXCEPT !.status = success, !.sema = shared[c].sema + 1]
            \in [status : BOOLEAN, sema : 0 .. 1, block : Block \cup {NoBlock}]
      <4>1. shared[c].sema + 1 \in 0 .. 1 BY <1>3
      <4> QED BY <3>1, <4>1, WriteReport
    <3>3. shared' = [shared EXCEPT ![c] = [shared[c] EXCEPT !.status = success, !.sema = shared[c].sema + 1]]
      BY <1>1 DEF PlTypeOK
    <3> QED BY <3>2, <3>3 DEF PlTypeOK
  <2>2. exitStatus' \in [Proc -> Int] BY <1>1 DEF PlTypeOK
  <2> QED BY <1>1, <1>2, <1>3, <2>1, <2>2 DEF PlTypeOK
<1>5. /\ shared'[c].block = shared[c].block /\ ppc'[c] \in {"user", "exitDec"} /\ pcRef'[c] = shared[c].block
      /\ \A q \in Proc \ {c} : shared'[q] = shared[q] /\ ppc'[q] = ppc[q] /\ pcRef'[q] = pcRef[q]
  BY <1>1, <1>2 DEF PlTypeOK
<1>6. StartedRefs' BY <1>2, <1>3, <1>5 DEF StartedRefs, Waits
<1>7. CallRefs' /\ OneParent'
  <2>1. ASSUME NEW q \in Proc, ppc'[q] \in Waits PROVE target'[q] \in Block
    BY <1>2, <1>5, <2>1 DEF CallRefs, Waits
  <2>2. ASSUME NEW q \in Proc, ppc'[q] = "execWait"
        PROVE  /\ q # c /\ ppc[q] = "execWait"
               /\ arg'[q] # Root /\ ppc'[arg'[q]] # "unborn" /\ <<q, arg'[q]>> \in MayExec
               /\ target'[q] = shared'[arg'[q]].block
    <3>1. q # c /\ ppc[q] = "execWait" BY <1>5, <2>2
    <3>2. arg[q] \in Proc /\ arg'[q] = arg[q] /\ target'[q] = target[q] BY <1>2, TypeFacts
    <3>3. ppc'[arg[q]] # "unborn" BY <1>5, <3>1, <3>2 DEF CallRefs
    <3>4. shared'[arg[q]].block = shared[arg[q]].block BY <1>5, <3>2
    <3> QED BY <3>1, <3>2, <3>3, <3>4 DEF CallRefs
  <2>3. ASSUME NEW q \in Proc, NEW r \in Proc, ppc'[q] = "execWait", ppc'[r] = "execWait", arg'[q] = arg'[r]
        PROVE  q = r
    BY <1>2, <2>2, <2>3 DEF OneParent
  <2> QED BY <2>1, <2>2, <2>3 DEF CallRefs, OneParent
<1>8. NamedLoaded'
  <2> SUFFICES ASSUME NEW x \in Block, block'[x].child # NoBlock
               PROVE  /\ block'[x].child # Root /\ ppc'[block'[x].child] \notin {"unborn", "load"}
                      /\ shared'[block'[x].child].status
    BY DEF NamedLoaded
  <2>1. PICK d : d = block[x].child OBVIOUS
  <2>2. d \in Proc /\ d # c /\ d # Root /\ ppc[d] \notin {"unborn", "load"} /\ shared[d].status
    BY <1>2, <2>1, TypeFacts DEF NamedLoaded, BlockRec
  <2>3. shared'[d].status /\ ppc'[d] \notin {"unborn", "load"} BY <1>5, <2>2
  <2> QED BY <1>2, <2>1, <2>2, <2>3
<1> QED BY <1>4, <1>6, <1>7, <1>8

LEMMA RefsStep == RefsInv /\ [PlNext]_plVars => RefsInv'
<1> SUFFICES ASSUME RefsInv, [PlNext]_plVars PROVE RefsInv' OBVIOUS
<1> USE DEF RefsInv, PlGoto, At
<1>1. CASE UNCHANGED plVars
  BY <1>1 DEF plVars, PlTypeOK, StartedRefs, CallRefs, OneParent, NamedLoaded
<1>2. ASSUME NEW p \in Proc, KernelStep(p) \/ UserStep(p) PROVE RefsInv'
  <2>1. CASE Executed(p) BY <2>1, RefsExecuted
  <2>2. CASE StartProcess(p) BY <2>2, RefsStart
  <2>3. CASE \E c \in Proc : Execute(p, c) BY <2>3, RefsExecute
  <2>9. CASE \E c \in Proc : ExecuteNoPage(p, c)
    BY <2>9 DEF ExecuteNoPage, Panics, PlTypeOK, StartedRefs, CallRefs, OneParent, NamedLoaded
  <2>4. CASE \E t \in Proc : Wait(p, t)
    <3>1. PICK t \in Proc : Wait(p, t) BY <2>4
    <3>2. PICK b \in children[p] : target' = [target EXCEPT ![p] = b] BY <3>1 DEF Wait
    <3>3. b \in Block /\ ppc' = [ppc EXCEPT ![p] = "waitSema"] /\ ppc[p] = "user"
      BY <3>1, <3>2 DEF Wait, PlTypeOK
    <3>4. PlTypeOK' BY <3>1, <3>2, <3>3 DEF Wait, PlTypeOK
    <3>5. /\ target'[p] = b /\ ppc'[p] = "waitSema"
          /\ \A q \in Proc \ {p} : ppc'[q] = ppc[q] /\ arg'[q] = arg[q] /\ target'[q] = target[q]
      BY <3>1, <3>2, <3>3 DEF Wait, PlTypeOK
    <3> QED BY <3>1, <3>3, <3>4, <3>5, RefsKeep DEF Wait, Waits
  <2>5. CASE \E s \in ExitStatus : SysExit(p, s)
    <3>1. PICK s \in ExitStatus : SysExit(p, s) BY <2>5
    <3>2. PlTypeOK' BY <3>1, ProcessAssumption DEF SysExit, PlTypeOK
    <3>3. /\ ppc'[p] = "exitDec" /\ ppc[p] = "user" /\ p # Root /\ \A q \in Proc \ {p} : ppc'[q] = ppc[q]
          /\ UNCHANGED <<shared, pcRef, arg, target, block>>
      BY <3>1 DEF SysExit, PlTypeOK
    <3> QED BY <3>2, <3>3, RefsKeep DEF Waits
  <2>6. CASE Kill(p)
    <3>1. PlTypeOK' BY <2>6 DEF Kill, PlTypeOK
    <3>2. /\ ppc'[p] = "exitDec" /\ ppc[p] = "user" /\ p # Root /\ \A q \in Proc \ {p} : ppc'[q] = ppc[q]
          /\ UNCHANGED <<shared, pcRef, arg, target, block>>
      BY <2>6 DEF Kill, PlTypeOK
    <3> QED BY <3>1, <3>2, RefsKeep DEF Waits
  <2>7. CASE WaitSema(p) \/ WaitDec(p) \/ WaitTest(p) \/ WaitRemove(p) \/ WaitFree(p) \/ WaitReturn(p)
    <3>1. /\ ppc[p] \in Waits /\ ppc'[p] \in {"user"} \cup Waits
          /\ \A q \in Proc \ {p} : ppc'[q] = ppc[q]
          /\ UNCHANGED <<shared, pcRef, arg, target>>
      BY <2>7 DEF WaitSema, WaitDec, WaitTest, WaitRemove, WaitFree, WaitReturn, PlTypeOK, Waits
    <3>2. target[p] \in Block BY <3>1 DEF CallRefs
    <3>3. /\ block' \in [Block -> BlockRec] /\ onFreeList' \in [Block -> Nat] /\ status' \in [Proc -> Int]
          /\ \A x \in Block : block'[x].child \in {block[x].child, NoBlock}
      <4>1. CASE WaitSema(p)
        <5>1. block[target[p]].sema - 1 \in Nat BY <4>1, <3>2, TypeFacts DEF WaitSema, BlockRec
        <5>2. block' = [block EXCEPT ![target[p]] = [block[target[p]] EXCEPT !.sema = block[target[p]].sema - 1]]
          BY <4>1, <3>2 DEF WaitSema, PlTypeOK
        <5>3. block' \in [Block -> BlockRec] /\ \A x \in Block : block'[x].child \in {block[x].child, NoBlock}
          BY <3>2, <5>1, <5>2, TypeFacts, WriteBlock DEF BlockRec
        <5> QED BY <4>1, <5>3 DEF WaitSema, PlTypeOK
      <4>2. CASE WaitDec(p)
        <5>1. block' = [block EXCEPT ![target[p]] = [block[target[p]] EXCEPT !.alive = block[target[p]].alive - 1]]
          BY <4>2, <3>2 DEF WaitDec, PlTypeOK
        <5>2. block' \in [Block -> BlockRec] /\ \A x \in Block : block'[x].child \in {block[x].child, NoBlock}
          BY <3>2, <5>1, TypeFacts, WriteBlock DEF BlockRec
        <5> QED BY <3>2, <4>2, <5>2, TypeFacts DEF WaitDec, BlockRec, PlTypeOK
      <4>3. CASE WaitFree(p)
        BY <3>2, <4>3, TypeFacts, NewBlocks DEF WaitFree, Free, Cleared, PlTypeOK
      <4>4. CASE WaitTest(p) \/ WaitRemove(p) \/ WaitReturn(p)
        BY <4>4, TypeFacts DEF WaitTest, WaitRemove, WaitReturn, PlTypeOK
      <4> QED BY <2>7, <4>1, <4>2, <4>3, <4>4
    <3>4. PlTypeOK'
      <4>1. ppc' \in [Proc -> {"unborn", "load", "user", "execWait", "waitSema", "waitDec",
                        "waitTest", "waitRemove", "waitFree", "waitReturn", "exitDec",
                        "exitUp", "exitTest", "exitRemove", "exitFree", "dead"}]
        BY ZenonT(40), <2>7 DEF WaitSema, WaitDec, WaitTest, WaitRemove, WaitFree, WaitReturn, PlTypeOK
      <4>2. children' \in [Proc -> SUBSET Block] /\ waited' \subseteq Proc \X Proc \X Int /\ killed' \subseteq Proc
        BY <2>7 DEF WaitSema, WaitDec, WaitTest, WaitRemove, WaitFree, WaitReturn, PlTypeOK, Unlink, Panics
      <4>3. panic' \in Panics /\ raced' \in BOOLEAN
        BY <2>7 DEF WaitSema, WaitDec, WaitTest, WaitRemove, WaitFree, WaitReturn, PlTypeOK, Unlink, Panics
      <4>4. UNCHANGED <<shared, pcRef, arg, target, exitStatus>>
        BY <2>7 DEF WaitSema, WaitDec, WaitTest, WaitRemove, WaitFree, WaitReturn
      <4> QED BY <3>3, <4>1, <4>2, <4>3, <4>4 DEF PlTypeOK, BlockRec
    <3> QED BY <3>1, <3>2, <3>3, <3>4, RefsKeep DEF Waits
  <2>8. CASE ExitDec(p) \/ ExitUp(p) \/ ExitTest(p) \/ ExitRemove(p) \/ ExitFree(p)
    <3>1. /\ ppc[p] \in {"exitDec", "exitUp", "exitTest", "exitRemove", "exitFree"}
          /\ ppc'[p] \in {"exitUp", "exitTest", "exitRemove", "exitFree", "dead"}
          /\ \A q \in Proc \ {p} : ppc'[q] = ppc[q]
          /\ UNCHANGED <<shared, pcRef, arg, target>>
      BY <2>8 DEF ExitDec, ExitUp, ExitTest, ExitRemove, ExitFree, PlTypeOK
    <3>2. p # Root /\ pcRef[p] \in Block BY <3>1 DEF StartedRefs, Waits
    <3>3. /\ block' \in [Block -> BlockRec] /\ onFreeList' \in [Block -> Nat]
          /\ \A x \in Block : block'[x].child \in {block[x].child, NoBlock}
      <4>1. CASE ExitUp(p)
        <5>1. block[pcRef[p]].sema + 1 \in Nat BY <3>2, TypeFacts DEF BlockRec
        <5>2. block' = [block EXCEPT ![pcRef[p]] = [block[pcRef[p]] EXCEPT !.sema = block[pcRef[p]].sema + 1]]
          BY <4>1, <3>2 DEF ExitUp, PlTypeOK
        <5>3. block' \in [Block -> BlockRec] /\ \A x \in Block : block'[x].child \in {block[x].child, NoBlock}
          BY <3>2, <5>1, <5>2, TypeFacts, WriteBlock DEF BlockRec
        <5> QED BY <4>1, <5>3 DEF ExitUp, PlTypeOK
      <4>2. CASE ExitDec(p)
        <5>1. block' = [block EXCEPT ![pcRef[p]] = [block[pcRef[p]] EXCEPT !.status = exitStatus[p],
                                                     !.alive = block[pcRef[p]].alive - 1]]
          BY <4>2, <3>2 DEF ExitDec, PlTypeOK
        <5>2. exitStatus[p] \in Int BY DEF PlTypeOK
        <5>3. block' \in [Block -> BlockRec] /\ \A x \in Block : block'[x].child \in {block[x].child, NoBlock}
          <6>1. block[pcRef[p]] \in BlockRec /\ block[pcRef[p]].alive - 1 \in Int BY <3>2, TypeFacts DEF BlockRec
          <6> DEFINE r == [block[pcRef[p]] EXCEPT !.status = exitStatus[p], !.alive = block[pcRef[p]].alive - 1]
          <6>2. r \in BlockRec /\ r.child = block[pcRef[p]].child
            <7>1. PICK o \in BlockRec : o = block[pcRef[p]] BY <6>1
            <7>2. o.alive - 1 \in Int BY <6>1, <7>1
            <7>3. r = [o EXCEPT !.status = exitStatus[p], !.alive = o.alive - 1] BY <7>1, Zenon
            <7>4. r \in BlockRec /\ r.child = o.child BY <5>2, <7>2, <7>3 DEF BlockRec
            <7> QED BY <7>1, <7>4
          <6>3. block' = [block EXCEPT ![pcRef[p]] = r] BY <5>1
          <6> HIDE DEF r
          <6> QED BY <3>2, <6>2, <6>3, WriteBlock
        <5> QED BY <4>2, <5>3 DEF ExitDec, PlTypeOK
      <4>3. CASE ExitFree(p)
        BY <3>2, <4>3, TypeFacts, NewBlocks DEF ExitFree, Free, Cleared, PlTypeOK
      <4>4. CASE ExitTest(p) \/ ExitRemove(p)
        BY <4>4, TypeFacts DEF ExitTest, ExitRemove, PlTypeOK
      <4> QED BY <2>8, <4>1, <4>2, <4>3, <4>4
    <3>4. PlTypeOK'
      <4>1. ppc' \in [Proc -> {"unborn", "load", "user", "execWait", "waitSema", "waitDec",
                        "waitTest", "waitRemove", "waitFree", "waitReturn", "exitDec",
                        "exitUp", "exitTest", "exitRemove", "exitFree", "dead"}]
        <5>1. ppc' = [ppc EXCEPT ![p] = ppc'[p]]
          <6>1. PICK l : ppc' = [ppc EXCEPT ![p] = l]
            BY <2>8 DEF ExitDec, ExitUp, ExitTest, ExitRemove, ExitFree, PlGoto
          <6> QED BY <6>1 DEF PlTypeOK
        <5>2. PICK l \in {"exitUp", "exitTest", "exitRemove", "exitFree", "dead"} : ppc' = [ppc EXCEPT ![p] = l]
          BY <3>1, <5>1, Zenon
        <5> QED BY <5>2 DEF PlTypeOK
      <4>2. children' \in [Proc -> SUBSET Block]
        BY <2>8 DEF ExitDec, ExitUp, ExitTest, ExitRemove, ExitFree, PlTypeOK, Unlink, Panics
      <4>3. panic' \in Panics /\ raced' \in BOOLEAN
        BY <2>8 DEF ExitDec, ExitUp, ExitTest, ExitRemove, ExitFree, PlTypeOK, Unlink, Panics
      <4>4. UNCHANGED <<shared, pcRef, arg, target, exitStatus, status, waited, killed>>
        BY <2>8 DEF ExitDec, ExitUp, ExitTest, ExitRemove, ExitFree
      <4> QED BY <3>3, <4>1, <4>2, <4>3, <4>4 DEF PlTypeOK, BlockRec
    <3> QED BY <3>1, <3>2, <3>3, <3>4, RefsKeep DEF Waits
  <2> QED BY <1>2, <2>1, <2>2, <2>3, <2>4, <2>5, <2>6, <2>7, <2>8, <2>9 DEF KernelStep, UserStep
<1> QED BY <1>1, <1>2 DEF PlNext

LEMMA RefsInit == PlInit => RefsInv
<1> SUFFICES ASSUME PlInit PROVE RefsInv OBVIOUS
<1> USE DEF PlInit
<1>1. PlTypeOK
  <2>1. /\ \A b \in Block : block[b] = Cleared /\ block = [x \in Block |-> block[x]]
        /\ \A p \in Proc : shared[p] = NoShared /\ shared = [x \in Proc |-> shared[x]]
    OBVIOUS
  <2>2. Cleared \in BlockRec /\ NoShared \in [status : BOOLEAN, sema : 0 .. 1, block : Block \cup {NoBlock}]
    BY NewBlocks DEF NoShared
  <2>3. /\ block \in [Block -> BlockRec]
        /\ shared \in [Proc -> [status : BOOLEAN, sema : 0 .. 1, block : Block \cup {NoBlock}]]
    BY <2>1, <2>2
  <2>4. /\ ppc \in [Proc -> {"unborn", "user"}] /\ arg \in [Proc -> Proc] /\ exitStatus \in [Proc -> Int]
        /\ onFreeList \in [Block -> Nat] /\ children \in [Proc -> SUBSET Block] /\ status \in [Proc -> Int]
        /\ pcRef \in [Proc -> Block \cup {NoBlock}] /\ target \in [Proc -> Block \cup {NoBlock}]
    OBVIOUS
  <2> QED BY <2>3, <2>4 DEF PlTypeOK, BlockRec, Panics
<1>2. StartedRefs /\ CallRefs /\ OneParent /\ NamedLoaded
  BY ProcessAssumption DEF StartedRefs, CallRefs, OneParent, NamedLoaded, Cleared, NoShared, Waits
<1> QED BY <1>1, <1>2 DEF RefsInv

\* Every thread and block is of its type, and what exec reports as started has
\* loaded (process_execute, start_process): whatever else fails.
THEOREM OnlyLoaded == PlSpec => [](PlTypeOK /\ OnlyLoadedChildren)
<1>1. RefsInv => PlTypeOK /\ OnlyLoadedChildren
  BY ProcessAssumption DEF RefsInv, NamedLoaded, OnlyLoadedChildren
<1> QED BY <1>1, RefsInit, RefsStep, PTL DEF PlSpec

-----------------------------------------------------------------------------
(* The protocol of the shared block.                                       *)

\* A block is the current one of one child.
LEMMA OneCurrent ==
  ASSUME RefsInv, ProtocolInv, NEW c \in Proc, NEW d \in Proc, Current(c), Current(d),
         shared[c].block = shared[d].block
  PROVE  c = d
<1>1. ASSUME NEW x \in Proc, NEW y \in Proc, block[shared[x].block].child = x, Starting(y),
             shared[x].block = shared[y].block
      PROVE  FALSE
  <2>1. PICK p \in Proc : ppc[p] = "execWait" /\ arg[p] = y BY <1>1 DEF Starting
  <2>2. target[p] = shared[y].block BY <2>1 DEF RefsInv, CallRefs
  <2>3. block[target[p]].child = NoBlock BY <2>1 DEF ProtocolInv, StartingBlocks
  <2> QED BY <1>1, <2>2, <2>3, ProcessAssumption
<1>2. CASE block[shared[c].block].child = c /\ block[shared[d].block].child = d BY <1>2
<1>3. CASE Starting(c) /\ Starting(d)
  <2>1. PICK p \in Proc : ppc[p] = "execWait" /\ arg[p] = c BY <1>3 DEF Starting
  <2>2. PICK q \in Proc : ppc[q] = "execWait" /\ arg[q] = d BY <1>3 DEF Starting
  <2>3. target[p] = shared[c].block /\ target[q] = shared[d].block BY <2>1, <2>2 DEF RefsInv, CallRefs
  <2>4. p = q BY <2>1, <2>2, <2>3 DEF ProtocolInv, StartingBlocks
  <2> QED BY <2>1, <2>2, <2>4
<1> QED BY <1>1, <1>2, <1>3 DEF Current

\* A child's current block is allocated and its waiters list is good.
LEMMA CurrentBlock ==
  ASSUME RefsInv, ProtocolInv, NEW c \in Proc, c # Root, ppc[c] # "unborn", Current(c)
  PROVE  /\ shared[c].block \in Block /\ onFreeList[shared[c].block] = 0
         /\ block[shared[c].block].waiters
<1>1. shared[c].block \in Block BY DEF RefsInv, StartedRefs
<1>2. CASE block[shared[c].block].child = c
  BY <1>1, <1>2, ProcessAssumption DEF ProtocolInv, NamedBlocks
<1>3. CASE Starting(c)
  <2>1. PICK p \in Proc : ppc[p] = "execWait" /\ arg[p] = c BY <1>3 DEF Starting
  <2>2. target[p] = shared[c].block BY <2>1 DEF RefsInv, CallRefs
  <2> QED BY <1>1, <2>1, <2>2 DEF ProtocolInv, StartingBlocks
<1> QED BY <1>2, <1>3 DEF Current

\* Steps that neither start, name, free nor list a block; they may unlist one.
LEMMA SameBlocks ==
  ASSUME RefsInv, RefsInv', ProtocolInv, UNCHANGED onFreeList, \A q \in Proc : children'[q] \subseteq children[q],
         \A x \in Block : /\ block'[x].child = block[x].child /\ block'[x].waiters = block[x].waiters
                          /\ block'[x].linked = block[x].linked,
         \A q \in Proc : /\ ppc'[q] = "execWait" <=> ppc[q] = "execWait"
                         /\ ppc[q] = "execWait" => arg'[q] = arg[q] /\ target'[q] = target[q]
                         /\ shared'[q].block = shared[q].block
  PROVE  /\ StartingBlocks' /\ ListedBlocks' /\ NamedBlocks' /\ BlockUse'
         /\ \A c \in Proc : Starting(c)' <=> Starting(c)
         /\ \A c \in Proc : c # Root /\ ppc[c] # "unborn" => (Current(c)' <=> Current(c))
<1>1. \A c \in Proc : Starting(c)' <=> Starting(c) BY DEF Starting
<1>2. ASSUME NEW c \in Proc, c # Root, ppc[c] # "unborn" PROVE Current(c)' <=> Current(c)
  <2>1. shared[c].block \in Block BY <1>2 DEF RefsInv, StartedRefs
  <2> QED BY <1>1, <2>1 DEF Current
<1>3. ListedBlocks'
  <2>1. \A p \in Proc : \A b \in children[p] : b \in Block BY DEF RefsInv, PlTypeOK
  <2> QED BY <2>1 DEF ProtocolInv, ListedBlocks
<1>4. NamedBlocks'
  <2> SUFFICES ASSUME NEW b \in Block, block'[b].child # NoBlock
               PROVE  /\ shared'[block'[b].child].block = b /\ onFreeList'[b] = 0
                      /\ block'[b].waiters /\ block'[b].linked
    BY DEF NamedBlocks
  <2>1. block[b].child \in Proc /\ block'[b].child = block[b].child BY TypeFacts DEF RefsInv, BlockRec
  <2>2. /\ shared[block[b].child].block = b /\ onFreeList[b] = 0 /\ block[b].waiters /\ block[b].linked
    BY <2>1 DEF ProtocolInv, NamedBlocks
  <2> QED BY <2>1, <2>2
<1>5. StartingBlocks'
  <2> SUFFICES ASSUME NEW p \in Proc, ppc'[p] = "execWait"
               PROVE  /\ block'[target'[p]].child = NoBlock /\ block'[target'[p]].waiters
                      /\ onFreeList'[target'[p]] = 0
                      /\ \A q \in Proc : target'[p] \notin children'[q]
                      /\ \A q \in Proc : ppc'[q] = "execWait" /\ p # q => target'[p] # target'[q]
    BY DEF StartingBlocks
  <2>1. ppc[p] = "execWait" /\ target'[p] = target[p] OBVIOUS
  <2>2. target[p] \in Block
    <3>1. arg[p] \in Proc /\ arg[p] # Root /\ ppc[arg[p]] # "unborn" /\ target[p] = shared[arg[p]].block
      BY <2>1, TypeFacts DEF RefsInv, CallRefs
    <3> QED BY <3>1 DEF RefsInv, StartedRefs
  <2>3. /\ block[target[p]].child = NoBlock /\ block[target[p]].waiters /\ onFreeList[target[p]] = 0
        /\ \A q \in Proc : target[p] \notin children[q]
    BY <2>1 DEF ProtocolInv, StartingBlocks
  <2>4. ASSUME NEW q \in Proc, ppc'[q] = "execWait", p # q PROVE target'[p] # target'[q]
    BY <2>1, <2>4 DEF ProtocolInv, StartingBlocks
  <2> QED BY <2>1, <2>2, <2>3, <2>4
<1>6. BlockUse' BY DEF ProtocolInv, BlockUse
<1> QED BY <1>1, <1>2, <1>3, <1>4, <1>5, <1>6

WokenPc == {"waitTest", "waitRemove", "waitFree"}

\* The counters of c's block stand when neither they, c nor its parent moved on.
LEMMA CounterKeep ==
  ASSUME NEW c \in Proc, CounterOf(c),
         LET b == block[shared[c].block] bn == block'[shared'[c].block]
         IN  bn.alive = b.alive /\ bn.sema = b.sema /\ bn.status = b.status,
         ppc'[c] \in Exiting <=> ppc[c] \in Exiting, ppc'[c] = "exitUp" <=> ppc[c] = "exitUp",
         ppc[c] \in Exiting => exitStatus'[c] = exitStatus[c],
         \A q \in Proc : ppc[q] \in WokenPc /\ arg[q] = c => ppc'[q] \in WokenPc /\ arg'[q] = c
  PROVE  CounterOf(c)'
BY DEF CounterOf, Exiting, Told, WokenPc

\* A thread moves on without touching a block: start_process, the exit call
\* and kill.
LEMMA ProtocolQuiet ==
  ASSUME RefsInv, RefsInv', ProtocolInv, NEW p \in Proc, p # Root,
         ppc[p] \in {"load", "user"}, ppc'[p] \in {"user", "exitDec"},
         \A q \in Proc \ {p} : ppc'[q] = ppc[q] /\ exitStatus'[q] = exitStatus[q] /\ pcRef'[q] = pcRef[q],
         UNCHANGED <<block, onFreeList, children, arg, target, status, waited, panic>>,
         \A q \in Proc : shared'[q].block = shared[q].block
  PROVE  ProtocolInv'
<1>1. /\ StartingBlocks' /\ ListedBlocks' /\ NamedBlocks' /\ BlockUse'
      /\ \A c \in Proc : Starting(c)' <=> Starting(c)
      /\ \A c \in Proc : c # Root /\ ppc[c] # "unborn" => (Current(c)' <=> Current(c))
  BY SameBlocks
<1>2. FreeBlocks' BY DEF ProtocolInv, FreeBlocks
<1>3. OwnBlock' BY <1>1 DEF ProtocolInv, OwnBlock
<1>4. Counters'
  <2> SUFFICES ASSUME NEW c \in Proc, c # Root, ppc'[c] # "unborn", Current(c)' PROVE CounterOf(c)'
    BY DEF Counters
  <2>1. ppc[c] # "unborn" /\ CounterOf(c) BY <1>1 DEF ProtocolInv, Counters
  <2>2. ppc'[c] \in Exiting <=> ppc[c] \in Exiting BY DEF Exiting
  <2>3. ppc[c] \in Exiting => c # p BY DEF Exiting
  <2>4. \A q \in Proc : ppc[q] \in WokenPc => q # p BY DEF WokenPc
  <2> QED BY <2>1, <2>2, <2>3, <2>4, CounterKeep
<1>5. p \notin {x \in Proc : ppc[x] \in Told} BY DEF Told
<1>6. Waiting'
  <2> SUFFICES ASSUME NEW q \in Proc, ppc'[q] \in {"waitSema", "waitDec"}
               PROVE  /\ target[q] \in children[q] /\ block[target[q]].child = arg[q]
                      /\ ppc'[q] = "waitDec" =>
                           ppc'[arg[q]] \in Told /\ block[target[q]].alive = 1 /\ block[target[q]].sema = 0
    BY DEF Waiting
  <2>1. ppc[q] = ppc'[q] /\ arg[q] \in Proc BY TypeFacts DEF RefsInv
  <2> QED BY <1>5, <2>1 DEF ProtocolInv, Waiting
<1>7. Woken'
  <2> SUFFICES ASSUME NEW q \in Proc, ppc'[q] \in {"waitTest", "waitRemove", "waitFree", "waitReturn"}
               PROVE  /\ ppc'[arg[q]] \in Told /\ exitStatus'[arg[q]] = status[q] /\ <<q, arg[q]>> \in MayExec
                      /\ target[q] = shared'[arg[q]].block /\ arg[q] # Root
                      /\ ~Starting(arg[q])'
                      /\ block[target[q]].child = arg[q] =>
                           /\ ppc'[q] # "waitReturn" /\ block[target[q]].alive = 0
                           /\ \A r \in Proc : target[q] \in children[r] => r = q
    BY DEF Woken, Starting
  <2>1. ppc[q] = ppc'[q] /\ arg[q] \in Proc BY TypeFacts DEF RefsInv
  <2> QED BY <1>1, <1>5, <2>1 DEF ProtocolInv, Woken
<1>8. \A q \in Proc, b \in Block : Freeing(q, b)' <=> Freeing(q, b) BY DEF Freeing
<1>9. Freers' BY <1>8 DEF ProtocolInv, Freers
<1>10. Returned'
  <2> SUFFICES ASSUME NEW w \in waited
               PROVE  /\ ppc'[w[2]] \in Told /\ exitStatus'[w[2]] = w[3] /\ <<w[1], w[2]>> \in MayExec
                      /\ w[2] # Root /\ ~Current(w[2])'
    BY DEF Returned, Current, Starting
  <2>1. w[2] \in Proc BY DEF RefsInv, PlTypeOK
  <2>2. ppc[w[2]] \in Told /\ w[2] # Root BY DEF ProtocolInv, Returned
  <2>3. ppc[w[2]] # "unborn" /\ w[2] # p BY <1>5, <2>1, <2>2 DEF Told
  <2> QED BY <1>1, <2>1, <2>2, <2>3 DEF ProtocolInv, Returned
<1> QED BY <1>1, <1>2, <1>3, <1>4, <1>6, <1>7, <1>9, <1>10 DEF ProtocolInv

\* What no step of one thread takes back: who has told its parent stays told,
\* and statuses that were returned stay true.
LEMMA ReturnedKeep ==
  ASSUME RefsInv, ProtocolInv, UNCHANGED waited,
         \A c \in Proc : ppc[c] \in Told => ppc'[c] \in Told /\ exitStatus'[c] = exitStatus[c],
         \A c \in Proc : c # Root /\ ppc[c] \in Told /\ Current(c)' => Current(c)
  PROVE  Returned'
<1> SUFFICES ASSUME NEW w \in waited
             PROVE  /\ ppc'[w[2]] \in Told /\ exitStatus'[w[2]] = w[3] /\ <<w[1], w[2]>> \in MayExec
                    /\ w[2] # Root /\ ~Current(w[2])'
  BY DEF Returned, Current, Starting
<1>1. w[2] \in Proc BY DEF RefsInv, PlTypeOK
<1> QED BY <1>1 DEF ProtocolInv, Returned

LEMMA WaitingKeep ==
  ASSUME RefsInv, ProtocolInv, NEW q \in Proc, ppc[q] \in {"waitSema", "waitDec"},
         ppc'[q] = ppc[q], arg'[q] = arg[q], target'[q] = target[q], target[q] \in children'[q],
         block'[target[q]].child = block[target[q]].child,
         ppc[q] = "waitDec" => /\ block'[target[q]].alive = block[target[q]].alive
                               /\ block'[target[q]].sema = block[target[q]].sema,
         \A c \in Proc : ppc[c] \in Told => ppc'[c] \in Told
  PROVE  /\ target'[q] \in children'[q] /\ block'[target'[q]].child = arg'[q]
         /\ ppc'[q] = "waitDec" =>
              ppc'[arg'[q]] \in Told /\ block'[target'[q]].alive = 1 /\ block'[target'[q]].sema = 0
<1>1. arg[q] \in Proc BY TypeFacts DEF RefsInv
<1> QED BY <1>1 DEF ProtocolInv, Waiting

\* What a woken parent knows stays true while its block is left alone.
WokenOf(q) ==
  /\ ppc[arg[q]] \in Told /\ exitStatus[arg[q]] = status[q] /\ <<q, arg[q]>> \in MayExec
  /\ target[q] = shared[arg[q]].block /\ arg[q] # Root
  /\ ~Starting(arg[q])
  /\ block[target[q]].child = arg[q] =>
       /\ ppc[q] # "waitReturn" /\ block[target[q]].alive = 0
       /\ \A r \in Proc : target[q] \in children[r] => r = q

LEMMA WokenKeep ==
  ASSUME RefsInv, ProtocolInv, NEW q \in Proc,
         ppc[q] \in {"waitTest", "waitRemove", "waitFree", "waitReturn"},
         ppc'[q] = ppc[q], arg'[q] = arg[q], target'[q] = target[q], status'[q] = status[q],
         block'[target[q]].child = arg[q] =>
            /\ block[target[q]].child = arg[q] /\ block'[target[q]].alive = block[target[q]].alive
            /\ \A r \in Proc : target[q] \in children'[r] => target[q] \in children[r],
         \A c \in Proc : ppc[c] \in Told => /\ ppc'[c] \in Told /\ exitStatus'[c] = exitStatus[c]
                                            /\ Starting(c)' => Starting(c)
                                            /\ shared'[c].block = shared[c].block
  PROVE  WokenOf(q)'
<1>1. arg[q] \in Proc BY TypeFacts DEF RefsInv
<1>2. WokenOf(q) BY DEF ProtocolInv, Woken, WokenOf
<1>3. /\ ppc'[arg'[q]] \in Told /\ exitStatus'[arg'[q]] = status'[q] /\ <<q, arg'[q]>> \in MayExec
      /\ target'[q] = shared'[arg'[q]].block /\ arg'[q] # Root
  BY <1>1, <1>2 DEF WokenOf
<1>4. ~Starting(arg[q])' BY <1>1, <1>2 DEF WokenOf, Starting
<1>5. block'[target'[q]].child = arg'[q] =>
        /\ ppc'[q] # "waitReturn" /\ block'[target'[q]].alive = 0
        /\ \A r \in Proc : target'[q] \in children'[r] => r = q
  BY <1>2 DEF WokenOf
<1> QED BY <1>3, <1>4, <1>5 DEF WokenOf

\* A wait finds its child.
LEMMA ProtocolWait ==
  ASSUME RefsInv, RefsInv', ProtocolInv, NEW p \in Proc, NEW t \in Proc, Wait(p, t)
  PROVE  ProtocolInv'
<1>0. PICK b \in children[p] : block[b].child = t /\ target' = [target EXCEPT ![p] = b] BY DEF Wait
<1>1. /\ ppc[p] = "user" /\ ppc'[p] = "waitSema" /\ arg'[p] = t /\ target'[p] = b
      /\ \A q \in Proc \ {p} : ppc'[q] = ppc[q] /\ arg'[q] = arg[q] /\ target'[q] = target[q]
      /\ UNCHANGED <<block, onFreeList, children, pcRef, exitStatus, shared, status, waited, panic>>
  BY <1>0 DEF Wait, At, PlGoto, RefsInv, PlTypeOK
<1>2. /\ StartingBlocks' /\ ListedBlocks' /\ NamedBlocks' /\ BlockUse'
      /\ \A c \in Proc : Starting(c)' <=> Starting(c)
      /\ \A c \in Proc : c # Root /\ ppc[c] # "unborn" => (Current(c)' <=> Current(c))
  BY <1>1, SameBlocks
<1>3. FreeBlocks' BY <1>1 DEF ProtocolInv, FreeBlocks
<1>4. OwnBlock' BY <1>1, <1>2 DEF ProtocolInv, OwnBlock
<1>5. Counters'
  <2> SUFFICES ASSUME NEW c \in Proc, c # Root, ppc'[c] # "unborn", Current(c)' PROVE CounterOf(c)'
    BY DEF Counters
  <2>1. ppc[c] # "unborn" /\ CounterOf(c) BY <1>1, <1>2 DEF ProtocolInv, Counters
  <2>2. ppc'[c] \in Exiting <=> ppc[c] \in Exiting BY <1>1 DEF Exiting
  <2>3. \A q \in Proc : ppc[q] \in WokenPc => q # p BY <1>1 DEF WokenPc
  <2> QED BY <1>1, <2>1, <2>2, <2>3, CounterKeep
<1>6. \A c \in Proc : ppc[c] \in Told => c # p /\ ppc'[c] \in Told BY <1>1 DEF Told
<1>7. Waiting'
  <2> SUFFICES ASSUME NEW q \in Proc, ppc'[q] \in {"waitSema", "waitDec"}
               PROVE  /\ target'[q] \in children'[q] /\ block'[target'[q]].child = arg'[q]
                      /\ ppc'[q] = "waitDec" =>
                           ppc'[arg'[q]] \in Told /\ block'[target'[q]].alive = 1 /\ block'[target'[q]].sema = 0
    BY DEF Waiting
  <2>1. CASE q = p BY <1>0, <1>1, <2>1
  <2>2. CASE q # p
    <3>1. ppc[q] = ppc'[q] /\ target[q] \in children'[q] BY <1>1, <2>2 DEF ProtocolInv, Waiting
    <3> QED BY <1>1, <1>6, <2>2, <3>1, WaitingKeep
  <2> QED BY <2>1, <2>2
<1>8. Woken'
  <2> SUFFICES ASSUME NEW q \in Proc, ppc'[q] \in {"waitTest", "waitRemove", "waitFree", "waitReturn"}
               PROVE  WokenOf(q)'
    BY DEF Woken, WokenOf
  <2>1. q # p BY <1>1
  <2> QED BY <1>1, <1>2, <1>6, <2>1, WokenKeep
<1>9. Freers'
  <2>1. \A q \in Proc, x \in Block : Freeing(q, x)' <=> Freeing(q, x) BY <1>1 DEF Freeing
  <2> QED BY <1>1, <2>1 DEF ProtocolInv, Freers
<1>10. Returned'
  <2>1. \A c \in Proc : ppc[c] \in Told => ppc[c] # "unborn" BY DEF Told
  <2> QED BY <1>1, <1>2, <1>6, <2>1, ReturnedKeep
<1> QED BY <1>1, <1>2, <1>3, <1>4, <1>5, <1>7, <1>8, <1>9, <1>10 DEF ProtocolInv

\* What a parent in process_wait knows of its child's block.
LEMMA WaitedBlock ==
  ASSUME RefsInv, ProtocolInv, NEW p \in Proc, ppc[p] \in {"waitSema", "waitDec"}
  PROVE  /\ target[p] \in Block /\ arg[p] \in Proc /\ arg[p] # Root /\ shared[arg[p]].block = target[p]
         /\ ppc[arg[p]] \notin {"unborn", "load"} /\ Current(arg[p]) /\ CounterOf(arg[p])
         /\ <<p, arg[p]>> \in MayExec /\ block[target[p]].waiters /\ onFreeList[target[p]] = 0
         /\ \A q \in Proc : target[p] \in children[q] => q = p
         /\ ~Starting(arg[p])
<1>1. target[p] \in children[p] /\ block[target[p]].child = arg[p] BY DEF ProtocolInv, Waiting
<1>2. target[p] \in Block /\ arg[p] \in Proc BY <1>1, TypeFacts DEF RefsInv, PlTypeOK
<1>3. arg[p] # NoBlock BY <1>2, ProcessAssumption
<1>4. arg[p] # Root /\ ppc[arg[p]] \notin {"unborn", "load"} BY <1>1, <1>2, <1>3 DEF RefsInv, NamedLoaded
<1>5. shared[arg[p]].block = target[p] /\ block[target[p]].waiters /\ onFreeList[target[p]] = 0
  BY <1>1, <1>2, <1>3 DEF ProtocolInv, NamedBlocks
<1>6. Current(arg[p]) BY <1>1, <1>5 DEF Current
<1>7. CounterOf(arg[p]) BY <1>2, <1>4, <1>6 DEF ProtocolInv, Counters
<1>8. <<p, arg[p]>> \in MayExec /\ \A q \in Proc : target[p] \in children[q] => q = p
  BY <1>1 DEF ProtocolInv, ListedBlocks
<1>9. ~Starting(arg[p])
  <2> SUFFICES ASSUME NEW q \in Proc, ppc[q] = "execWait", arg[q] = arg[p] PROVE FALSE BY DEF Starting
  <2>1. target[q] = target[p] BY <1>5 DEF RefsInv, CallRefs
  <2>2. block[target[q]].child = NoBlock BY DEF ProtocolInv, StartingBlocks
  <2> QED BY <1>1, <1>3, <2>1, <2>2
<1> QED BY <1>2, <1>4, <1>5, <1>6, <1>7, <1>8, <1>9

\* Only the child waited for has the block of a parent in process_wait.
LEMMA WaitedAlone ==
  ASSUME RefsInv, ProtocolInv, NEW p \in Proc, ppc[p] \in {"waitSema", "waitDec"},
         NEW c \in Proc, Current(c), c # arg[p]
  PROVE  shared[c].block # target[p]
BY WaitedBlock, OneCurrent

\* A write to a block's counters, as what it leaves alone.
CountersOnly(b) ==
  /\ \A x \in Block \ {b} : block'[x] = block[x]
  /\ block'[b].child = block[b].child /\ block'[b].waiters = block[b].waiters
  /\ block'[b].linked = block[b].linked

\* sema_down of process_wait
LEMMA ProtocolWaitSema ==
  ASSUME RefsInv, RefsInv', ProtocolInv, NEW p \in Proc, WaitSema(p)
  PROVE  ProtocolInv'
<1> DEFINE b == target[p]
           t == arg[p]
<1>1. /\ ppc[p] = "waitSema" /\ ppc'[p] = "waitDec" /\ block[b].sema > 0
      /\ block' = [block EXCEPT ![b].sema = @ - 1]
      /\ \A q \in Proc \ {p} : ppc'[q] = ppc[q]
      /\ UNCHANGED <<onFreeList, children, pcRef, exitStatus, shared, arg, target, status, waited, panic>>
  BY DEF WaitSema, At, PlGoto, RefsInv, PlTypeOK
<1>2. /\ b \in Block /\ t \in Proc /\ shared[t].block = b /\ CounterOf(t) /\ onFreeList[b] = 0
      /\ t # Root /\ ppc[t] # "unborn"
      /\ \A q \in Proc : b \in children[q] => q = p
  BY <1>1, WaitedBlock
<1>3. block[b].sema \in Nat /\ block[b].alive \in Int BY <1>2, TypeFacts DEF RefsInv, BlockRec
<1>4. ppc[t] \in Told /\ block[b].sema = 1 /\ block[b].alive = 1
  BY <1>1, <1>2, <1>3 DEF CounterOf, Told, Exiting, RefsInv, PlTypeOK
<1>5. /\ CountersOnly(b) /\ block'[b].sema = 0 /\ block'[b].alive = 1 /\ block'[b].status = block[b].status
  <2>1. block' = [block EXCEPT ![b] = [block[b] EXCEPT !.sema = block[b].sema - 1]]
    BY <1>1 DEF RefsInv, PlTypeOK
  <2>2. block'[b] = [block[b] EXCEPT !.sema = 0] /\ \A x \in Block \ {b} : block'[x] = block[x]
    BY <1>2, <1>4, <2>1, TypeFacts DEF RefsInv
  <2> QED BY <1>2, <1>4, <2>2, TypeFacts, WriteSema DEF RefsInv, CountersOnly
<1> HIDE DEF b, t
<1>6. /\ StartingBlocks' /\ ListedBlocks' /\ NamedBlocks' /\ BlockUse'
      /\ \A c \in Proc : Starting(c)' <=> Starting(c)
      /\ \A c \in Proc : c # Root /\ ppc[c] # "unborn" => (Current(c)' <=> Current(c))
  BY <1>1, <1>5, SameBlocks DEF CountersOnly
<1>7. FreeBlocks' BY <1>1, <1>2, <1>5 DEF ProtocolInv, FreeBlocks, CountersOnly
<1>8. OwnBlock' BY <1>1, <1>6 DEF ProtocolInv, OwnBlock
<1>9. Counters'
  <2> SUFFICES ASSUME NEW c \in Proc, c # Root, ppc'[c] # "unborn", Current(c)' PROVE CounterOf(c)'
    BY DEF Counters
  <2>1. ppc[c] # "unborn" /\ Current(c) /\ CounterOf(c) BY <1>1, <1>6 DEF ProtocolInv, Counters
  <2>2. CASE c = t
    <3>1. ppc'[t] \in Told BY <1>1, <1>2, <1>4 DEF Told
    <3> QED BY <1>1, <1>2, <1>4, <1>5, <2>2, <3>1 DEF CounterOf, Told, Exiting
  <2>3. CASE c # t
    <3>1. shared[c].block \in Block /\ shared[c].block # b
      BY <1>1, <2>1, <2>3, WaitedAlone, CurrentBlock DEF b, t
    <3>2. block'[shared'[c].block] = block[shared[c].block] BY <1>1, <1>5, <3>1 DEF CountersOnly
    <3>3. (ppc'[c] \in Exiting <=> ppc[c] \in Exiting) /\ (ppc'[c] = "exitUp" <=> ppc[c] = "exitUp")
      BY <1>1 DEF Exiting
    <3>4. \A q \in Proc : ppc[q] \in WokenPc => q # p BY <1>1 DEF WokenPc
    <3> QED BY <1>1, <2>1, <3>2, <3>3, <3>4, CounterKeep
  <2> QED BY <2>2, <2>3
<1>10. \A c \in Proc : ppc[c] \in Told => c # p /\ ppc'[c] \in Told BY <1>1 DEF Told
<1>11. Waiting'
  <2> SUFFICES ASSUME NEW q \in Proc, ppc'[q] \in {"waitSema", "waitDec"}
               PROVE  /\ target'[q] \in children'[q] /\ block'[target'[q]].child = arg'[q]
                      /\ ppc'[q] = "waitDec" =>
                           ppc'[arg'[q]] \in Told /\ block'[target'[q]].alive = 1 /\ block'[target'[q]].sema = 0
    BY DEF Waiting
  <2>1. CASE q = p
    BY <1>1, <1>4, <1>5, <1>10, <2>1, <1>2 DEF ProtocolInv, Waiting, b, t, CountersOnly
  <2>2. CASE q # p
    <3>1. ppc[q] = ppc'[q] /\ target[q] \in children[q] BY <1>1, <2>2 DEF ProtocolInv, Waiting
    <3>2. target[q] # b /\ target[q] \in Block BY <1>2, <2>2, <3>1 DEF RefsInv, PlTypeOK
    <3> QED BY <1>1, <1>5, <1>10, <2>2, <3>1, <3>2, WaitingKeep DEF CountersOnly
  <2> QED BY <2>1, <2>2
<1>12. Woken'
  <2> SUFFICES ASSUME NEW q \in Proc, ppc'[q] \in {"waitTest", "waitRemove", "waitFree", "waitReturn"}
               PROVE  WokenOf(q)'
    BY DEF Woken, WokenOf
  <2>1. q # p /\ ppc[q] = ppc'[q] BY <1>1
  <2>2. target[q] \in Block BY <2>1 DEF RefsInv, CallRefs, Waits
  <2>3. block'[target[q]].child = block[target[q]].child /\ block'[target[q]].alive = block[target[q]].alive
    BY <1>4, <1>5, <2>2 DEF CountersOnly
  <2> QED BY <1>1, <1>6, <1>10, <2>1, <2>3, WokenKeep
<1>13. Freers'
  <2>1. \A q \in Proc, x \in Block : Freeing(q, x)' <=> Freeing(q, x) BY <1>1 DEF Freeing
  <2>2. \A x \in Block : block'[x].child = block[x].child /\ block'[x].alive = block[x].alive
    BY <1>4, <1>5 DEF CountersOnly
  <2> QED BY <1>1, <2>1, <2>2 DEF ProtocolInv, Freers
<1>14. Returned'
  <2>1. \A c \in Proc : ppc[c] \in Told => ppc[c] # "unborn" BY DEF Told
  <2> QED BY <1>1, <1>6, <1>10, <2>1, ReturnedKeep
<1> QED BY <1>1, <1>6, <1>7, <1>8, <1>9, <1>11, <1>12, <1>13, <1>14 DEF ProtocolInv

\* the parent counts itself out
LEMMA ProtocolWaitDec ==
  ASSUME RefsInv, RefsInv', ProtocolInv, NEW p \in Proc, WaitDec(p)
  PROVE  ProtocolInv'
<1> DEFINE b == target[p]
           t == arg[p]
<1>1. /\ ppc[p] = "waitDec" /\ ppc'[p] = "waitTest" /\ status'[p] = block[b].status
      /\ block' = [block EXCEPT ![b].alive = @ - 1] /\ panic' = IF block[b].waiters THEN "no" ELSE "freed"
      /\ \A q \in Proc \ {p} : ppc'[q] = ppc[q] /\ status'[q] = status[q]
      /\ UNCHANGED <<onFreeList, children, pcRef, exitStatus, shared, arg, target, waited>>
  BY DEF WaitDec, At, PlGoto, RefsInv, PlTypeOK
<1>2. /\ b \in Block /\ t \in Proc /\ shared[t].block = b /\ CounterOf(t) /\ onFreeList[b] = 0
      /\ t # Root /\ ppc[t] # "unborn" /\ <<p, t>> \in MayExec /\ block[b].waiters /\ ~Starting(t)
      /\ \A q \in Proc : b \in children[q] => q = p
  BY <1>1, WaitedBlock
<1>3. ppc[t] \in Told /\ block[b].sema = 0 /\ block[b].alive = 1 BY <1>1 DEF ProtocolInv, Waiting
<1>4. /\ CountersOnly(b) /\ block'[b].sema = 0 /\ block'[b].alive = 0 /\ block'[b].status = block[b].status
  <2>1. block' = [block EXCEPT ![b] = [block[b] EXCEPT !.alive = block[b].alive - 1]]
    BY <1>1 DEF RefsInv, PlTypeOK
  <2>2. block'[b] = [block[b] EXCEPT !.alive = 0] /\ \A x \in Block \ {b} : block'[x] = block[x]
    BY <1>2, <1>3, <2>1, TypeFacts DEF RefsInv
  <2>3. block[b] \in BlockRec BY <1>2, TypeFacts DEF RefsInv
  <2> QED BY <1>3, <2>2, <2>3, WriteAlive DEF CountersOnly
<1>5. panic' # "freed" BY <1>1, <1>2
<1>6. exitStatus[t] = block[b].status BY <1>2, <1>3 DEF CounterOf
<1> HIDE DEF b, t
<1>7. /\ StartingBlocks' /\ ListedBlocks' /\ NamedBlocks' /\ BlockUse'
      /\ \A c \in Proc : Starting(c)' <=> Starting(c)
      /\ \A c \in Proc : c # Root /\ ppc[c] # "unborn" => (Current(c)' <=> Current(c))
  BY <1>1, <1>4, SameBlocks DEF CountersOnly
<1>8. FreeBlocks' BY <1>1, <1>2, <1>4 DEF ProtocolInv, FreeBlocks, CountersOnly
<1>9. OwnBlock' BY <1>1, <1>7 DEF ProtocolInv, OwnBlock
<1>10. \A c \in Proc : ppc[c] \in Told => c # p /\ ppc'[c] \in Told BY <1>1 DEF Told
<1>11. Counters'
  <2> SUFFICES ASSUME NEW c \in Proc, c # Root, ppc'[c] # "unborn", Current(c)' PROVE CounterOf(c)'
    BY DEF Counters
  <2>1. ppc[c] # "unborn" /\ Current(c) /\ CounterOf(c) BY <1>1, <1>7 DEF ProtocolInv, Counters
  <2>2. CASE c = t
    <3>1. ppc'[t] \in Told BY <1>2, <1>3, <1>10
    <3>2. \E q \in Proc : ppc'[q] \in {"waitTest", "waitRemove", "waitFree"} /\ arg'[q] = t BY <1>1 DEF t
    <3> QED BY <1>1, <1>2, <1>4, <1>6, <2>2, <3>1, <3>2 DEF CounterOf, Told, Exiting
  <2>3. CASE c # t
    <3>1. shared[c].block \in Block /\ shared[c].block # b
      BY <1>1, <2>1, <2>3, WaitedAlone, CurrentBlock DEF b, t
    <3>2. block'[shared'[c].block] = block[shared[c].block] BY <1>1, <1>4, <3>1 DEF CountersOnly
    <3>3. (ppc'[c] \in Exiting <=> ppc[c] \in Exiting) /\ (ppc'[c] = "exitUp" <=> ppc[c] = "exitUp")
      BY <1>1 DEF Exiting
    <3>4. \A q \in Proc : ppc[q] \in WokenPc => q # p BY <1>1 DEF WokenPc
    <3> QED BY <1>1, <2>1, <3>2, <3>3, <3>4, CounterKeep
  <2> QED BY <2>2, <2>3
<1>12. Waiting'
  <2> SUFFICES ASSUME NEW q \in Proc, ppc'[q] \in {"waitSema", "waitDec"}
               PROVE  /\ target'[q] \in children'[q] /\ block'[target'[q]].child = arg'[q]
                      /\ ppc'[q] = "waitDec" =>
                           ppc'[arg'[q]] \in Told /\ block'[target'[q]].alive = 1 /\ block'[target'[q]].sema = 0
    BY DEF Waiting
  <2>1. q # p BY <1>1
  <2>2. ppc[q] = ppc'[q] /\ target[q] \in children[q] BY <1>1, <2>1 DEF ProtocolInv, Waiting
  <2>3. target[q] # b /\ target[q] \in Block BY <1>2, <2>1, <2>2 DEF RefsInv, PlTypeOK
  <2> QED BY <1>1, <1>4, <1>10, <2>1, <2>2, <2>3, WaitingKeep DEF CountersOnly
<1>13. Woken'
  <2> SUFFICES ASSUME NEW q \in Proc, ppc'[q] \in {"waitTest", "waitRemove", "waitFree", "waitReturn"}
               PROVE  WokenOf(q)'
    BY DEF Woken, WokenOf
  <2>1. CASE q = p
    <3>1. ~Starting(arg[p])' BY <1>1, <1>2, <1>7 DEF t, Starting
    <3>2. ppc'[t] \in Told BY <1>2, <1>3, <1>10
    <3> QED BY <1>1, <1>2, <1>4, <1>6, <2>1, <3>1, <3>2 DEF WokenOf, b, t
  <2>2. CASE q # p
    <3>1. ppc[q] = ppc'[q] BY <1>1, <2>2
    <3>2. target[q] \in Block BY <3>1 DEF RefsInv, CallRefs, Waits
    <3>3. block[target[q]].child = arg[q] => block[target[q]].alive = 0 BY <3>1 DEF ProtocolInv, Woken
    <3>4. block'[target[q]].child = block[target[q]].child BY <1>4, <3>2 DEF CountersOnly
    <3>5. block[target[q]].child = arg[q] => block'[target[q]].alive = block[target[q]].alive
      BY <1>3, <1>4, <3>2, <3>3 DEF CountersOnly, b
    <3> QED BY <1>1, <1>7, <1>10, <2>2, <3>1, <3>4, <3>5, WokenKeep
  <2> QED BY <2>1, <2>2
<1>14. Freers'
  <2>1. \A q \in Proc, x \in Block : Freeing(q, x)' <=> Freeing(q, x) BY <1>1 DEF Freeing
  <2>2. \A q \in Proc, x \in Block : Freeing(q, x) => x # b BY <1>2, <1>3 DEF ProtocolInv, Freers, b
  <2>3. \A q \in Proc, x \in Block : Freeing(q, x) => block'[x] = block[x] BY <1>4, <2>2 DEF CountersOnly
  <2> QED BY ZenonT(40), <1>1, <2>1, <2>3 DEF ProtocolInv, Freers
<1>15. Returned'
  <2>1. \A c \in Proc : ppc[c] \in Told => ppc[c] # "unborn" BY DEF Told
  <2> QED BY <1>1, <1>7, <1>10, <2>1, ReturnedKeep
<1> QED BY <1>5, <1>7, <1>8, <1>9, <1>11, <1>12, <1>13, <1>14, <1>15 DEF ProtocolInv

\* A block with a zero count names its child.
LEMMA ZeroNamed ==
  ASSUME RefsInv, ProtocolInv, NEW b \in Block, block[b].alive = 0
  PROVE  block[b].child # NoBlock
<1>1. onFreeList[b] = 0 BY DEF ProtocolInv, FreeBlocks
<1>2. ASSUME NEW p \in Proc, ppc[p] = "execWait", target[p] = b PROVE FALSE
  <2> DEFINE c == arg[p]
  <2>1. c \in Proc /\ c # Root /\ ppc[c] # "unborn" /\ shared[c].block = b /\ Starting(c)
    BY <1>2, TypeFacts DEF RefsInv, CallRefs, Starting
  <2>2. CounterOf(c) BY <2>1 DEF ProtocolInv, Counters, Current
  <2> HIDE DEF c
  <2>3. PICK q \in Proc : ppc[q] \in {"waitTest", "waitRemove", "waitFree"} /\ arg[q] = c
    BY <2>1, <2>2 DEF CounterOf, Exiting, Told, RefsInv, PlTypeOK
  <2>4. ~Starting(arg[q]) BY <2>3 DEF ProtocolInv, Woken
  <2> QED BY <2>1, <2>3, <2>4
<1> QED BY <1>1, <1>2 DEF ProtocolInv, BlockUse

\* The test of alive_count, by either side.  Its zero was not found before.
LEMMA ProtocolTest ==
  ASSUME RefsInv, RefsInv', ProtocolInv, NEW p \in Proc, NEW b \in Block, ~Races(b),
         \/ /\ ppc[p] = "waitTest" /\ b = target[p]
            /\ ppc'[p] = IF block[b].alive = 0 THEN "waitRemove" ELSE "waitReturn"
         \/ /\ ppc[p] = "exitTest" /\ b = pcRef[p]
            /\ ppc'[p] = IF block[b].alive = 0 THEN "exitRemove" ELSE "dead",
         \A q \in Proc \ {p} : ppc'[q] = ppc[q],
         UNCHANGED <<block, onFreeList, children, pcRef, exitStatus, shared, arg, target, status, waited, panic>>
  PROVE  ProtocolInv'
<1>1. /\ StartingBlocks' /\ ListedBlocks' /\ NamedBlocks' /\ BlockUse'
      /\ \A c \in Proc : Starting(c)' <=> Starting(c)
      /\ \A c \in Proc : c # Root /\ ppc[c] # "unborn" => (Current(c)' <=> Current(c))
  BY SameBlocks
<1>2. FreeBlocks' BY DEF ProtocolInv, FreeBlocks
<1>3. OwnBlock' BY <1>1 DEF ProtocolInv, OwnBlock
<1>4. \A c \in Proc : ppc[c] \in Told => ppc'[c] \in Told BY DEF Told
<1>5. ASSUME NEW q \in Proc, ppc'[q] \in {"waitTest", "waitRemove", "waitFree", "waitReturn"}
      PROVE  WokenOf(q)'
  <2>1. CASE q # p BY <1>1, <1>4, <1>5, <2>1, WokenKeep
  <2>2. CASE q = p
    <3>1. ppc[p] = "waitTest" /\ b = target[p] /\ arg[p] \in Proc BY <1>5, <2>2, TypeFacts DEF RefsInv
    <3>2. WokenOf(p) BY <3>1 DEF ProtocolInv, Woken, WokenOf
    <3>3. block[b].child = arg[p] => ppc'[p] # "waitReturn" BY <3>1, <3>2 DEF WokenOf
    <3>4. ~Starting(arg[p])' BY <1>1, <3>1, <3>2 DEF WokenOf, Starting
    <3> QED BY <1>4, <2>2, <3>1, <3>2, <3>3, <3>4 DEF WokenOf
  <2> QED BY <2>1, <2>2
<1>6. Woken' BY <1>5 DEF Woken, WokenOf
<1>7. Counters'
  <2> SUFFICES ASSUME NEW c \in Proc, c # Root, ppc'[c] # "unborn", Current(c)' PROVE CounterOf(c)'
    BY DEF Counters
  <2>1. ppc[c] # "unborn" /\ Current(c) /\ CounterOf(c) BY <1>1 DEF ProtocolInv, Counters
  <2>2. (ppc'[c] \in Exiting <=> ppc[c] \in Exiting) /\ (ppc'[c] = "exitUp" <=> ppc[c] = "exitUp")
    BY DEF Exiting
  <2>3. ASSUME NEW q \in Proc, ppc[q] \in WokenPc, arg[q] = c PROVE ppc'[q] \in WokenPc
    <3>1. CASE q # p BY <2>3, <3>1
    <3>2. CASE q = p
      <4>1. ppc[p] = "waitTest" /\ b = target[p] BY <2>3, <3>2 DEF WokenPc
      <4>2. WokenOf(p) BY <4>1 DEF ProtocolInv, Woken, WokenOf
      <4>3. block[b].child = c BY <2>1, <2>3, <3>2, <4>1, <4>2 DEF WokenOf, Current
      <4> QED BY <2>3, <3>2, <4>1, <4>2, <4>3 DEF WokenOf, WokenPc
    <3> QED BY <3>1, <3>2
  <2> QED BY <2>1, <2>2, <2>3, CounterKeep
<1>8. Waiting'
  <2> SUFFICES ASSUME NEW q \in Proc, ppc'[q] \in {"waitSema", "waitDec"}
               PROVE  /\ target'[q] \in children'[q] /\ block'[target'[q]].child = arg'[q]
                      /\ ppc'[q] = "waitDec" =>
                           ppc'[arg'[q]] \in Told /\ block'[target'[q]].alive = 1 /\ block'[target'[q]].sema = 0
    BY DEF Waiting
  <2>1. q # p /\ ppc'[q] = ppc[q] OBVIOUS
  <2>2. target[q] \in children[q] BY <2>1 DEF ProtocolInv, Waiting
  <2> QED BY <1>4, <2>1, <2>2, WaitingKeep
<1>9. Freers'
  <2>1. ASSUME NEW q \in Proc, NEW x \in Block, Freeing(q, x)'
        PROVE  Freeing(q, x) \/ (q = p /\ x = b /\ block[b].alive = 0)
    BY <2>1 DEF Freeing
  <2>2. ASSUME block[b].alive = 0, NEW r \in Proc, Freeing(r, b) PROVE FALSE BY <2>2 DEF Races
  <2>3. \A x \in Block : ~Freeing(p, x) BY DEF Freeing
  <2>4. ASSUME NEW q \in Proc, NEW x \in Block, Freeing(q, x)'
        PROVE  /\ block'[x].child # NoBlock /\ block'[x].alive = 0
               /\ \A r \in Proc : Freeing(r, x)' => r = q
               /\ ppc'[q] \in {"waitFree", "exitFree"} => \A r \in Proc : x \notin children'[r]
    <3>1. CASE Freeing(q, x)
      <4>1. q # p /\ ppc'[q] = ppc[q] BY <2>3, <3>1
      <4>2. \A r \in Proc : Freeing(r, x) => r = q BY <3>1 DEF ProtocolInv, Freers
      <4>3. \A r \in Proc : Freeing(r, x)' => r = q BY <2>1, <2>2, <3>1, <4>2
      <4> QED BY <3>1, <4>1, <4>3 DEF ProtocolInv, Freers
    <3>2. CASE q = p /\ x = b /\ block[b].alive = 0
      <4>1. \A r \in Proc : Freeing(r, x)' => r = q BY <2>1, <2>2, <3>2
      <4>2. block[b].child # NoBlock BY <3>2, ZeroNamed
      <4> QED BY <3>2, <4>1, <4>2
    <3> QED BY <2>1, <2>4, <3>1, <3>2
  <2> QED BY <2>4 DEF Freers
<1>10. Returned'
  <2>1. \A c \in Proc : ppc[c] \in Told => ppc[c] # "unborn" BY DEF Told
  <2> QED BY <1>1, <1>4, <2>1, ReturnedKeep
<1> QED BY <1>1, <1>2, <1>3, <1>6, <1>7, <1>8, <1>9, <1>10 DEF ProtocolInv

\* process_wait returns what it read.
LEMMA ProtocolReturn ==
  ASSUME RefsInv, RefsInv', ProtocolInv, NEW p \in Proc, WaitReturn(p)
  PROVE  ProtocolInv'
<1>1. /\ ppc[p] = "waitReturn" /\ ppc'[p] = "user" /\ \A q \in Proc \ {p} : ppc'[q] = ppc[q]
      /\ waited' = waited \cup {<<p, arg[p], status[p]>>}
      /\ UNCHANGED <<block, onFreeList, children, pcRef, exitStatus, shared, arg, target, status, panic>>
  BY DEF WaitReturn, At, PlGoto, RefsInv, PlTypeOK
<1>2. /\ StartingBlocks' /\ ListedBlocks' /\ NamedBlocks' /\ BlockUse'
      /\ \A c \in Proc : Starting(c)' <=> Starting(c)
      /\ \A c \in Proc : c # Root /\ ppc[c] # "unborn" => (Current(c)' <=> Current(c))
  BY <1>1, SameBlocks
<1>3. FreeBlocks' BY <1>1 DEF ProtocolInv, FreeBlocks
<1>4. OwnBlock' BY <1>1, <1>2 DEF ProtocolInv, OwnBlock
<1>5. \A c \in Proc : ppc[c] \in Told => ppc'[c] \in Told /\ c # p BY <1>1 DEF Told
<1>6. Counters'
  <2> SUFFICES ASSUME NEW c \in Proc, c # Root, ppc'[c] # "unborn", Current(c)' PROVE CounterOf(c)'
    BY DEF Counters
  <2>1. ppc[c] # "unborn" /\ CounterOf(c) BY <1>1, <1>2 DEF ProtocolInv, Counters
  <2>2. (ppc'[c] \in Exiting <=> ppc[c] \in Exiting) /\ (ppc'[c] = "exitUp" <=> ppc[c] = "exitUp")
    BY <1>1 DEF Exiting
  <2>3. \A q \in Proc : ppc[q] \in WokenPc => q # p BY <1>1 DEF WokenPc
  <2> QED BY <1>1, <2>1, <2>2, <2>3, CounterKeep
<1>7. Waiting'
  <2> SUFFICES ASSUME NEW q \in Proc, ppc'[q] \in {"waitSema", "waitDec"}
               PROVE  /\ target'[q] \in children'[q] /\ block'[target'[q]].child = arg'[q]
                      /\ ppc'[q] = "waitDec" =>
                           ppc'[arg'[q]] \in Told /\ block'[target'[q]].alive = 1 /\ block'[target'[q]].sema = 0
    BY DEF Waiting
  <2>1. q # p /\ ppc'[q] = ppc[q] BY <1>1
  <2>2. target[q] \in children[q] BY <2>1 DEF ProtocolInv, Waiting
  <2> QED BY <1>1, <1>5, <2>1, <2>2, WaitingKeep
<1>8. Woken'
  <2> SUFFICES ASSUME NEW q \in Proc, ppc'[q] \in {"waitTest", "waitRemove", "waitFree", "waitReturn"}
               PROVE  WokenOf(q)'
    BY DEF Woken, WokenOf
  <2>1. q # p /\ ppc'[q] = ppc[q] BY <1>1
  <2> QED BY <1>1, <1>2, <1>5, <2>1, WokenKeep
<1>9. Freers'
  <2>1. \A q \in Proc, x \in Block : Freeing(q, x)' <=> Freeing(q, x) BY <1>1 DEF Freeing
  <2>2. \A x \in Block : ~Freeing(p, x) BY <1>1 DEF Freeing
  <2> QED BY <1>1, <2>1, <2>2 DEF ProtocolInv, Freers
<1>10. Returned'
  <2> SUFFICES ASSUME NEW w \in waited'
               PROVE  /\ ppc'[w[2]] \in Told /\ exitStatus'[w[2]] = w[3] /\ <<w[1], w[2]>> \in MayExec
                      /\ w[2] # Root /\ ~Current(w[2])'
    BY DEF Returned, Current, Starting
  <2>1. w[2] \in Proc /\ arg[p] \in Proc BY TypeFacts DEF RefsInv, PlTypeOK
  <2>2. /\ ppc[w[2]] \in Told /\ exitStatus[w[2]] = w[3] /\ <<w[1], w[2]>> \in MayExec
        /\ w[2] # Root /\ ~Current(w[2])
    <3>1. CASE w \in waited BY <3>1 DEF ProtocolInv, Returned
    <3>2. CASE w = <<p, arg[p], status[p]>>
      <4>1. WokenOf(p) BY <1>1 DEF ProtocolInv, Woken, WokenOf
      <4>2. ~Current(arg[p]) BY <1>1, <4>1 DEF WokenOf, Current
      <4>3. w[1] = p /\ w[2] = arg[p] /\ w[3] = status[p] BY <3>2
      <4> QED BY <4>1, <4>2, <4>3 DEF WokenOf
    <3> QED BY <1>1, <3>1, <3>2
  <2>3. ppc[w[2]] # "unborn" BY <2>2 DEF Told
  <2> QED BY <1>1, <1>2, <1>5, <2>1, <2>2, <2>3
<1> QED BY <1>1, <1>2, <1>3, <1>4, <1>6, <1>7, <1>8, <1>9, <1>10 DEF ProtocolInv

\* Nobody waits on a block with a zero count.
LEMMA ZeroUnwaited ==
  ASSUME RefsInv, ProtocolInv, NEW q \in Proc, ppc[q] \in {"waitSema", "waitDec"}, block[target[q]].alive = 0
  PROVE  FALSE
<1>1. ppc[q] = "waitSema" BY DEF ProtocolInv, Waiting
<1> DEFINE c == arg[q]
<1>2. /\ c \in Proc /\ shared[c].block = target[q] /\ CounterOf(c) /\ target[q] \in children[q]
      /\ block[target[q]].child = c
  BY WaitedBlock DEF ProtocolInv, Waiting
<1> HIDE DEF c
<1>3. PICK r \in Proc : ppc[r] \in {"waitTest", "waitRemove", "waitFree"} /\ arg[r] = c
  BY <1>2 DEF CounterOf, Exiting, Told, RefsInv, PlTypeOK
<1>4. WokenOf(r) BY <1>3 DEF ProtocolInv, Woken, WokenOf
<1>5. r = q BY <1>2, <1>3, <1>4 DEF WokenOf
<1> QED BY <1>1, <1>3, <1>5

\* list_remove, by the one thread that frees the block
LEMMA ProtocolRemove ==
  ASSUME RefsInv, RefsInv', ProtocolInv, NEW p \in Proc, NEW b \in Block, Unlink(b),
         \/ ppc[p] = "waitRemove" /\ b = target[p] /\ ppc'[p] = "waitFree"
         \/ ppc[p] = "exitRemove" /\ b = pcRef[p] /\ ppc'[p] = "exitFree",
         \A q \in Proc \ {p} : ppc'[q] = ppc[q],
         UNCHANGED <<block, onFreeList, pcRef, exitStatus, shared, arg, target, status, waited>>
  PROVE  ProtocolInv'
<1>1. Freeing(p, b) BY DEF Freeing
<1>2. block[b].alive = 0 /\ block[b].child # NoBlock BY <1>1 DEF ProtocolInv, Freers
<1>3. panic' # "freed"
  <2>1. block[b].linked BY <1>2 DEF ProtocolInv, NamedBlocks
  <2> QED BY <2>1 DEF Unlink
<1>4. \A q \in Proc : children'[q] = children[q] \ {b} BY DEF Unlink
<1>5. /\ StartingBlocks' /\ ListedBlocks' /\ NamedBlocks' /\ BlockUse'
      /\ \A c \in Proc : Starting(c)' <=> Starting(c)
      /\ \A c \in Proc : c # Root /\ ppc[c] # "unborn" => (Current(c)' <=> Current(c))
  BY <1>4, SameBlocks
<1>6. FreeBlocks' BY DEF ProtocolInv, FreeBlocks
<1>7. OwnBlock' BY <1>5 DEF ProtocolInv, OwnBlock
<1>8. \A c \in Proc : ppc[c] \in Told => ppc'[c] \in Told BY DEF Told
<1>9. Counters'
  <2> SUFFICES ASSUME NEW c \in Proc, c # Root, ppc'[c] # "unborn", Current(c)' PROVE CounterOf(c)'
    BY DEF Counters
  <2>1. ppc[c] # "unborn" /\ CounterOf(c) BY <1>5 DEF ProtocolInv, Counters
  <2>2. (ppc'[c] \in Exiting <=> ppc[c] \in Exiting) /\ (ppc'[c] = "exitUp" <=> ppc[c] = "exitUp")
    BY DEF Exiting
  <2>3. \A q \in Proc : ppc[q] \in WokenPc => ppc'[q] \in WokenPc BY DEF WokenPc
  <2> QED BY <2>1, <2>2, <2>3, CounterKeep
<1>10. Waiting'
  <2> SUFFICES ASSUME NEW q \in Proc, ppc'[q] \in {"waitSema", "waitDec"}
               PROVE  /\ target'[q] \in children'[q] /\ block'[target'[q]].child = arg'[q]
                      /\ ppc'[q] = "waitDec" =>
                           ppc'[arg'[q]] \in Told /\ block'[target'[q]].alive = 1 /\ block'[target'[q]].sema = 0
    BY DEF Waiting
  <2>1. q # p /\ ppc'[q] = ppc[q] OBVIOUS
  <2>2. target[q] \in children[q] BY <2>1 DEF ProtocolInv, Waiting
  <2>3. target[q] # b BY <1>2, <2>1, ZeroUnwaited
  <2> QED BY <1>4, <1>8, <2>1, <2>2, <2>3, WaitingKeep
<1>11. Woken'
  <2> SUFFICES ASSUME NEW q \in Proc, ppc'[q] \in {"waitTest", "waitRemove", "waitFree", "waitReturn"}
               PROVE  WokenOf(q)'
    BY DEF Woken, WokenOf
  <2>1. CASE q # p BY <1>4, <1>5, <1>8, <2>1, WokenKeep
  <2>2. CASE q = p
    <3>1. ppc[p] = "waitRemove" /\ ppc'[p] = "waitFree" /\ arg[p] \in Proc BY <2>2, TypeFacts DEF RefsInv
    <3>2. WokenOf(p) BY <3>1 DEF ProtocolInv, Woken, WokenOf
    <3>3. ~Starting(arg[p])' BY <1>5, <3>1, <3>2 DEF WokenOf, Starting
    <3> QED BY <1>4, <1>8, <2>2, <3>1, <3>2, <3>3 DEF WokenOf
  <2> QED BY <2>1, <2>2
<1>12. Freers'
  <2>1. \A q \in Proc, x \in Block : Freeing(q, x)' <=> Freeing(q, x) BY DEF Freeing
  <2>2. ASSUME NEW q \in Proc, NEW x \in Block, Freeing(q, x)', ppc'[q] \in {"waitFree", "exitFree"},
               NEW r \in Proc, x \in children'[r]
        PROVE  FALSE
    <3>1. CASE q = p
      <4>1. x = b BY <2>2, <3>1 DEF Freeing
      <4> QED BY <1>4, <2>2, <4>1
    <3>2. CASE q # p
      <4>1. x \notin children[r] BY <2>1, <2>2, <3>2 DEF ProtocolInv, Freers
      <4> QED BY <1>4, <2>2, <4>1
    <3> QED BY <3>1, <3>2
  <2>3. ASSUME NEW q \in Proc, NEW x \in Block, Freeing(q, x)'
        PROVE  /\ block'[x].child # NoBlock /\ block'[x].alive = 0 /\ \A r \in Proc : Freeing(r, x)' => r = q
    BY <2>1, <2>3 DEF ProtocolInv, Freers
  <2> QED BY <2>2, <2>3 DEF Freers
<1>13. Returned'
  <2>1. \A c \in Proc : ppc[c] \in Told => ppc[c] # "unborn" BY DEF Told
  <2> QED BY <1>5, <1>8, <2>1, ReturnedKeep
<1> QED BY <1>3, <1>5, <1>6, <1>7, <1>9, <1>10, <1>11, <1>12, <1>13 DEF ProtocolInv

\* free, by the same thread
LEMMA ProtocolFree ==
  ASSUME RefsInv, RefsInv', ProtocolInv, NEW p \in Proc, NEW b \in Block, Free(b),
         \/ ppc[p] = "waitFree" /\ b = target[p] /\ ppc'[p] = "waitReturn"
         \/ ppc[p] = "exitFree" /\ b = pcRef[p] /\ ppc'[p] = "dead",
         \A q \in Proc \ {p} : ppc'[q] = ppc[q],
         UNCHANGED <<children, pcRef, exitStatus, shared, arg, target, status, waited, panic>>
  PROVE  ProtocolInv'
<1>1. Freeing(p, b) BY DEF Freeing
<1>2. /\ block[b].alive = 0 /\ block[b].child # NoBlock /\ \A q \in Proc : Freeing(q, b) => q = p
      /\ \A q \in Proc : b \notin children[q]
  BY <1>1 DEF ProtocolInv, Freers
<1>3. /\ \A x \in Block \ {b} : block'[x] = block[x] /\ onFreeList'[x] = onFreeList[x]
      /\ block'[b].child = NoBlock /\ block'[b].alive = 204
  BY DEF Free, Cleared, RefsInv, PlTypeOK
<1>4. onFreeList[b] = 0 /\ onFreeList'[b] = 1
  <2>1. onFreeList[b] = 0 BY <1>2 DEF ProtocolInv, NamedBlocks
  <2> QED BY <2>1 DEF Free, RefsInv, PlTypeOK
<1>5. \A c \in Proc : Starting(c)' <=> Starting(c) BY DEF Starting
<1>6. ASSUME NEW c \in Proc, c # Root, ppc[c] # "unborn"
      PROVE  Current(c)' <=> Current(c) /\ shared[c].block # b
  <2>1. shared[c].block \in Block BY <1>6 DEF RefsInv, StartedRefs
  <2>2. CASE shared[c].block # b BY <1>3, <1>5, <2>1, <2>2 DEF Current
  <2>3. CASE shared[c].block = b
    <3>1. ~Starting(c)
      <4> SUFFICES ASSUME NEW q \in Proc, ppc[q] = "execWait", arg[q] = c PROVE FALSE BY DEF Starting
      <4>1. target[q] = b BY <2>3 DEF RefsInv, CallRefs
      <4> QED BY <1>2, <4>1 DEF ProtocolInv, StartingBlocks
    <3> QED BY <1>3, <1>5, <2>3, <3>1, ProcessAssumption DEF Current
  <2> QED BY <2>2, <2>3
<1>7. StartingBlocks'
  <2> SUFFICES ASSUME NEW q \in Proc, ppc'[q] = "execWait"
               PROVE  /\ block'[target[q]].child = NoBlock /\ block'[target[q]].waiters
                      /\ onFreeList'[target[q]] = 0
                      /\ \A r \in Proc : target[q] \notin children[r]
                      /\ \A r \in Proc : ppc'[r] = "execWait" /\ q # r => target[q] # target[r]
    BY DEF StartingBlocks
  <2>1. ppc[q] = "execWait" OBVIOUS
  <2>2. target[q] \in Block
    <3>1. arg[q] \in Proc /\ arg[q] # Root /\ ppc[arg[q]] # "unborn" /\ target[q] = shared[arg[q]].block
      BY <2>1, TypeFacts DEF RefsInv, CallRefs
    <3> QED BY <3>1 DEF RefsInv, StartedRefs
  <2>3. target[q] # b BY <1>2, <2>1 DEF ProtocolInv, StartingBlocks
  <2>4. /\ block[target[q]].child = NoBlock /\ block[target[q]].waiters /\ onFreeList[target[q]] = 0
        /\ \A r \in Proc : target[q] \notin children[r]
    BY <2>1 DEF ProtocolInv, StartingBlocks
  <2>5. ASSUME NEW r \in Proc, ppc'[r] = "execWait", q # r PROVE target[q] # target[r]
    <3>1. ppc[r] = "execWait" BY <2>5
    <3> QED BY <2>1, <2>5, <3>1 DEF ProtocolInv, StartingBlocks
  <2> QED BY <1>3, <2>2, <2>3, <2>4, <2>5
<1>8. ListedBlocks'
  <2>1. \A q \in Proc : \A x \in children[q] : x \in Block \ {b} BY <1>2 DEF RefsInv, PlTypeOK
  <2> QED BY <1>3, <2>1 DEF ProtocolInv, ListedBlocks
<1>9. NamedBlocks' BY <1>3 DEF ProtocolInv, NamedBlocks
<1>10. FreeBlocks' BY <1>3, <1>4 DEF ProtocolInv, FreeBlocks
<1>11. BlockUse'
  <2> SUFFICES ASSUME NEW x \in Block
               PROVE  \/ onFreeList'[x] # 0 \/ block'[x].child # NoBlock
                      \/ \E q \in Proc : ppc'[q] = "execWait" /\ target[q] = x
    BY DEF BlockUse
  <2>1. (\E q \in Proc : ppc[q] = "execWait" /\ target[q] = x) => \E q \in Proc : ppc'[q] = "execWait" /\ target[q] = x
    OBVIOUS
  <2> QED BY <1>3, <1>4, <2>1 DEF ProtocolInv, BlockUse
<1>12. OwnBlock'
  <2> SUFFICES ASSUME NEW c \in Proc, c # Root,
                      ppc'[c] \notin {"unborn", "exitTest", "exitRemove", "exitFree", "dead"}
               PROVE  Current(c)'
    BY DEF OwnBlock
  <2>1. ppc[c] \notin {"unborn", "exitTest", "exitRemove", "exitFree", "dead"} OBVIOUS
  <2>2. Current(c) BY <2>1 DEF ProtocolInv, OwnBlock
  <2>3. CounterOf(c) BY <2>1, <2>2 DEF ProtocolInv, Counters
  <2>4. shared[c].block # b BY <1>2, <2>1, <2>3 DEF CounterOf, Exiting, Told
  <2> QED BY <1>6, <2>1, <2>2, <2>4
<1>13. Counters'
  <2> SUFFICES ASSUME NEW c \in Proc, c # Root, ppc'[c] # "unborn", Current(c)' PROVE CounterOf(c)'
    BY DEF Counters
  <2>1. ppc[c] # "unborn" OBVIOUS
  <2>2. Current(c) /\ shared[c].block # b /\ shared[c].block \in Block BY <1>6, <2>1, CurrentBlock
  <2>3. CounterOf(c) BY <2>1, <2>2 DEF ProtocolInv, Counters
  <2>4. (ppc'[c] \in Exiting <=> ppc[c] \in Exiting) /\ (ppc'[c] = "exitUp" <=> ppc[c] = "exitUp")
    BY DEF Exiting
  <2>5. block'[shared[c].block] = block[shared[c].block] BY <1>3, <2>2
  <2>6. ASSUME NEW q \in Proc, ppc[q] \in WokenPc, arg[q] = c PROVE ppc'[q] \in WokenPc
    <3>1. WokenOf(q) BY <2>6 DEF ProtocolInv, Woken, WokenOf, WokenPc
    <3>2. q # p BY <2>2, <2>6, <3>1 DEF WokenOf, WokenPc
    <3> QED BY <2>6, <3>2
  <2> QED BY <2>3, <2>4, <2>5, <2>6, CounterKeep
<1>14. \A c \in Proc : ppc[c] \in Told => ppc'[c] \in Told BY DEF Told
<1>15. Waiting'
  <2> SUFFICES ASSUME NEW q \in Proc, ppc'[q] \in {"waitSema", "waitDec"}
               PROVE  /\ target'[q] \in children'[q] /\ block'[target'[q]].child = arg'[q]
                      /\ ppc'[q] = "waitDec" =>
                           ppc'[arg'[q]] \in Told /\ block'[target'[q]].alive = 1 /\ block'[target'[q]].sema = 0
    BY DEF Waiting
  <2>1. q # p /\ ppc'[q] = ppc[q] OBVIOUS
  <2>2. target[q] \in children[q] BY <2>1 DEF ProtocolInv, Waiting
  <2>3. target[q] \in Block \ {b} BY <1>2, <2>2 DEF RefsInv, PlTypeOK
  <2>4. block'[target[q]] = block[target[q]] BY <1>3, <2>3
  <2> QED BY <1>14, <2>1, <2>2, <2>4, WaitingKeep
<1>16. Woken'
  <2> SUFFICES ASSUME NEW q \in Proc, ppc'[q] \in {"waitTest", "waitRemove", "waitFree", "waitReturn"}
               PROVE  WokenOf(q)'
    BY DEF Woken, WokenOf
  <2>1. arg[q] \in Proc /\ arg[q] # NoBlock BY TypeFacts, ProcessAssumption DEF RefsInv
  <2>2. CASE q # p
    <3>1. ppc[q] = ppc'[q] BY <2>2
    <3>2. target[q] \in Block BY <3>1 DEF RefsInv, CallRefs, Waits
    <3>3. target[q] # b => block'[target[q]] = block[target[q]] BY <1>3, <3>2
    <3>4. target[q] = b => block'[target[q]].child # arg[q] BY <1>3, <2>1
    <3> QED BY <1>5, <1>14, <2>2, <3>1, <3>3, <3>4, WokenKeep
  <2>3. CASE q = p
    <3>1. ppc[p] = "waitFree" /\ b = target[p] BY <2>3
    <3>2. WokenOf(p) BY <3>1 DEF ProtocolInv, Woken, WokenOf
    <3>3. ~Starting(arg[p])' BY <1>5, <2>1, <2>3, <3>2 DEF WokenOf, Starting
    <3>4. block'[target[p]].child # arg[p] BY <1>3, <2>1, <2>3, <3>1
    <3> QED BY <1>14, <2>1, <2>3, <3>2, <3>3, <3>4 DEF WokenOf
  <2> QED BY <2>2, <2>3
<1>17. Freers'
  <2>1. ASSUME NEW q \in Proc, NEW x \in Block, Freeing(q, x)'
        PROVE  q # p /\ ppc'[q] = ppc[q] /\ Freeing(q, x) /\ x # b
    <3>1. q # p BY <2>1 DEF Freeing
    <3>2. Freeing(q, x) /\ ppc'[q] = ppc[q] BY <2>1, <3>1 DEF Freeing
    <3> QED BY <1>2, <3>1, <3>2
  <2>2. ASSUME NEW q \in Proc, NEW x \in Block, Freeing(q, x)'
        PROVE  /\ block'[x].child # NoBlock /\ block'[x].alive = 0
               /\ \A r \in Proc : Freeing(r, x)' => r = q
               /\ ppc'[q] \in {"waitFree", "exitFree"} => \A r \in Proc : x \notin children'[r]
    <3>1. Freeing(q, x) /\ block'[x] = block[x] /\ ppc'[q] = ppc[q] BY <1>3, <2>1, <2>2
    <3>2. \A r \in Proc : Freeing(r, x)' => Freeing(r, x) BY <2>1
    <3> QED BY <3>1, <3>2 DEF ProtocolInv, Freers
  <2> QED BY <2>2 DEF Freers
<1>18. Returned'
  <2>1. \A c \in Proc : ppc[c] \in Told => ppc[c] # "unborn" BY DEF Told
  <2> QED BY <1>6, <1>14, <2>1, ReturnedKeep
<1> QED BY <1>7, <1>8, <1>9, <1>10, <1>11, <1>12, <1>13, <1>15, <1>16, <1>17, <1>18 DEF ProtocolInv

\* A child that has not told its parent writes to its own block: the two steps
\* of process_exit before the test.
LEMMA ProtocolExit ==
  ASSUME RefsInv, RefsInv', ProtocolInv, NEW p \in Proc, ExitDec(p) \/ ExitUp(p)
  PROVE  ProtocolInv'
<1> DEFINE b == shared[p].block
<1>1. /\ \/ ppc[p] = "exitDec" /\ ppc'[p] = "exitUp"
         \/ ppc[p] = "exitUp" /\ ppc'[p] = "exitTest"
      /\ \A q \in Proc \ {p} : ppc'[q] = ppc[q]
      /\ UNCHANGED <<onFreeList, children, pcRef, exitStatus, shared, arg, target, status, waited>>
      /\ panic' = IF block[pcRef[p]].waiters THEN "no" ELSE "freed"
  BY DEF ExitDec, ExitUp, At, PlGoto, RefsInv, PlTypeOK
<1>2. p # Root /\ pcRef[p] = b /\ b \in Block BY <1>1 DEF RefsInv, StartedRefs, Waits
<1>3. Current(p) BY <1>1, <1>2 DEF ProtocolInv, OwnBlock
<1>4. onFreeList[b] = 0 /\ block[b].waiters /\ CounterOf(p)
  BY <1>1, <1>2, <1>3, CurrentBlock DEF ProtocolInv, Counters
<1>5. panic' # "freed" BY <1>1, <1>2, <1>4
<1>6. /\ CountersOnly(b) /\ block[b].alive # 0 /\ block'[b].alive = 1 /\ block'[b].status = exitStatus[p]
      /\ block'[b].sema = IF ppc[p] = "exitDec" THEN 0 ELSE 1
  <2>0. block[b] \in BlockRec BY <1>2, TypeFacts DEF RefsInv
  <2>1. CASE ExitDec(p)
    <3>1. ppc[p] = "exitDec" /\ block' = [block EXCEPT ![b].status = exitStatus[p], ![b].alive = @ - 1]
      BY <1>2, <2>1 DEF ExitDec, At
    <3>2. block[b].alive = 2 /\ block[b].sema = 0 BY <1>4, <3>1 DEF CounterOf, Exiting
    <3>3. block' = [block EXCEPT ![b] = [block[b] EXCEPT !.status = exitStatus[p], !.alive = block[b].alive - 1]]
      BY <3>1 DEF RefsInv, PlTypeOK
    <3>4. exitStatus[p] \in Int BY DEF RefsInv, PlTypeOK
    <3> DEFINE r == [block[b] EXCEPT !.status = exitStatus[p], !.alive = block[b].alive - 1]
    <3>5. /\ r.alive = 1 /\ r.status = exitStatus[p] /\ r.sema = 0 /\ r.child = block[b].child
          /\ r.waiters = block[b].waiters /\ r.linked = block[b].linked
      <4>1. PICK o \in BlockRec : o = block[b] BY <2>0
      <4>2. r = [o EXCEPT !.status = exitStatus[p], !.alive = o.alive - 1] BY <4>1, Zenon
      <4>3. o.alive = 2 /\ o.sema = 0 BY <3>2, <4>1
      <4> HIDE DEF r
      <4>4. /\ r.alive = 1 /\ r.status = exitStatus[p] /\ r.sema = 0 /\ r.child = o.child
            /\ r.waiters = o.waiters /\ r.linked = o.linked
        BY <3>4, <4>2, <4>3 DEF BlockRec
      <4> QED BY <4>1, <4>4
    <3>6. block' = [block EXCEPT ![b] = r] BY <3>3
    <3> HIDE DEF r
    <3>7. block'[b] = r /\ \A x \in Block \ {b} : block'[x] = block[x] BY <1>2, <3>6, TypeFacts DEF RefsInv
    <3>8. /\ block'[b].sema = 0 /\ block'[b].alive = 1 /\ block'[b].status = exitStatus[p]
          /\ block'[b].child = block[b].child /\ block'[b].waiters = block[b].waiters
          /\ block'[b].linked = block[b].linked
      BY <3>5, <3>7, Zenon
    <3>9. CountersOnly(b) BY <3>7, <3>8, Zenon DEF CountersOnly
    <3> HIDE DEF b
    <3> QED BY <3>1, <3>2, <3>8, <3>9
  <2>2. CASE ExitUp(p)
    <3>1. ppc[p] = "exitUp" /\ block' = [block EXCEPT ![b].sema = @ + 1] BY <1>2, <2>2 DEF ExitUp, At
    <3>2. block[b].alive = 1 /\ block[b].sema = 0 /\ block[b].status = exitStatus[p]
      BY <1>4, <3>1 DEF CounterOf, Exiting
    <3>3. block' = [block EXCEPT ![b] = [block[b] EXCEPT !.sema = block[b].sema + 1]]
      BY <3>1 DEF RefsInv, PlTypeOK
    <3>4. block'[b] = [block[b] EXCEPT !.sema = 1] /\ \A x \in Block \ {b} : block'[x] = block[x]
      BY <1>2, <3>2, <3>3, TypeFacts DEF RefsInv
    <3>5. /\ block'[b].sema = 1 /\ block'[b].alive = block[b].alive /\ block'[b].status = block[b].status
          /\ block'[b].child = block[b].child /\ block'[b].waiters = block[b].waiters
          /\ block'[b].linked = block[b].linked
      BY <2>0, <3>4, WriteSema
    <3> QED BY <3>1, <3>2, <3>4, <3>5 DEF CountersOnly
  <2> QED BY <2>1, <2>2
<1> HIDE DEF b
<1>7. /\ StartingBlocks' /\ ListedBlocks' /\ NamedBlocks' /\ BlockUse'
      /\ \A c \in Proc : Starting(c)' <=> Starting(c)
      /\ \A c \in Proc : c # Root /\ ppc[c] # "unborn" => (Current(c)' <=> Current(c))
  BY <1>1, <1>6, SameBlocks DEF CountersOnly
<1>8. FreeBlocks' BY <1>1, <1>4, <1>6 DEF ProtocolInv, FreeBlocks, CountersOnly
<1>9. OwnBlock' BY <1>1, <1>7 DEF ProtocolInv, OwnBlock
<1>10. \A c \in Proc : ppc[c] \in Told => c # p /\ ppc'[c] \in Told BY <1>1 DEF Told
<1>11. Counters'
  <2> SUFFICES ASSUME NEW c \in Proc, c # Root, ppc'[c] # "unborn", Current(c)' PROVE CounterOf(c)'
    BY DEF Counters
  <2>1. ppc[c] # "unborn" /\ Current(c) /\ CounterOf(c) BY <1>1, <1>7 DEF ProtocolInv, Counters
  <2>2. CASE c = p BY <1>1, <1>6, <2>2 DEF CounterOf, Told, Exiting, b
  <2>3. CASE c # p
    <3>1. shared[c].block # b /\ shared[c].block \in Block BY <1>3, <2>1, <2>3, OneCurrent, CurrentBlock DEF b
    <3>2. block'[shared'[c].block] = block[shared[c].block] BY <1>1, <1>6, <3>1 DEF CountersOnly
    <3>3. (ppc'[c] \in Exiting <=> ppc[c] \in Exiting) /\ (ppc'[c] = "exitUp" <=> ppc[c] = "exitUp")
      BY <1>1, <2>3
    <3>4. \A q \in Proc : ppc[q] \in WokenPc => q # p BY <1>1 DEF WokenPc
    <3> QED BY <1>1, <2>1, <3>2, <3>3, <3>4, CounterKeep
  <2> QED BY <2>2, <2>3
\* the block of a parent that was woken, or is about to be, is not this one
<1>12. ASSUME NEW q \in Proc, block[target[q]].child = arg[q], ppc[arg[q]] \in Told, target[q] \in Block
       PROVE  target[q] # b
  <2>1. arg[q] \in Proc /\ arg[q] # NoBlock /\ arg[q] # p BY <1>10, <1>12, TypeFacts, ProcessAssumption DEF RefsInv
  <2>2. shared[arg[q]].block = target[q] BY <1>12, <2>1 DEF ProtocolInv, NamedBlocks
  <2>3. Current(arg[q]) BY <1>12, <2>2 DEF Current
  <2> QED BY <1>3, <2>1, <2>2, <2>3, OneCurrent DEF b
<1>13. Waiting'
  <2> SUFFICES ASSUME NEW q \in Proc, ppc'[q] \in {"waitSema", "waitDec"}
               PROVE  /\ target'[q] \in children'[q] /\ block'[target'[q]].child = arg'[q]
                      /\ ppc'[q] = "waitDec" =>
                           ppc'[arg'[q]] \in Told /\ block'[target'[q]].alive = 1 /\ block'[target'[q]].sema = 0
    BY DEF Waiting
  <2>1. q # p /\ ppc[q] = ppc'[q] BY <1>1
  <2>2. target[q] \in children[q] /\ target[q] \in Block BY <2>1 DEF ProtocolInv, Waiting, RefsInv, PlTypeOK
  <2>3. ppc[q] = "waitDec" => block'[target[q]] = block[target[q]]
    <3> SUFFICES ASSUME ppc[q] = "waitDec" PROVE target[q] # b BY <1>6, <2>2 DEF CountersOnly
    <3>1. block[target[q]].child = arg[q] /\ ppc[arg[q]] \in Told BY DEF ProtocolInv, Waiting
    <3> QED BY <1>12, <2>2, <3>1
  <2>4. block'[target[q]].child = block[target[q]].child BY <1>6, <2>2 DEF CountersOnly
  <2> QED BY <1>1, <1>10, <2>1, <2>2, <2>3, <2>4, WaitingKeep
<1>14. Woken'
  <2> SUFFICES ASSUME NEW q \in Proc, ppc'[q] \in {"waitTest", "waitRemove", "waitFree", "waitReturn"}
               PROVE  WokenOf(q)'
    BY DEF Woken, WokenOf
  <2>1. q # p /\ ppc[q] = ppc'[q] BY <1>1
  <2>2. target[q] \in Block BY <2>1 DEF RefsInv, CallRefs, Waits
  <2>3. ppc[arg[q]] \in Told BY <2>1 DEF ProtocolInv, Woken
  <2>4. block'[target[q]].child = block[target[q]].child BY <1>6, <2>2 DEF CountersOnly
  <2>5. block[target[q]].child = arg[q] => block'[target[q]].alive = block[target[q]].alive
    BY <1>6, <1>12, <2>2, <2>3 DEF CountersOnly
  <2> QED BY <1>1, <1>7, <1>10, <2>1, <2>4, <2>5, WokenKeep
<1>15. Freers'
  <2>1. \A q \in Proc, x \in Block : Freeing(q, x)' <=> Freeing(q, x) BY <1>1 DEF Freeing
  <2>2. \A q \in Proc, x \in Block : Freeing(q, x) => x # b BY <1>6 DEF ProtocolInv, Freers
  <2>3. \A q \in Proc, x \in Block : Freeing(q, x) => block'[x] = block[x] /\ q # p
    BY <1>1, <1>6, <2>2 DEF CountersOnly, Freeing
  <2> QED BY <1>1, <2>1, <2>3 DEF ProtocolInv, Freers
<1>16. Returned'
  <2>1. \A c \in Proc : ppc[c] \in Told => ppc[c] # "unborn" BY DEF Told
  <2> QED BY <1>1, <1>7, <1>10, <2>1, ReturnedKeep
<1> QED BY <1>5, <1>7, <1>8, <1>9, <1>11, <1>13, <1>14, <1>15, <1>16 DEF ProtocolInv

\* exec allocates a block that nobody uses.
LEMMA ProtocolExecute ==
  ASSUME RefsInv, RefsInv', ProtocolInv, NEW p \in Proc, NEW c \in Proc, Execute(p, c)
  PROVE  ProtocolInv'
<1>1. PICK b \in Block :
        /\ onFreeList[b] > 0
        /\ onFreeList' = [onFreeList EXCEPT ![b] = @ - 1]
        /\ block' = [block EXCEPT ![b] = NewParentChild]
        /\ shared' = [shared EXCEPT ![c] = [status |-> FALSE, sema |-> 0, block |-> b]]
        /\ target' = [target EXCEPT ![p] = b]
  BY DEF Execute
<1>2. /\ ppc[p] = "user" /\ ppc[c] = "unborn" /\ <<p, c>> \in MayExec
      /\ arg' = [arg EXCEPT ![p] = c] /\ ppc' = [ppc EXCEPT ![p] = "execWait", ![c] = "load"]
      /\ UNCHANGED <<children, pcRef, exitStatus, status, waited, panic>>
  BY DEF Execute, MayExecute, At
<1>3. c # Root /\ p # c BY <1>2 DEF RefsInv, StartedRefs, Waits
<1>4. onFreeList[b] = 1 /\ block[b].child = NoBlock /\ \A q \in Proc : b \notin children[q]
  <2>1. onFreeList[b] # 0 BY <1>1 DEF RefsInv, PlTypeOK
  <2>2. onFreeList[b] = 1 BY <2>1 DEF ProtocolInv, FreeBlocks
  <2>3. block[b].child = NoBlock BY <2>1 DEF ProtocolInv, NamedBlocks
  <2> QED BY <2>2, <2>3 DEF ProtocolInv, ListedBlocks
<1>5. /\ ppc'[p] = "execWait" /\ ppc'[c] = "load" /\ arg'[p] = c /\ target'[p] = b
      /\ \A q \in Proc \ {p, c} : ppc'[q] = ppc[q]
      /\ \A q \in Proc \ {p} : arg'[q] = arg[q] /\ target'[q] = target[q]
      /\ shared'[c].block = b /\ \A q \in Proc \ {c} : shared'[q] = shared[q]
      /\ \A x \in Block \ {b} : block'[x] = block[x] /\ onFreeList'[x] = onFreeList[x]
      /\ onFreeList'[b] = 0
      /\ block'[b].child = NoBlock /\ block'[b].waiters /\ block'[b].alive = 2 /\ block'[b].sema = 0
  BY <1>1, <1>2, <1>3, <1>4 DEF RefsInv, PlTypeOK, NewParentChild
<1>6. ASSUME NEW q \in Proc, ppc[q] = "execWait"
      PROVE  /\ q # p /\ q # c /\ ppc'[q] = "execWait" /\ arg'[q] = arg[q] /\ target'[q] = target[q]
             /\ arg[q] \in Proc \ {c} /\ target[q] \in Block \ {b}
  <2>1. q # p /\ q # c BY <1>2, <1>6
  <2>2. arg[q] \in Proc /\ arg[q] # Root /\ ppc[arg[q]] # "unborn" /\ target[q] = shared[arg[q]].block
    BY <1>6, TypeFacts DEF RefsInv, CallRefs
  <2>3. target[q] \in Block BY <2>2 DEF RefsInv, StartedRefs
  <2>4. target[q] # b BY <1>4, <1>6 DEF ProtocolInv, StartingBlocks
  <2>5. arg[q] # c BY <1>2, <2>2
  <2>6. ppc'[q] = ppc[q] /\ arg'[q] = arg[q] /\ target'[q] = target[q] BY <1>5, <2>1
  <2> QED BY <1>6, <2>1, <2>2, <2>3, <2>4, <2>5, <2>6
<1>7. Starting(c)' /\ \A d \in Proc \ {c} : Starting(d)' <=> Starting(d)
  BY <1>5, <1>6 DEF Starting
<1>8. ASSUME NEW d \in Proc, d # Root, ppc[d] # "unborn" PROVE (Current(d)' <=> Current(d)) /\ d # c
  <2>1. shared[d].block \in Block /\ d # c /\ d # NoBlock BY <1>2, <1>8, ProcessAssumption DEF RefsInv, StartedRefs
  <2>2. block'[shared[d].block].child = block[shared[d].block].child BY <1>4, <1>5, <2>1
  <2> QED BY <1>5, <1>7, <2>1, <2>2 DEF Current
<1>9. StartingBlocks'
  <2> SUFFICES ASSUME NEW q \in Proc, ppc'[q] = "execWait"
               PROVE  /\ block'[target'[q]].child = NoBlock /\ block'[target'[q]].waiters
                      /\ onFreeList'[target'[q]] = 0
                      /\ \A r \in Proc : target'[q] \notin children'[r]
                      /\ \A r \in Proc : ppc'[r] = "execWait" /\ q # r => target'[q] # target'[r]
    BY DEF StartingBlocks
  <2>1. \A r \in Proc : ppc'[r] = "execWait" => r = p \/ ppc[r] = "execWait" BY <1>5
  <2>2. CASE q = p
    <3>1. ASSUME NEW r \in Proc, ppc'[r] = "execWait", r # p PROVE b # target'[r]
      <4>1. ppc[r] = "execWait" BY <2>1, <3>1
      <4>2. target'[r] = target[r] /\ target[r] # b BY <1>6, <4>1
      <4> QED BY <4>2
    <3>2. /\ block'[target'[p]].child = NoBlock /\ block'[target'[p]].waiters /\ onFreeList'[target'[p]] = 0
          /\ \A r \in Proc : target'[p] \notin children'[r]
      BY <1>2, <1>4, <1>5
    <3> QED BY <1>5, <2>2, <3>1, <3>2
  <2>3. CASE ppc[q] = "execWait"
    <3>1. /\ block[target[q]].child = NoBlock /\ block[target[q]].waiters /\ onFreeList[target[q]] = 0
          /\ \A r \in Proc : target[q] \notin children[r]
      BY <2>3 DEF ProtocolInv, StartingBlocks
    <3>2. ASSUME NEW r \in Proc, ppc'[r] = "execWait", q # r PROVE target'[q] # target'[r]
      <4>1. CASE r = p BY <1>5, <1>6, <2>3, <4>1
      <4>2. CASE ppc[r] = "execWait"
        <5>1. target[q] # target[r] BY <2>3, <3>2, <4>2 DEF ProtocolInv, StartingBlocks
        <5> QED BY <1>6, <2>3, <4>2, <5>1
      <4> QED BY <2>1, <3>2, <4>1, <4>2
    <3>3. target'[q] = target[q] /\ target[q] \in Block \ {b} BY <1>6, <2>3
    <3>4. block'[target[q]] = block[target[q]] /\ onFreeList'[target[q]] = onFreeList[target[q]] BY <1>5, <3>3
    <3> QED BY <1>2, <3>1, <3>2, <3>3, <3>4
  <2> QED BY <2>1, <2>2, <2>3
<1>10. ListedBlocks'
  <2>1. \A q \in Proc : \A x \in children[q] : x \in Block \ {b} BY <1>4 DEF RefsInv, PlTypeOK
  <2> QED BY <1>2, <1>5, <2>1 DEF ProtocolInv, ListedBlocks
<1>11. NamedBlocks'
  <2> SUFFICES ASSUME NEW x \in Block, block'[x].child # NoBlock
               PROVE  /\ shared'[block'[x].child].block = x /\ onFreeList'[x] = 0
                      /\ block'[x].waiters /\ block'[x].linked
    BY DEF NamedBlocks
  <2>1. x # b /\ block'[x] = block[x] /\ onFreeList'[x] = onFreeList[x] BY <1>5
  <2>2. block[x].child \in Proc /\ block[x].child # c
    <3>1. block[x].child \in Proc BY <2>1, TypeFacts DEF RefsInv, BlockRec
    <3>2. ppc[block[x].child] # "unborn" BY <2>1 DEF RefsInv, NamedLoaded
    <3> QED BY <1>2, <3>1, <3>2
  <2>3. shared'[block[x].child] = shared[block[x].child] BY <1>5, <2>2
  <2>4. shared[block[x].child].block = x /\ onFreeList[x] = 0 /\ block[x].waiters /\ block[x].linked
    BY <2>1 DEF ProtocolInv, NamedBlocks
  <2> QED BY <2>1, <2>3, <2>4
<1>12. FreeBlocks' BY <1>5 DEF ProtocolInv, FreeBlocks
<1>13. BlockUse'
  <2> SUFFICES ASSUME NEW x \in Block
               PROVE  \/ onFreeList'[x] # 0 \/ block'[x].child # NoBlock
                      \/ \E q \in Proc : ppc'[q] = "execWait" /\ target'[q] = x
    BY DEF BlockUse
  <2>1. CASE x = b BY <1>5, <2>1
  <2>2. CASE x # b
    <3>1. (\E q \in Proc : ppc[q] = "execWait" /\ target[q] = x) => \E q \in Proc : ppc'[q] = "execWait" /\ target'[q] = x
      BY <1>6
    <3> QED BY <1>5, <2>2, <3>1 DEF ProtocolInv, BlockUse
  <2> QED BY <2>1, <2>2
<1>14. OwnBlock'
  <2> SUFFICES ASSUME NEW d \in Proc, d # Root,
                      ppc'[d] \notin {"unborn", "exitTest", "exitRemove", "exitFree", "dead"}
               PROVE  Current(d)'
    BY DEF OwnBlock
  <2>1. CASE d = c BY <1>7, <2>1 DEF Current
  <2>2. CASE d # c
    <3>1. ppc[d] \notin {"unborn", "exitTest", "exitRemove", "exitFree", "dead"} BY <1>2, <1>5, <2>2
    <3> QED BY <1>8, <3>1 DEF ProtocolInv, OwnBlock
  <2> QED BY <2>1, <2>2
<1>15. \A q \in Proc : ppc[q] \in Told \cup WokenPc \cup {"waitReturn", "waitSema", "waitDec"} => q # p /\ q # c /\ ppc'[q] = ppc[q]
  BY <1>2, <1>5 DEF Told, WokenPc
<1>16. Counters'
  <2> SUFFICES ASSUME NEW d \in Proc, d # Root, ppc'[d] # "unborn", Current(d)' PROVE CounterOf(d)'
    BY DEF Counters
  <2>1. CASE d = c BY <1>5, <2>1 DEF CounterOf, Exiting, Told
  <2>2. CASE d # c
    <3>1. ppc[d] # "unborn" BY <1>2, <1>5, <2>2
    <3>2. Current(d) /\ CounterOf(d) BY <1>8, <3>1 DEF ProtocolInv, Counters
    <3>3. shared[d].block \in Block /\ shared[d].block # b BY <1>4, <3>1, <3>2, CurrentBlock
    <3>4. block'[shared'[d].block] = block[shared[d].block] BY <1>5, <2>2, <3>3
    <3>5. (ppc'[d] \in Exiting <=> ppc[d] \in Exiting) /\ (ppc'[d] = "exitUp" <=> ppc[d] = "exitUp")
      BY <1>2, <1>5, <2>2 DEF Exiting
    <3>6. \A q \in Proc : ppc[q] \in WokenPc => ppc'[q] \in WokenPc /\ arg'[q] = arg[q] BY <1>5, <1>15
    <3> QED BY <1>2, <3>2, <3>4, <3>5, <3>6, CounterKeep
  <2> QED BY <2>1, <2>2
<1>17. \A d \in Proc : ppc[d] \in Told => ppc'[d] \in Told BY <1>15
<1>18. Waiting'
  <2> SUFFICES ASSUME NEW q \in Proc, ppc'[q] \in {"waitSema", "waitDec"}
               PROVE  /\ target'[q] \in children'[q] /\ block'[target'[q]].child = arg'[q]
                      /\ ppc'[q] = "waitDec" =>
                           ppc'[arg'[q]] \in Told /\ block'[target'[q]].alive = 1 /\ block'[target'[q]].sema = 0
    BY DEF Waiting
  <2>1. q # p /\ q # c /\ ppc'[q] = ppc[q] BY <1>5
  <2>2. target[q] \in children[q] BY <2>1 DEF ProtocolInv, Waiting
  <2>3. target[q] \in Block \ {b} BY <1>4, <2>2 DEF RefsInv, PlTypeOK
  <2>4. block'[target[q]] = block[target[q]] BY <1>5, <2>3
  <2> QED BY <1>2, <1>5, <1>17, <2>1, <2>2, <2>4, WaitingKeep
<1>19. Woken'
  <2> SUFFICES ASSUME NEW q \in Proc, ppc'[q] \in {"waitTest", "waitRemove", "waitFree", "waitReturn"}
               PROVE  WokenOf(q)'
    BY DEF Woken, WokenOf
  <2>1. q # p /\ q # c /\ ppc[q] = ppc'[q] BY <1>5
  <2>2. target[q] \in Block BY <2>1 DEF RefsInv, CallRefs, Waits
  <2>3. arg[q] \in Proc /\ arg[q] # NoBlock BY TypeFacts, ProcessAssumption DEF RefsInv
  <2>4. target[q] # b => block'[target[q]] = block[target[q]] BY <1>5, <2>2
  <2>5. target[q] = b => block'[target[q]].child # arg[q] BY <1>5, <2>3
  <2>6. ASSUME NEW d \in Proc, ppc[d] \in Told
        PROVE  /\ ppc'[d] \in Told /\ exitStatus'[d] = exitStatus[d] /\ (Starting(d)' => Starting(d))
               /\ shared'[d].block = shared[d].block
    BY <1>2, <1>5, <1>7, <1>15, <1>17, <2>6
  <2>7. ppc'[q] = ppc[q] /\ arg'[q] = arg[q] /\ target'[q] = target[q] /\ status'[q] = status[q]
    BY <1>2, <1>5, <2>1
  <2>8. ASSUME block'[target[q]].child = arg[q]
        PROVE  /\ block[target[q]].child = arg[q] /\ block'[target[q]].alive = block[target[q]].alive
               /\ \A r \in Proc : target[q] \in children'[r] => target[q] \in children[r]
    <3>1. target[q] # b /\ block'[target[q]] = block[target[q]] BY <2>4, <2>5, <2>8
    <3>2. \A r \in Proc : target[q] \in children'[r] => target[q] \in children[r] BY <1>2
    <3> QED BY <2>8, <3>1, <3>2
  <2>9. ppc[q] \in {"waitTest", "waitRemove", "waitFree", "waitReturn"} BY <2>1
  <2> QED BY ONLY RefsInv, ProtocolInv, q \in Proc, <2>6, <2>7, <2>8, <2>9, WokenKeep
<1>20. Freers'
  <2>1. ASSUME NEW q \in Proc, NEW x \in Block, Freeing(q, x)'
        PROVE  q # p /\ q # c /\ ppc'[q] = ppc[q] /\ Freeing(q, x) /\ block'[x] = block[x]
    <3>1. q # p /\ q # c BY <1>5, <2>1 DEF Freeing
    <3>2. Freeing(q, x) /\ ppc'[q] = ppc[q] BY <1>2, <1>5, <2>1, <3>1 DEF Freeing
    <3>3. x # b BY <1>4, <3>2 DEF ProtocolInv, Freers
    <3> QED BY <1>5, <3>1, <3>2, <3>3
  <2>2. ASSUME NEW q \in Proc, NEW x \in Block, Freeing(q, x)'
        PROVE  /\ block'[x].child # NoBlock /\ block'[x].alive = 0
               /\ \A r \in Proc : Freeing(r, x)' => r = q
               /\ ppc'[q] \in {"waitFree", "exitFree"} => \A r \in Proc : x \notin children'[r]
    <3>1. Freeing(q, x) /\ block'[x] = block[x] /\ ppc'[q] = ppc[q] BY <2>1, <2>2
    <3>2. \A r \in Proc : Freeing(r, x)' => Freeing(r, x) BY <2>1
    <3> QED BY <1>2, <3>1, <3>2 DEF ProtocolInv, Freers
  <2> QED BY <2>2 DEF Freers
<1>21. Returned'
  <2>1. \A d \in Proc : ppc[d] \in Told => ppc[d] # "unborn" BY DEF Told
  <2> QED BY <1>2, <1>8, <1>17, <2>1, ReturnedKeep
<1> QED BY <1>2, <1>9, <1>10, <1>11, <1>12, <1>13, <1>14, <1>16, <1>18, <1>19, <1>20, <1>21 DEF ProtocolInv

\* exec has heard of its child and keeps the block.
LEMMA ProtocolExecuted ==
  ASSUME RefsInv, RefsInv', ProtocolInv, AllLoaded, NEW p \in Proc, Executed(p)
  PROVE  ProtocolInv'
<1> DEFINE b == target[p]
<1>0. PICK c \in Proc : c = arg[p] BY TypeFacts DEF RefsInv
<1>1. /\ ppc[p] = "execWait" /\ shared[c].sema > 0 /\ shared' = [shared EXCEPT ![c].sema = @ - 1]
      /\ ppc'[p] = "user" /\ \A q \in Proc \ {p} : ppc'[q] = ppc[q]
      /\ UNCHANGED <<pcRef, exitStatus, arg, target, status, waited, panic>>
  BY <1>0 DEF Executed, At, PlGoto, RefsInv, PlTypeOK
<1>2. /\ c \in Proc /\ c # Root /\ ppc[c] # "unborn" /\ b = shared[c].block /\ <<p, c>> \in MayExec /\ b \in Block
      /\ c # NoBlock
  <2>1. c \in Proc /\ c # Root /\ ppc[c] # "unborn" /\ b = shared[c].block /\ <<p, c>> \in MayExec
    BY <1>0, <1>1, TypeFacts DEF RefsInv, CallRefs
  <2> QED BY <2>1, ProcessAssumption DEF RefsInv, StartedRefs
<1>3. shared[c].status
  <2>1. shared[c].sema # 0 BY <1>1, <1>2, TypeFacts DEF RefsInv
  <2>2. ppc[c] \notin {"unborn", "load"} BY <1>2, <2>1 DEF RefsInv, StartedRefs
  <2> QED BY <1>2, <2>2 DEF AllLoaded
<1>4. /\ block' = [block EXCEPT ![b].child = c, ![b].linked = TRUE]
      /\ children' = [children EXCEPT ![p] = @ \cup {b}] /\ UNCHANGED onFreeList
  BY <1>0, <1>3 DEF Executed
<1>5. /\ \A x \in Block \ {b} : block'[x] = block[x]
      /\ block'[b].child = c /\ block'[b].linked = TRUE /\ block'[b].waiters = block[b].waiters
      /\ block'[b].alive = block[b].alive /\ block'[b].sema = block[b].sema /\ block'[b].status = block[b].status
  <2> HIDE DEF b
  <2>0. block[b] \in BlockRec BY <1>2, TypeFacts DEF RefsInv
  <2> DEFINE r == [block[b] EXCEPT !.child = c, !.linked = TRUE]
  <2>1. block' = [block EXCEPT ![b] = r] BY <1>4 DEF RefsInv, PlTypeOK
  <2>2. /\ r.child = c /\ r.linked = TRUE /\ r.waiters = block[b].waiters
        /\ r.alive = block[b].alive /\ r.sema = block[b].sema /\ r.status = block[b].status
    BY <1>2, <2>0, WriteChild
  <2> HIDE DEF r
  <2>3. block'[b] = r /\ \A x \in Block \ {b} : block'[x] = block[x] BY <1>2, <2>1, TypeFacts DEF RefsInv
  <2> QED BY <2>2, <2>3, Zenon
<1>6. /\ block[b].child = NoBlock /\ block[b].waiters /\ onFreeList[b] = 0
      /\ \A q \in Proc : b \notin children[q]
      /\ \A q \in Proc : ppc[q] = "execWait" /\ p # q => b # target[q]
  BY <1>1 DEF ProtocolInv, StartingBlocks
<1>7. /\ \A q \in Proc \ {p} : children'[q] = children[q]
      /\ children'[p] = children[p] \cup {b}
  BY <1>4 DEF RefsInv, PlTypeOK
<1>8. \A q \in Proc : shared'[q].block = shared[q].block BY <1>1, <1>2 DEF RefsInv, PlTypeOK
<1>9. ~Starting(c)' /\ Current(c)' /\ Current(c)
  <2>1. Starting(c) BY <1>0, <1>1 DEF Starting
  <2>2. ~Starting(c)'
    <3> SUFFICES ASSUME NEW q \in Proc, ppc'[q] = "execWait", arg'[q] = c PROVE FALSE BY <1>1 DEF Starting
    <3>1. q # p /\ ppc[q] = "execWait" /\ arg[q] = c BY <1>1
    <3> QED BY <1>0, <1>1, <3>1 DEF RefsInv, OneParent
  <2>3. block'[shared'[c].block].child = c BY <1>2, <1>5, <1>8
  <2> QED BY <1>1, <2>1, <2>2, <2>3 DEF Current
<1> HIDE DEF b
<1>10. \A d \in Proc \ {c} : Starting(d)' <=> Starting(d) BY <1>0, <1>1 DEF Starting
<1>11. ASSUME NEW d \in Proc, d # Root, ppc[d] # "unborn" PROVE Current(d)' <=> Current(d)
  <2>1. CASE d = c BY <1>9, <2>1
  <2>2. CASE d # c
    <3>1. shared[d].block \in Block /\ d # NoBlock BY <1>11, ProcessAssumption DEF RefsInv, StartedRefs
    <3>2. block'[shared[d].block].child = d <=> block[shared[d].block].child = d
      BY <1>5, <1>6, <2>2, <3>1
    <3> QED BY <1>8, <1>10, <2>2, <3>2 DEF Current
  <2> QED BY <2>1, <2>2
<1>12. StartingBlocks'
  <2> SUFFICES ASSUME NEW q \in Proc, ppc'[q] = "execWait"
               PROVE  /\ block'[target[q]].child = NoBlock /\ block'[target[q]].waiters
                      /\ onFreeList[target[q]] = 0
                      /\ \A r \in Proc : target[q] \notin children'[r]
                      /\ \A r \in Proc : ppc'[r] = "execWait" /\ q # r => target[q] # target[r]
    BY <1>1, <1>4 DEF StartingBlocks
  <2>1. q # p /\ ppc[q] = "execWait" BY <1>1
  <2>2. target[q] # b BY <1>6, <2>1
  <2>3. target[q] \in Block
    <3>1. arg[q] \in Proc /\ arg[q] # Root /\ ppc[arg[q]] # "unborn" /\ target[q] = shared[arg[q]].block
      BY <2>1, TypeFacts DEF RefsInv, CallRefs
    <3> QED BY <3>1 DEF RefsInv, StartedRefs
  <2>4. /\ block[target[q]].child = NoBlock /\ block[target[q]].waiters /\ onFreeList[target[q]] = 0
        /\ \A r \in Proc : target[q] \notin children[r]
    BY <2>1 DEF ProtocolInv, StartingBlocks
  <2>5. ASSUME NEW r \in Proc, ppc'[r] = "execWait", q # r PROVE target[q] # target[r]
    <3>1. ppc[r] = "execWait" BY <1>1, <2>5
    <3> QED BY <2>1, <2>5, <3>1 DEF ProtocolInv, StartingBlocks
  <2>6. block'[target[q]] = block[target[q]] BY <1>5, <2>2, <2>3
  <2>7. \A r \in Proc : target[q] \notin children'[r] BY <1>7, <2>2, <2>4
  <2> QED BY <2>4, <2>5, <2>6, <2>7
<1>13. ListedBlocks'
  <2> SUFFICES ASSUME NEW q \in Proc, NEW x \in children'[q]
               PROVE  /\ block'[x].child # NoBlock /\ <<q, block'[x].child>> \in MayExec
                      /\ \A r \in Proc : x \in children'[r] => q = r
    BY DEF ListedBlocks
  <2>1. CASE x = b
    <3>1. q = p BY <1>6, <1>7, <2>1
    <3> QED BY <1>2, <1>5, <1>6, <1>7, <2>1, <3>1
  <2>2. CASE x # b
    <3>1. x \in children[q] BY <1>7, <2>2
    <3>2. x \in Block BY <3>1 DEF RefsInv, PlTypeOK
    <3>3. block'[x] = block[x] BY <1>5, <2>2, <3>2
    <3>4. \A r \in Proc : x \in children'[r] => x \in children[r] BY <1>7, <2>2
    <3> QED BY <3>1, <3>3, <3>4 DEF ProtocolInv, ListedBlocks
  <2> QED BY <2>1, <2>2
<1>14. NamedBlocks'
  <2> SUFFICES ASSUME NEW x \in Block, block'[x].child # NoBlock
               PROVE  /\ shared'[block'[x].child].block = x /\ onFreeList'[x] = 0
                      /\ block'[x].waiters /\ block'[x].linked
    BY DEF NamedBlocks
  <2>1. CASE x = b BY <1>2, <1>4, <1>5, <1>6, <1>8, <2>1
  <2>2. CASE x # b
    <3>1. block'[x] = block[x] BY <1>5, <2>2
    <3>2. block[x].child \in Proc BY <3>1, TypeFacts DEF RefsInv, BlockRec
    <3>3. shared[block[x].child].block = x /\ onFreeList[x] = 0 /\ block[x].waiters /\ block[x].linked
      BY <3>1 DEF ProtocolInv, NamedBlocks
    <3> QED BY <1>4, <1>8, <3>1, <3>2, <3>3
  <2> QED BY <2>1, <2>2
<1>15. FreeBlocks' BY <1>4, <1>5, <1>6 DEF ProtocolInv, FreeBlocks
<1>16. BlockUse'
  <2> SUFFICES ASSUME NEW x \in Block
               PROVE  \/ onFreeList[x] # 0 \/ block'[x].child # NoBlock
                      \/ \E q \in Proc : ppc'[q] = "execWait" /\ target[q] = x
    BY <1>1, <1>4 DEF BlockUse
  <2>1. CASE x = b BY <1>2, <1>5, <2>1
  <2>2. CASE x # b
    <3>1. ASSUME NEW q \in Proc, ppc[q] = "execWait", target[q] = x PROVE ppc'[q] = "execWait"
      BY <1>1, <2>2, <3>1 DEF b
    <3> QED BY <1>5, <2>2, <3>1 DEF ProtocolInv, BlockUse
  <2> QED BY <2>1, <2>2
<1>17. OwnBlock' BY <1>1, <1>11 DEF ProtocolInv, OwnBlock
<1>18. Counters'
  <2> SUFFICES ASSUME NEW d \in Proc, d # Root, ppc'[d] # "unborn", Current(d)' PROVE CounterOf(d)'
    BY DEF Counters
  <2>1. ppc[d] # "unborn" /\ Current(d) /\ CounterOf(d) BY <1>1, <1>11 DEF ProtocolInv, Counters
  <2>2. shared[d].block \in Block BY <2>1 DEF RefsInv, StartedRefs
  <2>3. /\ block'[shared[d].block].alive = block[shared[d].block].alive
        /\ block'[shared[d].block].sema = block[shared[d].block].sema
        /\ block'[shared[d].block].status = block[shared[d].block].status
    BY <1>5, <2>2
  <2>4. (ppc'[d] \in Exiting <=> ppc[d] \in Exiting) /\ (ppc'[d] = "exitUp" <=> ppc[d] = "exitUp")
    BY <1>1 DEF Exiting
  <2>5. \A q \in Proc : ppc[q] \in WokenPc => q # p BY <1>1 DEF WokenPc
  <2> QED BY <1>1, <1>8, <2>1, <2>3, <2>4, <2>5, CounterKeep
<1>19. \A d \in Proc : ppc[d] \in Told => d # p /\ ppc'[d] \in Told BY <1>1 DEF Told
<1>20. Waiting'
  <2> SUFFICES ASSUME NEW q \in Proc, ppc'[q] \in {"waitSema", "waitDec"}
               PROVE  /\ target'[q] \in children'[q] /\ block'[target'[q]].child = arg'[q]
                      /\ ppc'[q] = "waitDec" =>
                           ppc'[arg'[q]] \in Told /\ block'[target'[q]].alive = 1 /\ block'[target'[q]].sema = 0
    BY DEF Waiting
  <2>1. q # p /\ ppc[q] = ppc'[q] BY <1>1
  <2>2. target[q] \in children[q] BY <2>1 DEF ProtocolInv, Waiting
  <2>3. target[q] # b /\ target[q] \in Block BY <1>6, <2>2 DEF RefsInv, PlTypeOK
  <2>4. block'[target[q]] = block[target[q]] BY <1>5, <2>3
  <2> QED BY <1>1, <1>7, <1>19, <2>1, <2>2, <2>4, WaitingKeep
<1>21. Woken'
  <2> SUFFICES ASSUME NEW q \in Proc, ppc'[q] \in {"waitTest", "waitRemove", "waitFree", "waitReturn"}
               PROVE  WokenOf(q)'
    BY DEF Woken, WokenOf
  <2>1. q # p /\ ppc[q] = ppc'[q] BY <1>1
  <2>2. target[q] \in Block BY <2>1 DEF RefsInv, CallRefs, Waits
  <2>3. ~Starting(arg[q]) BY <2>1 DEF ProtocolInv, Woken
  <2>4. arg[q] # c BY <1>0, <1>1, <2>3 DEF Starting
  <2>5. target[q] = b => block'[target[q]].child # arg[q] BY <1>5, <2>4
  <2>6. target[q] # b => /\ block'[target[q]] = block[target[q]]
                         /\ \A r \in Proc : target[q] \in children'[r] => target[q] \in children[r]
    BY <1>5, <1>7, <2>2
  <2>7. \A d \in Proc : Starting(d)' => Starting(d) BY <1>9, <1>10
  <2> QED BY <1>1, <1>8, <1>19, <2>1, <2>5, <2>6, <2>7, WokenKeep
<1>22. Freers'
  <2>1. \A q \in Proc, x \in Block : Freeing(q, x)' <=> Freeing(q, x) BY <1>1 DEF Freeing
  <2>2. \A q \in Proc, x \in Block : Freeing(q, x) => x # b BY <1>6 DEF ProtocolInv, Freers
  <2>3. \A q \in Proc, x \in Block : Freeing(q, x) =>
          /\ block'[x] = block[x] /\ ppc'[q] = ppc[q]
          /\ \A r \in Proc : x \in children'[r] => x \in children[r]
    BY <1>1, <1>5, <1>7, <2>2 DEF Freeing
  <2> QED BY <2>1, <2>3 DEF ProtocolInv, Freers
<1>23. Returned'
  <2>1. \A d \in Proc : ppc[d] \in Told => ppc[d] # "unborn" BY DEF Told
  <2> QED BY <1>1, <1>11, <1>19, <2>1, ReturnedKeep
<1> QED BY <1>1, <1>12, <1>13, <1>14, <1>15, <1>16, <1>17, <1>18, <1>20, <1>21, <1>22, <1>23 DEF ProtocolInv

\* A step keeps what spoils the protocol: a failed load and a race stay.
LEMMA SpoiledStays ==
  ASSUME RefsInv, RefsInv', [PlNext]_plVars, Unspoiled'
  PROVE  Unspoiled
<1> USE DEF At, PlGoto
<1>1. CASE UNCHANGED plVars BY <1>1 DEF plVars, Unspoiled, AllLoaded
<1>2. ASSUME NEW p \in Proc, KernelStep(p) \/ UserStep(p)
      PROVE  /\ raced => raced'
             /\ \A q \in Proc : ppc[q] \notin {"unborn", "load"} =>
                  ppc'[q] \notin {"unborn", "load"} /\ (shared'[q].status => shared[q].status)
  <2>1. CASE \E c \in Proc : Execute(p, c)
    <3>1. PICK c \in Proc : Execute(p, c) BY <2>1
    <3>2. PICK b \in Block : shared' = [shared EXCEPT ![c] = [status |-> FALSE, sema |-> 0, block |-> b]]
      BY <3>1 DEF Execute
    <3>3. /\ ppc[c] = "unborn" /\ raced' = raced /\ ppc[p] = "user"
          /\ \A q \in Proc \ {c} : ppc'[q] \in {ppc[q], "execWait"}
      BY <3>1 DEF Execute, MayExecute, RefsInv, PlTypeOK
    <3>4. \A q \in Proc \ {c} : shared'[q] = shared[q] BY <3>2 DEF RefsInv, PlTypeOK
    <3> QED BY <3>3, <3>4
  <2>2. CASE Executed(p)
    <3>1. PICK c \in Proc : c = arg[p] BY TypeFacts DEF RefsInv
    <3>2. /\ shared' = [shared EXCEPT ![c].sema = @ - 1] /\ raced' = raced
          /\ ppc' = [ppc EXCEPT ![p] = "user"]
      BY <2>2, <3>1 DEF Executed
    <3> QED BY <3>2 DEF RefsInv, PlTypeOK
  <2>3. CASE StartProcess(p)
    <3>1. PICK t \in BOOLEAN :
            /\ shared' = [shared EXCEPT ![p].status = t, ![p].sema = @ + 1]
            /\ ppc' = [ppc EXCEPT ![p] = IF t THEN "user" ELSE "exitDec"]
      BY <2>3 DEF StartProcess
    <3>2. raced' = raced /\ ppc[p] = "load" BY <2>3 DEF StartProcess
    <3>3. \A q \in Proc \ {p} : shared'[q] = shared[q] /\ ppc'[q] = ppc[q] BY <3>1 DEF RefsInv, PlTypeOK
    <3> QED BY <3>2, <3>3
  <2>4. CASE (\E t \in Proc : Wait(p, t)) \/ (\E s \in ExitStatus : SysExit(p, s)) \/ Kill(p)
    BY <2>4 DEF Wait, SysExit, Kill, RefsInv, PlTypeOK
  <2>5. CASE WaitSema(p) \/ WaitDec(p) \/ WaitTest(p) \/ WaitRemove(p) \/ WaitFree(p) \/ WaitReturn(p)
    BY <2>5 DEF WaitSema, WaitDec, WaitTest, WaitRemove, WaitFree, WaitReturn, RefsInv, PlTypeOK
  <2>6. CASE ExitDec(p) \/ ExitUp(p) \/ ExitTest(p) \/ ExitRemove(p) \/ ExitFree(p)
    BY <2>6 DEF ExitDec, ExitUp, ExitTest, ExitRemove, ExitFree, RefsInv, PlTypeOK
  <2>7. CASE \E c \in Proc : ExecuteNoPage(p, c) BY <2>7 DEF ExecuteNoPage
  <2> QED BY <1>2, <2>1, <2>2, <2>3, <2>4, <2>5, <2>6, <2>7 DEF KernelStep, UserStep
<1>3. CASE PlNext
  <2>1. PICK p \in Proc : KernelStep(p) \/ UserStep(p) BY <1>3 DEF PlNext
  <2> QED BY <1>2, <2>1 DEF Unspoiled, AllLoaded
<1> QED BY <1>1, <1>3

LEMMA ProtocolInit == PlInit => ProtocolInv
<1> SUFFICES ASSUME PlInit PROVE ProtocolInv OBVIOUS
<1>1. /\ \A p \in Proc : ppc[p] \in {"user", "unborn"} /\ children[p] = {} /\ (p # Root => ppc[p] = "unborn")
      /\ \A b \in Block : block[b] = Cleared /\ onFreeList[b] = 1
      /\ waited = {} /\ panic # "freed"
  BY DEF PlInit
<1>2. /\ \A b \in Block : block[b].child = NoBlock /\ block[b].alive # 0
      /\ waited = {} /\ panic # "freed"
  BY <1>1 DEF Cleared
<1>3. StartingBlocks /\ ListedBlocks /\ NamedBlocks /\ FreeBlocks /\ BlockUse
  BY <1>1, <1>2 DEF StartingBlocks, ListedBlocks, NamedBlocks, FreeBlocks, BlockUse
<1>4. OwnBlock /\ Counters /\ Waiting /\ Woken /\ Returned
  BY <1>1, <1>2 DEF OwnBlock, Counters, Waiting, Woken, Returned
<1>5. Freers BY <1>1 DEF Freers, Freeing
<1> QED BY <1>2, <1>3, <1>4, <1>5 DEF ProtocolInv

\* A step that changes nothing the protocol is about.
LEMMA ProtocolSame ==
  ASSUME ProtocolInv, panic' # "freed",
         UNCHANGED <<ppc, block, onFreeList, children, pcRef, exitStatus, shared, arg, target, status, waited>>
  PROVE  ProtocolInv'
<1> USE DEF ProtocolInv
<1>1. StartingBlocks' /\ ListedBlocks' /\ NamedBlocks' /\ FreeBlocks' /\ BlockUse'
  BY DEF StartingBlocks, ListedBlocks, NamedBlocks, FreeBlocks, BlockUse
<1>2. \A c \in Proc : (Current(c)' <=> Current(c)) /\ (Starting(c)' <=> Starting(c)) BY DEF Current, Starting
<1>3. OwnBlock' /\ Waiting' /\ Returned' BY <1>2 DEF OwnBlock, Waiting, Returned, Current, Starting
<1>4. Counters' BY <1>2 DEF Counters, CounterOf
<1>5. Woken' BY DEF Woken, Starting
<1>6. Freers' BY DEF Freers, Freeing
<1> QED BY <1>1, <1>3, <1>4, <1>5, <1>6

LEMMA ProtocolStep == RefsInv /\ RefsInv' /\ UnspoiledInv /\ [PlNext]_plVars => UnspoiledInv'
<1> SUFFICES ASSUME RefsInv, RefsInv', UnspoiledInv, [PlNext]_plVars, Unspoiled' PROVE ProtocolInv'
  BY DEF UnspoiledInv
<1>1. Unspoiled /\ ProtocolInv BY SpoiledStays DEF UnspoiledInv
<1> USE DEF At, PlGoto
<1>2. CASE UNCHANGED plVars
  <2>1. panic' # "freed" BY <1>1, <1>2 DEF plVars, ProtocolInv
  <2> QED BY <1>1, <1>2, <2>1, ProtocolSame DEF plVars
<1>3. ASSUME NEW p \in Proc, KernelStep(p) \/ UserStep(p) PROVE ProtocolInv'
  <2>1. CASE \E c \in Proc : Execute(p, c) BY <1>1, <2>1, ProtocolExecute
  <2>2. CASE Executed(p) BY <1>1, <2>2, ProtocolExecuted DEF Unspoiled
  <2>12. CASE \E c \in Proc : ExecuteNoPage(p, c) BY <1>1, <2>12, ProtocolSame DEF ExecuteNoPage
  <2>3. CASE StartProcess(p)
    <3>1. PICK t \in BOOLEAN :
            /\ shared' = [shared EXCEPT ![p].status = t, ![p].sema = @ + 1]
            /\ exitStatus' = [exitStatus EXCEPT ![p] = IF t THEN @ ELSE -1]
            /\ ppc' = [ppc EXCEPT ![p] = IF t THEN "user" ELSE "exitDec"]
      BY <2>3 DEF StartProcess
    <3>2. /\ ppc[p] = "load" /\ pcRef' = [pcRef EXCEPT ![p] = shared[p].block]
          /\ UNCHANGED <<block, onFreeList, children, arg, target, status, waited, panic>>
      BY <2>3 DEF StartProcess
    <3>3. p # Root BY <3>2 DEF RefsInv, StartedRefs, Waits
    <3>4. \A q \in Proc : shared'[q].block = shared[q].block BY <3>1 DEF RefsInv, PlTypeOK
    <3>5. /\ ppc'[p] \in {"user", "exitDec"}
          /\ \A q \in Proc \ {p} : ppc'[q] = ppc[q] /\ exitStatus'[q] = exitStatus[q] /\ pcRef'[q] = pcRef[q]
      BY <3>1, <3>2 DEF RefsInv, PlTypeOK
    <3> QED BY <1>1, <3>2, <3>3, <3>4, <3>5, ProtocolQuiet
  <2>4. CASE \E t \in Proc : Wait(p, t) BY <1>1, <2>4, ProtocolWait
  <2>5. CASE (\E s \in ExitStatus : SysExit(p, s)) \/ Kill(p)
    <3>1. /\ ppc[p] = "user" /\ p # Root /\ ppc'[p] = "exitDec"
          /\ \A q \in Proc \ {p} : ppc'[q] = ppc[q] /\ exitStatus'[q] = exitStatus[q]
          /\ UNCHANGED <<block, onFreeList, children, pcRef, shared, arg, target, status, waited, panic>>
      BY <2>5 DEF SysExit, Kill, RefsInv, PlTypeOK
    <3> QED BY <1>1, <3>1, ProtocolQuiet
  <2>6. CASE WaitSema(p) BY <1>1, <2>6, ProtocolWaitSema
  <2>7. CASE WaitDec(p) BY <1>1, <2>7, ProtocolWaitDec
  <2>8. CASE WaitReturn(p) BY <1>1, <2>8, ProtocolReturn
  <2>9. CASE ExitDec(p) \/ ExitUp(p) BY <1>1, <2>9, ProtocolExit
  <2>10. CASE WaitTest(p) \/ WaitRemove(p) \/ WaitFree(p)
    <3>1. PICK b : b = target[p] OBVIOUS
    <3>2. b \in Block BY <2>10, <3>1 DEF WaitTest, WaitRemove, WaitFree, RefsInv, CallRefs, Waits
    <3>3. \A q \in Proc \ {p} : ppc'[q] = ppc[q]
      BY <2>10 DEF WaitTest, WaitRemove, WaitFree, RefsInv, PlTypeOK
    <3>4. CASE WaitTest(p)
      <4>1. /\ ppc[p] = "waitTest" /\ ppc'[p] = IF block[b].alive = 0 THEN "waitRemove" ELSE "waitReturn"
            /\ raced' = (raced \/ Races(b))
            /\ UNCHANGED <<block, onFreeList, children, pcRef, exitStatus, shared, arg, target, status, waited, panic>>
        BY <3>1, <3>4 DEF WaitTest, RefsInv, PlTypeOK
      <4>2. ~Races(b) BY <4>1 DEF Unspoiled
      <4> QED BY <1>1, <3>1, <3>2, <3>3, <4>1, <4>2, ProtocolTest
    <3>5. CASE WaitRemove(p)
      <4>1. /\ ppc[p] = "waitRemove" /\ ppc'[p] = "waitFree" /\ Unlink(b)
            /\ UNCHANGED <<block, onFreeList, pcRef, exitStatus, shared, arg, target, status, waited>>
        BY <3>1, <3>5 DEF WaitRemove, RefsInv, PlTypeOK
      <4> QED BY <1>1, <3>1, <3>2, <3>3, <4>1, ProtocolRemove
    <3>6. CASE WaitFree(p)
      <4>1. /\ ppc[p] = "waitFree" /\ ppc'[p] = "waitReturn" /\ Free(b)
            /\ UNCHANGED <<children, pcRef, exitStatus, shared, arg, target, status, waited, panic>>
        BY <3>1, <3>6 DEF WaitFree, RefsInv, PlTypeOK
      <4> QED BY <1>1, <3>1, <3>2, <3>3, <4>1, ProtocolFree
    <3> QED BY <2>10, <3>4, <3>5, <3>6
  <2>11. CASE ExitTest(p) \/ ExitRemove(p) \/ ExitFree(p)
    <3>1. PICK b : b = pcRef[p] OBVIOUS
    <3>2. ppc[p] \in {"exitTest", "exitRemove", "exitFree"} BY <2>11 DEF ExitTest, ExitRemove, ExitFree
    <3>3. b \in Block BY <3>1, <3>2 DEF RefsInv, StartedRefs, Waits
    <3>4. \A q \in Proc \ {p} : ppc'[q] = ppc[q]
      BY <2>11 DEF ExitTest, ExitRemove, ExitFree, RefsInv, PlTypeOK
    <3>5. CASE ExitTest(p)
      <4>1. /\ ppc[p] = "exitTest" /\ ppc'[p] = IF block[b].alive = 0 THEN "exitRemove" ELSE "dead"
            /\ raced' = (raced \/ Races(b))
            /\ UNCHANGED <<block, onFreeList, children, pcRef, exitStatus, shared, arg, target, status, waited, panic>>
        BY <3>1, <3>5 DEF ExitTest, RefsInv, PlTypeOK
      <4>2. ~Races(b) BY <4>1 DEF Unspoiled
      <4> QED BY <1>1, <3>1, <3>3, <3>4, <4>1, <4>2, ProtocolTest
    <3>6. CASE ExitRemove(p)
      <4>1. /\ ppc[p] = "exitRemove" /\ ppc'[p] = "exitFree" /\ Unlink(b)
            /\ UNCHANGED <<block, onFreeList, pcRef, exitStatus, shared, arg, target, status, waited>>
        BY <3>1, <3>6 DEF ExitRemove, RefsInv, PlTypeOK
      <4> QED BY <1>1, <3>1, <3>3, <3>4, <4>1, ProtocolRemove
    <3>7. CASE ExitFree(p)
      <4>1. /\ ppc[p] = "exitFree" /\ ppc'[p] = "dead" /\ Free(b)
            /\ UNCHANGED <<children, pcRef, exitStatus, shared, arg, target, status, waited, panic>>
        BY <3>1, <3>7 DEF ExitFree, RefsInv, PlTypeOK
      <4> QED BY <1>1, <3>1, <3>3, <3>4, <4>1, ProtocolFree
    <3> QED BY <2>11, <3>5, <3>6, <3>7
  <2> QED BY <1>3, <2>1, <2>2, <2>3, <2>4, <2>5, <2>6, <2>7, <2>8, <2>9, <2>10, <2>11, <2>12 DEF KernelStep, UserStep
<1> QED BY <1>2, <1>3 DEF PlNext

\* The protocol of the shared block, from the start to the first failed load
\* or the first block that both sides find at zero.
LEMMA ProtocolKept == PlSpec => [](RefsInv /\ UnspoiledInv)
<1>1. PlInit => UnspoiledInv BY ProtocolInit DEF UnspoiledInv
<1> QED BY <1>1, RefsInit, RefsStep, ProtocolStep, PTL DEF PlSpec

\* A thread that an exception has ended exits with the 0 it was born with.
StatusZero ==
  \A p \in Proc :
    /\ ppc[p] \in {"unborn", "load", "user", "execWait"} \cup Waits => exitStatus[p] = 0 /\ p \notin killed
    /\ p \in killed => exitStatus[p] = 0

LEMMA StatusStep == RefsInv /\ StatusZero /\ [PlNext]_plVars => StatusZero'
<1> SUFFICES ASSUME RefsInv, StatusZero, [PlNext]_plVars PROVE StatusZero' OBVIOUS
<1> USE DEF StatusZero, Waits, At, PlGoto
<1>1. CASE UNCHANGED plVars BY <1>1 DEF plVars
<1>2. ASSUME NEW p \in Proc, KernelStep(p) \/ UserStep(p) PROVE StatusZero'
  <2> USE DEF RefsInv, PlTypeOK
  <2>1. CASE \E c \in Proc : Execute(p, c) BY <2>1 DEF Execute, MayExecute
  <2>2. CASE \E c \in Proc : ExecuteNoPage(p, c) BY <2>2 DEF ExecuteNoPage
  <2>3. CASE Executed(p) BY <2>3 DEF Executed
  <2>4. CASE StartProcess(p)
    <3>1. PICK t \in BOOLEAN :
            /\ exitStatus' = [exitStatus EXCEPT ![p] = IF t THEN @ ELSE -1]
            /\ ppc' = [ppc EXCEPT ![p] = IF t THEN "user" ELSE "exitDec"]
      BY <2>4 DEF StartProcess
    <3>2. ppc[p] = "load" /\ killed' = killed BY <2>4 DEF StartProcess
    <3> QED BY <3>1, <3>2
  <2>5. CASE \E t \in Proc : Wait(p, t) BY <2>5 DEF Wait
  <2>6. CASE \E s \in ExitStatus : SysExit(p, s) BY <2>6 DEF SysExit
  <2>7. CASE Kill(p) BY <2>7 DEF Kill
  <2>8. CASE WaitSema(p) \/ WaitDec(p) \/ WaitTest(p) \/ WaitRemove(p) \/ WaitFree(p) \/ WaitReturn(p)
    BY <2>8 DEF WaitSema, WaitDec, WaitTest, WaitRemove, WaitFree, WaitReturn
  <2>9. CASE ExitDec(p) \/ ExitUp(p) \/ ExitTest(p) \/ ExitRemove(p) \/ ExitFree(p)
    BY <2>9 DEF ExitDec, ExitUp, ExitTest, ExitRemove, ExitFree
  <2> QED BY <1>2, <2>1, <2>2, <2>3, <2>4, <2>5, <2>6, <2>7, <2>8, <2>9 DEF KernelStep, UserStep
<1> QED BY <1>1, <1>2 DEF PlNext

LEMMA StatusKept == PlSpec => []StatusZero
<1>1. PlInit => StatusZero BY DEF PlInit, StatusZero
<1>2. PlSpec => []RefsInv BY RefsInit, RefsStep, PTL DEF PlSpec
<1> QED BY <1>1, <1>2, StatusStep, PTL DEF PlSpec

-----------------------------------------------------------------------------
\* process_execute and process_wait tell a parent the truth: exec reports
\* only loaded programs, and wait returns the status its own child really
\* exits with - 0 when an exception has ended it -, until a load fails or a
\* block is freed from both sides.
THEOREM ParentsTold == PlSpec => []ParentsToldTrue
<1>1. RefsInv /\ UnspoiledInv /\ StatusZero => WaitReturnsStatus
  <2> SUFFICES ASSUME RefsInv, UnspoiledInv, StatusZero, Unspoiled, NEW w \in waited
               PROVE  /\ ppc[w[2]] \in Exiting /\ <<w[1], w[2]>> \in MayExec
                      /\ w[3] = IF w[2] \in killed THEN 0 ELSE exitStatus[w[2]]
    BY DEF WaitReturnsStatus
  <2>1. w[2] \in Proc BY DEF RefsInv, PlTypeOK
  <2>2. ppc[w[2]] \in Told /\ exitStatus[w[2]] = w[3] /\ <<w[1], w[2]>> \in MayExec
    BY DEF UnspoiledInv, ProtocolInv, Returned
  <2> QED BY <2>1, <2>2 DEF StatusZero, Told, Exiting
<1>2. RefsInv => PlTypeOK /\ OnlyLoadedChildren
  BY ProcessAssumption DEF RefsInv, NamedLoaded, OnlyLoadedChildren
<1> QED BY <1>1, <1>2, ProtocolKept, StatusKept, PTL DEF ParentsToldTrue

\* process_wait answers for each child once: the search of the children list
\* never finds a child whose status was returned, though its block may have
\* been freed and given to another child since.
THEOREM WaitedOnce == PlSpec => WaitedOnlyOnce
<1> DEFINE Once == Unspoiled => \A p \in Proc : ppc[p] = "user" /\ ppc'[p] = "waitSema" =>
                      \A w \in waited : w[2] # arg'[p]
<1>1. ASSUME RefsInv, UnspoiledInv, [PlNext]_plVars PROVE [Once]_plVars
  <2> SUFFICES ASSUME Unspoiled, PlNext, NEW p \in Proc, ppc[p] = "user", ppc'[p] = "waitSema",
                      NEW w \in waited, w[2] = arg'[p]
               PROVE  FALSE
    BY <1>1
  <2>1. PICK q \in Proc : KernelStep(q) \/ UserStep(q) BY DEF PlNext
  <2>2. PICK t \in Proc : Wait(p, t)
    <3> USE DEF At, PlGoto, RefsInv, PlTypeOK
    <3>1. CASE \E c \in Proc : Execute(q, c) \/ ExecuteNoPage(q, c)
      BY <1>1, <3>1 DEF Execute, MayExecute, ExecuteNoPage
    <3>2. CASE Executed(q) \/ StartProcess(q) BY <1>1, <3>2 DEF Executed, StartProcess
    <3>3. CASE WaitSema(q) \/ WaitDec(q) \/ WaitTest(q) \/ WaitRemove(q) \/ WaitFree(q) \/ WaitReturn(q)
      BY <1>1, <3>3 DEF WaitSema, WaitDec, WaitTest, WaitRemove, WaitFree, WaitReturn
    <3>4. CASE ExitDec(q) \/ ExitUp(q) \/ ExitTest(q) \/ ExitRemove(q) \/ ExitFree(q)
      BY <1>1, <3>4 DEF ExitDec, ExitUp, ExitTest, ExitRemove, ExitFree
    <3>5. CASE (\E s \in ExitStatus : SysExit(q, s)) \/ Kill(q) BY <1>1, <3>5 DEF SysExit, Kill
    <3>6. CASE \E t \in Proc : Wait(q, t)
      <4>1. PICK t \in Proc : Wait(q, t) BY <3>6
      <4>2. q = p BY <1>1, <4>1 DEF Wait
      <4> QED BY <4>1, <4>2
    <3> QED BY <2>1, <3>1, <3>2, <3>3, <3>4, <3>5, <3>6 DEF KernelStep, UserStep
  <2>3. PICK b \in children[p] : block[b].child = t BY <2>2 DEF Wait
  <2>4. arg'[p] = t /\ b \in Block /\ t # NoBlock
    BY <1>1, <2>2, <2>3, ProcessAssumption DEF Wait, RefsInv, PlTypeOK
  <2>5. ProtocolInv BY <1>1 DEF UnspoiledInv
  <2>6. shared[t].block = b BY <2>3, <2>4, <2>5 DEF ProtocolInv, NamedBlocks
  <2>7. Current(t) BY <2>3, <2>6 DEF Current
  <2>8. ~Current(w[2]) BY <2>5 DEF ProtocolInv, Returned
  <2> QED BY <2>4, <2>7, <2>8
<1> QED BY <1>1, ProtocolKept, PTL DEF PlSpec, WaitedOnlyOnce

\* malloc and free are used as they demand, and no thread follows a pointer
\* out of a freed block, until a load fails or both sides of a block find its
\* count zero: until then the one panic in exec, wait and exit is that of a
\* process_execute that gets no page for its struct shared.
THEOREM BlocksSafe == PlSpec => [](Unspoiled => panic \in {"no", "nopage"} /\ FreedOnce)
<1>1. RefsInv /\ UnspoiledInv => (Unspoiled => panic \in {"no", "nopage"} /\ FreedOnce)
  <2>1. SUFFICES ASSUME RefsInv, UnspoiledInv, Unspoiled PROVE panic \in {"no", "nopage"} /\ FreedOnce
    OBVIOUS
  <2>2. panic \in {"no", "nopage"} /\ FreeBlocks
    BY <2>1 DEF UnspoiledInv, ProtocolInv, RefsInv, PlTypeOK, Panics
  <2>3. ASSUME NEW b \in Block PROVE onFreeList[b] <= 1
    <3>1. onFreeList[b] = 0 \/ onFreeList[b] = 1
      BY <2>2 DEF FreeBlocks
    <3> QED BY <3>1
  <2> QED BY <2>2, <2>3 DEF FreedOnce
<1> QED BY <1>1, ProtocolKept, PTL

-----------------------------------------------------------------------------
(* The console relay of SquishRelay, for any input, any buffer and any      *)
(* number of connections.  What an operation of a round was chosen for      *)
(* still holds when its turn comes, and the two streams are always the      *)
(* parts that have been written, are in the pipe and are still in the link. *)

Ops == {"read0", "write0", "read1", "write1"}
SqPlaces == {"main", "accept", "select", "final"} \cup Ops \cup Over
EmuStates == {"none", "runs", "stopped", "closed", "dead"}
InBytes == {StdIn[i] : i \in DOMAIN StdIn}
PipeOf(S) == [in : {"stdin", "link", "none"}, out : {"link", "stdout", "none"}, buf : Seq(S),
              ofs : Int, active : BOOLEAN]
LinkType == [up : Seq(Nat), down : Seq(InBytes), open : BOOLEAN]

PipesOK(ps) ==
  /\ DOMAIN ps = 0 .. 1 /\ ps[0] \in PipeOf(InBytes) /\ ps[1] \in PipeOf(Nat)
  /\ ps[0].in \in {"stdin", "none"} /\ ps[0].out \in {"link", "none"} /\ ps[1].in \in {"link", "none"}
SqTypeOK ==
  /\ kind \in {"pty", "unix"} /\ sqpc \in SqPlaces /\ ready \subseteq Ops
  /\ PipesOK(pipes) /\ link \in LinkType /\ shown \in Seq(Nat)
  /\ taken \in Nat /\ taken <= Len(StdIn)
  /\ emu \in EmuStates /\ notice \in BOOLEAN /\ written \in Nat

\* The operations of a round that are still to come, at place pc with those of rd
\* chosen, for the pipes ps and the link l.
Chosen(pc, rd, ps, l) ==
  /\ pc \in Ops => pc \in rd
  /\ pc = "read0" => ps[0].in = "stdin" /\ ps[1].active
  /\ pc \in {"read0", "write0"} /\ "write0" \in rd => ps[0].out = "link" /\ ps[1].active
  /\ pc \in {"read0", "write0", "read1"} /\ "read1" \in rd
       => ps[1].in = "link" /\ (l.up # <<>> \/ ~l.open)

\* The ends of the link: once the emulator is gone it takes no more, and squish-pty
\* gives its end up, or ends, only then, or after a stop.
Ends ==
  /\ sqpc = "main" => emu = "none"
  /\ emu \in {"closed", "dead"} => ~link.open
  /\ emu = "dead" => notice
  /\ notice => emu = "dead" \/ stopped
  /\ emu = "stopped" => stopped
  /\ kind = "pty" /\ pipes[1].in = "none" => link.up = <<>> /\ ~link.open
  /\ kind = "pty" /\ sqpc \in {"final"} \cup Over => notice \/ pipes[1].in = "none"
  /\ kind = "pty" => sqpc \notin {"accept", "failed"}
  /\ kind = "pty" /\ sqpc \in Over => pipes[1].buf = <<>> /\ (link.up = <<>> \/ stopped)
  /\ kind = "pty" /\ sqpc = "zero" => pipes[1].in = "none" \/ stopped

Count(n) == [i \in 1 .. n |-> i]
Cat(s, t) == s \o t
Joined(s, b, u, n) == Cat(Cat(s, b), u) = Count(n)
ConsoleFlow == kind = "pty" => Joined(shown, pipes[1].buf, link.up, written)

Fed(d, b, t) == Cat(d, b) = SubSeq(StdIn, 1, t)
InputFlow ==
  /\ sqpc \notin {"accept"} \cup Over /\ pipes[0].out # "none" => Fed(link.down, pipes[0].buf, taken)
  /\ link.down # <<>> => pipes[1].active

SqInv == SqTypeOK /\ Chosen(sqpc, ready, pipes, link) /\ Ends /\ ConsoleFlow /\ InputFlow

-----------------------------------------------------------------------------
(* Streams cut in two and put together.                                     *)

LEMMA StdInSeq == StdIn \in Seq(InBytes) /\ Len(StdIn) \in Nat
BY SqAssumption DEF InBytes

LEMMA CatSeqs ==
  \A S : \A a, b \in Seq(S) : Cat(a, b) \in Seq(S) /\ Len(Cat(a, b)) = Len(a) + Len(b)
BY DEF Cat
LEMMA Regroup == \A S : \A a, b, c \in Seq(S) : Cat(Cat(a, b), c) = Cat(a, Cat(b, c))
<1> TAKE S
<1> TAKE a, b, c \in Seq(S)
<1> QED BY DEF Cat

\* A sequence is its first n and the others.
Split(s, x, y, n) == Cat(x, y) = s /\ Len(x) = n /\ Len(y) = Len(s) - n
LEMMA CutSeq ==
  ASSUME NEW S, NEW s \in Seq(S), NEW n \in Nat, n <= Len(s)
  PROVE  /\ SubSeq(s, 1, n) \in Seq(S) /\ SubSeq(s, n + 1, Len(s)) \in Seq(S)
         /\ Split(s, SubSeq(s, 1, n), SubSeq(s, n + 1, Len(s)), n)
<1>1. Len(s) \in Nat /\ \A i \in 1 .. Len(s) : s[i] \in S OBVIOUS
<1>2. SubSeq(s, 1, n) \in Seq(S) /\ Len(SubSeq(s, 1, n)) = n
  <2>1. \A i \in 1 .. n : s[i] \in S BY <1>1
  <2> QED BY <2>1, SubSeqProperties
<1>3. SubSeq(s, n + 1, Len(s)) \in Seq(S) /\ Len(SubSeq(s, n + 1, Len(s))) = Len(s) - n
  <2> DEFINE m == n + 1
  <2>1. m \in Int /\ Len(s) \in Int /\ \A i \in m .. Len(s) : s[i] \in S BY <1>1
  <2> HIDE DEF m
  <2>2. SubSeq(s, m, Len(s)) \in Seq(S) /\ Len(SubSeq(s, m, Len(s))) = IF m <= Len(s) THEN Len(s) - m + 1 ELSE 0
    BY <2>1, SubSeqProperties
  <2> QED BY <1>1, <2>2 DEF m
<1>4. SubSeq(s, 1, n) \o SubSeq(s, n + 1, Len(s)) = SubSeq(s, 1, Len(s))
  <2>1. 1 \in 1 .. Len(s) + 1 /\ n \in 1 - 1 .. Len(s) /\ Len(s) \in n .. Len(s) BY <1>1
  <2> QED BY <2>1, ConcatAdjacentSubSeq
<1>5. Cat(SubSeq(s, 1, n), SubSeq(s, n + 1, Len(s))) = s BY <1>4, SubSeqFull DEF Cat
<1> QED BY <1>2, <1>3, <1>5 DEF Split

\* The first n of c move into b, which comes before it.
LEMMA MoveIn ==
  ASSUME NEW S, NEW a \in Seq(S), NEW b \in Seq(S), NEW c \in Seq(S), NEW n \in Nat, n <= Len(c)
  PROVE  Cat(Cat(a, Cat(b, SubSeq(c, 1, n))), SubSeq(c, n + 1, Len(c))) = Cat(Cat(a, b), c)
<1> DEFINE x == SubSeq(c, 1, n)
           y == SubSeq(c, n + 1, Len(c))
<1>1. x \in Seq(S) /\ y \in Seq(S) /\ Cat(x, y) = c BY CutSeq DEF Split
<1> HIDE DEF x, y
<1>2. Cat(a, b) \in Seq(S) BY CatSeqs
<1>3. Cat(a, Cat(b, x)) = Cat(Cat(a, b), x) BY <1>1, Regroup
<1>4. Cat(Cat(Cat(a, b), x), y) = Cat(Cat(a, b), Cat(x, y)) BY <1>1, <1>2, Regroup
<1> QED BY <1>1, <1>3, <1>4 DEF x, y

\* The first n of b move to the end of a.
LEMMA MoveOut ==
  ASSUME NEW S, NEW a \in Seq(S), NEW b \in Seq(S), NEW n \in Nat, n <= Len(b)
  PROVE  Cat(Cat(a, SubSeq(b, 1, n)), SubSeq(b, n + 1, Len(b))) = Cat(a, b)
<1> DEFINE x == SubSeq(b, 1, n)
           y == SubSeq(b, n + 1, Len(b))
<1>1. x \in Seq(S) /\ y \in Seq(S) /\ Cat(x, y) = b BY CutSeq DEF Split
<1> HIDE DEF x, y
<1>2. Cat(Cat(a, x), y) = Cat(a, Cat(x, y)) BY <1>1, Regroup
<1> QED BY <1>1, <1>2 DEF x, y

\* The first elements of two sequences put together.
LEMMA FirstOf ==
  ASSUME NEW S, NEW x \in Seq(S), NEW y \in Seq(S)
  PROVE  SubSeq(Cat(x, y), 1, Len(x)) = x
<1> DEFINE s == x \o y
           k == Len(x)
<1>1. s \in Seq(S) /\ k \in Nat /\ Len(s) = k + Len(y) /\ Len(y) \in Nat /\ \A i \in 1 .. k : s[i] = x[i]
  OBVIOUS
<1> HIDE DEF s
<1>2. k \in Int /\ 1 \in Int /\ \A i \in 1 .. k : s[i] \in S BY <1>1
<1>3. SubSeq(s, 1, k) \in Seq(S) /\ Len(SubSeq(s, 1, k)) = k /\ \A i \in 1 .. k : SubSeq(s, 1, k)[i] = s[i]
  <2>1. /\ SubSeq(s, 1, k) \in Seq(S) /\ Len(SubSeq(s, 1, k)) = (IF 1 <= k THEN k - 1 + 1 ELSE 0)
        /\ \A i \in 1 .. k - 1 + 1 : SubSeq(s, 1, k)[i] = s[1 + i - 1]
    BY <1>2, SubSeqProperties
  <2> HIDE DEF k
  <2> QED BY <1>1, <2>1
<1>4. SubSeq(s, 1, k) = x BY <1>1, <1>3, SeqEqual
<1> QED BY <1>4 DEF s, Cat

\* What is taken of standard input continues what was taken.
LEMMA TakeOn ==
  ASSUME NEW t \in Nat, t <= Len(StdIn), NEW n \in Nat, n <= Len(SubSeq(StdIn, t + 1, Len(StdIn)))
  PROVE  /\ Cat(SubSeq(StdIn, 1, t), SubSeq(SubSeq(StdIn, t + 1, Len(StdIn)), 1, n)) = SubSeq(StdIn, 1, t + n)
         /\ t + n <= Len(StdIn)
         /\ SubSeq(SubSeq(StdIn, t + 1, Len(StdIn)), 1, n) \in Seq(InBytes)
         /\ SubSeq(StdIn, 1, t) \in Seq(InBytes)
<1> DEFINE x == SubSeq(StdIn, 1, t)
           d == SubSeq(StdIn, t + 1, Len(StdIn))
           e == SubSeq(d, 1, n)
           f == SubSeq(d, n + 1, Len(d))
<1>1. StdIn \in Seq(InBytes) /\ Len(StdIn) \in Nat BY StdInSeq
<1>2. x \in Seq(InBytes) /\ d \in Seq(InBytes) /\ Split(StdIn, x, d, t) BY <1>1, CutSeq
<1>3. n <= Len(d) OBVIOUS
<1> HIDE DEF d, x
<1>4. e \in Seq(InBytes) /\ f \in Seq(InBytes) /\ Split(d, e, f, n) BY <1>2, <1>3, CutSeq
<1> HIDE DEF e, f
<1>5. Cat(x, e) \in Seq(InBytes) /\ Len(Cat(x, e)) = t + n /\ t + n <= Len(StdIn)
  <2>1. Cat(x, e) \in Seq(InBytes) /\ Len(Cat(x, e)) = Len(x) + Len(e) BY <1>2, <1>4, CatSeqs
  <2>2. Len(x) = t /\ Len(d) = Len(StdIn) - t BY <1>2 DEF Split
  <2>3. Len(e) = n BY <1>4 DEF Split
  <2> DEFINE a == Len(StdIn)
             b == Len(d)
  <2>4. a \in Nat /\ b = a - t /\ n <= b BY <1>1, <1>3, <2>2
  <2> HIDE DEF a, b
  <2>5. t + n <= a BY <2>4
  <2> QED BY <2>1, <2>2, <2>3, <2>5 DEF a
<1>6. Cat(Cat(x, e), f) = StdIn BY <1>2, <1>4, Regroup DEF Split
<1>7. SubSeq(StdIn, 1, t + n) = Cat(x, e)
  <2> DEFINE z == Cat(x, e)
  <2> HIDE DEF z
  <2>1. z \in Seq(InBytes) /\ Len(z) = t + n /\ Cat(z, f) = StdIn BY <1>5, <1>6 DEF z
  <2>2. SubSeq(Cat(z, f), 1, Len(z)) = z BY <1>4, <2>1, FirstOf
  <2>3. SubSeq(StdIn, 1, t + n) = SubSeq(Cat(z, f), 1, Len(z)) BY <2>1, Zenon
  <2> QED BY <2>2, <2>3 DEF z
<1> QED BY <1>2, <1>4, <1>5, <1>7 DEF x, d, e

LEMMA AddOne ==
  ASSUME NEW S, NEW s \in Seq(S), NEW e \in S
  PROVE  Append(s, e) = Cat(s, <<e>>) /\ <<e>> \in Seq(S)
<1>1. Append(s, e) = s \o <<e>> BY AppendIsConcat
<1>2. Append(s, e) = Cat(s, <<e>>) BY ONLY <1>1 DEF Cat
<1> QED BY <1>2

LEMMA CountOn == ASSUME NEW n \in Nat PROVE Append(Count(n), n + 1) = Count(n + 1) /\ Count(n) \in Seq(Nat)
                 /\ Len(Count(n)) = n
<1>1. Count(n) \in Seq(Nat) /\ Len(Count(n)) = n BY DEF Count
<1>2. Count(n + 1) \in Seq(Nat) /\ Len(Count(n + 1)) = n + 1 BY DEF Count
<1>3. /\ Append(Count(n), n + 1) \in Seq(Nat) /\ Len(Append(Count(n), n + 1)) = n + 1
      /\ \A i \in 1 .. n : Append(Count(n), n + 1)[i] = Count(n)[i]
      /\ Append(Count(n), n + 1)[n + 1] = n + 1
  BY <1>1, AppendProperties
<1>4. \A i \in 1 .. n + 1 : Append(Count(n), n + 1)[i] = Count(n + 1)[i] BY <1>3 DEF Count
<1> QED BY <1>1, <1>2, <1>3, <1>4, SeqEqual

-----------------------------------------------------------------------------
(* The operations of a round, in their order.                               *)

GoesOn(op, ops, a) ==
  \/ a = "select"
  \/ /\ a \in ops /\ op # "write1"
     /\ op = "read0" => a \in {"write0", "read1", "write1"}
     /\ op = "write0" => a \in {"read1", "write1"}
     /\ op = "read1" => a = "write1"

LEMMA OrderIs ==
  /\ Order[1] = "read0" /\ Order[2] = "write0" /\ Order[3] = "read1" /\ Order[4] = "write1"
  /\ Reads[0] = "read0" /\ Reads[1] = "read1" /\ Writes[0] = "write0" /\ Writes[1] = "write1"
BY DEF Order, Reads, Writes

LEMMA AfterGoes == ASSUME NEW op \in Ops \cup {"select"}, NEW ops PROVE GoesOn(op, ops, After(op, ops))
<1> DEFINE from == IF op = "select" THEN 0 ELSE CHOOSE k \in 1 .. 4 : Order[k] = op
           later == {i \in from + 1 .. 4 : Order[i] \in ops}
           first == CHOOSE i \in later : \A j \in later : i <= j
<1>1. After(op, ops) = IF later = {} THEN "select" ELSE Order[first] BY DEF After
<1>2. from \in 0 .. 4 /\ (op = "select" <=> from = 0) /\ (op # "select" => Order[from] = op)
  <2>1. CASE op = "select" BY <2>1
  <2>2. CASE op # "select"
    <3>1. \E k \in 1 .. 4 : Order[k] = op BY <2>2, OrderIs DEF Ops
    <3> DEFINE c == CHOOSE k \in 1 .. 4 : Order[k] = op
    <3>2. c \in 1 .. 4 /\ Order[c] = op BY <3>1
    <3>3. from = c BY <2>2
    <3> HIDE DEF c, from
    <3> QED BY <2>2, <3>2, <3>3
  <2> QED BY <2>1, <2>2
<1> HIDE DEF from
<1>3. CASE later = {} BY <1>1, <1>3 DEF GoesOn
<1>4. CASE later # {}
  <2>1. \E i \in later : \A j \in later : i <= j
    <3>1. later \subseteq {1, 2, 3, 4} BY <1>2
    <3> HIDE DEF later
    <3>2. CASE 1 \in later BY <3>1, <3>2
    <3>3. CASE 1 \notin later /\ 2 \in later BY <3>1, <3>3
    <3>4. CASE 1 \notin later /\ 2 \notin later /\ 3 \in later BY <3>1, <3>4
    <3>5. CASE 1 \notin later /\ 2 \notin later /\ 3 \notin later
      <4>1. PICK i \in later : TRUE BY <1>4
      <4>2. later = {4} BY <3>1, <3>5, <4>1
      <4> QED BY <4>2
    <3> QED BY <3>2, <3>3, <3>4, <3>5
  <2>2. first \in later BY <2>1
  <2>3. first \in from + 1 .. 4 /\ Order[first] \in ops BY <2>2
  <2>4. After(op, ops) = Order[first] BY <1>1, <1>4
  <2> HIDE DEF first, later
  <2>5. first \in 1 .. 4 /\ from < first BY <1>2, <2>3
  <2> QED BY <1>2, <2>3, <2>4, <2>5, OrderIs DEF GoesOn, Ops
<1> QED BY <1>3, <1>4

\* What is chosen for a place holds for those after it, when the operation did not
\* disturb it.
LEMMA ChosenOn ==
  ASSUME NEW op \in Ops, NEW rd, rd \subseteq Ops, NEW ps, NEW l, NEW qs, NEW k, Chosen(op, rd, ps, l),
         ps[1].active => qs[1].active,
         op = "read0" => qs[0].out = ps[0].out,
         op \in {"read0", "write0"} => qs[1].in = ps[1].in /\ k.up = l.up /\ k.open = l.open
  PROVE  Chosen(After(op, rd), rd, qs, k) /\ After(op, rd) \in {"select"} \cup Ops
<1>1. GoesOn(op, rd, After(op, rd)) BY AfterGoes
<1> QED BY <1>1 DEF GoesOn, Chosen, Ops

-----------------------------------------------------------------------------
(* The steps.                                                               *)

LEMMA SqInvInit == SqInit => SqInv
<1> SUFFICES ASSUME SqInit PROVE SqInv OBVIOUS
<1>1. pipes[0] = Pipe("stdin", "link") /\ pipes[1] = Pipe("link", "stdout") /\ DOMAIN pipes = 0 .. 1
  BY DEF SqInit, NewPipes
<1>2. <<>> \in Seq(Nat) /\ <<>> \in Seq(InBytes) OBVIOUS
<1>3. link.up = <<>> /\ link.down = <<>> /\ link \in LinkType BY <1>2 DEF SqInit, NewLink, LinkType
<1>4. SqTypeOK
  <2>1. PipesOK(pipes) BY <1>1, <1>2 DEF PipesOK, PipeOf, Pipe
  <2>2. 0 <= Len(StdIn) BY StdInSeq
  <2> QED BY <1>2, <1>3, <2>1, <2>2, SqAssumption DEF SqInit, SqTypeOK, SqPlaces, Over, RelayEnded, EmuStates
<1>5. ConsoleFlow
  <2>1. Cat(Cat(<<>>, <<>>), <<>>) = Count(0) BY DEF Count, Cat
  <2> QED BY <1>1, <1>3, <2>1 DEF SqInit, ConsoleFlow, Joined, Pipe
<1>6. InputFlow
  <2>1. Cat(<<>>, <<>>) = <<>> BY DEF Cat
  <2>2. SubSeq(StdIn, 1, 0) = <<>> BY ONLY SubSeqEmpty
  <2>3. Fed(<<>>, <<>>, 0) BY ONLY <2>1, <2>2 DEF Fed
  <2> QED BY <2>3, <1>1, <1>3 DEF SqInit, InputFlow, Pipe
<1>7. Chosen(sqpc, ready, pipes, link) BY DEF SqInit, Chosen, Ops
<1>8. Ends BY <1>1 DEF SqInit, Ends, Over, RelayEnded, Pipe
<1> QED BY <1>4, <1>5, <1>6, <1>7, <1>8 DEF SqInv

\* Steps that leave pipes, link and what was shown alone: only the place moves.
LEMMA OnlyMoves ==
  ASSUME SqInv, UNCHANGED <<kind, pipes, ready, taken, shown, link, written>>,
         sqpc' \in SqPlaces \ Ops, sqpc' # "main", emu' \in EmuStates, notice' \in BOOLEAN,
         Ends', sqpc \in {"accept"} \cup Over => sqpc' \in {"accept"} \cup Over
  PROVE  SqInv'
<1>1. SqTypeOK' BY DEF SqInv, SqTypeOK
<1>2. Chosen(sqpc', ready', pipes', link') BY DEF SqInv, Chosen, SqPlaces, Ops
<1>3. ConsoleFlow' BY DEF SqInv, ConsoleFlow
<1>4. InputFlow' BY DEF SqInv, InputFlow
<1> QED BY <1>1, <1>2, <1>3, <1>4 DEF SqInv

LEMMA SqForked == SqInv /\ (main_pty \/ main_unix) => SqInv'
<1> SUFFICES ASSUME SqInv, main_pty \/ main_unix PROVE SqInv' OBVIOUS
<1>1. /\ sqpc = "main" /\ sqpc' \in {"select", "accept"} /\ emu' = "runs" /\ (kind = "pty" => sqpc' = "select")
      /\ UNCHANGED <<kind, pipes, ready, taken, shown, link, notice, stopped, written, conns>>
  BY DEF main_pty, main_unix, Forked
<1>2. Ends' BY <1>1 DEF SqInv, Ends, Over, RelayEnded
<1> QED BY <1>1, <1>2, OnlyMoves DEF SqInv, SqTypeOK, SqPlaces, Ops, Over, RelayEnded, EmuStates

\* Steps of the emulator: the link may get more and may close.
LEMMA LinkGrows ==
  ASSUME SqInv, UNCHANGED <<kind, sqpc, pipes, ready, taken, shown>>,
         link' \in LinkType, link'.down = link.down, link.up # <<>> => link'.up # <<>>,
         ~link.open => ~link'.open,
         emu' \in EmuStates, notice' \in BOOLEAN, written' \in Nat, Ends', ConsoleFlow'
  PROVE  SqInv'
<1>1. SqTypeOK' BY DEF SqInv, SqTypeOK
<1>2. Chosen(sqpc', ready', pipes', link') BY DEF SqInv, Chosen
<1>3. InputFlow' BY DEF SqInv, InputFlow
<1> QED BY <1>1, <1>2, <1>3 DEF SqInv

LEMMA SqWrite == SqInv /\ Write => SqInv'
<1> SUFFICES ASSUME SqInv, Write PROVE SqInv' OBVIOUS
<1> DEFINE n == written + 1
<1>1. /\ UNCHANGED <<kind, sqpc, pipes, ready, taken, shown, emu, notice, stopped>> /\ emu = "runs" /\ link.open
      /\ written' = n /\ link' = [link EXCEPT !.up = Append(@, n)]
  BY DEF Write
<1>2. /\ link \in LinkType /\ link.up \in Seq(Nat) /\ n \in Nat /\ written \in Nat /\ shown \in Seq(Nat)
      /\ pipes[1].buf \in Seq(Nat) /\ notice \in BOOLEAN
  BY DEF SqInv, SqTypeOK, LinkType, PipesOK, PipeOf
<1>3. link'.up = Append(link.up, n) /\ link'.down = link.down /\ link'.open = link.open
  BY <1>1, <1>2 DEF LinkType
<1>4. Append(link.up, n) \in Seq(Nat) /\ Append(link.up, n) # <<>> BY <1>2
<1>5. link' = [up |-> Append(link.up, n), down |-> link.down, open |-> link.open] BY <1>1, <1>2 DEF LinkType
<1>6. link' \in LinkType BY <1>2, <1>4, <1>5 DEF LinkType
<1>7. Ends' BY <1>1, <1>3 DEF SqInv, Ends, Over, RelayEnded
<1>8. ConsoleFlow'
  <2> SUFFICES ASSUME kind = "pty" PROVE Joined(shown, pipes[1].buf, Append(link.up, n), n)
    BY <1>1, <1>3 DEF ConsoleFlow
  <2>1. Cat(Cat(shown, pipes[1].buf), link.up) = Count(written) BY DEF SqInv, ConsoleFlow, Joined
  <2> DEFINE a == Cat(shown, pipes[1].buf)
             e == <<n>>
  <2>2. a \in Seq(Nat) BY <1>2, CatSeqs
  <2>3. Append(link.up, n) = Cat(link.up, e) /\ e \in Seq(Nat) BY <1>2, AddOne
  <2>4. Count(written) \in Seq(Nat) /\ Append(Count(written), n) = Count(n) BY <1>2, CountOn
  <2>5. Append(Count(written), n) = Cat(Count(written), e) BY <1>2, <2>4, AddOne
  <2> HIDE DEF a, e, n
  <2>6. Cat(a, Cat(link.up, e)) = Cat(Cat(a, link.up), e) BY <1>2, <2>2, <2>3, Regroup
  <2>7. Cat(a, link.up) = Count(written) BY <2>1 DEF a
  <2> QED BY <2>3, <2>4, <2>5, <2>6, <2>7 DEF Joined, a
<1> HIDE DEF n
<1> QED BY <1>1, <1>2, <1>3, <1>4, <1>6, <1>7, <1>8, LinkGrows DEF SqInv, SqTypeOK

LEMMA SqGoes == SqInv /\ (Reset \/ Close \/ sigchld_handler) => SqInv'
<1> SUFFICES ASSUME SqInv, Reset \/ Close \/ sigchld_handler PROVE SqInv' OBVIOUS
<1>1. /\ UNCHANGED <<kind, sqpc, pipes, ready, taken, shown, written>>
      /\ emu' \in EmuStates /\ notice' \in BOOLEAN
      /\ link' \in {link, [link EXCEPT !.open = FALSE]}
  BY DEF SqInv, SqTypeOK, Reset, Close, sigchld_handler, ChildChanges, EmuStates
<1>2. link \in LinkType BY DEF SqInv, SqTypeOK
<1>3. /\ link'.up = link.up /\ link'.down = link.down /\ link' \in LinkType
      /\ (~link.open => ~link'.open)
  BY <1>1, <1>2 DEF LinkType
<1>4. ConsoleFlow' BY <1>1, <1>3 DEF SqInv, ConsoleFlow
<1>5. Ends'
  <2>1. CASE Reset BY <1>1, <1>2, <1>3, <2>1 DEF Reset, SqInv, Ends, LinkType
  <2>2. CASE Close
    <3>1. /\ ~link'.open /\ emu \in {"runs", "stopped"} /\ emu' = "closed"
          /\ UNCHANGED <<kind, sqpc, pipes, notice, stopped>>
      BY <1>2, <2>2 DEF Close, LinkType
    <3> QED BY <1>3, <3>1 DEF SqInv, Ends
  <2>3. CASE sigchld_handler
    <3>1. /\ link' = link /\ notice' = TRUE /\ UNCHANGED <<kind, sqpc, pipes>>
          /\ \/ emu = "closed" /\ emu' = "dead" /\ stopped' = stopped
             \/ emu = "runs" /\ emu' = "stopped" /\ stopped' = TRUE
             \/ emu = "stopped" /\ emu' = "runs" /\ stopped' = stopped
      BY <2>3 DEF sigchld_handler, ChildChanges
    <3> QED BY <3>1 DEF SqInv, Ends
  <2> QED BY <2>1, <2>2, <2>3
<1>6. link.up # <<>> => link'.up # <<>> BY <1>3
<1>7. written' \in Nat BY <1>1 DEF SqInv, SqTypeOK
<1> QED BY <1>1, <1>3, <1>4, <1>5, <1>6, <1>7, LinkGrows

LEMMA SqAccept == SqInv /\ accept => SqInv'
<1> SUFFICES ASSUME SqInv, accept PROVE SqInv' OBVIOUS
<1>1. /\ kind = "unix" /\ emu = "runs" /\ link' = NewLink /\ pipes' = NewPipes /\ sqpc' = "select" /\ taken' = 0
      /\ UNCHANGED <<kind, ready, shown, emu, notice, stopped, written>>
  BY DEF accept
<1>2. pipes'[0] = Pipe("stdin", "link") /\ pipes'[1] = Pipe("link", "stdout") /\ DOMAIN pipes' = 0 .. 1
  BY <1>1 DEF NewPipes
<1>3. <<>> \in Seq(Nat) /\ <<>> \in Seq(InBytes) OBVIOUS
<1>4. link'.up = <<>> /\ link'.down = <<>> /\ link'.open /\ link' \in LinkType
  BY <1>1, <1>3 DEF NewLink, LinkType
<1>5. SqTypeOK'
  <2>1. PipesOK(pipes)' BY <1>2, <1>3 DEF PipesOK, PipeOf, Pipe
  <2>2. 0 <= Len(StdIn) BY StdInSeq
  <2> QED BY <1>1, <1>4, <2>1, <2>2 DEF SqInv, SqTypeOK, SqPlaces
<1>6. ConsoleFlow' BY <1>1 DEF ConsoleFlow
<1>7. InputFlow'
  <2>1. Cat(<<>>, <<>>) = <<>> BY DEF Cat
  <2>2. SubSeq(StdIn, 1, 0) = <<>> BY ONLY SubSeqEmpty
  <2>3. Fed(<<>>, <<>>, 0) BY ONLY <2>1, <2>2 DEF Fed
  <2> QED BY <2>3, <1>1, <1>2, <1>4 DEF InputFlow, Pipe
<1>8. Chosen(sqpc', ready', pipes', link') BY <1>1 DEF Chosen, Ops
<1>9. Ends' BY <1>1 DEF SqInv, Ends, Over, RelayEnded
<1> QED BY <1>5, <1>6, <1>7, <1>8, <1>9 DEF SqInv

LEMMA SqAccepted == SqInv /\ (accept_interrupted \/ main_ends) => SqInv'
<1> SUFFICES ASSUME SqInv, accept_interrupted \/ main_ends PROVE SqInv' OBVIOUS
<1>1. /\ UNCHANGED <<kind, pipes, ready, taken, shown, link, emu, notice, stopped, written>>
      /\ sqpc \in {"accept", "done"} /\ sqpc' \in {"done", "zero", "like_child"}
      /\ sqpc = "accept" => kind = "unix"
      /\ sqpc = "done" /\ kind = "pty" /\ sqpc' = "zero" => emu # "dead"
  BY DEF accept_interrupted, main_ends
<1>2. Ends' BY <1>1 DEF SqInv, Ends, Over, RelayEnded
<1> QED BY <1>1, <1>2, OnlyMoves DEF SqInv, SqTypeOK, SqPlaces, Ops, Over, RelayEnded

LEMMA SqSelect == SqInv /\ select => SqInv'
<1> SUFFICES ASSUME SqInv, select PROVE SqInv' OBVIOUS
<1>1. sqpc = "select" /\ UNCHANGED <<kind, pipes, taken, shown, link, emu, notice, stopped, written>> BY DEF select
<1>2. CASE sqpc' = "final" /\ UNCHANGED ready /\ (LoopEnds \/ notice)
  <2>1. Ends' BY <1>1, <1>2 DEF SqInv, Ends, LoopEnds, Over, RelayEnded
  <2> QED BY <1>1, <1>2, <2>1, OnlyMoves DEF SqInv, SqTypeOK, SqPlaces, Ops, Over, RelayEnded
<1>3. CASE /\ ~LoopEnds
           /\ LET wanted == Wanted(0) \cup Wanted(1)
                  reads == {Reads[p] : p \in {q \in 0 .. 1 : Reads[q] \in wanted /\ Readable(q)}}
              IN \E w \in SUBSET (wanted \cap {Writes[0], Writes[1]}) :
                   /\ reads \cup w # {}
                   /\ ready' = reads \cup w /\ sqpc' = After("select", ready')
  <2> DEFINE wanted == Wanted(0) \cup Wanted(1)
             reads == {Reads[p] : p \in {q \in 0 .. 1 : Reads[q] \in wanted /\ Readable(q)}}
  <2>1. PICK w \in SUBSET (wanted \cap {Writes[0], Writes[1]}) : ready' = reads \cup w /\ sqpc' = After("select", ready')
    BY <1>3
  <2>2. /\ "read0" \in wanted => pipes[0].in # "none" /\ pipes[1].active
        /\ "write0" \in wanted => pipes[0].out # "none" /\ pipes[1].active
        /\ "read1" \in wanted => pipes[1].in # "none"
    BY OrderIs DEF Wanted
  <2>3. reads \subseteq Ops /\ ("write0" \notin reads) /\ (reads \subseteq wanted) /\ ("read1" \in reads => Readable(1))
    BY OrderIs DEF Ops
  <2>4. w \subseteq wanted /\ w \subseteq {"write0", "write1"} BY OrderIs
  <2> HIDE DEF wanted, reads
  <2>5. PipesOK(pipes) BY DEF SqInv, SqTypeOK
  <2>6. /\ ready' \subseteq Ops
        /\ "read0" \in ready' => pipes[0].in = "stdin" /\ pipes[1].active
        /\ "write0" \in ready' => pipes[0].out = "link" /\ pipes[1].active
        /\ "read1" \in ready' => pipes[1].in = "link" /\ (link.up # <<>> \/ ~link.open)
    BY <2>1, <2>2, <2>3, <2>4, <2>5 DEF PipesOK, Ops, Readable, Source
  <2>7. GoesOn("select", ready', sqpc') BY <2>1, AfterGoes
  <2>8. sqpc' \in {"select"} \cup Ops /\ (sqpc' \in Ops => sqpc' \in ready') BY <2>6, <2>7 DEF GoesOn, Ops
  <2>9. Chosen(sqpc', ready', pipes', link') BY <1>1, <2>6, <2>8 DEF Chosen, Ops
  <2>10. SqTypeOK' BY <1>1, <2>6, <2>8 DEF SqInv, SqTypeOK, SqPlaces
  <2>11. Ends' BY <1>1, <2>8 DEF SqInv, Ends, Over, RelayEnded, Ops
  <2>12. ConsoleFlow' BY <1>1 DEF SqInv, ConsoleFlow
  <2>13. InputFlow' BY <1>1 DEF SqInv, InputFlow, Over, RelayEnded
  <2> QED BY <2>9, <2>10, <2>11, <2>12, <2>13 DEF SqInv
<1> QED BY <1>2, <1>3 DEF select

\* What a read leaves in a pipe, and a write.
LEMMA FilledIs ==
  ASSUME NEW S, NEW q \in PipeOf(S), NEW d \in Seq(S)
  PROVE  /\ Filled(q, d) \in PipeOf(S) /\ Filled(q, d).in = q.in /\ Filled(q, d).out = q.out
         /\ Filled(q, d).buf = Cat(q.buf, d) /\ Filled(q, d).active
<1> DEFINE o == IF Len(q.buf) + Len(d) = BUFSIZ THEN 0 ELSE q.ofs
           c == q.buf \o d
<1>1. q.buf \in Seq(S) /\ q.ofs \in Int BY DEF PipeOf
<1>2. o \in Int /\ c = Cat(q.buf, d) BY <1>1 DEF Cat
<1>3. Cat(q.buf, d) \in Seq(S) BY <1>1, CatSeqs
<1>4. Filled(q, d) = [q EXCEPT !.buf = c, !.active = TRUE, !.ofs = o] BY DEF Filled
<1> HIDE DEF o, c
<1>5. Filled(q, d) = [in |-> q.in, out |-> q.out, buf |-> c, ofs |-> o, active |-> TRUE] BY <1>4 DEF PipeOf
<1> QED BY <1>2, <1>3, <1>5 DEF PipeOf

LEMMA WrittenIs ==
  ASSUME NEW S, NEW q \in PipeOf(S), NEW n \in Nat, n <= Len(q.buf)
  PROVE  /\ Written(q, n) \in PipeOf(S) /\ Written(q, n).in = q.in /\ Written(q, n).out = q.out
         /\ Written(q, n).buf = SubSeq(q.buf, n + 1, Len(q.buf)) /\ Written(q, n).active = q.active
<1> DEFINE o == IF n = Len(q.buf) THEN 0 ELSE q.ofs + n
           c == SubSeq(q.buf, n + 1, Len(q.buf))
<1>1. q.buf \in Seq(S) /\ q.ofs \in Int BY DEF PipeOf
<1>2. o \in Int BY <1>1
<1>3. c \in Seq(S) BY <1>1, CutSeq
<1>4. Written(q, n) = [q EXCEPT !.buf = c, !.ofs = o] BY DEF Written
<1> HIDE DEF o, c
<1>5. Written(q, n) = [in |-> q.in, out |-> q.out, buf |-> c, ofs |-> o, active |-> q.active] BY <1>4 DEF PipeOf
<1>6. Written(q, n) \in PipeOf(S) BY <1>2, <1>3, <1>5 DEF PipeOf
<1> QED BY <1>5, <1>6 DEF c

LEMMA SqRead0 == SqInv /\ read(0) => SqInv'
<1> SUFFICES ASSUME SqInv, read(0) PROVE SqInv' OBVIOUS
<1> DEFINE data == SubSeq(StdIn, taken + 1, Len(StdIn))
           q == pipes[0]
<1>1. sqpc = "read0" /\ UNCHANGED <<kind, ready, shown, emu, notice, stopped, written>> BY OrderIs DEF read
<1>2. /\ PipesOK(pipes) /\ Chosen("read0", ready, pipes, link) /\ ready \subseteq Ops /\ taken \in Nat
      /\ taken <= Len(StdIn) /\ link \in LinkType
  BY <1>1 DEF SqInv, SqTypeOK
<1>3. q.in = "stdin" /\ pipes[1].active /\ q \in PipeOf(InBytes) /\ DOMAIN pipes = 0 .. 1 BY <1>2 DEF Chosen, PipesOK
<1>4. CASE /\ \E n \in 1 .. Len(data) :
                /\ pipes' = [pipes EXCEPT ![0] = Filled(q, SubSeq(data, 1, n))]
                /\ taken' = taken + n /\ UNCHANGED link
           /\ Goon
  <2> DEFINE m == Len(data)
  <2>0. data \in Seq(InBytes) /\ m \in Nat BY <1>2, StdInSeq, CutSeq
  <2>1. PICK n \in 1 .. m : /\ pipes' = [pipes EXCEPT ![0] = Filled(q, SubSeq(data, 1, n))]
                             /\ taken' = taken + n /\ UNCHANGED link
    BY <1>4
  <2> DEFINE e == SubSeq(data, 1, n)
  <2>2. n \in Nat /\ n <= Len(data) BY <2>0, <2>1
  <2>3. /\ Cat(SubSeq(StdIn, 1, taken), e) = SubSeq(StdIn, 1, taken + n) /\ taken + n <= Len(StdIn)
        /\ e \in Seq(InBytes)
    BY <1>2, <2>2, TakeOn
  <2> HIDE DEF data, e, m
  <2>4. /\ pipes'[0] = Filled(q, e) /\ pipes'[1] = pipes[1] /\ DOMAIN pipes' = 0 .. 1
    BY <1>3, <2>1 DEF e
  <2>5. /\ pipes'[0] \in PipeOf(InBytes) /\ pipes'[0].in = q.in /\ pipes'[0].out = q.out
        /\ pipes'[0].buf = Cat(q.buf, e)
    <3>1. /\ Filled(q, e) \in PipeOf(InBytes) /\ Filled(q, e).in = q.in /\ Filled(q, e).out = q.out
          /\ Filled(q, e).buf = Cat(q.buf, e)
      BY ONLY <1>3, <2>3, FilledIs
    <3> QED BY ONLY <2>4, <3>1, Zenon
  <2>6. PipesOK(pipes') BY <1>2, <2>4, <2>5 DEF PipesOK
  <2>7. Chosen(sqpc', ready', pipes', link') /\ sqpc' \in {"select"} \cup Ops
    <3>1. sqpc' = After("read0", ready) BY <1>1, <1>4 DEF Goon
    <3> QED BY <1>1, <1>2, <2>1, <2>4, <2>5, <3>1, ChosenOn DEF Ops
  <2>8. SqTypeOK' BY <1>1, <1>2, <2>1, <2>2, <2>3, <2>6, <2>7 DEF SqInv, SqTypeOK, SqPlaces
  <2>9. Ends' BY <1>1, <2>1, <2>4, <2>7 DEF SqInv, Ends, Over, RelayEnded, Ops
  <2>10. ConsoleFlow' BY <1>1, <2>1, <2>4 DEF SqInv, ConsoleFlow
  <2>11. InputFlow'
    <3>1. ASSUME q.out # "none" PROVE Fed(link.down, Cat(q.buf, e), taken + n)
      <4>1. Cat(link.down, q.buf) = SubSeq(StdIn, 1, taken) BY <1>1, <3>1 DEF SqInv, InputFlow, Fed, Over, RelayEnded
      <4>2. link.down \in Seq(InBytes) /\ q.buf \in Seq(InBytes) BY <1>2, <1>3 DEF LinkType, PipeOf
      <4>3. Cat(link.down, Cat(q.buf, e)) = Cat(Cat(link.down, q.buf), e) BY <2>3, <4>2, Regroup
      <4> QED BY <2>3, <4>1, <4>3 DEF Fed
    <3> QED BY <1>3, <2>1, <2>4, <2>5, <3>1 DEF InputFlow
  <2> QED BY <2>7, <2>8, <2>9, <2>10, <2>11 DEF SqInv
<1>5. CASE pipes' = [pipes EXCEPT ![0].in = "none"] /\ Goon /\ UNCHANGED <<taken, link>>
  <2>1. pipes'[0] = [q EXCEPT !.in = "none"] /\ pipes'[1] = pipes[1] /\ DOMAIN pipes' = 0 .. 1 BY <1>3, <1>5
  <2>2. /\ pipes'[0] \in PipeOf(InBytes) /\ pipes'[0].in = "none" /\ pipes'[0].out = q.out
        /\ pipes'[0].buf = q.buf
    BY <1>3, <2>1 DEF PipeOf
  <2>3. PipesOK(pipes') BY <1>2, <2>1, <2>2 DEF PipesOK
  <2>4. Chosen(sqpc', ready', pipes', link') /\ sqpc' \in {"select"} \cup Ops
    <3>1. sqpc' = After("read0", ready) BY <1>1, <1>5 DEF Goon
    <3> QED BY <1>1, <1>2, <1>5, <2>1, <2>2, <3>1, ChosenOn DEF Ops
  <2>5. SqTypeOK' BY <1>1, <1>2, <1>5, <2>3, <2>4 DEF SqInv, SqTypeOK, SqPlaces
  <2>6. Ends' BY <1>1, <1>5, <2>1, <2>4 DEF SqInv, Ends, Over, RelayEnded, Ops
  <2>7. ConsoleFlow' BY <1>1, <1>5, <2>1 DEF SqInv, ConsoleFlow
  <2>8. InputFlow' BY <1>1, <1>3, <1>5, <2>1, <2>2 DEF SqInv, InputFlow, Over, RelayEnded
  <2> QED BY <2>4, <2>5, <2>6, <2>7, <2>8 DEF SqInv
<1> QED BY <1>1, <1>3, <1>4, <1>5, OrderIs DEF read, Source, handle_error

LEMMA SqRead1 == SqInv /\ read(1) => SqInv'
<1> SUFFICES ASSUME SqInv, read(1) PROVE SqInv' OBVIOUS
<1> DEFINE data == link.up
           q == pipes[1]
<1>1. sqpc = "read1" /\ UNCHANGED <<kind, ready, shown, emu, notice, stopped, written>> BY OrderIs DEF read
<1>2. /\ PipesOK(pipes) /\ Chosen("read1", ready, pipes, link) /\ ready \subseteq Ops /\ shown \in Seq(Nat)
      /\ link \in LinkType /\ data \in Seq(Nat) /\ "read1" \in ready
  BY <1>1 DEF SqInv, SqTypeOK, Chosen, Ops, LinkType
<1>3. /\ q.in = "link" /\ (data # <<>> \/ ~link.open)
      /\ q \in PipeOf(Nat) /\ q.buf \in Seq(Nat) /\ DOMAIN pipes = 0 .. 1
  BY <1>2 DEF Chosen, PipesOK, PipeOf
<1>4. CASE /\ \E n \in 1 .. Len(data) :
                /\ pipes' = [pipes EXCEPT ![1] = Filled(q, SubSeq(data, 1, n))]
                /\ link' = [link EXCEPT !.up = SubSeq(@, n + 1, Len(@))]
           /\ Goon /\ UNCHANGED taken
  <2> DEFINE m == Len(data)
  <2>0. m \in Nat BY <1>2
  <2>1. PICK n \in 1 .. m : /\ pipes' = [pipes EXCEPT ![1] = Filled(q, SubSeq(data, 1, n))]
                             /\ link' = [link EXCEPT !.up = SubSeq(data, n + 1, Len(data))]
    BY <1>4
  <2> DEFINE e == SubSeq(data, 1, n)
             f == SubSeq(data, n + 1, Len(data))
  <2>2. n \in Nat /\ n <= Len(data) BY <2>0, <2>1
  <2>3. e \in Seq(Nat) /\ f \in Seq(Nat) BY <1>2, <2>2, CutSeq
  <2>4. Cat(Cat(shown, Cat(q.buf, e)), f) = Cat(Cat(shown, q.buf), data) BY <1>2, <1>3, <2>2, MoveIn
  <2>5. link' = [link EXCEPT !.up = f] /\ pipes' = [pipes EXCEPT ![1] = Filled(q, e)] BY <2>1
  <2> HIDE DEF data, e, f, m
  <2>6. pipes'[1] = Filled(q, e) /\ pipes'[0] = pipes[0] /\ DOMAIN pipes' = 0 .. 1 BY <1>3, <2>5
  <2>7. /\ pipes'[1] \in PipeOf(Nat) /\ pipes'[1].in = q.in /\ pipes'[1].out = q.out
        /\ pipes'[1].buf = Cat(q.buf, e) /\ pipes'[1].active
    <3>1. /\ Filled(q, e) \in PipeOf(Nat) /\ Filled(q, e).in = q.in /\ Filled(q, e).out = q.out
          /\ Filled(q, e).buf = Cat(q.buf, e) /\ Filled(q, e).active
      BY ONLY <1>3, <2>3, FilledIs
    <3> QED BY ONLY <2>6, <3>1, Zenon
  <2>8. PipesOK(pipes') BY <1>2, <2>6, <2>7 DEF PipesOK
  <2>9. link' \in LinkType /\ link'.up = f /\ link'.down = link.down /\ link'.open = link.open
    BY <1>2, <2>3, <2>5 DEF LinkType
  <2>10. Chosen(sqpc', ready', pipes', link') /\ sqpc' \in {"select"} \cup Ops
    <3>1. sqpc' = After("read1", ready) BY <1>1, <1>4 DEF Goon
    <3> QED BY <1>1, <1>2, <2>7, <3>1, ChosenOn DEF Ops
  <2>11. SqTypeOK' BY <1>1, <1>4, <2>8, <2>9, <2>10 DEF SqInv, SqTypeOK, SqPlaces
  <2>12. Ends' BY <1>1, <1>3, <2>7, <2>9, <2>10 DEF SqInv, Ends, Over, RelayEnded, Ops
  <2>13. ConsoleFlow' BY <1>1, <2>4, <2>7, <2>9 DEF SqInv, ConsoleFlow, Joined, data
  <2>14. InputFlow' BY <1>1, <1>4, <2>6, <2>7, <2>9 DEF SqInv, InputFlow, Over, RelayEnded
  <2> QED BY <2>10, <2>11, <2>12, <2>13, <2>14 DEF SqInv
<1>5. CASE /\ kind = "pty" /\ data = <<>> /\ pipes' = [pipes EXCEPT ![1].in = "none"] /\ Goon
           /\ UNCHANGED <<taken, link>>
  <2>1. pipes'[1] = [q EXCEPT !.in = "none"] /\ pipes'[0] = pipes[0] /\ DOMAIN pipes' = 0 .. 1 BY <1>3, <1>5
  <2>2. /\ pipes'[1] \in PipeOf(Nat) /\ pipes'[1].in = "none" /\ pipes'[1].active = q.active
        /\ pipes'[1].buf = q.buf
    BY <1>3, <2>1 DEF PipeOf
  <2>3. PipesOK(pipes') BY <1>2, <2>1, <2>2 DEF PipesOK
  <2>4. Chosen(sqpc', ready', pipes', link') /\ sqpc' \in {"select"} \cup Ops
    <3>1. sqpc' = After("read1", ready) BY <1>1, <1>5 DEF Goon
    <3> QED BY <1>1, <1>2, <2>2, <3>1, ChosenOn DEF Ops
  <2>5. SqTypeOK' BY <1>1, <1>5, <2>3, <2>4 DEF SqInv, SqTypeOK, SqPlaces
  <2>6. Ends' BY <1>1, <1>3, <1>5, <2>1, <2>4 DEF SqInv, Ends, Over, RelayEnded, Ops
  <2>7. ConsoleFlow' BY <1>1, <1>5, <2>2 DEF SqInv, ConsoleFlow
  <2>8. InputFlow' BY <1>1, <1>5, <2>1, <2>2 DEF SqInv, InputFlow, Over, RelayEnded
  <2> QED BY <2>4, <2>5, <2>6, <2>7, <2>8 DEF SqInv
<1>6. CASE kind # "pty" /\ sqpc' \in {"accept", "failed"} /\ UNCHANGED <<pipes, taken, link>>
  <2>1. Ends' BY <1>1, <1>6 DEF SqInv, Ends
  <2>2. SqTypeOK' /\ ConsoleFlow' BY <1>1, <1>6 DEF SqInv, SqTypeOK, ConsoleFlow, SqPlaces, Over, RelayEnded
  <2>3. InputFlow' BY <1>1, <1>6 DEF SqInv, InputFlow, Over, RelayEnded
  <2>4. Chosen(sqpc', ready', pipes', link') BY <1>6 DEF Chosen, Ops
  <2> QED BY <2>1, <2>2, <2>3, <2>4 DEF SqInv
<1> QED BY <1>1, <1>3, <1>4, <1>5, <1>6, OrderIs DEF read, Source, handle_error

LEMMA SqWrite0 == SqInv /\ write(0) => SqInv'
<1> SUFFICES ASSUME SqInv, write(0) PROVE SqInv' OBVIOUS
<1> DEFINE q == pipes[0]
<1>1. sqpc = "write0" /\ UNCHANGED <<kind, ready, taken, emu, notice, stopped, written>> BY OrderIs DEF write
<1>2. /\ PipesOK(pipes) /\ Chosen("write0", ready, pipes, link) /\ ready \subseteq Ops /\ "write0" \in ready
      /\ link \in LinkType /\ link.down \in Seq(InBytes)
  BY <1>1 DEF SqInv, SqTypeOK, Chosen, Ops, LinkType
<1>3. /\ q.out = "link" /\ pipes[1].active /\ q \in PipeOf(InBytes) /\ q.buf \in Seq(InBytes)
      /\ DOMAIN pipes = 0 .. 1
  BY <1>2 DEF Chosen, PipesOK, PipeOf
<1>4. CASE /\ \E n \in 1 .. Len(q.buf) :
                /\ link' = [link EXCEPT !.down = @ \o SubSeq(q.buf, 1, n)]
                /\ pipes' = [pipes EXCEPT ![0] = Written(q, n)]
           /\ Goon /\ UNCHANGED shown
  <2> DEFINE m == Len(q.buf)
  <2>0. m \in Nat BY <1>3
  <2>1. PICK n \in 1 .. m : /\ link' = [link EXCEPT !.down = link.down \o SubSeq(q.buf, 1, n)]
                             /\ pipes' = [pipes EXCEPT ![0] = Written(q, n)]
    BY <1>4
  <2> DEFINE e == SubSeq(q.buf, 1, n)
             f == SubSeq(q.buf, n + 1, Len(q.buf))
             c == link.down \o e
  <2>2. n \in Nat /\ n <= Len(q.buf) BY <2>0, <2>1
  <2>3. e \in Seq(InBytes) /\ f \in Seq(InBytes) BY <1>3, <2>2, CutSeq
  <2>4. Cat(Cat(link.down, e), f) = Cat(link.down, q.buf) BY <1>2, <1>3, <2>2, MoveOut
  <2>5. link' = [link EXCEPT !.down = c] BY <2>1
  <2>6. c = Cat(link.down, e) BY DEF Cat
  <2> HIDE DEF e, f, m, c
  <2>7. pipes'[0] = Written(q, n) /\ pipes'[1] = pipes[1] /\ DOMAIN pipes' = 0 .. 1 BY <1>3, <2>1
  <2>8. /\ pipes'[0] \in PipeOf(InBytes) /\ pipes'[0].in = q.in /\ pipes'[0].out = q.out /\ pipes'[0].buf = f
    BY <1>3, <2>2, <2>7, WrittenIs DEF f
  <2>9. PipesOK(pipes') BY <1>2, <2>7, <2>8 DEF PipesOK
  <2>10. c \in Seq(InBytes) BY <1>2, <2>3, <2>6, CatSeqs
  <2>11. link' \in LinkType /\ link'.up = link.up /\ link'.down = c /\ link'.open = link.open
    BY <1>2, <2>5, <2>10 DEF LinkType
  <2>12. Chosen(sqpc', ready', pipes', link') /\ sqpc' \in {"select"} \cup Ops
    <3>1. sqpc' = After("write0", ready) BY <1>1, <1>4 DEF Goon
    <3> QED BY <1>1, <1>2, <2>7, <2>8, <2>11, <3>1, ChosenOn DEF Ops
  <2>13. SqTypeOK' BY <1>1, <1>4, <2>9, <2>11, <2>12 DEF SqInv, SqTypeOK, SqPlaces
  <2>14. Ends' BY <1>1, <2>7, <2>11, <2>12 DEF SqInv, Ends, Over, RelayEnded, Ops
  <2>15. ConsoleFlow' BY <1>1, <1>4, <2>7, <2>11 DEF SqInv, ConsoleFlow
  <2>16. InputFlow'
    <3>1. Fed(link.down, q.buf, taken) BY <1>1, <1>3 DEF SqInv, InputFlow, Over, RelayEnded
    <3>2. Fed(c, f, taken) BY <2>4, <2>6, <3>1 DEF Fed
    <3> QED BY <1>1, <1>3, <2>7, <2>8, <2>11, <3>2 DEF InputFlow
  <2> QED BY <2>12, <2>13, <2>14, <2>15, <2>16 DEF SqInv
<1>5. CASE pipes' = [pipes EXCEPT ![0].out = "none"] /\ Goon /\ UNCHANGED <<shown, link>>
  <2>1. pipes'[0] = [q EXCEPT !.out = "none"] /\ pipes'[1] = pipes[1] /\ DOMAIN pipes' = 0 .. 1 BY <1>3, <1>5
  <2>2. pipes'[0] \in PipeOf(InBytes) /\ pipes'[0].in = q.in /\ pipes'[0].out = "none"
    BY <1>3, <2>1 DEF PipeOf
  <2>3. PipesOK(pipes') BY <1>2, <2>1, <2>2 DEF PipesOK
  <2>4. Chosen(sqpc', ready', pipes', link') /\ sqpc' \in {"select"} \cup Ops
    <3>1. sqpc' = After("write0", ready) BY <1>1, <1>5 DEF Goon
    <3> QED BY <1>1, <1>2, <1>5, <2>1, <3>1, ChosenOn DEF Ops
  <2>5. SqTypeOK' BY <1>1, <1>5, <2>3, <2>4 DEF SqInv, SqTypeOK, SqPlaces
  <2>6. Ends' BY <1>1, <1>5, <2>1, <2>4 DEF SqInv, Ends, Over, RelayEnded, Ops
  <2>7. ConsoleFlow' BY <1>1, <1>5, <2>1 DEF SqInv, ConsoleFlow
  <2>8. InputFlow' BY <1>1, <1>5, <2>1, <2>2 DEF SqInv, InputFlow, Over, RelayEnded
  <2> QED BY <2>4, <2>5, <2>6, <2>7, <2>8 DEF SqInv
<1>6. CASE kind # "pty" /\ sqpc' = "failed" /\ UNCHANGED <<pipes, shown, link>>
  <2>1. Ends' BY <1>1, <1>6 DEF SqInv, Ends
  <2>2. SqTypeOK' /\ ConsoleFlow' BY <1>1, <1>6 DEF SqInv, SqTypeOK, ConsoleFlow, SqPlaces, Over, RelayEnded
  <2>3. InputFlow' BY <1>1, <1>6 DEF SqInv, InputFlow, Over, RelayEnded
  <2>4. Chosen(sqpc', ready', pipes', link') BY <1>6 DEF Chosen, Ops
  <2> QED BY <2>1, <2>2, <2>3, <2>4 DEF SqInv
<1> QED BY <1>1, <1>3, <1>4, <1>5, <1>6, OrderIs DEF write, handle_error

LEMMA SqWrite1 == SqInv /\ write(1) => SqInv'
<1> SUFFICES ASSUME SqInv, write(1) PROVE SqInv' OBVIOUS
<1> DEFINE q == pipes[1]
<1>1. sqpc = "write1" /\ UNCHANGED <<kind, ready, taken, link, emu, notice, stopped, written>> /\ Goon
  BY OrderIs DEF write
<1>2. /\ PipesOK(pipes) /\ Chosen("write1", ready, pipes, link) /\ ready \subseteq Ops
      /\ shown \in Seq(Nat) /\ link.up \in Seq(Nat)
  BY <1>1 DEF SqInv, SqTypeOK, Chosen, Ops, LinkType
<1>3. q \in PipeOf(Nat) /\ q.buf \in Seq(Nat) /\ DOMAIN pipes = 0 .. 1 BY <1>2 DEF PipesOK, PipeOf
<1> DEFINE m == Len(q.buf)
<1>4. m \in Nat BY <1>3
<1>5. PICK n \in 1 .. m : /\ shown' = shown \o SubSeq(q.buf, 1, n)
                           /\ pipes' = [pipes EXCEPT ![1] = Written(q, n)]
  BY <1>3, OrderIs DEF write
<1> DEFINE e == SubSeq(q.buf, 1, n)
           f == SubSeq(q.buf, n + 1, Len(q.buf))
           c == shown \o e
<1>6. n \in Nat /\ n <= Len(q.buf) BY <1>4, <1>5
<1>7. e \in Seq(Nat) /\ f \in Seq(Nat) BY <1>3, <1>6, CutSeq
<1>8. Cat(Cat(shown, e), f) = Cat(shown, q.buf) BY <1>2, <1>3, <1>6, MoveOut
<1>9. shown' = c BY <1>5
<1>10. c = Cat(shown, e) BY DEF Cat
<1> HIDE DEF e, f, m, c
<1>11. pipes'[1] = Written(q, n) /\ pipes'[0] = pipes[0] /\ DOMAIN pipes' = 0 .. 1 BY <1>3, <1>5
<1>12. /\ pipes'[1] \in PipeOf(Nat) /\ pipes'[1].in = q.in /\ pipes'[1].buf = f
       /\ pipes'[1].active = q.active
  BY <1>3, <1>6, <1>11, WrittenIs DEF f
<1>13. PipesOK(pipes') BY <1>2, <1>11, <1>12 DEF PipesOK
<1>14. c \in Seq(Nat) BY <1>2, <1>7, <1>10, CatSeqs
<1>15. Chosen(sqpc', ready', pipes', link') /\ sqpc' \in {"select"} \cup Ops
  <2>1. sqpc' = After("write1", ready) BY <1>1 DEF Goon
  <2> QED BY <1>1, <1>2, <1>12, <2>1, ChosenOn DEF Ops
<1>16. SqTypeOK' BY <1>1, <1>9, <1>13, <1>14, <1>15 DEF SqInv, SqTypeOK, SqPlaces
<1>17. Ends' BY <1>1, <1>12, <1>15 DEF SqInv, Ends, Over, RelayEnded, Ops
<1>18. ConsoleFlow' BY <1>1, <1>8, <1>9, <1>10, <1>12 DEF SqInv, ConsoleFlow, Joined
<1>19. InputFlow' BY <1>1, <1>11, <1>12 DEF SqInv, InputFlow, Over, RelayEnded
<1> QED BY <1>15, <1>16, <1>17, <1>18, <1>19 DEF SqInv

LEMMA SqFinal == SqInv /\ final => SqInv'
<1> SUFFICES ASSUME SqInv, final PROVE SqInv' OBVIOUS
<1> DEFINE q == pipes[1]
           data == IF q.in = "none" THEN <<>> ELSE link.up
           n == IF Len(data) <= BUFSIZ THEN Len(data) ELSE BUFSIZ
           e == SubSeq(data, 1, n)
           f == SubSeq(link.up, n + 1, Len(link.up))
           c == shown \o q.buf
<1>1. /\ sqpc = "final" /\ sqpc' = (IF n = 0 THEN "done" ELSE "final")
      /\ UNCHANGED <<kind, ready, taken, emu, notice, stopped, written>>
      /\ shown' = c /\ link' = [link EXCEPT !.up = f]
      /\ pipes' = [pipes EXCEPT ![1] = [@ EXCEPT !.buf = e, !.ofs = 0]]
  BY DEF final
<1>2. /\ PipesOK(pipes) /\ shown \in Seq(Nat) /\ link \in LinkType /\ link.up \in Seq(Nat)
      /\ q \in PipeOf(Nat) /\ q.buf \in Seq(Nat) /\ DOMAIN pipes = 0 .. 1
  BY DEF SqInv, SqTypeOK, LinkType, PipesOK, PipeOf
<1>3. <<>> \in Seq(Nat) /\ Len(<<>>) = 0 /\ Len(link.up) \in Nat BY <1>2
<1>4. data \in Seq(Nat) /\ Len(data) \in Nat /\ Len(data) <= Len(link.up) BY <1>2, <1>3
<1>5. n \in Nat /\ n <= Len(data) /\ n <= Len(link.up) /\ (n = 0 => Len(data) = 0)
  <2> DEFINE k == Len(data)
             u == Len(link.up)
  <2>1. k \in Nat /\ u \in Nat /\ k <= u /\ n = (IF k <= BUFSIZ THEN k ELSE BUFSIZ) /\ BUFSIZ \in Nat \ {0}
    BY <1>3, <1>4, SqAssumption
  <2> HIDE DEF k, u, n
  <2>2. n \in Nat /\ n <= k /\ n <= u /\ (n = 0 => k = 0) BY <2>1
  <2> QED BY <2>2 DEF k, u
<1> HIDE DEF n
<1>6. e \in Seq(Nat) BY <1>4, <1>5, CutSeq
<1>7. f \in Seq(Nat) /\ Split(link.up, SubSeq(link.up, 1, n), f, n) BY <1>2, <1>5, CutSeq
<1>8. c = Cat(shown, q.buf) BY DEF Cat
<1>9. kind = "pty" => data = link.up BY DEF SqInv, Ends
<1>10. kind = "pty" => Cat(e, f) = link.up BY <1>7, <1>9 DEF Split
<1>11. n = 0 => e = <<>>
  <2>1. n = 0 => Len(e) = 0 BY <1>4, <1>5, CutSeq DEF Split
  <2> HIDE DEF e
  <2> QED BY <1>6, <2>1
<1>12. kind = "pty" /\ n = 0 => link.up = <<>>
  <2>1. n = 0 => data = <<>> BY <1>4, <1>5
  <2> QED BY <1>9, <2>1
<1>13. link.up = <<>> => f = <<>>
  <2>1. link.up = <<>> => Len(link.up) = 0 BY <1>3
  <2>2. link.up = <<>> => Len(f) <= 0 BY <1>3, <1>5, <1>7, <2>1 DEF Split
  <2> HIDE DEF f
  <2>3. Len(f) <= 0 => f = <<>> BY <1>7
  <2> QED BY <2>2, <2>3
<1> HIDE DEF data, e, f, c
<1>14. c \in Seq(Nat) BY <1>2, <1>8, CatSeqs
<1>15. pipes'[1] = [q EXCEPT !.buf = e, !.ofs = 0] /\ pipes'[0] = pipes[0] /\ DOMAIN pipes' = 0 .. 1
  BY <1>1, <1>2
<1>16. /\ pipes'[1] \in PipeOf(Nat) /\ pipes'[1].in = q.in /\ pipes'[1].buf = e
       /\ pipes'[1].active = q.active
  <2>1. pipes'[1] = [in |-> q.in, out |-> q.out, buf |-> e, ofs |-> 0, active |-> q.active]
    BY <1>2, <1>15 DEF PipeOf
  <2>2. 0 \in Int OBVIOUS
  <2> QED BY <1>2, <1>6, <2>1, <2>2 DEF PipeOf
<1>17. PipesOK(pipes') BY <1>2, <1>15, <1>16 DEF PipesOK
<1>18. link' \in LinkType /\ link'.up = f /\ link'.down = link.down /\ link'.open = link.open
  BY <1>1, <1>2, <1>7 DEF LinkType
<1>19. sqpc' \in {"done", "final"} /\ (sqpc' = "done" => n = 0) BY <1>1
<1>20. SqTypeOK' BY <1>1, <1>14, <1>17, <1>18, <1>19 DEF SqInv, SqTypeOK, SqPlaces, Over
<1>21. Chosen(sqpc', ready', pipes', link') BY <1>19 DEF Chosen, Ops
<1>22. Ends'
  <2>1. kind = "pty" /\ sqpc' = "done" => pipes'[1].buf = <<>> /\ link'.up = <<>>
    BY <1>11, <1>12, <1>13, <1>16, <1>18, <1>19
  <2>2. link.up = <<>> => link'.up = <<>> BY <1>13, <1>18
  <2> QED BY <1>1, <1>16, <1>18, <1>19, <2>1, <2>2 DEF SqInv, Ends, Over, RelayEnded
<1>23. ConsoleFlow'
  <2> SUFFICES ASSUME kind = "pty" PROVE Cat(Cat(c, e), f) = Count(written)
    BY <1>1, <1>16, <1>18 DEF ConsoleFlow, Joined
  <2>1. Cat(Cat(c, e), f) = Cat(c, Cat(e, f)) BY <1>6, <1>7, <1>14, Regroup
  <2>2. Cat(c, link.up) = Count(written) BY <1>8 DEF SqInv, ConsoleFlow, Joined
  <2> QED BY <1>10, <2>1, <2>2
<1>24. InputFlow'
  <2>1. sqpc \notin {"accept"} \cup Over BY <1>1 DEF Over, RelayEnded
  <2> QED BY <1>1, <1>15, <1>16, <1>18, <2>1 DEF SqInv, InputFlow
<1> QED BY <1>20, <1>21, <1>22, <1>23, <1>24 DEF SqInv

LEMMA SqInvStep == SqInv /\ [SqNext]_sqvars => SqInv'
<1> SUFFICES ASSUME SqInv, [SqNext]_sqvars PROVE SqInv' OBVIOUS
<1>1. CASE \E p \in 0 .. 1 : read(p) \/ write(p)
  <2>1. PICK p \in {0, 1} : read(p) \/ write(p) BY <1>1
  <2>2. CASE p = 0 BY <2>1, <2>2, SqRead0, SqWrite0
  <2>3. CASE p = 1 BY <2>1, <2>3, SqRead1, SqWrite1
  <2> QED BY <2>2, <2>3
<1>2. CASE UNCHANGED sqvars
  <2>1. SqTypeOK' /\ Chosen(sqpc', ready', pipes', link') BY <1>2 DEF SqInv, SqTypeOK, sqvars
  <2>2. Ends' /\ ConsoleFlow' /\ InputFlow' BY <1>2 DEF SqInv, Ends, ConsoleFlow, InputFlow, sqvars
  <2> QED BY <2>1, <2>2 DEF SqInv
<1> QED BY <1>1, <1>2, SqForked, SqWrite, SqGoes, SqAccept, SqAccepted, SqSelect, SqFinal DEF SqNext

LEMMA SqInvMeans == SqInv => RelayFaithful
<1> SUFFICES ASSUME SqInv PROVE RelayFaithful OBVIOUS
<1>1. /\ shown \in Seq(Nat) /\ pipes[1].buf \in Seq(Nat) /\ link.up \in Seq(Nat) /\ written \in Nat
  BY DEF SqInv, SqTypeOK, PipesOK, PipeOf, LinkType
<1>2. ConsoleComplete
  <2> SUFFICES ASSUME kind = "pty"
               PROVE  /\ shown \o pipes[1].buf \o link.up = [i \in 1 .. written |-> i]
                      /\ sqpc \in Over => Len(shown) = written \/ stopped
    BY DEF ConsoleComplete
  <2>1. Cat(Cat(shown, pipes[1].buf), link.up) = Count(written) BY DEF SqInv, ConsoleFlow, Joined
  <2>2. shown \o pipes[1].buf \o link.up = [i \in 1 .. written |-> i] BY ONLY <2>1 DEF Cat, Count
  <2>3. ASSUME sqpc \in Over, ~stopped PROVE Len(shown) = written
    <3>1. pipes[1].buf = <<>> /\ link.up = <<>> BY <2>3 DEF SqInv, Ends
    <3>2. Cat(shown, <<>>) = shown BY <1>1, ConcatEmptySeq DEF Cat
    <3>3. shown = Count(written) BY <2>1, <3>1, <3>2
    <3> QED BY <1>1, <3>3, CountOn
  <2> QED BY <2>2, <2>3
<1>3. InputOnceAsked
  <2>1. sqpc \notin {"accept"} \cup Over /\ pipes[0].out # "none" => Fed(link.down, pipes[0].buf, taken)
    BY DEF SqInv, InputFlow
  <2>2. link.down # <<>> => pipes[1].active BY DEF SqInv, InputFlow
  <2> QED BY ONLY <2>1, <2>2 DEF InputOnceAsked, Fed, Cat
<1>4. DeathNoticed BY DEF SqInv, Ends, DeathNoticed
<1> QED BY <1>2, <1>3, <1>4 DEF RelayFaithful

\* The emulator's output comes through squish-pty whole and in its order, the input of
\* either program is what standard input holds, from its start and only once the emulator
\* has spoken, and the child's death is never missed (squish-pty.c, squish-unix.c: relay),
\* for any input and any buffer.  A stop of the emulator ends squish-pty before its death:
\* then all it wrote before is shown, in its order, and what it writes later may not be.
THEOREM RelayCorrect == SqSpec => []RelayFaithful
<1>1. SqInit => SqInv BY SqInvInit
<1>2. SqInv /\ [SqNext]_sqvars => SqInv' BY SqInvStep
<1>3. SqInv => RelayFaithful BY SqInvMeans
<1> QED BY <1>1, <1>2, <1>3, PTL DEF SqSpec
=============================================================================
