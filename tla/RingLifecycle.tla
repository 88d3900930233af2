---------------------------- MODULE RingLifecycle ----------------------------
(***************************************************************************)
(* How the two rings of a strategy transport come and go: create, open,    *)
(* reset and unlink of ShmSpscRing, ShmStrategyTransport::make on the      *)
(* engine's side and on the worker's, with system calls that fail and      *)
(* processes that are killed between any two steps, each alone: a worker   *)
(* whose engine is killed goes on as an orphan, beside the next engine.    *)
(***************************************************************************)
EXTENDS Integers

CONSTANTS Region,          \* shared memory objects (numbered)
          None,            \* no object
          Capacities,      \* values of ringRequestedCapacity
          Payloads,        \* values of maxMessageBytes
          CacheLine,       \* hardware_destructive_interference_size
          HeaderBytes, SlotHeaderBytes, \* sizeof(Header), sizeof(SlotHeader)
          MaxKills         \* bound on the engines killed; workers may be killed at will

\* What std::bit_ceil returns in 32 bits, where TLC's numbers go.
PowersOfTwo ==
  {1, 2, 4, 8, 16, 32, 64, 128, 256, 512, 1024, 2048, 4096, 8192, 16384, 32768, 65536, 131072, 262144, 524288,
   1048576, 2097152, 4194304, 8388608, 16777216, 33554432, 67108864, 134217728, 268435456, 536870912, 1073741824}

ASSUME LcAssumption ==
  /\ Region \subseteq Nat /\ None \notin Region /\ Capacities \cup Payloads \subseteq Nat
  /\ \A capacity \in Capacities : \E p \in PowersOfTwo : capacity <= p
  /\ {CacheLine, HeaderBytes, SlotHeaderBytes} \subseteq Nat \ {0} /\ MaxKills \in Nat

Ring == {"events", "actions"}
Worker == {"worker", "orphan"} \* of the engine that runs, and of one that was killed
Side == {"engine"} \cup Worker

VARIABLES shm,     \* the name space: ring name -> object
          bytes,   \* size of each object, 0 before ftruncate
          header,  \* struct Header of each object: the fields stored so far
          config,  \* what the engine was configured with
          at,      \* what each side is doing: [step, ring]
          rings,   \* per side: the object each of its rings has open
          kills    \* engines killed so far

LcVars == <<shm, bytes, header, config, at, rings, kills>>

Fields == {"magic", "version", "slotPayloadBytes", "slotCount", "slotStride"}

\* alignUp, for a power of two as for any other alignment.
alignUp(value, alignment) == ((value + alignment - 1) \div alignment) * alignment

bit_ceil(n) == CHOOSE p \in PowersOfTwo : n <= p /\ \A q \in PowersOfTwo : n <= q => p <= q

slotCount(c) == bit_ceil(c.capacity)

slotStride(c) == alignUp(SlotHeaderBytes + c.payload, CacheLine)
mappingBytes(c) == alignUp(HeaderBytes, CacheLine) + slotCount(c) * slotStride(c)

\* Where a slot begins.
slotHeader(c, index) == alignUp(HeaderBytes, CacheLine) + index * slotStride(c)

Down == [step |-> "down", ring |-> "events"]
NoRings == [r \in Ring |-> None]

LcInit ==
  /\ config \in [capacity : Capacities, payload : Payloads, unlinkOnDestroy : BOOLEAN]
  /\ shm = [r \in Ring |-> None]
  /\ bytes = [o \in Region |-> 0] /\ header = [o \in Region |-> {}]
  /\ at = [s \in Side |-> Down] /\ rings = [s \in Side |-> NoRings]
  /\ kills = 0

At(s, step) == at[s].step = step
Go(s, step, ring) == at' = [at EXCEPT ![s] = [step |-> step, ring |-> ring]]

\* An object without a name and without a mapping is gone: its number is free.
Unused == {o \in Region : (\A r \in Ring : shm[r] # o) /\ \A s \in Side, r \in Ring : rings[s][r] # o}

-----------------------------------------------------------------------------
(***************************************************************************)
(* The engine's make: create the event ring, then the action ring.         *)
(***************************************************************************)
make ==
  /\ At("engine", "down")
  /\ IF config.capacity < 2 \/ config.payload = 0 THEN UNCHANGED at ELSE Go("engine", "shm_open", "events")
  /\ UNCHANGED <<shm, bytes, header, config, rings, kills>>

\* reset of the rings in gone: unmapped, closed and, if so configured, unlinked.
reset(s, gone) ==
  /\ rings' = [rings EXCEPT ![s] = [r \in Ring |-> IF r \in gone THEN None ELSE @[r]]]
  /\ shm' = [r \in Ring |-> IF s = "engine" /\ config.unlinkOnDestroy /\ r \in gone THEN None ELSE shm[r]]

\* Returning from make destroys the rings it has made.
MadeBefore(ring) == IF ring = "actions" THEN {"events"} ELSE {}

\* shm_open with O_CREAT | O_EXCL; it may also fail for want of resources.
ShmOpen ==
  LET r == at["engine"].ring
  IN /\ At("engine", "shm_open")
     /\ \/ /\ reset("engine", MadeBefore(r)) /\ Go("engine", "down", "events")
           /\ UNCHANGED <<bytes, header>>
        \/ /\ shm[r] = None
           /\ \E o \in Unused :
              /\ \A q \in Unused : o <= q
              /\ shm' = [shm EXCEPT ![r] = o] /\ rings' = [rings EXCEPT !["engine"][r] = o]
              /\ bytes' = [bytes EXCEPT ![o] = 0] /\ header' = [header EXCEPT ![o] = {}]
              /\ Go("engine", "ftruncate", r)
     /\ UNCHANGED <<config, kills>>

\* ftruncate or mmap fails: closed and unlinked here, the other ring by reset.
CreateFails ==
  LET r == at["engine"].ring
  IN /\ At("engine", "ftruncate")
     /\ rings' = [rings EXCEPT !["engine"] = NoRings]
     /\ shm' = [q \in Ring |-> IF q = r \/ (config.unlinkOnDestroy /\ q \in MadeBefore(r)) THEN None ELSE shm[q]]
     /\ Go("engine", "down", "events") /\ UNCHANGED <<bytes, header, config, kills>>

\* ftruncate, mmap and memset.
Ftruncate ==
  LET r == at["engine"].ring
  IN /\ At("engine", "ftruncate")
     /\ bytes' = [bytes EXCEPT ![rings["engine"][r]] = mappingBytes(config)]
     /\ Go("engine", "header", r) /\ UNCHANGED <<shm, header, config, rings, kills>>

\* The header's fields are plain stores: another process may see them in any
\* order.  (head and tail are 0 since the memset.)
StoreField(f) ==
  LET o == rings["engine"][at["engine"].ring]
  IN /\ At("engine", "header") /\ f \notin header[o]
     /\ header' = [header EXCEPT ![o] = @ \cup {f}]
     /\ UNCHANGED <<shm, bytes, config, at, rings, kills>>

\* mistake: the ring is handed over before its header is complete
CreatedEarly ==
  LET r == at["engine"].ring
  IN /\ At("engine", "header") /\ "magic" \in header[rings["engine"][r]]
     /\ IF r = "events" THEN Go("engine", "shm_open", "actions") ELSE Go("engine", "up", "events")
     /\ UNCHANGED <<shm, bytes, header, config, rings, kills>>

\* The ring is handed over (the constructor, and moves, which leave nothing
\* to unlink behind); after the second, make returns the transport.
Created ==
  LET r == at["engine"].ring
  IN /\ At("engine", "header") /\ header[rings["engine"][r]] = Fields
     /\ IF r = "events" THEN Go("engine", "shm_open", "actions") ELSE Go("engine", "up", "events")
     /\ UNCHANGED <<shm, bytes, header, config, rings, kills>>

\* ShmSpscRing::unlink, which a caller that does not unlink on destroy owes.
unlink(r) ==
  /\ At("engine", "up") /\ shm' = [shm EXCEPT ![r] = None]
  /\ UNCHANGED <<bytes, header, config, at, rings, kills>>

\* A name that a killed engine has left is removed before the next make.
ClearName(r) ==
  /\ At("engine", "down") /\ shm' = [shm EXCEPT ![r] = None]
  /\ UNCHANGED <<bytes, header, config, at, rings, kills>>

-----------------------------------------------------------------------------
(***************************************************************************)
(* A worker's make: open both rings.  The engine starts a worker once its  *)
(* own make has returned, again after one has ended, and ends the worker   *)
(* before it destroys its transport.                                       *)
(***************************************************************************)
LaunchWorker ==
  /\ At("engine", "up") /\ At("worker", "down")
  /\ Go("worker", "open", "events")
  /\ UNCHANGED <<shm, bytes, header, config, rings, kills>>

\* open fails, make returns without a transport and the process ends.
OpenFails(w) ==
  rings' = [rings EXCEPT ![w] = NoRings] /\ Go(w, "down", "events")

\* shm_open: from here on the object is this one, whatever its name becomes.
open(w) ==
  LET r == at[w].ring
  IN /\ At(w, "open")
     /\ IF shm[r] # None
        THEN rings' = [rings EXCEPT ![w][r] = shm[r]] /\ Go(w, "check", r)
        ELSE OpenFails(w)
     /\ UNCHANGED <<shm, bytes, header, config, kills>>

\* fstat, mmap, and the look at magic and version, which are only ever added to.
CheckHeader(w) ==
  LET r == at[w].ring
      o == rings[w][r]
  IN /\ At(w, "check")
     /\ IF bytes[o] >= HeaderBytes /\ {"magic", "version"} \subseteq header[o]
        THEN /\ IF r = "events" THEN Go(w, "open", "actions") ELSE Go(w, "up", "events")
             /\ UNCHANGED rings
        ELSE OpenFails(w)
     /\ UNCHANGED <<shm, bytes, header, config, kills>>

\* runWorker returns.
WorkerEnds(w) ==
  /\ At(w, "up") /\ reset(w, Ring) /\ Go(w, "down", "events")
  /\ UNCHANGED <<bytes, header, config, kills>>

\* The engine is done with the worker and destroys its transport.
Destroy ==
  /\ At("engine", "up") /\ At("worker", "down")
  /\ reset("engine", Ring) /\ Go("engine", "down", "events")
  /\ UNCHANGED <<bytes, header, config, kills>>

\* A process is killed: its mappings go, names stay.
KillWorker(w) ==
  /\ ~At(w, "down")
  /\ rings' = [rings EXCEPT ![w] = NoRings] /\ at' = [at EXCEPT ![w] = Down]
  /\ UNCHANGED <<shm, bytes, header, config, kills>>

\* The engine's death is nobody else's: its worker, wherever it is, becomes the
\* orphan.  (Bound: one orphan at a time.)
KillEngine ==
  LET orphaned == IF At("worker", "down") THEN "orphan" ELSE "worker"
  IN /\ ~At("engine", "down") /\ kills < MaxKills /\ kills' = kills + 1
     /\ At("worker", "down") \/ At("orphan", "down")
     /\ at' = [s \in Side |-> IF s = "orphan" THEN at[orphaned] ELSE Down]
     /\ rings' = [s \in Side |-> IF s = "orphan" THEN rings[orphaned] ELSE NoRings]
     /\ UNCHANGED <<shm, bytes, header, config>>

LcNext ==
  \/ make \/ ShmOpen \/ Ftruncate \/ CreateFails \/ Created \/ Destroy
  \/ \E f \in Fields : StoreField(f)
  \/ \E r \in Ring : unlink(r) \/ ClearName(r)
  \/ LaunchWorker \/ KillEngine
  \/ \E w \in Worker : open(w) \/ CheckHeader(w) \/ WorkerEnds(w) \/ KillWorker(w)

LcSpec == LcInit /\ [][LcNext]_LcVars

-----------------------------------------------------------------------------
\* What open has accepted: its header may be looked at and its slots used.
Accepted(w, r) == rings[w][r] # None /\ ~(At(w, "check") /\ at[w].ring = r)

\* The engine and its worker talk through the same two objects, and each of them
\* is complete: open looks at magic and version only, and it is make's order
\* (create both, then start the worker) and O_EXCL that make this enough,
\* through kills in the middle of create, names and workers left from before.
WorkerSeesEnginesRings ==
  \A r \in Ring :
    LET o == rings["worker"][r]
    IN Accepted("worker", r) => o = rings["engine"][r] /\ header[o] = Fields /\ bytes[o] = mappingBytes(config)

\* An orphan has less: it may open rings that the next engine is still making, or
\* that one was killed in the middle of making, and open then accepts a header
\* without slotCount or slotStride.  But the object has its full size, and it is
\* not made anew under another name while the orphan maps it.
OrphanSeesRings ==
  \A r \in Ring :
    LET o == rings["orphan"][r]
    IN Accepted("orphan", r) => {"magic", "version"} \subseteq header[o] /\ bytes[o] = mappingBytes(config)

\* An engine that was never killed and unlinks on destroy leaves no name behind,
\* also when the second ring could not be made: the next make can succeed.
NoNameLeft ==
  config.unlinkOnDestroy /\ kills = 0 /\ At("engine", "down") => \A r \in Ring : shm[r] = None

\* There are as many slots as asked for, and each lies in the mapping with room
\* for the largest payload; that their number is a power of two is what makes the
\* mask of toIndex a remainder.
SlotsFit ==
  \A o \in Region : header[o] = Fields =>
    LET n == slotCount(config)
    IN /\ n \in PowersOfTwo /\ config.capacity <= n
       /\ \A i \in 0 .. n - 1 :
            slotHeader(config, i) + SlotHeaderBytes + config.payload <=
              IF i = n - 1 THEN bytes[o] ELSE slotHeader(config, i + 1)

\* Through failures and kills, ShmSpscRing::create and open and make give an engine
\* and its worker the same complete rings, an orphaned worker rings of full size,
\* and leave nothing in the way of the next make.
RingsShared == WorkerSeesEnginesRings /\ OrphanSeesRings /\ NoNameLeft /\ SlotsFit

=============================================================================
