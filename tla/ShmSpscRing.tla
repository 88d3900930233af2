---------------------------- MODULE ShmSpscRing ----------------------------
(***************************************************************************)
(* SPSC/src/engine/ShmSpscRing.cpp: the lock-free ring in shared memory.   *)
(* One producer runs tryPush, one consumer runs tryPop, in two processes.  *)
(* Every access to memory the other side also touches is a step of its     *)
(* own: the loads and stores of the atomic head and tail, the slot's size  *)
(* word, and the two memcpy calls, each of which takes time (two steps).   *)
(* The acquire/release pairs of the code order these accesses, so that     *)
(* interleaving them is what the hardware may do; where the two copies     *)
(* overlap (a data race) the bytes read are Torn.                          *)
(*                                                                         *)
(* head and tail are free-running words of IndexMod values (2^64 in the    *)
(* code); toIndex takes them to a slot.  sent and received are history:    *)
(* the frames published and delivered.                                     *)
(***************************************************************************)
EXTENDS Integers, Sequences

CONSTANTS
    Payload,          \* the byte strings callers push
    Zeros,            \* the bytes of a slot nobody has written
    Torn,             \* a mix of two payloads
    SizeOf,           \* length in bytes of each payload
    MaxPayloadBytes,  \* header_->slotPayloadBytes
    SlotCount,        \* header_->slotCount, a power of two
    IndexMod,         \* number of values of a head or tail word
    OverwriteArgs,    \* the values callers pass for overwriteOldest
    MaxPushes         \* bound on the frames published in a behaviour

ASSUME RingAssumption ==
    /\ SizeOf \in [Payload -> Nat]
    /\ MaxPayloadBytes \in Nat
    /\ SlotCount \in Nat /\ SlotCount >= 2
    /\ IndexMod \in Nat /\ IndexMod > 0 /\ IndexMod % SlotCount = 0
    /\ OverwriteArgs \subseteq BOOLEAN
    /\ MaxPushes \in Nat

VARIABLES
    head, tail,     \* header_->head, header_->tail
    slots,          \* the slot array: size word and bytes
    ppc,            \* where the producer is in tryPush
    pPayload,       \* payload argument of the running tryPush
    pTail,          \* popDiscardOldest's copy of tail
    cpc,            \* where the consumer is in tryPop
    cTail,          \* tryPop's copy of tail
    out,            \* tryPop's out buffer: its size and its bytes
    pushResult,     \* which return ended the last tryPush ("pushed": true)
    popResult,      \* what the last tryPop returned
    sent,           \* history: frames published, oldest first
    received        \* history: frames delivered, oldest first

producerVars == <<ppc, pPayload, pTail, pushResult, sent>>
consumerVars == <<cpc, cTail, out, popResult, received>>
vars == <<head, tail, slots, producerVars, consumerVars>>

Frame == [size : 0 .. MaxPayloadBytes, bytes : Payload \cup {Zeros, Torn}]
Index == 0 .. SlotCount - 1
Word  == 0 .. IndexMod - 1

\* mistake: the mask is built from the usable capacity
toIndexOffByOne(idx) == idx % (SlotCount - 1)

\* idx & (slotCount - 1), slotCount being a power of two
toIndex(idx) == idx % SlotCount

\* head - tail on unsigned words, the test of tryPush and the value of size()
size(h, t) == (h - t) % IndexMod

\* mistake: no slot is reserved to tell a full ring from an empty one
capacityNoReserve == SlotCount

capacity == SlotCount - 1

FrameOf(p) == [size |-> SizeOf[p], bytes |-> p]

Init ==
    /\ head = 0 /\ tail = 0
    /\ slots = [i \in Index |-> [size |-> 0, bytes |-> Zeros]]
    /\ ppc = "idle" /\ pPayload = Zeros /\ pTail = 0
    /\ cpc = "idle" /\ cTail = 0
    /\ out = [size |-> 0, bytes |-> Zeros]
    /\ pushResult = "none" /\ popResult = FALSE
    /\ sent = << >> /\ received = << >>

-----------------------------------------------------------------------------
(* Producer: tryPush and the popDiscardOldest it calls on a full ring.     *)

\* tryPush of a payload longer than a slot: false, before any load
PushOversize(p) ==
    /\ ppc = "idle"
    /\ Len(sent) < MaxPushes
    /\ SizeOf[p] > MaxPayloadBytes
    /\ pushResult' = "oversize"
    /\ UNCHANGED <<head, tail, slots, ppc, pPayload, pTail, sent, consumerVars>>

\* The two loads of tryPush; head is the producer's own word, so the load of
\* tail decides whether it goes on, discards the oldest frame or gives up.
TryPush(p, overwriteOldest) ==
    /\ ppc = "idle"
    /\ Len(sent) < MaxPushes
    /\ SizeOf[p] <= MaxPayloadBytes
    /\ pPayload' = p
    /\ \/ /\ size(head, tail) # capacity
          /\ ppc' = "writeSize"
          /\ UNCHANGED pushResult
       \/ /\ size(head, tail) = capacity
          /\ overwriteOldest
          /\ ppc' = "discardLoad"
          /\ UNCHANGED pushResult
       \/ /\ size(head, tail) = capacity
          /\ ~overwriteOldest
          /\ pushResult' = "full"
          /\ UNCHANGED ppc
    /\ UNCHANGED <<head, tail, slots, pTail, sent, consumerVars>>

\* popDiscardOldest: load tail, then head; an empty ring makes it, and the
\* push, return false.
DiscardLoad ==
    /\ ppc = "discardLoad"
    /\ pTail' = tail
    /\ \/ /\ head = tail
          /\ ppc' = "idle"
          /\ pushResult' = "empty"
       \/ /\ head # tail
          /\ ppc' = "discardStore"
          /\ UNCHANGED pushResult
    /\ UNCHANGED <<head, tail, slots, pPayload, sent, consumerVars>>

DiscardStore ==
    /\ ppc = "discardStore"
    /\ tail' = (pTail + 1) % IndexMod
    /\ ppc' = "writeSize"
    /\ UNCHANGED <<head, slots, pPayload, pTail, pushResult, sent, consumerVars>>

WriteSize ==
    /\ ppc = "writeSize"
    /\ slots' = [slots EXCEPT ![toIndex(head)].size = SizeOf[pPayload]]
    /\ ppc' = "copyIn"
    /\ UNCHANGED <<head, tail, pPayload, pTail, pushResult, sent, consumerVars>>

\* mistake: head is published before memcpy has finished
CopyInPublishesEarly ==
    /\ ppc = "copyIn"
    /\ slots' = [slots EXCEPT ![toIndex(head)].bytes = Torn]
    /\ head' = (head + 1) % IndexMod
    /\ sent' = Append(sent, FrameOf(pPayload))
    /\ pushResult' = "pushed"
    /\ ppc' = "idle"
    /\ UNCHANGED <<tail, pPayload, pTail, consumerVars>>

\* memcpy has begun: the slot holds some new and some old bytes
CopyIn ==
    /\ ppc = "copyIn"
    /\ slots' = [slots EXCEPT ![toIndex(head)].bytes = Torn]
    /\ ppc' = "copiedIn"
    /\ UNCHANGED <<head, tail, pPayload, pTail, pushResult, sent, consumerVars>>

CopiedIn ==
    /\ ppc = "copiedIn"
    /\ slots' = [slots EXCEPT ![toIndex(head)].bytes = pPayload]
    /\ ppc' = "publish"
    /\ UNCHANGED <<head, tail, pPayload, pTail, pushResult, sent, consumerVars>>

Publish ==
    /\ ppc = "publish"
    /\ head' = (head + 1) % IndexMod
    /\ sent' = Append(sent, FrameOf(pPayload))
    /\ pushResult' = "pushed"
    /\ ppc' = "idle"
    /\ UNCHANGED <<tail, slots, pPayload, pTail, consumerVars>>

-----------------------------------------------------------------------------
(* Consumer: tryPop.                                                       *)

TryPop ==
    /\ cpc = "idle"
    /\ cTail' = tail
    /\ cpc' = "loadHead"
    /\ UNCHANGED <<head, tail, slots, out, popResult, received, producerVars>>

\* mistake: the last frame in the ring is left there
LoadHeadKeepsLast ==
    /\ cpc = "loadHead"
    /\ IF size(head, cTail) <= 1
         THEN cpc' = "idle" /\ popResult' = FALSE
         ELSE cpc' = "readSize" /\ UNCHANGED popResult
    /\ UNCHANGED <<head, tail, slots, cTail, out, received, producerVars>>

LoadHead ==
    /\ cpc = "loadHead"
    /\ \/ /\ head = cTail
          /\ cpc' = "idle"
          /\ popResult' = FALSE
       \/ /\ head # cTail
          /\ cpc' = "readSize"
          /\ UNCHANGED popResult
    /\ UNCHANGED <<head, tail, slots, cTail, out, received, producerVars>>

\* mistake: the slot is handed back before its bytes are copied
ReadSizeReleasesEarly ==
    /\ cpc = "readSize"
    /\ out' = [out EXCEPT !.size = slots[toIndex(cTail)].size]
    /\ tail' = (cTail + 1) % IndexMod
    /\ cpc' = "copyOut"
    /\ UNCHANGED <<head, slots, cTail, popResult, received, producerVars>>

\* mistake: the size word is read from the slot the producer writes
ReadSizeOfHeadSlot ==
    /\ cpc = "readSize"
    /\ out' = [out EXCEPT !.size = slots[toIndex(head)].size]
    /\ cpc' = "copyOut"
    /\ UNCHANGED <<head, tail, slots, cTail, popResult, received, producerVars>>

\* out.resize(slot->size)
ReadSize ==
    /\ cpc = "readSize"
    /\ out' = [out EXCEPT !.size = slots[toIndex(cTail)].size]
    /\ cpc' = "copyOut"
    /\ UNCHANGED <<head, tail, slots, cTail, popResult, received, producerVars>>

\* memcpy begins; it reads the size word a second time, and copies that many
\* bytes whatever size out has
CopyOut ==
    /\ cpc = "copyOut"
    /\ out' = [out EXCEPT !.bytes =
                 IF slots[toIndex(cTail)].size = out.size
                   THEN slots[toIndex(cTail)].bytes ELSE Torn]
    /\ cpc' = "copiedOut"
    /\ UNCHANGED <<head, tail, slots, cTail, popResult, received, producerVars>>

\* memcpy ends; bytes that changed under it come out mixed
CopiedOut ==
    /\ cpc = "copiedOut"
    /\ out' = [out EXCEPT !.bytes =
                 IF slots[toIndex(cTail)].bytes = @ THEN @ ELSE Torn]
    /\ cpc' = "release"
    /\ UNCHANGED <<head, tail, slots, cTail, popResult, received, producerVars>>

Release ==
    /\ cpc = "release"
    /\ tail' = (cTail + 1) % IndexMod
    /\ received' = Append(received, out)
    /\ popResult' = TRUE
    /\ cpc' = "idle"
    /\ UNCHANGED <<head, slots, cTail, out, producerVars>>

-----------------------------------------------------------------------------
ProducerStep ==
    DiscardLoad \/ DiscardStore \/ WriteSize \/ CopyIn \/ CopiedIn \/ Publish

ConsumerStep ==
    TryPop \/ LoadHead \/ ReadSize \/ CopyOut \/ CopiedOut \/ Release

Next ==
    \/ \E p \in Payload : PushOversize(p)
    \/ \E p \in Payload, o \in OverwriteArgs : TryPush(p, o)
    \/ ProducerStep
    \/ ConsumerStep

Spec == Init /\ [][Next]_vars

\* Neither function blocks: a call that has begun runs to its end, and the
\* consumer's loop calls tryPop again and again.
FairSpec == Spec /\ WF_vars(ProducerStep) /\ WF_vars(ConsumerStep)

-----------------------------------------------------------------------------
\* Every word, slot, program counter and history has its type; no payload
\* longer than a slot is ever on its way into one.
TypeOK ==
    /\ head \in Word /\ tail \in Word
    /\ slots \in [Index -> Frame]
    /\ ppc \in {"idle", "discardLoad", "discardStore", "writeSize", "copyIn",
                "copiedIn", "publish"}
    /\ pPayload \in Payload \cup {Zeros}
    /\ ppc # "idle" => pPayload \in Payload /\ SizeOf[pPayload] <= MaxPayloadBytes
    /\ pTail \in Word
    /\ cpc \in {"idle", "loadHead", "readSize", "copyOut", "copiedOut", "release"}
    /\ cTail \in Word
    /\ out \in Frame
    /\ pushResult \in {"none", "pushed", "full", "oversize", "empty"}
    /\ popResult \in BOOLEAN
    /\ sent \in Seq(Frame) /\ received \in Seq(Frame)

\* The consumer receives exactly the frames that were published, each whole
\* and once, in the order they were pushed: nothing is lost, duplicated,
\* reordered or torn between the slot's size word and its bytes, also when
\* the slots are reused and when head and tail wrap.
InOrderDelivery ==
    /\ Len(received) <= Len(sent)
    /\ \A i \in 1 .. Len(received) : received[i] = sent[i]

\* ShmSpscRing.hpp: "exactly ONE writer (pushes at head) and ONE reader (pops
\* at tail). Since they operate on different indices, no mutex is needed."
\* While tryPush writes a slot, tryPop is not reading that slot.
SlotExclusion ==
    ppc \in {"writeSize", "copyIn", "copiedIn"} /\ cpc \in {"readSize", "copyOut", "copiedOut"}
        => toIndex(head) # toIndex(cTail)

\* ShmSpscRing.hpp: "One slot is always reserved so usable capacity =
\* allocated slots - 1."  head never runs more than that ahead of tail.
OneSlotReserved == size(head, tail) <= SlotCount - 1

\* tryPop sizes out by the slot's size word and then copies as many bytes as
\* the size word says at that moment: the word must not have grown, or the
\* copy runs past the end of out.
CopyFitsBuffer ==
    cpc = "copyOut" => slots[toIndex(cTail)].size <= out.size

\* Every published frame is delivered: the consumer's stale copies of head
\* and tail never leave one behind in the ring.
EventuallyDelivered ==
    \A n \in 1 .. MaxPushes : (Len(sent) >= n) ~> (Len(received) >= n)

\* Overwriting loses old frames, never the newest one: once the producer has
\* stopped, the last frame it published is, whole, the last one delivered.
NewestDelivered ==
    (Len(sent) = MaxPushes) ~> (received # << >> /\ received[Len(received)] = sent[Len(sent)])

\* Abstractly the ring is a bounded queue of the frames published and not
\* yet delivered; a push refused for want of room finds it really full, a
\* pop that reports nothing finds it really empty.
Fifo == INSTANCE BoundedFifo WITH
    Frame <- {FrameOf(p) : p \in {q \in Payload : SizeOf[q] <= MaxPayloadBytes}},
    Capacity <- SlotCount - 1,
    queue <- SubSeq(sent, Len(received) + 1, Len(sent))

ImplementsBoundedFifo == Fifo!Spec
-----------------------------------------------------------------------------
(* The inductive invariant behind the proofs (TransportProofs), for         *)
(* callers that never pass overwriteOldest.                                *)

\* head and tail are the wrapped counts of frames published and delivered
WordsCountFrames ==
    /\ head = Len(sent) % IndexMod
    /\ tail = Len(received) % IndexMod

\* the frames in the ring fit it, with room for the one being written
RoomForWriter ==
    /\ ppc \notin {"discardLoad", "discardStore"}
    /\ Len(received) <= Len(sent)
    /\ Len(sent) - Len(received) <= capacity
    /\ ppc # "idle" => Len(sent) - Len(received) < capacity

\* every frame published and not yet delivered is whole in its slot
FramesInSlots ==
    \A i \in Len(received) .. Len(sent) - 1 : slots[toIndex(i)] = sent[i + 1]

\* what tryPush has written of the next frame
WriterProgress ==
    /\ ppc \in {"copyIn", "copiedIn", "publish"} =>
           slots[toIndex(Len(sent))].size = SizeOf[pPayload]
    /\ ppc = "publish" => slots[toIndex(Len(sent))].bytes = pPayload

\* what tryPop knows and has read of the oldest frame
ReaderProgress ==
    /\ cpc # "idle" => cTail = tail
    /\ cpc \in {"readSize", "copyOut", "copiedOut", "release"} => Len(received) < Len(sent)
    /\ cpc \in {"copyOut", "copiedOut", "release"} =>
           out.size = sent[Len(received) + 1].size
    /\ cpc \in {"copiedOut", "release"} => out.bytes = sent[Len(received) + 1].bytes

RingInv ==
    /\ TypeOK
    /\ WordsCountFrames
    /\ RoomForWriter
    /\ FramesInSlots
    /\ WriterProgress
    /\ ReaderProgress
    /\ InOrderDelivery
=============================================================================
