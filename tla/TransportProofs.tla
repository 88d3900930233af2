--------------------------- MODULE TransportProofs --------------------------
(***************************************************************************)
(* Theorems about the transport between the engine and a worker.           *)
(*                                                                         *)
(* The ring (ShmSpscRing), for every number of slots, every word width     *)
(* that is a multiple of it and every set of payloads.  TypeCorrect holds  *)
(* whatever callers pass for overwriteOldest.  The other theorems about    *)
(* the ring are about callers that never pass true (NoOverwrite): with it  *)
(* they fail, as the run ring_overwrite_reserved shows.                    *)
(*                                                                         *)
(* The worker process and its two rings (StrategyWorker), for any          *)
(* capacities of the rings, any limit of the eventfd counters, any         *)
(* instruments, accounts and events, and any number of service calls in a  *)
(* callback; the codec of its messages (WireCodec), for any number of      *)
(* them; and how the rings come and go (RingLifecycle), for any capacities *)
(* and payloads and any number of kills.                                   *)
(***************************************************************************)
EXTENDS ShmSpscRing, StrategyWorker, WireCodec, RingLifecycle, ModuloLemmas, SequenceTheorems, TLAPS

NoOverwrite == TRUE \notin OverwriteArgs

USE DEF producerVars, consumerVars

-----------------------------------------------------------------------------
\* Words and slot numbers stay in range (the stores of head and tail and
\* toIndex).
LEMMA InRange ==
  ASSUME NEW x \in Int
  PROVE  /\ x % IndexMod \in Word
         /\ toIndex(x) \in Index
<1>1. x % IndexMod \in 0 .. IndexMod - 1 BY ModDef, RingAssumption
<1>2. x % SlotCount \in 0 .. SlotCount - 1 BY ModDef, RingAssumption
<1> QED BY <1>1, <1>2 DEF Word, Index, toIndex

\* Writing one field of one slot leaves an array of frames (tryPush).
LEMMA SlotWrite ==
  ASSUME TypeOK, NEW i \in Index
  PROVE  /\ \A n \in 0 .. MaxPayloadBytes : [slots EXCEPT ![i].size = n] \in [Index -> Frame]
         /\ \A b \in Payload \cup {Zeros, Torn} : [slots EXCEPT ![i].bytes = b] \in [Index -> Frame]
BY DEF TypeOK, Frame

\* TypeOK holds of the empty ring that create leaves.
LEMMA RingTypeInit == Init => TypeOK
<1> SUFFICES ASSUME Init PROVE TypeOK OBVIOUS
<1>1. 0 \in Word BY RingAssumption DEF Word
<1>2. [size |-> 0, bytes |-> Zeros] \in Frame BY RingAssumption DEF Frame
<1>3. << >> \in Seq(Frame) OBVIOUS
<1> QED BY <1>1, <1>2, <1>3 DEF Init, TypeOK

\* Every step of tryPush, popDiscardOldest and tryPop preserves TypeOK, which
\* is inductive as it stands.
LEMMA RingTypeStep == TypeOK /\ [Next]_vars => TypeOK'
<1> SUFFICES ASSUME TypeOK, [Next]_vars PROVE TypeOK' OBVIOUS
<1> USE RingAssumption
<1>0. /\ head \in Int /\ tail \in Int /\ cTail \in Int /\ pTail \in Int
      /\ \A x \in Int : x % IndexMod \in Word /\ toIndex(x) \in Index
  BY InRange DEF TypeOK, Word
<1>1. CASE \E p \in Payload : PushOversize(p)
  BY <1>1 DEF PushOversize, TypeOK
<1>2. CASE \E p \in Payload, o \in OverwriteArgs : TryPush(p, o)
  BY <1>2 DEF TryPush, TypeOK
<1>3. CASE DiscardLoad
  BY <1>3 DEF DiscardLoad, TypeOK
<1>4. CASE DiscardStore
  <2> pTail + 1 \in Int BY <1>0
  <2>1. tail' \in Word BY <1>0, <1>4 DEF DiscardStore
  <2> QED BY <1>4, <2>1 DEF DiscardStore, TypeOK
<1>5. CASE WriteSize
  <2>1. SizeOf[pPayload] \in 0 .. MaxPayloadBytes BY <1>5 DEF WriteSize, TypeOK
  <2>2. slots' \in [Index -> Frame] BY <1>0, <1>5, <2>1, SlotWrite DEF WriteSize
  <2> QED BY <1>5, <2>2 DEF WriteSize, TypeOK
<1>6. CASE CopyIn
  <2>1. slots' \in [Index -> Frame] BY <1>0, <1>6, SlotWrite DEF CopyIn
  <2> QED BY <1>6, <2>1 DEF CopyIn, TypeOK
<1>7. CASE CopiedIn
  <2>1. pPayload \in Payload BY <1>7 DEF CopiedIn, TypeOK
  <2>2. slots' \in [Index -> Frame] BY <1>0, <1>7, <2>1, SlotWrite DEF CopiedIn
  <2> QED BY <1>7, <2>2 DEF CopiedIn, TypeOK
<1>8. CASE Publish
  <2> head + 1 \in Int BY <1>0
  <2>1. head' \in Word BY <1>0, <1>8 DEF Publish
  <2>2. FrameOf(pPayload) \in Frame BY <1>8 DEF Publish, TypeOK, FrameOf, Frame
  <2>3. sent' \in Seq(Frame) BY <1>8, <2>2 DEF Publish, TypeOK
  <2> QED BY <1>8, <2>1, <2>3 DEF Publish, TypeOK
<1>9. CASE TryPop
  BY <1>9 DEF TryPop, TypeOK
<1>10. CASE LoadHead
  BY <1>10 DEF LoadHead, TypeOK
<1>11. CASE ReadSize
  <2>1. out' \in Frame BY <1>0, <1>11 DEF ReadSize, TypeOK, Frame
  <2> QED BY <1>11, <2>1 DEF ReadSize, TypeOK
<1>12. CASE CopyOut
  <2>1. out' \in Frame BY <1>0, <1>12 DEF CopyOut, TypeOK, Frame
  <2> QED BY <1>12, <2>1 DEF CopyOut, TypeOK
<1>13. CASE CopiedOut
  <2>1. out' \in Frame BY <1>0, <1>13 DEF CopiedOut, TypeOK, Frame
  <2> QED BY <1>13, <2>1 DEF CopiedOut, TypeOK
<1>14. CASE Release
  <2> cTail + 1 \in Int BY <1>0
  <2>1. tail' \in Word BY <1>0, <1>14 DEF Release
  <2>2. received' \in Seq(Frame) BY <1>14 DEF Release, TypeOK
  <2> QED BY <1>14, <2>1, <2>2 DEF Release, TypeOK
<1>15. CASE UNCHANGED vars
  BY <1>15 DEF vars, TypeOK
<1> QED
  BY <1>1, <1>2, <1>3, <1>4, <1>5, <1>6, <1>7, <1>8, <1>9, <1>10, <1>11, <1>12,
     <1>13, <1>14, <1>15 DEF Next, ProducerStep, ConsumerStep

\* Type correctness, with and without overwriteOldest: head and tail stay
\* words, and no slot is ever asked to hold more bytes than it has.
THEOREM TypeCorrect == Spec => []TypeOK
<1> QED BY RingTypeInit, RingTypeStep, PTL DEF Spec

-----------------------------------------------------------------------------
(* The ring without overwriteOldest.                                       *)

\* What the wrapped words tell: their difference is the number of frames in
\* the ring, they are equal only when it is empty, and toIndex finds the
\* slots of the next and of the oldest frame.
LEMMA WordFacts ==
  ASSUME TypeOK, WordsCountFrames, RoomForWriter
  PROVE  /\ size(head, tail) = Len(sent) - Len(received)
         /\ (head = tail) <=> (Len(sent) = Len(received))
         /\ toIndex(head) = toIndex(Len(sent))
         /\ toIndex(tail) = toIndex(Len(received))
<1> DEFINE n == Len(sent)
           r == Len(received)
<1>0. n \in Int /\ r \in Int BY DEF TypeOK
<1>z. /\ SlotCount \in Nat /\ SlotCount > 0
      /\ IndexMod \in Nat /\ IndexMod > 0 /\ IndexMod % SlotCount = 0
  BY RingAssumption
<1> HIDE DEF n, r
<1>1. r <= n /\ n - r < SlotCount BY RingAssumption, <1>0 DEF RoomForWriter, capacity, n, r
<1>2. SlotCount <= IndexMod
  <2>1. PICK q \in Int : IndexMod = q * SlotCount + (IndexMod % SlotCount)
    BY ModDef, <1>z
  <2>2. IndexMod = q * SlotCount /\ SlotCount > 0 /\ IndexMod > 0 BY <2>1, RingAssumption
  <2>3. q >= 1 BY <2>2, RingAssumption
  <2> QED BY <2>2, <2>3, RingAssumption
<1>3. ((n % IndexMod) - (r % IndexMod)) % IndexMod = (n - r) % IndexMod
  BY ModDiff, <1>0, <1>z
<1>4. (n - r) % IndexMod = n - r
  <2>1. n - r \in 0 .. IndexMod - 1 BY <1>0, <1>1, <1>2, RingAssumption
  <2> QED BY ModUnique, <2>1, RingAssumption, 0 * IndexMod = 0
<1>5. size(head, tail) = n - r BY <1>3, <1>4 DEF size, WordsCountFrames, n, r
<1>6. (head = tail) <=> (n = r)
  <2>1. CASE r < n
    BY <2>1, <1>0, <1>1, <1>2, ModDistinct, RingAssumption DEF WordsCountFrames, n, r
  <2>2. CASE r = n
    BY <2>2 DEF WordsCountFrames, n, r
  <2> QED BY <2>1, <2>2, <1>0, <1>1
<1>7. toIndex(head) = toIndex(n) /\ toIndex(tail) = toIndex(r)
  <2>1. (n % IndexMod) % SlotCount = n % SlotCount BY ModMod, <1>0, <1>z
  <2>2. (r % IndexMod) % SlotCount = r % SlotCount BY ModMod, <1>0, <1>z
  <2> QED BY <2>1, <2>2 DEF toIndex, WordsCountFrames, n, r
<1> QED BY <1>5, <1>6, <1>7 DEF n, r

\* Frames fewer than SlotCount apart are in different slots, so that tryPush
\* at Len(sent) leaves every frame still in the ring alone.
LEMMA FreeSlot ==
  ASSUME NEW n \in Nat, NEW i \in Nat, i < n, n - i < SlotCount
  PROVE  toIndex(n) # toIndex(i)
BY ModDistinct, RingAssumption DEF toIndex

\* The inductive invariant holds of the empty ring that create leaves.
LEMMA RingInvInit == Init => RingInv
<1> SUFFICES ASSUME Init PROVE RingInv OBVIOUS
<1> USE DEF Init
<1>1. TypeOK BY RingTypeInit
<1>2. Len(sent) = 0 /\ Len(received) = 0 OBVIOUS
<1>3. 0 % IndexMod = 0
  BY ModUnique, RingAssumption, 0 * IndexMod = 0, 0 \in 0 .. IndexMod - 1
<1>4. WordsCountFrames BY <1>2, <1>3 DEF WordsCountFrames
<1>5. RoomForWriter BY <1>2, RingAssumption DEF RoomForWriter, capacity
<1>6. FramesInSlots BY <1>2 DEF FramesInSlots
<1>7. WriterProgress /\ ReaderProgress BY DEF WriterProgress, ReaderProgress
<1>8. InOrderDelivery BY <1>2 DEF InOrderDelivery
<1> QED BY <1>1, <1>4, <1>5, <1>6, <1>7, <1>8 DEF RingInv

\* Every step of tryPush and tryPop preserves the inductive invariant when no
\* caller passes overwriteOldest; popDiscardOldest is then never reached.
LEMMA RingInvStep == NoOverwrite /\ RingInv /\ [Next]_vars => RingInv'
<1> SUFFICES ASSUME NoOverwrite, RingInv, [Next]_vars PROVE RingInv' OBVIOUS
<1> USE RingAssumption DEF RingInv
<1> DEFINE n == Len(sent)
           r == Len(received)
<1>a. TypeOK' BY RingTypeStep
<1>b. n \in Nat /\ r \in Nat /\ toIndex(n) \in Index /\ toIndex(r) \in Index
  <2>1. n \in Nat /\ r \in Nat BY DEF TypeOK
  <2> HIDE DEF n, r
  <2> QED BY <2>1, InRange
<1>s. \A k \in Nat : ((k % IndexMod) + 1) % IndexMod = (k + 1) % IndexMod
  <2> TAKE k \in Nat
  <2> IndexMod \in Nat /\ IndexMod > 0 /\ k \in Int OBVIOUS
  <2> QED BY ModSucc
<1>c. /\ size(head, tail) = n - r
      /\ (head = tail) <=> (n = r)
      /\ toIndex(head) = toIndex(n)
      /\ toIndex(tail) = toIndex(r)
  BY WordFacts
\* writing the free slot disturbs no frame in the ring
<1>d. ASSUME n - r < capacity, NEW i \in r .. n - 1
      PROVE  toIndex(i) # toIndex(n)
  BY <1>d, <1>b, FreeSlot DEF capacity
<1>1. CASE \E p \in Payload : PushOversize(p)
  BY <1>1, <1>a DEF PushOversize, WordsCountFrames, RoomForWriter, FramesInSlots,
     WriterProgress, ReaderProgress, InOrderDelivery
<1>2. CASE \E p \in Payload, o \in OverwriteArgs : TryPush(p, o)
  <2> PICK p \in Payload, o \in OverwriteArgs : TryPush(p, o) BY <1>2
  <2>1. ~o BY DEF NoOverwrite
  <2>2. UNCHANGED <<head, tail, slots, sent, received, cpc, cTail, out>> BY DEF TryPush
  <2>3. RoomForWriter' BY <2>1, <2>2, <1>b, <1>c DEF TryPush, RoomForWriter, capacity
  <2>4. WriterProgress' BY <2>1, <2>2 DEF TryPush, WriterProgress
  <2> QED BY <1>a, <2>2, <2>3, <2>4 DEF WordsCountFrames, FramesInSlots, ReaderProgress, InOrderDelivery
<1>3. CASE DiscardLoad
  BY <1>3 DEF DiscardLoad, RoomForWriter
<1>4. CASE DiscardStore
  BY <1>4 DEF DiscardStore, RoomForWriter
<1>5. CASE WriteSize
  <2>1. /\ UNCHANGED <<head, tail, sent, received, cpc, cTail, out, pPayload>>
        /\ ppc = "writeSize" /\ ppc' = "copyIn"
        /\ slots' = [slots EXCEPT ![toIndex(n)].size = SizeOf[pPayload]]
    BY <1>5, <1>c DEF WriteSize
  <2>2. RoomForWriter' BY <2>1 DEF RoomForWriter
  <2>3. FramesInSlots'
    <3>1. ASSUME NEW i \in r .. n - 1 PROVE slots'[toIndex(i)] = slots[toIndex(i)]
      <4>1. n - r < capacity BY <2>1 DEF RoomForWriter
      <4>2. toIndex(n) # toIndex(i) BY <4>1, <1>d
      <4>3. toIndex(i) \in Index BY <1>b, InRange
      <4> QED BY <2>1, <4>2, <4>3 DEF TypeOK
    <3> QED BY <2>1, <3>1 DEF FramesInSlots
  <2>4. WriterProgress' BY <2>1, <1>b, InRange DEF WriterProgress, TypeOK, Frame
  <2> QED BY <1>a, <2>1, <2>2, <2>3, <2>4 DEF WordsCountFrames, ReaderProgress, InOrderDelivery
<1>6. CASE CopyIn
  <2>1. /\ UNCHANGED <<head, tail, sent, received, cpc, cTail, out, pPayload>>
        /\ ppc = "copyIn" /\ ppc' = "copiedIn"
        /\ slots' = [slots EXCEPT ![toIndex(n)].bytes = Torn]
    BY <1>6, <1>c DEF CopyIn
  <2>2. RoomForWriter' BY <2>1 DEF RoomForWriter
  <2>3. FramesInSlots'
    <3>1. ASSUME NEW i \in r .. n - 1 PROVE slots'[toIndex(i)] = slots[toIndex(i)]
      <4>1. n - r < capacity BY <2>1 DEF RoomForWriter
      <4>2. toIndex(n) # toIndex(i) BY <4>1, <1>d
      <4>3. toIndex(i) \in Index BY <1>b, InRange
      <4> QED BY <2>1, <4>2, <4>3 DEF TypeOK
    <3> QED BY <2>1, <3>1 DEF FramesInSlots
  <2>4. WriterProgress' BY <2>1, <1>b DEF WriterProgress, TypeOK, Frame
  <2> QED BY <1>a, <2>1, <2>2, <2>3, <2>4 DEF WordsCountFrames, ReaderProgress, InOrderDelivery
<1>7. CASE CopiedIn
  <2>1. /\ UNCHANGED <<head, tail, sent, received, cpc, cTail, out, pPayload>>
        /\ ppc = "copiedIn" /\ ppc' = "publish"
        /\ slots' = [slots EXCEPT ![toIndex(n)].bytes = pPayload]
    BY <1>7, <1>c DEF CopiedIn
  <2>2. RoomForWriter' BY <2>1 DEF RoomForWriter
  <2>3. FramesInSlots'
    <3>1. ASSUME NEW i \in r .. n - 1 PROVE slots'[toIndex(i)] = slots[toIndex(i)]
      <4>1. n - r < capacity BY <2>1 DEF RoomForWriter
      <4>2. toIndex(n) # toIndex(i) BY <4>1, <1>d
      <4>3. toIndex(i) \in Index BY <1>b, InRange
      <4> QED BY <2>1, <4>2, <4>3 DEF TypeOK
    <3> QED BY <2>1, <3>1 DEF FramesInSlots
  <2>4. WriterProgress' BY <2>1, <1>b DEF WriterProgress, TypeOK, Frame
  <2> QED BY <1>a, <2>1, <2>2, <2>3, <2>4 DEF WordsCountFrames, ReaderProgress, InOrderDelivery
<1>8. CASE Publish
  <2>1. /\ UNCHANGED <<tail, slots, received, cpc, cTail, out, pPayload>>
        /\ ppc = "publish" /\ ppc' = "idle"
        /\ head' = (head + 1) % IndexMod
        /\ sent' = Append(sent, FrameOf(pPayload))
    BY <1>8 DEF Publish
  <2>2. /\ Len(sent') = n + 1
        /\ sent'[n + 1] = FrameOf(pPayload)
        /\ \A i \in 1 .. n : sent'[i] = sent[i]
    BY <2>1 DEF TypeOK
  <2>3. WordsCountFrames' BY <2>1, <2>2, <1>b, <1>s DEF WordsCountFrames
  <2>4. RoomForWriter' BY <2>1, <2>2, <1>b DEF RoomForWriter, capacity
  <2>5. slots[toIndex(n)] = FrameOf(pPayload)
    BY <2>1, <1>b DEF WriterProgress, FrameOf, TypeOK, Frame
  <2>6. FramesInSlots'
    <3> SUFFICES ASSUME NEW i \in r .. Len(sent') - 1
                 PROVE  slots[toIndex(i)] = sent'[i + 1]
      BY <2>1 DEF FramesInSlots
    <3>1. CASE i = n BY <3>1, <2>2, <2>5
    <3>2. CASE i < n BY <3>2, <2>2, <1>b DEF FramesInSlots
    <3> QED BY <3>1, <3>2, <2>2, <1>b
  <2>7. WriterProgress' BY <2>1 DEF WriterProgress
  <2>8. ReaderProgress' BY <2>1, <2>2, <1>b DEF ReaderProgress
  <2>9. InOrderDelivery' BY <2>1, <2>2, <1>b DEF InOrderDelivery
  <2> QED BY <1>a, <2>3, <2>4, <2>6, <2>7, <2>8, <2>9
<1>9. CASE TryPop
  BY <1>9, <1>a DEF TryPop, WordsCountFrames, RoomForWriter, FramesInSlots,
     WriterProgress, ReaderProgress, InOrderDelivery
<1>10. CASE LoadHead
  <2>1. /\ UNCHANGED <<head, tail, slots, sent, received, cTail, out, ppc, pPayload>>
        /\ cpc = "loadHead"
        /\ cpc' = "idle" \/ (cpc' = "readSize" /\ head # cTail)
    BY <1>10 DEF LoadHead
  <2>2. ReaderProgress' BY <2>1, <1>b, <1>c DEF ReaderProgress, RoomForWriter
  <2> QED BY <1>a, <2>1, <2>2 DEF WordsCountFrames, RoomForWriter, FramesInSlots,
        WriterProgress, InOrderDelivery
<1>e. ASSUME cpc \in {"readSize", "copyOut", "copiedOut", "release"}
      PROVE  r < n /\ slots[toIndex(cTail)] = sent[r + 1] /\ sent[r + 1] \in Frame
  <2>1. r < n /\ cTail = tail BY <1>e DEF ReaderProgress
  <2>2. slots[toIndex(r)] = sent[r + 1] BY <2>1, <1>b DEF FramesInSlots
  <2> QED BY <2>1, <2>2, <1>b, <1>c DEF TypeOK
<1>11. CASE ReadSize
  <2>1. /\ UNCHANGED <<head, tail, slots, sent, received, cTail, ppc, pPayload>>
        /\ cpc = "readSize" /\ cpc' = "copyOut"
        /\ out' = [out EXCEPT !.size = slots[toIndex(cTail)].size]
    BY <1>11 DEF ReadSize
  <2>2. out'.size = sent[r + 1].size BY <2>1, <1>e DEF TypeOK, Frame
  <2>3. ReaderProgress' BY <2>1, <2>2 DEF ReaderProgress
  <2> QED BY <1>a, <2>1, <2>3 DEF WordsCountFrames, RoomForWriter, FramesInSlots,
        WriterProgress, InOrderDelivery
<1>12. CASE CopyOut
  <2>1. /\ UNCHANGED <<head, tail, slots, sent, received, cTail, ppc, pPayload>>
        /\ cpc = "copyOut" /\ cpc' = "copiedOut"
        /\ out' = [out EXCEPT !.bytes = IF slots[toIndex(cTail)].size = out.size
                                          THEN slots[toIndex(cTail)].bytes ELSE Torn]
    BY <1>12 DEF CopyOut
  <2>2. out.size = sent[r + 1].size BY <2>1 DEF ReaderProgress
  <2>3. out'.bytes = sent[r + 1].bytes /\ out'.size = out.size
    BY <2>1, <2>2, <1>e DEF TypeOK, Frame
  <2>4. ReaderProgress' BY <2>1, <2>2, <2>3 DEF ReaderProgress
  <2> QED BY <1>a, <2>1, <2>4 DEF WordsCountFrames, RoomForWriter, FramesInSlots,
        WriterProgress, InOrderDelivery
<1>13. CASE CopiedOut
  <2>1. /\ UNCHANGED <<head, tail, slots, sent, received, cTail, ppc, pPayload>>
        /\ cpc = "copiedOut" /\ cpc' = "release"
        /\ out' = [out EXCEPT !.bytes = IF slots[toIndex(cTail)].bytes = out.bytes
                                          THEN out.bytes ELSE Torn]
    BY <1>13 DEF CopiedOut
  <2>2. out.size = sent[r + 1].size /\ out.bytes = sent[r + 1].bytes BY <2>1 DEF ReaderProgress
  <2>3. out'.bytes = sent[r + 1].bytes /\ out'.size = out.size
    BY <2>1, <2>2, <1>e DEF TypeOK, Frame
  <2>4. ReaderProgress' BY <2>1, <2>2, <2>3 DEF ReaderProgress
  <2> QED BY <1>a, <2>1, <2>4 DEF WordsCountFrames, RoomForWriter, FramesInSlots,
        WriterProgress, InOrderDelivery
<1>14. CASE Release
  <2>1. /\ UNCHANGED <<head, slots, sent, cTail, out, ppc, pPayload>>
        /\ cpc = "release" /\ cpc' = "idle"
        /\ tail' = (cTail + 1) % IndexMod
        /\ received' = Append(received, out)
        /\ cTail = tail
    BY <1>14 DEF Release, ReaderProgress
  <2>2. /\ Len(received') = r + 1
        /\ received'[r + 1] = out
        /\ \A i \in 1 .. r : received'[i] = received[i]
    BY <2>1 DEF TypeOK
  <2>3. out = sent[r + 1]
    <3>1. out.size = sent[r + 1].size /\ out.bytes = sent[r + 1].bytes
      BY <2>1 DEF ReaderProgress
    <3>2. out \in Frame /\ sent[r + 1] \in Frame BY <2>1, <1>e DEF TypeOK
    <3> QED BY <3>1, <3>2 DEF Frame
  <2>4. WordsCountFrames' BY <2>1, <2>2, <1>b, <1>s DEF WordsCountFrames
  <2>5. RoomForWriter' BY <2>1, <2>2, <1>b, <1>e DEF RoomForWriter, capacity
  <2>6. FramesInSlots' BY <2>1, <2>2, <1>b DEF FramesInSlots
  <2>7. WriterProgress' BY <2>1 DEF WriterProgress
  <2>8. ReaderProgress' BY <2>1 DEF ReaderProgress
  <2>9. InOrderDelivery'
    <3> SUFFICES ASSUME NEW i \in 1 .. r + 1 PROVE received'[i] = sent[i]
      BY <2>1, <2>2, <1>b, <1>e DEF InOrderDelivery
    <3>1. CASE i = r + 1 BY <3>1, <2>2, <2>3
    <3>2. CASE i <= r BY <3>2, <2>2, <1>b DEF InOrderDelivery
    <3> QED BY <3>1, <3>2, <1>b
  <2> QED BY <1>a, <2>4, <2>5, <2>6, <2>7, <2>8, <2>9
<1>15. CASE UNCHANGED vars
  BY <1>15, <1>a DEF vars, WordsCountFrames, RoomForWriter, FramesInSlots,
     WriterProgress, ReaderProgress, InOrderDelivery
<1> QED
  BY <1>1, <1>2, <1>3, <1>4, <1>5, <1>6, <1>7, <1>8, <1>9, <1>10, <1>11, <1>12,
     <1>13, <1>14, <1>15 DEF Next, ProducerStep, ConsumerStep

\* Without overwriteOldest, the words count the frames, the frames in the
\* ring are whole in their slots, and reader and writer know what they
\* assume of them.
THEOREM RingInvariant == NoOverwrite /\ Spec => []RingInv
<1> SUFFICES ASSUME NoOverwrite PROVE Spec => []RingInv OBVIOUS
<1>1. RingInv /\ [Next]_vars => RingInv' BY RingInvStep
<1> QED BY <1>1, RingInvInit, PTL DEF Spec

\* tryPop delivers what tryPush published: every frame once, whole and in
\* order.
THEOREM DeliveryInOrder == NoOverwrite /\ Spec => []InOrderDelivery
<1>1. RingInv => InOrderDelivery BY DEF RingInv
<1> QED BY <1>1, RingInvariant, PTL

\* tryPush never writes the slot tryPop is reading.
THEOREM ExclusiveSlots == NoOverwrite /\ Spec => []SlotExclusion
<1>1. RingInv => SlotExclusion
  <2> SUFFICES ASSUME RingInv,
                      ppc \in {"writeSize", "copyIn", "copiedIn"},
                      cpc \in {"readSize", "copyOut", "copiedOut"}
               PROVE  toIndex(head) # toIndex(cTail)
    BY DEF SlotExclusion
  <2>1. /\ toIndex(head) = toIndex(Len(sent))
        /\ toIndex(cTail) = toIndex(Len(received))
        /\ Len(received) < Len(sent)
    BY WordFacts DEF RingInv, ReaderProgress
  <2>2. Len(sent) - Len(received) < SlotCount
    BY RingAssumption DEF RingInv, RoomForWriter, capacity, TypeOK
  <2> QED BY <2>1, <2>2, FreeSlot DEF RingInv, TypeOK
<1> QED BY <1>1, RingInvariant, PTL

\* At most slotCount - 1 frames are in the ring.
THEOREM SlotReserved == NoOverwrite /\ Spec => []OneSlotReserved
<1>1. RingInv => OneSlotReserved
  BY WordFacts, RingAssumption DEF RingInv, RoomForWriter, OneSlotReserved, capacity, TypeOK
<1> QED BY <1>1, RingInvariant, PTL

\* memcpy in tryPop stays within the buffer sized from the slot's size word.
THEOREM CopyInBounds == NoOverwrite /\ Spec => []CopyFitsBuffer
<1>1. RingInv => CopyFitsBuffer
  <2> SUFFICES ASSUME RingInv, cpc = "copyOut"
               PROVE  slots[toIndex(cTail)].size <= out.size
    BY DEF CopyFitsBuffer
  <2>1. /\ toIndex(cTail) = toIndex(Len(received))
        /\ Len(received) < Len(sent)
        /\ out.size = sent[Len(received) + 1].size
    BY WordFacts DEF RingInv, ReaderProgress
  <2>2. slots[toIndex(Len(received))] = sent[Len(received) + 1]
    BY <2>1 DEF RingInv, FramesInSlots, TypeOK
  <2> QED BY <2>1, <2>2 DEF RingInv, TypeOK, Frame
<1> QED BY <1>1, RingInvariant, PTL

-----------------------------------------------------------------------------
(* The ring implements BoundedFifo.                                        *)

\* Publishing appends to the frames awaiting delivery, delivering takes the
\* first of them away.
LEMMA WaitingFrames ==
  ASSUME NEW S, NEW s \in Seq(S), NEW e \in S, NEW k \in Nat, k <= Len(s)
  PROVE  /\ SubSeq(Append(s, e), k + 1, Len(s) + 1) = Append(SubSeq(s, k + 1, Len(s)), e)
         /\ Len(SubSeq(s, k + 1, Len(s))) = Len(s) - k
         /\ k < Len(s) => /\ SubSeq(s, k + 1, Len(s)) # << >>
                          /\ SubSeq(s, k + 2, Len(s)) = Tail(SubSeq(s, k + 1, Len(s)))
                          /\ Head(SubSeq(s, k + 1, Len(s))) = s[k + 1]
         /\ k = Len(s) => SubSeq(s, k + 1, Len(s)) = << >>
<1> DEFINE n == Len(s)
           q == SubSeq(s, k + 1, n)
<1>0. n \in Nat OBVIOUS
<1>1. q \in Seq(S) /\ Len(q) = n - k /\ \A i \in 1 .. n - k : q[i] = s[k + i]
  BY <1>0, SubSeqProperties
<1>2. SubSeq(Append(s, e), k + 1, n + 1) = Append(q, e)
  <2> DEFINE w == SubSeq(Append(s, e), k + 1, n + 1)
  <2>1. w \in Seq(S) /\ Len(w) = n + 1 - k /\ \A i \in 1 .. n + 1 - k : w[i] = Append(s, e)[k + i]
    BY <1>0, SubSeqProperties
  <2>2. Append(q, e) \in Seq(S) /\ Len(Append(q, e)) = n - k + 1 BY <1>0, <1>1
  <2>3. ASSUME NEW i \in 1 .. n + 1 - k PROVE w[i] = Append(q, e)[i]
    <3>1. CASE i = n + 1 - k BY <3>1, <2>1, <1>0, <1>1
    <3>2. CASE i <= n - k BY <3>2, <2>1, <1>0, <1>1
    <3> QED BY <3>1, <3>2, <1>0
  <2>4. PICK v \in Seq(S) : v = Append(q, e) BY <2>2
  <2> HIDE DEF w, n, q
  <2>5. Len(v) = Len(w) /\ \A i \in 1 .. Len(w) : w[i] = v[i] BY <2>1, <2>2, <2>3, <2>4, <1>0
  <2>6. w = v BY <2>1, <2>5, SeqEqual
  <2> QED BY <2>4, <2>6 DEF w
<1>3. ASSUME k < n PROVE SubSeq(s, k + 2, n) = Tail(q)
  <2> DEFINE w == SubSeq(s, k + 2, n)
  <2>1. w \in Seq(S) /\ Len(w) = n - k - 1 /\ \A i \in 1 .. n - k - 1 : w[i] = s[k + 1 + i]
    BY <1>0, <1>3, SubSeqProperties
  <2>2. Tail(q) \in Seq(S) /\ Len(Tail(q)) = n - k - 1
    <3> HIDE DEF q, n
    <3>1. q \in Seq(S) /\ q # << >> BY <1>0, <1>1, <1>3
    <3> QED BY <3>1, <1>0, <1>1, <1>3, HeadTailProperties
  <2>3. ASSUME NEW i \in 1 .. n - k - 1 PROVE w[i] = Tail(q)[i]
    BY <2>1, <1>0, <1>1, <1>3
  <2> HIDE DEF w, q
  <2> QED BY <2>1, <2>2, <2>3, <1>0, SeqEqual DEF w
<1>4. ASSUME k < n PROVE q # << >> /\ Head(q) = s[k + 1]
  <2> HIDE DEF q, n
  <2>1. q # << >> /\ q[1] = s[k + 1] BY <1>0, <1>1, <1>4
  <2> QED BY <2>1, <1>1, HeadTailProperties
<1>5. ASSUME k = n PROVE q = << >>
  <2> HIDE DEF q, n
  <2> QED BY <1>0, <1>1, <1>5, EmptySeq
<1> QED BY <1>1, <1>2, <1>3, <1>4, <1>5

\* The empty ring is the empty queue.
LEMMA FifoInit == Init => Fifo!Init
BY DEF Init, Fifo!Init

\* Publish is the queue's push and Release its pop; a tryPush that finds no
\* room and a tryPop that finds nothing are its refusals; every other step of
\* the ring leaves the queue as it is.
LEMMA FifoStep == RingInv /\ [Next]_vars => [Fifo!Next]_(Fifo!vars)
<1> SUFFICES ASSUME RingInv, [Next]_vars PROVE Fifo!Next \/ UNCHANGED Fifo!vars OBVIOUS
<1> DEFINE n == Len(sent)
           r == Len(received)
           q == SubSeq(sent, r + 1, n)
           F == {FrameOf(p) : p \in {x \in Payload : SizeOf[x] <= MaxPayloadBytes}}
<1>t. TypeOK BY DEF RingInv
<1>b. n \in Nat /\ r \in Nat /\ r <= n /\ sent \in Seq(Frame)
  BY <1>t DEF TypeOK, RingInv, RoomForWriter
<1>c. /\ size(head, tail) = n - r
      /\ (head = tail) <=> (n = r)
  BY WordFacts DEF RingInv
<1>l. Len(q) = n - r /\ (r = n => q = << >>)
  BY <1>b, WaitingFrames, RingAssumption, [size |-> 0, bytes |-> Zeros] \in Frame DEF Frame
<1>1. CASE \E p \in Payload : PushOversize(p)
  BY <1>1 DEF PushOversize, Fifo!Next, Fifo!RejectOversize
<1>2. CASE \E p \in Payload, o \in OverwriteArgs : TryPush(p, o)
  <2>1. \/ UNCHANGED <<sent, received, pushResult, popResult>>
        \/ /\ size(head, tail) = capacity
           /\ pushResult' = "full"
           /\ UNCHANGED <<sent, received, popResult>>
    BY <1>2 DEF TryPush
  <2> QED BY <2>1, <1>c, <1>l DEF Fifo!vars, Fifo!Next, Fifo!RejectFull, capacity
<1>3. CASE DiscardLoad
  BY <1>3 DEF DiscardLoad, RingInv, RoomForWriter
<1>4. CASE DiscardStore \/ WriteSize \/ CopyIn \/ CopiedIn \/ TryPop \/ ReadSize \/ CopyOut \/ CopiedOut
  <2>1. UNCHANGED <<sent, received, pushResult, popResult>>
    BY <1>4 DEF DiscardStore, WriteSize, CopyIn, CopiedIn, TryPop, ReadSize, CopyOut, CopiedOut
  <2> QED BY <2>1 DEF Fifo!vars
<1>8. CASE Publish
  <2>1. /\ UNCHANGED <<received, popResult>>
        /\ ppc = "publish"
        /\ sent' = Append(sent, FrameOf(pPayload))
        /\ pushResult' = "pushed"
    BY <1>8 DEF Publish
  <2>2. pPayload \in Payload /\ SizeOf[pPayload] <= MaxPayloadBytes
    BY <2>1, <1>t DEF TypeOK
  <2>3. FrameOf(pPayload) \in F BY <2>2
  <2>4. FrameOf(pPayload) \in Frame BY <2>2, RingAssumption DEF FrameOf, Frame
  <2>5. n - r < capacity BY <2>1 DEF RingInv, RoomForWriter
  <2>6. SubSeq(sent', Len(received') + 1, Len(sent')) = Append(q, FrameOf(pPayload))
    <3>1. Len(sent') = n + 1 BY <2>1, <2>4, <1>b
    <3>2. \A e \in Frame : SubSeq(Append(sent, e), r + 1, n + 1) = Append(q, e)
      BY <1>b, WaitingFrames
    <3> QED BY <3>1, <3>2, <2>1, <2>4
  <2> QED BY <2>1, <2>3, <2>5, <2>6, <1>l DEF Fifo!Next, Fifo!Push, capacity
<1>10. CASE LoadHead
  <2>1. /\ UNCHANGED <<sent, received, pushResult>>
        /\ \/ UNCHANGED popResult
           \/ head = cTail /\ popResult' = FALSE
        /\ cpc = "loadHead"
    BY <1>10 DEF LoadHead
  <2>2. cTail = tail BY <2>1 DEF RingInv, ReaderProgress
  <2> QED BY <2>1, <2>2, <1>c, <1>l DEF Fifo!vars, Fifo!Next, Fifo!PopEmpty
<1>14. CASE Release
  <2>1. /\ UNCHANGED <<sent, pushResult>>
        /\ cpc = "release"
        /\ received' = Append(received, out)
        /\ popResult' = TRUE
        /\ received \in Seq(Frame) /\ out \in Frame
    BY <1>14, <1>t DEF Release, TypeOK
  <2>2. r < n BY <2>1 DEF RingInv, ReaderProgress
  <2>3. out = sent[r + 1]
    <3>1. out.size = sent[r + 1].size /\ out.bytes = sent[r + 1].bytes
      BY <2>1 DEF RingInv, ReaderProgress
    <3>2. sent[r + 1] \in Frame BY <2>2, <1>b
    <3> QED BY <3>1, <3>2, <2>1 DEF Frame
  <2>4. /\ q # << >>
        /\ SubSeq(sent, r + 2, n) = Tail(q)
        /\ Head(q) = sent[r + 1]
    BY <2>1, <2>2, <1>b, WaitingFrames
  <2>5. Len(received') = r + 1 BY <2>1
  <2>6. SubSeq(sent', Len(received') + 1, Len(sent')) = Tail(q)
    BY <2>1, <2>4, <2>5, <1>b, r + 1 + 1 = r + 2
  <2> QED BY <2>1, <2>3, <2>4, <2>6 DEF Fifo!Next, Fifo!Pop
<1>15. CASE UNCHANGED vars
  BY <1>15 DEF vars, Fifo!vars
<1> QED
  BY <1>1, <1>2, <1>3, <1>4, <1>8, <1>10, <1>14, <1>15 DEF Next, ProducerStep, ConsumerStep

\* Without overwriteOldest the ring is a bounded first-in-first-out queue: a
\* successful tryPush appends, a successful tryPop takes the oldest, and the
\* two give up only on a full and on an empty queue.
THEOREM RingIsBoundedFifo == NoOverwrite /\ Spec => ImplementsBoundedFifo
<1> SUFFICES ASSUME NoOverwrite PROVE Spec => Fifo!Spec BY DEF ImplementsBoundedFifo
<1>1. Spec => []RingInv BY RingInvariant
<1> QED BY <1>1, FifoInit, FifoStep, PTL DEF Spec, Fifo!Spec

-----------------------------------------------------------------------------
(* The frames of the action ring.                                          *)

\* What the two kinds of frames that applying an action looks at carry, and
\* which kinds service calls have.
LEMMA ActionFacts ==
  ASSUME NEW a \in Action
  PROVE  /\ a.kind \in {"subscribe", "unsubscribe"} => a.arg \in Instrument
         /\ a \in ServiceCall => a.kind \notin {"ack", "heartbeat", "ready"}
         /\ a.kind = "subscribe" => a = Subscribe(a.arg)
         /\ a.kind = "unsubscribe" => a = Unsubscribe(a.arg)
BY DEF Action, ServiceCall, Subscribe, Unsubscribe, Setup, Order, LargeOrder, Ready, Ack, Heartbeat

\* The worker's own frames are no service calls.
LEMMA OwnFrames ==
  ASSUME NEW n \in Count
  PROVE  /\ Ready \in Action /\ Ack(n) \in Action /\ Heartbeat(n) \in Action
         /\ \A i : /\ Ready \notin {Subscribe(i), Unsubscribe(i)}
                   /\ Ack(n) \notin {Subscribe(i), Unsubscribe(i), Ready}
                   /\ Heartbeat(n) \notin {Subscribe(i), Unsubscribe(i), Ready}
         /\ LargeOrder \notin {Ready, Ack(n), Heartbeat(n)}
         /\ Ready.kind = "ready" /\ Ack(n).kind = "ack" /\ Heartbeat(n).kind = "heartbeat"
         /\ Ack(n).arg = n
BY DEF Action, Subscribe, Unsubscribe, LargeOrder, Ready, Ack, Heartbeat

\* The constants are numbers.
LEMMA Limits ==
  /\ EventCapacity \in Nat \ {0} /\ ActionCapacity \in Nat \ {0} /\ FdMax \in Nat \ {0}
  /\ CountMod \in Nat /\ CountMod > 2 /\ MaxCalls \in Nat
BY WorkerAssumption

\* A counter that is incremented stays a counter.
LEMMA CountNext ==
  ASSUME NEW n \in Count
  PROVE  (n + 1) % CountMod \in Count
BY WorkerAssumption, SMT DEF Count

\* Pushing and popping keep a ring's type and shift its frames.
LEMMA RingAppend ==
  ASSUME NEW S, NEW r \in Seq(S), NEW a \in S
  PROVE  /\ Append(r, a) \in Seq(S) /\ Len(Append(r, a)) = Len(r) + 1
         /\ \A i \in 1 .. Len(r) : Append(r, a)[i] = r[i]
         /\ Append(r, a)[Len(r) + 1] = a
         /\ Append(r, a) # << >>
OBVIOUS

LEMMA RingTail ==
  ASSUME NEW S, NEW r \in Seq(S), r # << >>
  PROVE  /\ Tail(r) \in Seq(S) /\ Len(Tail(r)) = Len(r) - 1 /\ Len(r) > 0
         /\ \A i \in 1 .. Len(r) - 1 : Tail(r)[i] = r[i + 1]
         /\ Head(r) = r[1] /\ Head(r) \in S
OBVIOUS

-----------------------------------------------------------------------------
(* Type correctness.                                                       *)

\* A service call's or an event's effect on the caches keeps their types.
LEMMA CacheTypes ==
  ASSUME SwTypeOK, NEW a \in Action, NEW given \in BOOLEAN, CacheCall(a, given)
  PROVE  /\ subscribed' \subseteq Instrument /\ readyAccounts' \subseteq Account
         /\ accountInfos' \subseteq Account /\ walletInfos' \subseteq Account
<1>1. subscribed' \subseteq Instrument
  <2>1. Applied(subscribed, a) \subseteq Instrument BY ActionFacts DEF Applied, SwTypeOK
  <2> QED BY <2>1 DEF CacheCall, SwTypeOK
<1> QED BY <1>1 DEF CacheCall, SwTypeOK

\* What a return from sendAction leaves has the types.
LEMMA SentTypes ==
  ASSUME SwTypeOK, NEW a \in Action, NEW ok \in BOOLEAN, Sent(a, ok)
  PROVE  /\ wpc' \in {"start", "callback", "poll", "recv", "exited"}
         /\ exitCode' \in {0, 2, 3, 4, 5, 6, 7, 9} /\ due' \in BOOLEAN
         /\ subscribed' \subseteq Instrument /\ readyAccounts' \subseteq Account
         /\ accountInfos' \subseteq Account /\ walletInfos' \subseteq Account
<1>1. CASE wpc \in {"start", "callback"} /\ CacheCall(a, ok) /\ UNCHANGED <<wpc, exitCode, due>>
  BY <1>1, CacheTypes DEF SwTypeOK
<1>2. CASE /\ UNCHANGED caches
           /\ \/ wpc = "ready" /\ (IF ok THEN wpc' = "poll" /\ UNCHANGED exitCode ELSE ExitWith(3))
                 /\ due' = FALSE
              \/ wpc = "ack" /\ (IF ok THEN wpc' = "recv" /\ UNCHANGED exitCode ELSE ExitWith(5))
                 /\ UNCHANGED due
              \/ wpc = "beat" /\ (IF ok THEN wpc' = "poll" /\ due' = FALSE /\ UNCHANGED exitCode
                                        ELSE ExitWith(7) /\ UNCHANGED due)
  BY <1>2 DEF SwTypeOK, ExitWith, caches
<1> QED BY <1>1, <1>2 DEF Sent

\* The part of the state that sendAction changes before it notifies.
LEMMA SendTypes ==
  ASSUME SwTypeOK, NEW a \in Action, SendAction(a)
  PROVE  /\ actionRing' \in Seq(Action) /\ Len(actionRing') <= ActionCapacity
         /\ sending' \in {<< >>} \cup {<<b>> : b \in Action}
         /\ wpc' \in {"open", "start", "ready", "poll", "drain", "recv", "callback", "ack",
                "timer", "beat", "exited"}
         /\ exitCode' \in {0, 2, 3, 4, 5, 6, 7, 9} /\ due' \in BOOLEAN
         /\ subscribed' \subseteq Instrument /\ readyAccounts' \subseteq Account
         /\ accountInfos' \subseteq Account /\ walletInfos' \subseteq Account
         /\ UNCHANGED <<eventRing, workerFd, engineFd, engineVars, keepRunning>>
<1>1. CASE Sent(a, FALSE) /\ UNCHANGED <<actionRing, sending>>
  BY <1>1, SentTypes DEF SwTypeOK, SendAction
<1>2. CASE /\ Len(actionRing) < ActionCapacity /\ actionRing' = Append(actionRing, a)
           /\ sending' = <<a>> /\ UNCHANGED <<wpc, exitCode, due, caches>>
  <2>1. /\ actionRing' \in Seq(Action) /\ Len(actionRing') <= ActionCapacity
    BY <1>2, RingAppend, Limits DEF SwTypeOK
  <2> QED BY <1>2, <2>1 DEF SwTypeOK, caches, SendAction
<1> QED BY <1>1, <1>2 DEF SendAction

\* The state of a worker that has not begun has the types.
LEMMA WorkerTypeInit == SwInit => SwTypeOK
<1>1. 0 \in Count /\ 0 \in 0 .. FdMax /\ 0 \in 0 .. MaxCalls BY Limits DEF Count
<1>2. << >> \in Seq(Event) /\ << >> \in Seq(Action) /\ Len(<< >>) = 0 OBVIOUS
<1> SUFFICES ASSUME SwInit PROVE SwTypeOK OBVIOUS
<1>3. engineSawReady \in BOOLEAN /\ hasStrategy \in BOOLEAN /\ due \in BOOLEAN /\ keepRunning \in BOOLEAN
  BY Zenon DEF SwInit
<1>4. /\ Len(eventRing) <= EventCapacity /\ Len(actionRing) <= ActionCapacity
      /\ exitCode \in {0, 2, 3, 4, 5, 6, 7, 9}
  BY <1>2, Limits DEF SwInit
<1> QED BY <1>1, <1>2, <1>3, <1>4, Zenon DEF SwInit, SwTypeOK

\* Every step of runWorker, of its signals and of the engine keeps them.
LEMMA WorkerTypeStep == SwTypeOK /\ [SwNext]_swVars => SwTypeOK'
<1> SUFFICES ASSUME SwTypeOK, [SwNext]_swVars PROVE SwTypeOK' OBVIOUS
<1> USE DEF engineVars, loopVars, caches
<1>1. CASE UNCHANGED swVars BY <1>1 DEF SwTypeOK, swVars
<1>2. ASSUME NEW e \in Event, EngineSend(e) PROVE SwTypeOK'
  <2>1. eventRing' \in Seq(Event) /\ Len(eventRing') <= EventCapacity
    BY <1>2, RingAppend, Limits DEF EngineSend, SwTypeOK
  <2> QED BY <1>2, <2>1 DEF EngineSend, SwTypeOK
<1>3. CASE EngineNotify
  <2>1. workerFd' \in 0 .. FdMax BY <1>3, Limits DEF EngineNotify, Bump, SwTypeOK
  <2> QED BY <1>3, <2>1 DEF EngineNotify, SwTypeOK
<1>4. CASE EngineDrain
  BY <1>4, Limits DEF EngineDrain, SwTypeOK
<1>5. CASE EngineRecv
  <2>1. CASE actionRing = << >> /\ epc' = "idle" /\ UNCHANGED <<actionRing, engineSubs, engineSawReady>>
    BY <1>5, <2>1 DEF EngineRecv, SwTypeOK
  <2>2. CASE actionRing # << >>
    <3>1. actionRing' \in Seq(Action) /\ Len(actionRing') <= ActionCapacity /\ Head(actionRing) \in Action
      <4>1. actionRing' = Tail(actionRing) BY <1>5, <2>2 DEF EngineRecv
      <4> QED BY <4>1, <2>2, RingTail, Limits DEF SwTypeOK
    <3>2. engineSubs' \subseteq Instrument
      BY <1>5, <2>2, <3>1, ActionFacts DEF EngineRecv, SwTypeOK, Applied
    <3> QED BY ZenonT(40), <1>5, <2>2, <3>1, <3>2 DEF EngineRecv, SwTypeOK
  <2> QED BY <1>5, <2>1, <2>2 DEF EngineRecv
<1>6. CASE Open
  BY <1>6, Limits DEF Open, makeWorkerStrategy, ExitWith, SwTypeOK
<1>7. ASSUME NEW a \in ServiceCall, CallService(a) PROVE SwTypeOK'
  <2>1. a \in Action BY DEF Action
  <2>2. callsLeft' \in 0 .. MaxCalls BY <1>7, Limits DEF CallService, SwTypeOK
  <2> QED BY <1>7, <2>1, <2>2, SendTypes DEF CallService, SwTypeOK
<1>8. CASE Started \/ Poll BY <1>8 DEF Started, Poll, ExitWith, SwTypeOK
<1>14. CASE DrainWakeups BY <1>14, Limits DEF DrainWakeups, SwTypeOK
<1>15. CASE CallbackDone \/ CheckTimer BY <1>15 DEF CallbackDone, CheckTimer, SwTypeOK
<1>16. CASE IntervalPasses \/ WorkerSignalHandler
  <2>1. due' \in BOOLEAN /\ keepRunning' \in BOOLEAN
    BY <1>16, Zenon DEF IntervalPasses, WorkerSignalHandler, SwTypeOK
  <2> QED BY <1>16, <2>1 DEF IntervalPasses, WorkerSignalHandler, SwTypeOK
<1>17. CASE Killed BY <1>17 DEF Killed, ExitWith, SwTypeOK
<1>9. CASE SendReady
  BY <1>9, SendTypes, OwnFrames DEF SendReady, SwTypeOK
<1>10. CASE RecvEvent
  <2>1. CASE eventRing = << >>
    BY <1>10, <2>1 DEF RecvEvent, SwTypeOK
  <2>2. CASE eventRing # << >>
    <3>1. eventRing' \in Seq(Event) /\ Len(eventRing') <= EventCapacity /\ Head(eventRing) \in Event
      <4>1. eventRing' = Tail(eventRing) BY <1>10, <2>2 DEF RecvEvent
      <4> QED BY <4>1, <2>2, RingTail, Limits DEF SwTypeOK
    <3>2. eventsSeen' \in Count /\ callsLeft' \in 0 .. MaxCalls
      BY <1>10, <2>2, CountNext, Limits DEF RecvEvent, SwTypeOK
    <3>3. /\ subscribed' \subseteq Instrument /\ readyAccounts' \subseteq Account
          /\ accountInfos' \subseteq Account /\ walletInfos' \subseteq Account
      BY <1>10, <2>2, <3>1, WorkerAssumption DEF RecvEvent, HandleEvent, SwTypeOK
    <3> QED BY <1>10, <2>2, <3>1, <3>2, <3>3 DEF RecvEvent, SwTypeOK
  <2> QED BY <2>1, <2>2
<1>11. CASE SendAck
  BY <1>11, SendTypes, OwnFrames DEF SendAck, SwTypeOK
<1>12. CASE SendHeartbeat
  <2>1. heartbeatSeq' \in Count BY <1>12, CountNext DEF SendHeartbeat, SwTypeOK
  <2> QED BY <1>12, <2>1, SendTypes, OwnFrames DEF SendHeartbeat, SwTypeOK
<1>13. CASE NotifyPeer
  <2>1. sending[1] \in Action BY <1>13 DEF NotifyPeer, SwTypeOK
  <2>2. engineFd' \in 0 .. FdMax
    <3>1. engineFd' \in {Bump(engineFd), engineFd} BY <1>13 DEF NotifyPeer
    <3> QED BY <3>1, Limits DEF Bump, SwTypeOK
  <2>3. PICK ok \in BOOLEAN : Sent(sending[1], ok) BY <1>13 DEF NotifyPeer
  <2> QED BY <1>13, <2>1, <2>2, <2>3, SentTypes DEF NotifyPeer, SwTypeOK
<1> QED BY <1>1, <1>2, <1>3, <1>4, <1>5, <1>6, <1>7, <1>8, <1>9, <1>10, <1>11, <1>12, <1>13,
        <1>14, <1>15, <1>16, <1>17 DEF SwNext, EngineStep, WorkerStep

\* SwSpec keeps every variable's type: rings within their capacities, counters
\* within their ranges, whatever the engine sends and the strategy calls.
THEOREM SwTypeCorrect == SwSpec => []SwTypeOK
BY WorkerTypeInit, WorkerTypeStep, PTL DEF SwSpec

-----------------------------------------------------------------------------
(* No wakeup is lost.                                                      *)

\* The two conditions under which the code relies on its wakeups: an
\* eventfd_write fails only with EAGAIN, and every frame decodes.
Reliable == ~NotifyMayFail /\ \A e \in Event : e.kind # "undecodable"

\* What sendAction does to the worker's place in runWorker and to the ring.
LEMMA SendOutcome ==
  ASSUME SwTypeOK, NEW a \in Action, SendAction(a)
  PROVE  /\ UNCHANGED <<eventRing, workerFd, engineFd, engineVars, keepRunning>>
         /\ sending = << >>
         /\ \/ /\ actionRing' = Append(actionRing, a) /\ sending' = <<a>> /\ sending' # << >>
               /\ UNCHANGED <<wpc, caches>>
            \/ /\ UNCHANGED <<actionRing, sending>>
               /\ \/ wpc \in {"start", "callback"} /\ UNCHANGED wpc /\ CacheCall(a, FALSE)
                  \/ wpc' = "exited" /\ UNCHANGED caches
<1>1. CASE Sent(a, FALSE) /\ UNCHANGED <<actionRing, sending>>
  <2>1. \/ wpc \in {"start", "callback"} /\ UNCHANGED wpc /\ CacheCall(a, FALSE)
        \/ wpc' = "exited" /\ UNCHANGED caches
    BY <1>1 DEF Sent, ExitWith
  <2> QED BY <1>1, <2>1 DEF SendAction
<1>2. CASE /\ actionRing' = Append(actionRing, a)
           /\ sending' = <<a>> /\ UNCHANGED <<wpc, exitCode, due, caches>>
  <2>1. <<a>> # << >> OBVIOUS
  <2> QED BY <1>2, <2>1, Zenon DEF SendAction
<1> QED BY <1>1, <1>2, Zenon DEF SendAction

\* What the return of sendAction does, when it reports success.
LEMMA ReturnOutcome ==
  ASSUME SwTypeOK, NEW a \in Action, Sent(a, TRUE)
  PROVE  \/ wpc \in {"start", "callback"} /\ UNCHANGED wpc /\ CacheCall(a, TRUE)
         \/ wpc = "ready" /\ wpc' = "poll" /\ UNCHANGED caches
         \/ wpc = "ack" /\ wpc' = "recv" /\ UNCHANGED caches
         \/ wpc = "beat" /\ wpc' = "poll" /\ UNCHANGED caches
BY DEF Sent, ExitWith

\* An eventfd that was written to is readable.
LEMMA BumpPositive == \A fd \in 0 .. FdMax : Bump(fd) > 0
BY Limits DEF Bump

\* The four steps that send an action, as one.
LEMMA SendersSend ==
  ASSUME SwTypeOK,
         SendReady \/ SendAck \/ SendHeartbeat \/ \E c \in ServiceCall : CallService(c)
  PROVE  \E a \in Action : SendAction(a)
<1>1. CASE SendReady BY <1>1, OwnFrames DEF SendReady, SwTypeOK
<1>2. CASE SendAck BY <1>2, OwnFrames DEF SendAck, SwTypeOK
<1>3. CASE SendHeartbeat
  <2>1. heartbeatSeq' \in Count BY <1>3, CountNext DEF SendHeartbeat, SwTypeOK
  <2> QED BY <1>3, <2>1, OwnFrames DEF SendHeartbeat
<1>4. CASE \E c \in ServiceCall : CallService(c) BY <1>4 DEF CallService, Action
<1> QED BY <1>1, <1>2, <1>3, <1>4

\* A step keeps both promises: a push is followed by its eventfd_write before
\* the sender does anything else, and a reader that leaves its loop has found
\* the ring empty after it drained the eventfd.
LEMMA WakeupsStep ==
  ASSUME Reliable
  PROVE  SwTypeOK /\ WakeupsKept /\ [SwNext]_swVars => WakeupsKept'
<1> SUFFICES ASSUME SwTypeOK, WakeupsKept, [SwNext]_swVars PROVE WakeupsKept' OBVIOUS
<1> USE DEF WakeupsKept, NoStrandedEvent, NoStrandedAction, engineVars
<1>1. CASE UNCHANGED swVars BY <1>1 DEF swVars
<1>2. ASSUME NEW e \in Event, EngineSend(e) PROVE WakeupsKept'
  BY <1>2 DEF EngineSend
<1>3. CASE EngineNotify
  <2>1. workerFd' > 0 BY <1>3, BumpPositive DEF EngineNotify, Reliable, SwTypeOK
  <2> QED BY <1>3, <2>1 DEF EngineNotify
<1>4. CASE EngineDrain BY <1>4 DEF EngineDrain
<1>5. CASE EngineRecv BY <1>5 DEF EngineRecv
<1>6. CASE Open \/ Started \/ Poll \/ CheckTimer
  BY <1>6 DEF Open, Started, Poll, CheckTimer, ExitWith
<1>7. CASE DrainWakeups \/ CallbackDone BY <1>7 DEF DrainWakeups, CallbackDone
<1>8. CASE RecvEvent
  <2>1. eventRing # << >> => Head(eventRing).kind # "undecodable"
    BY RingTail DEF SwTypeOK, Reliable
  <2> QED BY <1>8, <2>1 DEF RecvEvent
<1>9. CASE IntervalPasses \/ WorkerSignalHandler \/ Killed
  BY <1>9 DEF IntervalPasses, WorkerSignalHandler, Killed, ExitWith
<1>10. CASE SendReady \/ SendAck \/ SendHeartbeat \/ \E c \in ServiceCall : CallService(c)
  <2>1. PICK a \in Action : SendAction(a) BY <1>10, SendersSend
  <2> QED BY <2>1, SendOutcome
<1>11. CASE NotifyPeer
  <2>1. sending[1] \in Action BY <1>11 DEF NotifyPeer, SwTypeOK
  <2>2. engineFd' > 0 /\ Sent(sending[1], TRUE)
    BY <1>11, BumpPositive DEF NotifyPeer, Reliable, SwTypeOK
  <2>3. UNCHANGED <<eventRing, actionRing, workerFd, epc>> BY <1>11 DEF NotifyPeer
  <2> QED BY <2>1, <2>2, <2>3, ReturnOutcome
<1> QED BY <1>1, <1>2, <1>3, <1>4, <1>5, <1>6, <1>7, <1>8, <1>9, <1>10, <1>11
        DEF SwNext, EngineStep, WorkerStep

\* No interleaving of engine and worker loses a wakeup in either direction
\* (sendEvent, sendAction, notifyPeer, drainWakeups and the loop of runWorker),
\* for rings of any capacity and counters of any limit.
THEOREM NoWakeupLost ==
  ASSUME Reliable
  PROVE  SwSpec => []WakeupsKept
<1>1. SwInit => WakeupsKept BY DEF SwInit, WakeupsKept, NoStrandedEvent, NoStrandedAction
<1> QED BY <1>1, WakeupsStep, SwTypeCorrect, PTL DEF SwSpec

-----------------------------------------------------------------------------
(* What the worker answers from its caches.                                *)

\* While an action is pushed and not yet announced, the worker is in the call
\* that sends it, and its own frames subscribe to nothing.
SendingWhere ==
  sending # << >> /\ wpc # "exited" =>
    \/ wpc \in {"start", "callback"}
    \/ wpc \in {"ready", "ack", "beat"} /\ sending[1].kind \notin {"subscribe", "unsubscribe"}

\* The cache as it will be when the running sendAction has returned.
Promised == IF sending = << >> THEN subscribed ELSE Applied(subscribed, sending[1])

\* Cache and engine agree also in the middle of a sendAction.
PromiseAgrees == wpc # "exited" => \A i \in Instrument : i \in Promised <=> WillBeSubscribed(i)

AnswersInv == SendingWhere /\ PromiseAgrees

\* What applying one action does to one instrument.
LEMMA AppliedTo ==
  ASSUME NEW subs, NEW a \in Action, NEW i
  PROVE  i \in Applied(subs, a) <=> (a = Subscribe(i) \/ (i \in subs /\ a # Unsubscribe(i)))
<1>1. CASE a.kind = "subscribe"
  BY <1>1, ActionFacts DEF Applied, Subscribe, Unsubscribe
<1>2. CASE a.kind = "unsubscribe"
  BY <1>2, ActionFacts DEF Applied, Subscribe, Unsubscribe
<1>3. CASE a.kind \notin {"subscribe", "unsubscribe"}
  BY <1>3 DEF Applied, Subscribe, Unsubscribe
<1> QED BY <1>1, <1>2, <1>3

\* A pushed action decides about its instrument and about no other.
LEMMA PushDecides ==
  ASSUME SwTypeOK, NEW a \in Action, actionRing' = Append(actionRing, a), UNCHANGED engineSubs, NEW i
  PROVE  WillBeSubscribed(i)' <=> (a = Subscribe(i) \/ (WillBeSubscribed(i) /\ a # Unsubscribe(i)))
<1> DEFINE n == Len(actionRing)
<1>1. /\ n \in Nat /\ Len(actionRing') = n + 1 /\ actionRing'[n + 1] = a
      /\ \A k \in 1 .. n : actionRing'[k] = actionRing[k]
  BY RingAppend DEF SwTypeOK
<1>2. Subscribe(i) # Unsubscribe(i) BY DEF Subscribe, Unsubscribe
<1> HIDE DEF n
<1>3. CASE a = Subscribe(i)
  <2>1. WillBeSubscribed(i)' BY <1>1, <1>3 DEF WillBeSubscribed, Subscribe, Unsubscribe
  <2> QED BY <1>3, <2>1
<1>4. CASE a = Unsubscribe(i)
  <2>1. ~WillBeSubscribed(i)'
    BY <1>1, <1>4, <1>2 DEF WillBeSubscribed, n, Subscribe, Unsubscribe
  <2> QED BY <1>4, <1>2, <2>1
<1>5. CASE a # Subscribe(i) /\ a # Unsubscribe(i)
  <2>1. WillBeSubscribed(i) => WillBeSubscribed(i)'
    BY <1>1, <1>5 DEF WillBeSubscribed, n, Subscribe, Unsubscribe
  <2>2. WillBeSubscribed(i)' => WillBeSubscribed(i)
    BY <1>1, <1>5 DEF WillBeSubscribed, n, Subscribe, Unsubscribe
  <2> QED BY <1>5, <2>1, <2>2
<1> QED BY <1>3, <1>4, <1>5

\* Applying the oldest action changes nothing of what will be.
LEMMA PopKeeps ==
  ASSUME SwTypeOK, actionRing # << >>, actionRing' = Tail(actionRing),
         engineSubs' = Applied(engineSubs, Head(actionRing)), NEW i
  PROVE  WillBeSubscribed(i)' <=> WillBeSubscribed(i)
<1> DEFINE n == Len(actionRing)
           a == Head(actionRing)
<1>1. /\ n \in Nat /\ n > 0 /\ Len(actionRing') = n - 1 /\ actionRing[1] = a /\ a \in Action
      /\ \A k \in 1 .. n - 1 : actionRing'[k] = actionRing[k + 1]
  BY RingTail DEF SwTypeOK
<1>2. i \in engineSubs' <=> (a = Subscribe(i) \/ (i \in engineSubs /\ a # Unsubscribe(i)))
  BY <1>1, AppliedTo
<1>3. Subscribe(i) # Unsubscribe(i) BY DEF Subscribe, Unsubscribe
<1>4. \A k \in 2 .. n : actionRing[k] = actionRing'[k - 1]
  <2> SUFFICES ASSUME NEW k \in 2 .. n PROVE actionRing[k] = actionRing'[k - 1] OBVIOUS
  <2>1. k - 1 \in 1 .. n - 1 /\ (k - 1) + 1 = k BY <1>1
  <2> QED BY <1>1, <2>1
<1> DEFINE NoneFrom(k) == \A m \in k .. n : actionRing[m] # Unsubscribe(i)
<1>5. \A k \in 1 .. n : (\A m \in k .. n - 1 : (actionRing[m + 1]) # Unsubscribe(i)) <=> NoneFrom(k + 1)
  <2> SUFFICES ASSUME NEW k \in 1 .. n
               PROVE (\A m \in k .. n - 1 : (actionRing[m + 1]) # Unsubscribe(i)) <=> NoneFrom(k + 1)
    OBVIOUS
  <2>1. ASSUME \A m \in k .. n - 1 : (actionRing[m + 1]) # Unsubscribe(i), NEW m \in k + 1 .. n
        PROVE  actionRing[m] # Unsubscribe(i)
    <3>1. m - 1 \in k .. n - 1 /\ (m - 1) + 1 = m BY <1>1
    <3> QED BY <2>1, <3>1
  <2>2. ASSUME NoneFrom(k + 1), NEW m \in k .. n - 1 PROVE (actionRing[m + 1]) # Unsubscribe(i)
    <3>1. m + 1 \in k + 1 .. n BY <1>1
    <3> QED BY <2>2, <3>1
  <2> QED BY <2>1, <2>2
<1>6. \A k \in 1 .. n : (\A m \in k .. Len(actionRing') : actionRing'[m] # Unsubscribe(i)) <=> NoneFrom(k + 1)
  <2> SUFFICES ASSUME NEW k \in 1 .. n
               PROVE (\A m \in k .. n - 1 : actionRing'[m] # Unsubscribe(i)) <=> NoneFrom(k + 1)
    BY <1>1
  <2>1. \A m \in k .. n - 1 : actionRing'[m] = actionRing[m + 1] BY <1>1
  <2> QED BY <1>5, <2>1
<1> HIDE DEF n, a, NoneFrom
<1>7. WillBeSubscribed(i) <=>
        \/ i \in engineSubs /\ NoneFrom(1)
        \/ \E k \in 1 .. n : actionRing[k] = Subscribe(i) /\ NoneFrom(k + 1)
  BY DEF WillBeSubscribed, n, NoneFrom
<1>8. WillBeSubscribed(i)' <=>
        \/ i \in engineSubs' /\ NoneFrom(2)
        \/ \E k \in 1 .. n - 1 : actionRing'[k] = Subscribe(i) /\ NoneFrom(k + 2)
  <2>1. NoneFrom(2) <=> \A m \in 1 .. Len(actionRing') : actionRing'[m] # Unsubscribe(i)
    <3>1. 1 \in 1 .. n /\ 1 + 1 = 2 BY <1>1
    <3> QED BY <3>1, <1>6
  <2>2. \A k \in 1 .. n - 1 :
          NoneFrom(k + 2) <=> \A m \in k + 1 .. Len(actionRing') : actionRing'[m] # Unsubscribe(i)
    <3> SUFFICES ASSUME NEW k \in 1 .. n - 1
                 PROVE  NoneFrom(k + 2) <=> \A m \in k + 1 .. Len(actionRing') : actionRing'[m] # Unsubscribe(i)
      OBVIOUS
    <3>1. k + 1 \in 1 .. n /\ (k + 1) + 1 = k + 2 BY <1>1
    <3> QED BY <3>1, <1>6
  <2> QED BY <1>1, <2>1, <2>2 DEF WillBeSubscribed
<1>9. NoneFrom(1) <=> a # Unsubscribe(i) /\ NoneFrom(2) BY <1>1 DEF NoneFrom
<1>10. (\E k \in 1 .. n : actionRing[k] = Subscribe(i) /\ NoneFrom(k + 1)) <=>
         \/ a = Subscribe(i) /\ NoneFrom(2)
         \/ \E k \in 1 .. n - 1 : actionRing'[k] = Subscribe(i) /\ NoneFrom(k + 2)
  <2>1. ASSUME NEW k \in 1 .. n, actionRing[k] = Subscribe(i), NoneFrom(k + 1), k # 1
        PROVE  \E j \in 1 .. n - 1 : actionRing'[j] = Subscribe(i) /\ NoneFrom(j + 2)
    <3>1. k - 1 \in 1 .. n - 1 /\ (k - 1) + 2 = k + 1 /\ k \in 2 .. n BY <1>1, <2>1
    <3> QED BY <3>1, <2>1, <1>4
  <2>2. ASSUME NEW k \in 1 .. n - 1, actionRing'[k] = Subscribe(i), NoneFrom(k + 2)
        PROVE  \E j \in 1 .. n : actionRing[j] = Subscribe(i) /\ NoneFrom(j + 1)
    <3>1. k + 1 \in 1 .. n /\ (k + 1) + 1 = k + 2 BY <1>1
    <3> QED BY <3>1, <2>2, <1>1
  <2>3. 1 \in 1 .. n /\ 1 + 1 = 2 BY <1>1
  <2> QED BY <2>1, <2>2, <2>3, <1>1
<1> QED BY <1>2, <1>3, <1>7, <1>8, <1>9, <1>10

\* Nothing is promised anew and nothing decided by a step that leaves the ring,
\* the engine, the cache and the running send alone.
LEMMA PromiseUnchanged ==
  ASSUME AnswersInv, UNCHANGED <<actionRing, engineSubs, subscribed, sending>>,
         wpc' = wpc \/ sending = << >> \/ wpc' = "exited", wpc = "exited" => wpc' = "exited"
  PROVE  AnswersInv'
<1>1. PromiseAgrees'
  <2> SUFFICES ASSUME wpc' # "exited", NEW i \in Instrument
               PROVE  i \in Promised' <=> WillBeSubscribed(i)'
    BY DEF PromiseAgrees
  <2>1. wpc # "exited" OBVIOUS
  <2> QED BY <2>1 DEF AnswersInv, PromiseAgrees, Promised, WillBeSubscribed
<1> QED BY <1>1 DEF AnswersInv, SendingWhere

\* sendAction's push and its refusal keep the promise.
LEMMA PromiseSend ==
  ASSUME SwTypeOK, AnswersInv, NEW a \in Action, SendAction(a), wpc # "exited",
         \/ wpc \in {"start", "callback"}
         \/ wpc \in {"ready", "ack", "beat"} /\ a.kind \notin {"subscribe", "unsubscribe"}
  PROVE  AnswersInv'
<1>1. CASE actionRing' = Append(actionRing, a) /\ sending' = <<a>> /\ sending' # << >> /\ UNCHANGED <<wpc, caches>>
  <2>1. sending = << >> /\ UNCHANGED engineSubs BY SendOutcome DEF engineVars
  <2>2. sending'[1] = a /\ UNCHANGED subscribed BY <1>1 DEF caches
  <2>3. PromiseAgrees'
    <3> SUFFICES ASSUME NEW i \in Instrument PROVE i \in Promised' <=> WillBeSubscribed(i)'
      BY DEF PromiseAgrees
    <3>1. i \in subscribed <=> WillBeSubscribed(i) BY <2>1 DEF AnswersInv, PromiseAgrees, Promised
    <3>2. Promised' = Applied(subscribed, a) BY <1>1, <2>2 DEF Promised, Applied
    <3> QED BY <1>1, <2>1, <3>1, <3>2, AppliedTo, PushDecides
  <2> QED BY <1>1, <2>2, <2>3 DEF AnswersInv, SendingWhere
<1>2. CASE UNCHANGED <<actionRing, sending>> /\ wpc \in {"start", "callback"} /\ UNCHANGED wpc /\ CacheCall(a, FALSE)
  <2>1. UNCHANGED <<subscribed, engineSubs>> BY <1>2, SendOutcome DEF CacheCall, engineVars
  <2> QED BY <1>2, <2>1, PromiseUnchanged
<1>3. CASE wpc' = "exited" BY <1>3 DEF AnswersInv, SendingWhere, PromiseAgrees
<1> QED BY <1>1, <1>2, <1>3, SendOutcome

\* Every step keeps cache and engine in agreement.
LEMMA AnswersStep ==
  ASSUME Reliable
  PROVE  SwTypeOK /\ AnswersInv /\ [SwNext]_swVars => AnswersInv'
<1> SUFFICES ASSUME SwTypeOK, AnswersInv, [SwNext]_swVars PROVE AnswersInv' OBVIOUS
<1> USE DEF engineVars, caches
<1>1. CASE UNCHANGED swVars BY <1>1, PromiseUnchanged DEF swVars
<1>2. ASSUME NEW e \in Event, EngineSend(e) PROVE AnswersInv'
  BY <1>2, PromiseUnchanged DEF EngineSend
<1>3. CASE EngineNotify \/ EngineDrain BY <1>3, PromiseUnchanged DEF EngineNotify, EngineDrain
<1>4. CASE EngineRecv
  <2>1. CASE actionRing = << >> BY <1>4, <2>1, PromiseUnchanged DEF EngineRecv
  <2>2. CASE actionRing # << >>
    <3>1. /\ actionRing' = Tail(actionRing) /\ engineSubs' = Applied(engineSubs, Head(actionRing))
          /\ UNCHANGED <<wpc, sending, subscribed>>
      BY <1>4, <2>2 DEF EngineRecv
    <3>2. \A i : WillBeSubscribed(i)' <=> WillBeSubscribed(i) BY <2>2, <3>1, PopKeeps
    <3>3. Promised' = Promised BY <3>1 DEF Promised, Applied
    <3> QED BY <3>1, <3>2, <3>3 DEF AnswersInv, SendingWhere, PromiseAgrees
  <2> QED BY <2>1, <2>2
<1>5. CASE Open \/ DrainWakeups \/ Poll \/ CheckTimer
  <2>1. sending = << >> BY <1>5 DEF Open, DrainWakeups, Poll, CheckTimer, AnswersInv, SendingWhere
  <2> QED BY <1>5, <2>1, PromiseUnchanged DEF Open, DrainWakeups, Poll, CheckTimer
<1>6. CASE Started \/ CallbackDone BY <1>6, PromiseUnchanged DEF Started, CallbackDone
<1>7. CASE RecvEvent
  <2>1. sending = << >> BY <1>7 DEF RecvEvent, AnswersInv, SendingWhere
  <2>2. UNCHANGED subscribed BY <1>7 DEF RecvEvent, HandleEvent
  <2> QED BY <1>7, <2>1, <2>2, PromiseUnchanged DEF RecvEvent
<1>8. CASE IntervalPasses \/ WorkerSignalHandler \/ Killed
  BY <1>8, PromiseUnchanged DEF IntervalPasses, WorkerSignalHandler, Killed, ExitWith
<1>9. ASSUME NEW c \in ServiceCall, CallService(c) PROVE AnswersInv'
  <2>1. c \in Action /\ SendAction(c) BY <1>9 DEF CallService, Action
  <2> QED BY <1>9, <2>1, PromiseSend DEF CallService
<1>10. CASE SendReady BY <1>10, PromiseSend, OwnFrames DEF SendReady, SwTypeOK
<1>11. CASE SendAck BY <1>11, PromiseSend, OwnFrames DEF SendAck, SwTypeOK
<1>12. CASE SendHeartbeat
  <2>1. heartbeatSeq' \in Count BY <1>12, CountNext DEF SendHeartbeat, SwTypeOK
  <2> QED BY <1>12, <2>1, PromiseSend, OwnFrames DEF SendHeartbeat
<1>13. CASE NotifyPeer
  <2>1. sending[1] \in Action /\ sending # << >> /\ sending' = << >> /\ wpc # "exited"
    BY <1>13 DEF NotifyPeer, SwTypeOK
  <2>2. Sent(sending[1], TRUE) /\ UNCHANGED <<actionRing, engineSubs>>
    BY <1>13 DEF NotifyPeer, Reliable
  <2>3. subscribed' = Applied(subscribed, sending[1])
    <3>1. CASE wpc \in {"start", "callback"} /\ CacheCall(sending[1], TRUE) BY <3>1 DEF CacheCall
    <3>2. CASE wpc \in {"ready", "ack", "beat"} /\ UNCHANGED subscribed
      BY <3>2, <2>1 DEF AnswersInv, SendingWhere, Applied
    <3> QED BY <3>1, <3>2, <2>1, <2>2, ReturnOutcome
  <2>4. Promised' = Promised BY <2>1, <2>3 DEF Promised
  <2>5. \A i : WillBeSubscribed(i)' <=> WillBeSubscribed(i) BY <2>2 DEF WillBeSubscribed
  <2> QED BY <2>1, <2>4, <2>5 DEF AnswersInv, SendingWhere, PromiseAgrees
<1> QED BY <1>1, <1>2, <1>3, <1>4, <1>5, <1>6, <1>7, <1>8, <1>9, <1>10, <1>11, <1>12, <1>13
        DEF SwNext, EngineStep, WorkerStep

\* The caches of one account and of one exchange agree with each other after
\* every service call and every event.
LEMMA CachesStep == SwTypeOK /\ CachesAgree /\ [SwNext]_swVars => CachesAgree'
<1> SUFFICES ASSUME SwTypeOK, CachesAgree, [SwNext]_swVars PROVE CachesAgree' OBVIOUS
<1> USE DEF CachesAgree, isExchangeReady, getWalletInfo, isMdhReady, getAccountInfo, getSubscribedInstruments
<1>1. CASE UNCHANGED caches BY <1>1 DEF caches
<1>2. ASSUME NEW a \in Action, NEW given \in BOOLEAN, CacheCall(a, given) PROVE CachesAgree'
  <2>1. connected \subseteq connected' BY <1>2 DEF CacheCall
  <2>2. \A x \in readyAccounts' : x \in readyAccounts \/ (x \in Account /\ x[1] \in connected')
    BY <1>2 DEF CacheCall
  <2>3. \A i \in subscribed' : i \in subscribed \/ (i \in Instrument /\ i[1] \in connected')
    <3> SUFFICES ASSUME NEW i \in subscribed', i \notin subscribed PROVE i \in Instrument /\ i[1] \in connected'
      OBVIOUS
    <3>1. given /\ i \in Applied(subscribed, a) BY <1>2 DEF CacheCall
    <3>2. a = Subscribe(i) BY <3>1, AppliedTo
    <3>3. i \in Instrument BY <3>2, ActionFacts DEF Subscribe
    <3> QED BY <1>2, <3>1, <3>2, <3>3 DEF CacheCall
  <2>4. UNCHANGED <<accountInfos, walletInfos>> /\ readyAccounts \subseteq readyAccounts' BY <1>2 DEF CacheCall
  <2>5. \A a2 \in Account :
          /\ a2 \in readyAccounts' \/ a2 \in walletInfos' => a2[1] \in connected'
          /\ a2 \in accountInfos' => a2 \in walletInfos' /\ a2 \in readyAccounts'
    BY <2>1, <2>2, <2>4
  <2>6. ASSUME NEW i \in Instrument, NEW j \in subscribed', j[1] = i[1] PROVE i[1] \in connected'
    BY <2>1, <2>3, <2>6
  <2> QED BY <2>5, <2>6
<1>3. ASSUME NEW e \in Event, HandleEvent(e) PROVE CachesAgree'
  BY <1>3 DEF HandleEvent
<1>4. ASSUME NEW a \in Action, SendAction(a) PROVE CachesAgree'
  BY <1>4, <1>1, <1>2, SendOutcome
<1>5. CASE SendReady \/ SendAck \/ SendHeartbeat \/ \E c \in ServiceCall : CallService(c)
  BY <1>5, <1>4, SendersSend
<1>6. CASE NotifyPeer
  <2>1. sending[1] \in Action BY <1>6 DEF NotifyPeer, SwTypeOK
  <2>2. PICK ok \in BOOLEAN : Sent(sending[1], ok) BY <1>6 DEF NotifyPeer
  <2>3. UNCHANGED caches \/ CacheCall(sending[1], ok) BY <2>2 DEF Sent
  <2> QED BY <1>1, <1>2, <2>1, <2>3
<1>7. CASE RecvEvent
  <2>1. CASE UNCHANGED caches BY <2>1, <1>1
  <2>2. CASE eventRing # << >> /\ HandleEvent(Head(eventRing))
    BY <2>2, <1>3, RingTail DEF SwTypeOK
  <2> QED BY <1>7, <2>1, <2>2 DEF RecvEvent
<1>8. CASE \/ UNCHANGED swVars \/ (\E e \in Event : EngineSend(e)) \/ EngineStep \/ Open \/ Started \/ Poll
           \/ DrainWakeups \/ CallbackDone \/ CheckTimer \/ IntervalPasses \/ WorkerSignalHandler \/ Killed
  <2>1. UNCHANGED caches
    BY <1>8 DEF swVars, EngineSend, EngineStep, EngineNotify, EngineDrain, EngineRecv, Open, Started, Poll,
       DrainWakeups, CallbackDone, CheckTimer, IntervalPasses, WorkerSignalHandler, Killed
  <2> QED BY <1>1, <2>1
<1> QED BY <1>5, <1>6, <1>7, <1>8 DEF SwNext, WorkerStep

\* What isInstrumentSubscribed answers is what the engine will have subscribed,
\* and what the queries about one account answer fits together: for every
\* order of service calls, events, full rings and engine steps.
THEOREM AnswersCorrect ==
  ASSUME Reliable
  PROVE  SwSpec => []AnswersAgree
<1>1. SwInit => AnswersInv /\ CachesAgree
  <2> SUFFICES ASSUME SwInit PROVE AnswersInv /\ CachesAgree OBVIOUS
  <2>1. CachesAgree BY DEF SwInit, CachesAgree, isExchangeReady, getWalletInfo, isMdhReady, getAccountInfo,
                           getSubscribedInstruments
  <2>2. AnswersInv BY DEF SwInit, AnswersInv, SendingWhere, PromiseAgrees, Promised, WillBeSubscribed
  <2> QED BY <2>1, <2>2
<1>2. AnswersInv /\ CachesAgree => AnswersAgree
  BY DEF AnswersAgree, AnswersInv, SubscriptionsAgree, PromiseAgrees, Promised, isInstrumentSubscribed
<1> QED BY <1>1, <1>2, AnswersStep, CachesStep, SwTypeCorrect, PTL DEF SwSpec

-----------------------------------------------------------------------------
(* What the engine reads of the worker's progress.                         *)

\* The worker is in the call that sends the action not yet announced.
SendingInCall == sending # << >> => wpc \in {"start", "callback", "ready", "ack", "beat", "exited"}

ReadySent == engineSawReady \/ \E j \in 1 .. Len(actionRing) : actionRing[j] = Ready

\* WorkerReady is in the ring or read before the worker enters its loop.
ReadyBeforeLoop ==
  wpc \notin {"open", "start", "ready", "exited"} \/ (wpc = "ready" /\ sending # << >>) => ReadySent

ReportsInv == SendingInCall /\ AcksConsecutive /\ ReadyBeforeLoop /\ ReadyFirst

\* The acknowledged number, as acks carry it.
Acked == LastAcked % CountMod

\* A number of the counter's range is its own remainder, and the one before the
\* next is the number itself.
LEMMA CountRound ==
  ASSUME NEW n \in Count
  PROVE  /\ n % CountMod = n
         /\ (((n + 1) % CountMod) - 1) % CountMod = n
         /\ (((n - 1) % CountMod) + 1) % CountMod = n
<1>1. CountMod \in Nat /\ CountMod > 0 /\ n \in Int /\ n \in 0 .. CountMod - 1 BY Limits DEF Count
<1>2. n % CountMod = n
  <2>1. n = 0 * CountMod + n BY <1>1
  <2> QED BY <1>1, <2>1, ModUnique
<1>3. (((n + 1) % CountMod) - 1) % CountMod = n
  <2>1. CASE n + 1 < CountMod
    <3>1. n + 1 = 0 * CountMod + (n + 1) /\ n + 1 \in 0 .. CountMod - 1 BY <1>1, <2>1
    <3>2. (n + 1) % CountMod = n + 1 BY <1>1, <3>1, ModUnique
    <3> QED BY <1>1, <1>2, <3>2
  <2>2. CASE n + 1 = CountMod
    <3>1. n + 1 = 1 * CountMod + 0 /\ 0 \in 0 .. CountMod - 1 BY <1>1, <2>2
    <3>2. (n + 1) % CountMod = 0 BY <1>1, <3>1, ModUnique
    <3>3. 0 - 1 = (-1) * CountMod + n BY <1>1, <2>2
    <3>4. (0 - 1) % CountMod = n BY <1>1, <3>3, ModUnique
    <3> QED BY <3>2, <3>4
  <2> QED BY <1>1, <2>1, <2>2
<1>4. (((n - 1) % CountMod) + 1) % CountMod = n
  <2>1. n - 1 \in Int /\ (n - 1) + 1 = n BY <1>1
  <2>2. (((n - 1) % CountMod) + 1) % CountMod = ((n - 1) + 1) % CountMod BY <1>1, <2>1, ModSucc
  <2> QED BY <1>2, <2>1, <2>2
<1> QED BY <1>2, <1>3, <1>4

\* The acks stay consecutive when the ring and the acknowledged number stay.
LEMMA AcksSame ==
  ASSUME AcksConsecutive, UNCHANGED actionRing, wpc' # "exited" => wpc # "exited" /\ Acked' = Acked
  PROVE  AcksConsecutive'
BY DEF AcksConsecutive, AckAt, Acked

\* ... and when a frame is pushed that is no ack,
LEMMA AcksPushOther ==
  ASSUME SwTypeOK, AcksConsecutive, NEW a \in Action, a.kind # "ack", actionRing' = Append(actionRing, a),
         wpc # "exited", Acked' = Acked
  PROVE  AcksConsecutive'
<1>1. /\ Len(actionRing) \in Nat /\ Len(actionRing') = Len(actionRing) + 1 /\ actionRing'[Len(actionRing) + 1] = a
      /\ \A k \in 1 .. Len(actionRing) : actionRing'[k] = actionRing[k]
  BY RingAppend DEF SwTypeOK
<1>2. AckAt' = AckAt BY <1>1 DEF AckAt
<1>3. \A i \in AckAt : actionRing'[i] = actionRing[i] BY <1>1 DEF AckAt
<1>4. ASSUME NEW i \in AckAt', \A j \in AckAt' : j <= i PROVE actionRing'[i].arg = Acked'
  BY <1>2, <1>3, <1>4 DEF AcksConsecutive, Acked
<1>5. ASSUME NEW i \in AckAt', NEW j \in AckAt', i < j, \A k \in AckAt' : k <= i \/ j <= k
      PROVE  actionRing'[j].arg = (actionRing'[i].arg + 1) % CountMod
  BY <1>2, <1>3, <1>5 DEF AcksConsecutive
<1> QED BY <1>4, <1>5 DEF AcksConsecutive, Acked

\* or the ack of the event just handled.
LEMMA AcksPushAck ==
  ASSUME SwTypeOK, AcksConsecutive, actionRing' = Append(actionRing, Ack(eventsSeen)), UNCHANGED eventsSeen,
         wpc # "exited", Acked = (eventsSeen - 1) % CountMod, Acked' = eventsSeen % CountMod
  PROVE  AcksConsecutive'
<1> DEFINE n == Len(actionRing)
<1>0. eventsSeen \in Count BY DEF SwTypeOK
<1>1. /\ n \in Nat /\ Len(actionRing') = n + 1 /\ actionRing'[n + 1] = Ack(eventsSeen)
      /\ \A k \in 1 .. n : actionRing'[k] = actionRing[k]
  BY <1>0, OwnFrames, RingAppend DEF SwTypeOK
<1>2. AckAt' = AckAt \cup {n + 1} BY <1>0, <1>1, OwnFrames DEF AckAt
<1>3. \A i \in AckAt : actionRing'[i] = actionRing[i] /\ i \in 1 .. n BY <1>1 DEF AckAt
<1>4. actionRing'[n + 1].arg = eventsSeen BY <1>0, <1>1, OwnFrames
<1> HIDE DEF n
<1>5. ASSUME NEW i \in AckAt', \A j \in AckAt' : j <= i PROVE actionRing'[i].arg = Acked'
  <2>1. i = n + 1 BY <1>1, <1>2, <1>3, <1>5
  <2> QED BY <2>1, <1>0, <1>4, CountRound
<1>6. ASSUME NEW i \in AckAt', NEW j \in AckAt', i < j, \A k \in AckAt' : k <= i \/ j <= k
      PROVE  actionRing'[j].arg = (actionRing'[i].arg + 1) % CountMod
  <2>1. i \in AckAt BY <1>1, <1>2, <1>3, <1>6
  <2>2. CASE j = n + 1
    <3>1. \A k \in AckAt : k <= i BY <1>1, <1>2, <1>3, <1>6, <2>2
    <3>2. actionRing[i].arg = (eventsSeen - 1) % CountMod BY <2>1, <3>1 DEF AcksConsecutive, Acked
    <3> QED BY <1>0, <1>3, <1>4, <2>1, <2>2, <3>2, CountRound
  <2>3. CASE j \in AckAt
    <3>1. \A k \in AckAt : k <= i \/ j <= k BY <1>2, <1>6
    <3>2. actionRing[j].arg = (actionRing[i].arg + 1) % CountMod BY <1>6, <2>1, <2>3, <3>1 DEF AcksConsecutive
    <3> QED BY <1>3, <2>1, <2>3, <3>2
  <2> QED BY <1>2, <2>2, <2>3
<1> QED BY <1>5, <1>6 DEF AcksConsecutive, Acked

\* The engine reads the oldest one.
LEMMA AcksPop ==
  ASSUME SwTypeOK, AcksConsecutive, actionRing # << >>, actionRing' = Tail(actionRing),
         UNCHANGED wpc, Acked' = Acked
  PROVE  AcksConsecutive'
<1> DEFINE n == Len(actionRing)
<1>1. /\ n \in Nat /\ n > 0 /\ Len(actionRing') = n - 1
      /\ \A k \in 1 .. n - 1 : actionRing'[k] = actionRing[k + 1]
  BY RingTail DEF SwTypeOK
<1>2. ASSUME NEW i \in AckAt' PROVE i \in 1 .. n - 1 /\ i + 1 \in AckAt /\ actionRing'[i] = actionRing[i + 1]
  <2>1. i \in 1 .. n - 1 /\ actionRing'[i].kind = "ack" BY <1>1, <1>2 DEF AckAt
  <2>2. i + 1 \in 1 .. n /\ actionRing'[i] = actionRing[i + 1] BY <1>1, <2>1
  <2> QED BY <2>1, <2>2 DEF AckAt
<1>3. ASSUME NEW k \in AckAt, k # 1 PROVE k - 1 \in AckAt' /\ k \in Int
  <2>1. k \in 1 .. n /\ actionRing[k].kind = "ack" BY DEF AckAt
  <2>2. k - 1 \in 1 .. n - 1 /\ (k - 1) + 1 = k BY <1>1, <2>1, <1>3
  <2>3. actionRing'[k - 1] = actionRing[k] BY <1>1, <2>2
  <2> QED BY <1>1, <2>1, <2>2, <2>3 DEF AckAt
<1>4. \A k \in AckAt : k \in 1 .. n BY DEF AckAt
<1> HIDE DEF n
<1> SUFFICES ASSUME wpc # "exited" PROVE AcksConsecutive' BY DEF AcksConsecutive
<1>5. ASSUME NEW i \in AckAt', \A j \in AckAt' : j <= i PROVE actionRing'[i].arg = Acked'
  <2>1. ASSUME NEW k \in AckAt PROVE k <= i + 1
    <3>1. CASE k = 1 BY <1>2, <3>1
    <3>2. CASE k # 1 BY <1>2, <1>3, <1>5, <3>2
    <3> QED BY <3>1, <3>2
  <2> QED BY <1>2, <2>1 DEF AcksConsecutive, Acked
<1>6. ASSUME NEW i \in AckAt', NEW j \in AckAt', i < j, \A k \in AckAt' : k <= i \/ j <= k
      PROVE  actionRing'[j].arg = (actionRing'[i].arg + 1) % CountMod
  <2>1. i \in Int /\ j \in Int /\ i + 1 \in AckAt /\ j + 1 \in AckAt /\ i + 1 < j + 1 BY <1>2, <1>6
  <2>2. ASSUME NEW k \in AckAt PROVE k <= i + 1 \/ j + 1 <= k
    <3>1. CASE k = 1 BY <1>2, <3>1
    <3>2. CASE k # 1 BY <1>2, <1>3, <1>6, <3>2
    <3> QED BY <3>1, <3>2
  <2>3. actionRing[j + 1].arg = (actionRing[i + 1].arg + 1) % CountMod BY <2>1, <2>2 DEF AcksConsecutive
  <2> QED BY <1>2, <2>3
<1> QED BY <1>5, <1>6 DEF AcksConsecutive, Acked

\* Whatever is pushed, WorkerReady stays where it is ahead of acks and heartbeats.
LEMMA ReadyPush ==
  ASSUME SwTypeOK, ReadyFirst, NEW a \in Action, a.kind \in {"ack", "heartbeat"} => ReadySent,
         actionRing' = Append(actionRing, a), UNCHANGED engineSawReady
  PROVE  ReadyFirst' /\ (ReadySent => ReadySent') /\ (a = Ready => ReadySent')
<1> DEFINE n == Len(actionRing)
<1>1. /\ n \in Nat /\ Len(actionRing') = n + 1 /\ actionRing'[n + 1] = a
      /\ \A k \in 1 .. n : actionRing'[k] = actionRing[k]
  BY RingAppend DEF SwTypeOK
<1> HIDE DEF n
<1>2. (ReadySent => ReadySent') /\ (a = Ready => ReadySent') BY <1>1 DEF ReadySent, n
<1>3. ASSUME NEW i \in 1 .. n + 1, actionRing'[i].kind \in {"ack", "heartbeat"}
      PROVE  engineSawReady' \/ \E j \in 1 .. i - 1 : actionRing'[j] = Ready
  <2>1. CASE i = n + 1 BY <1>1, <1>3, <2>1 DEF ReadySent, n
  <2>2. CASE i \in 1 .. n
    <3>1. engineSawReady \/ \E j \in 1 .. i - 1 : actionRing[j] = Ready BY <1>1, <1>3, <2>2 DEF ReadyFirst, n
    <3> QED BY <1>1, <2>2, <3>1
  <2> QED BY <1>1, <2>1, <2>2
<1> QED BY <1>1, <1>2, <1>3 DEF ReadyFirst

\* The engine reads WorkerReady before what comes after it.
LEMMA ReadyPop ==
  ASSUME SwTypeOK, ReadyFirst, actionRing # << >>, actionRing' = Tail(actionRing),
         engineSawReady' = (engineSawReady \/ Head(actionRing) = Ready)
  PROVE  ReadyFirst' /\ (ReadySent => ReadySent')
<1> DEFINE n == Len(actionRing)
<1>1. /\ n \in Nat /\ n > 0 /\ Len(actionRing') = n - 1 /\ Head(actionRing) = actionRing[1]
      /\ \A k \in 1 .. n - 1 : actionRing'[k] = actionRing[k + 1]
  BY RingTail DEF SwTypeOK
<1> HIDE DEF n
<1>2. ASSUME NEW m \in 0 .. n, NEW j \in 1 .. m, actionRing[j] = Ready
      PROVE  engineSawReady' \/ \E k \in 1 .. m - 1 : actionRing'[k] = Ready
  <2>1. CASE j = 1 BY <1>1, <1>2, <2>1
  <2>2. CASE j # 1
    <3>1. j - 1 \in 1 .. n - 1 /\ j - 1 \in 1 .. m - 1 /\ (j - 1) + 1 = j BY <1>1, <2>2
    <3>2. actionRing'[j - 1] = Ready BY <1>1, <1>2, <3>1
    <3> QED BY <3>1, <3>2
  <2> QED BY <2>1, <2>2
<1>3. ASSUME ReadySent PROVE ReadySent'
  <2>1. CASE engineSawReady BY <2>1 DEF ReadySent
  <2>2. CASE \E j \in 1 .. n : actionRing[j] = Ready
    <3>1. n \in 0 .. n BY <1>1
    <3>2. engineSawReady' \/ \E k \in 1 .. n - 1 : actionRing'[k] = Ready BY <1>2, <2>2, <3>1
    <3> QED BY <1>1, <3>2 DEF ReadySent
  <2> QED BY <1>3, <2>1, <2>2 DEF ReadySent, n
<1>4. ASSUME NEW i \in 1 .. n - 1, actionRing'[i].kind \in {"ack", "heartbeat"}
      PROVE  engineSawReady' \/ \E j \in 1 .. i - 1 : actionRing'[j] = Ready
  <2>1. i + 1 \in 1 .. n /\ actionRing[i + 1].kind \in {"ack", "heartbeat"} /\ (i + 1) - 1 = i BY <1>1, <1>4
  <2>2. engineSawReady \/ \E j \in 1 .. i : actionRing[j] = Ready BY <2>1 DEF ReadyFirst, n
  <2>3. i \in 0 .. n BY <1>1
  <2> QED BY <1>2, <2>2, <2>3
<1> QED BY <1>1, <1>3, <1>4 DEF ReadyFirst

\* A sendAction up to its push keeps the reports in order: an ack is pushed
\* only after its event, a heartbeat only from the loop.
LEMMA ReportsSend ==
  ASSUME SwTypeOK, ReportsInv, NEW a \in Action, SendAction(a), UNCHANGED eventsSeen,
         \/ wpc \in {"start", "callback"} /\ a.kind \notin {"ack", "heartbeat"}
         \/ wpc = "ready" /\ a = Ready
         \/ wpc = "ack" /\ a = Ack(eventsSeen)
         \/ wpc = "beat" /\ a.kind = "heartbeat"
  PROVE  ReportsInv'
<1>0. eventsSeen \in Count /\ UNCHANGED engineSawReady BY DEF SwTypeOK, SendAction, engineVars
<1>1. CASE /\ actionRing' = Append(actionRing, a) /\ sending' = <<a>> /\ UNCHANGED wpc
  <2>1. sending = << >> /\ sending' # << >> BY <1>1 DEF SendAction
  <2>2. a.kind \in {"ack", "heartbeat"} => ReadySent
    BY <1>0, OwnFrames DEF ReportsInv, ReadyBeforeLoop
  <2>3. ReadyFirst' /\ (ReadySent => ReadySent') /\ (a = Ready => ReadySent')
    BY <1>0, <1>1, <2>2, ReadyPush DEF ReportsInv
  <2>4. AcksConsecutive'
    <3>1. CASE wpc = "ack" /\ a = Ack(eventsSeen)
      BY <1>1, <2>1, <3>1, AcksPushAck DEF ReportsInv, Acked, LastAcked
    <3>2. CASE wpc # "ack" /\ a.kind # "ack"
      <4>1. Acked' = Acked BY <1>1, <3>2 DEF Acked, LastAcked
      <4> QED BY <1>1, <3>2, <4>1, AcksPushOther DEF ReportsInv
    <3> QED BY <3>1, <3>2, <1>0, OwnFrames
  <2>5. SendingInCall' BY <1>1 DEF SendingInCall
  <2>6. ReadyBeforeLoop'
    BY <1>1, <2>3 DEF ReportsInv, ReadyBeforeLoop
  <2> QED BY <2>3, <2>4, <2>5, <2>6 DEF ReportsInv
<1>2. CASE Sent(a, FALSE) /\ UNCHANGED <<actionRing, sending>>
  <2>1. wpc' = wpc \/ wpc' = "exited" BY <1>2 DEF Sent, ExitWith
  <2>2. AcksConsecutive' BY <1>2, <2>1, AcksSame DEF ReportsInv, Acked, LastAcked
  <2>3. SendingInCall' /\ ReadyBeforeLoop' /\ ReadyFirst'
    BY <1>0, <1>2, <2>1 DEF ReportsInv, SendingInCall, ReadyBeforeLoop, ReadySent, ReadyFirst
  <2> QED BY <2>2, <2>3 DEF ReportsInv
<1> QED BY <1>1, <1>2 DEF SendAction

\* The steps that leave the action ring, the engine and the counters alone:
\* what the reports need is where the worker goes.
LEMMA ReportsKeep ==
  ASSUME ReportsInv, UNCHANGED <<actionRing, engineSawReady, sending>>, SendingInCall', Acked' = Acked,
         wpc = "exited" => wpc' = "exited",
         wpc \in {"open", "start", "ready"} => wpc' \in {"open", "start", "ready", "exited"},
         wpc' = "ready" /\ sending # << >> => wpc = "ready"
  PROVE  ReportsInv'
<1>1. AcksConsecutive' BY AcksSame DEF ReportsInv
<1>2. ReadyFirst' BY DEF ReportsInv, ReadyFirst
<1>3. ReadyBeforeLoop' BY DEF ReportsInv, ReadyBeforeLoop, ReadySent
<1> QED BY <1>1, <1>2, <1>3 DEF ReportsInv

LEMMA ReportsStep == SwTypeOK /\ ReportsInv /\ [SwNext]_swVars => ReportsInv'
<1> SUFFICES ASSUME SwTypeOK, ReportsInv, [SwNext]_swVars PROVE ReportsInv' OBVIOUS
<1> USE DEF engineVars, loopVars
<1>1. CASE UNCHANGED swVars
  <2>1. UNCHANGED <<actionRing, engineSawReady, sending, wpc, eventsSeen>> BY <1>1 DEF swVars
  <2>2. SendingInCall' /\ Acked' = Acked BY <2>1 DEF ReportsInv, SendingInCall, Acked, LastAcked
  <2> QED BY <2>1, <2>2, ReportsKeep
<1>2. CASE (\E e \in Event : EngineSend(e)) \/ EngineNotify \/ EngineDrain \/ IntervalPasses \/ WorkerSignalHandler
  <2>1. UNCHANGED <<actionRing, engineSawReady, sending, wpc, eventsSeen>>
    BY <1>2 DEF EngineSend, EngineNotify, EngineDrain, IntervalPasses, WorkerSignalHandler
  <2>2. SendingInCall' /\ Acked' = Acked BY <2>1 DEF ReportsInv, SendingInCall, Acked, LastAcked
  <2> QED BY <2>1, <2>2, ReportsKeep
<1>3. CASE EngineRecv
  <2>1. UNCHANGED <<sending, wpc, eventsSeen>> BY <1>3 DEF EngineRecv
  <2>2. SendingInCall' /\ Acked' = Acked BY <2>1 DEF ReportsInv, SendingInCall, Acked, LastAcked
  <2>3. CASE UNCHANGED <<actionRing, engineSawReady>> BY <2>1, <2>2, <2>3, ReportsKeep
  <2>4. CASE /\ actionRing # << >> /\ actionRing' = Tail(actionRing)
             /\ engineSawReady' = (engineSawReady \/ Head(actionRing) = Ready)
    <3>1. ReadyFirst' /\ (ReadySent => ReadySent') BY <2>4, ReadyPop DEF ReportsInv
    <3>2. AcksConsecutive' BY <2>1, <2>2, <2>4, AcksPop DEF ReportsInv
    <3>3. ReadyBeforeLoop' BY <2>1, <3>1 DEF ReportsInv, ReadyBeforeLoop
    <3> QED BY <2>2, <3>1, <3>2, <3>3 DEF ReportsInv
  <2> QED BY <1>3, <2>3, <2>4 DEF EngineRecv
<1>4. CASE Open \/ Started \/ Poll \/ DrainWakeups \/ CheckTimer \/ CallbackDone \/ Killed
  <2>1. UNCHANGED <<actionRing, engineSawReady, sending, eventsSeen>>
    BY <1>4 DEF Open, Started, Poll, DrainWakeups, CheckTimer, CallbackDone, Killed
  <2>2. CASE wpc' = "exited"
    <3>1. SendingInCall' BY <2>2 DEF SendingInCall
    <3>2. AcksConsecutive' BY <2>2 DEF AcksConsecutive
    <3>3. ReadyFirst' /\ ReadyBeforeLoop' BY <2>1, <2>2 DEF ReportsInv, ReadyFirst, ReadyBeforeLoop
    <3> QED BY <3>1, <3>2, <3>3 DEF ReportsInv
  <2>3. CASE wpc' # "exited"
    <3>1. /\ wpc # "exited" /\ sending = << >>
          /\ wpc \in {"open", "start", "ready"} => wpc' \in {"open", "start", "ready"}
          /\ wpc' = "ack" <=> wpc = "callback"
          /\ wpc' # "callback" /\ wpc # "ack"
      BY <1>4, <2>3 DEF Open, Started, Poll, DrainWakeups, CheckTimer, CallbackDone, Killed, ExitWith,
                        ReportsInv, SendingInCall
    <3>2. SendingInCall' BY <2>1, <3>1 DEF SendingInCall
    <3>3. Acked' = Acked BY <2>1, <3>1 DEF Acked, LastAcked
    <3> QED BY <2>1, <3>1, <3>2, <3>3, ReportsKeep
  <2> QED BY <2>2, <2>3
<1>5. CASE RecvEvent
  <2>1. UNCHANGED <<actionRing, engineSawReady, sending>> /\ wpc = "recv" BY <1>5 DEF RecvEvent
  <2>2. sending = << >> BY <2>1 DEF ReportsInv, SendingInCall
  <2>3. SendingInCall' BY <2>1, <2>2 DEF SendingInCall
  <2>4. CASE wpc' = "timer" /\ UNCHANGED eventsSeen
    <3>1. Acked' = Acked BY <2>1, <2>4 DEF Acked, LastAcked
    <3> QED BY <2>1, <2>3, <2>4, <3>1, ReportsKeep
  <2>5. CASE wpc' \in {"callback", "ack"} /\ eventsSeen' = (eventsSeen + 1) % CountMod
    <3>1. Acked' = (eventsSeen' - 1) % CountMod BY <2>1, <2>2, <2>5 DEF Acked, LastAcked
    <3>2. Acked = eventsSeen % CountMod BY <2>1 DEF Acked, LastAcked
    <3>3. Acked' = Acked BY <2>5, <3>1, <3>2, CountRound DEF SwTypeOK
    <3> QED BY <2>1, <2>3, <2>5, <3>3, ReportsKeep
  <2> QED BY <1>5, <2>4, <2>5 DEF RecvEvent
<1>6. CASE \E a \in ServiceCall : CallService(a)
  <2>1. PICK a \in ServiceCall : CallService(a) BY <1>6
  <2>2. a \in Action /\ a.kind \notin {"ack", "heartbeat"} BY ActionFacts DEF Action
  <2> QED BY <2>1, <2>2, ReportsSend DEF CallService
<1>7. CASE SendReady
  <2>1. Ready \in Action BY OwnFrames DEF SwTypeOK
  <2> QED BY <1>7, <2>1, ReportsSend DEF SendReady
<1>8. CASE SendAck
  <2>1. Ack(eventsSeen) \in Action BY OwnFrames DEF SwTypeOK
  <2> QED BY <1>8, <2>1, ReportsSend DEF SendAck
<1>9. CASE SendHeartbeat
  <2>1. heartbeatSeq' \in Count BY <1>9, CountNext DEF SendHeartbeat, SwTypeOK
  <2>2. Heartbeat(heartbeatSeq') \in Action /\ Heartbeat(heartbeatSeq').kind = "heartbeat" BY <2>1, OwnFrames
  <2> QED BY <1>9, <2>2, ReportsSend DEF SendHeartbeat
<1>10. CASE NotifyPeer
  <2>1. /\ UNCHANGED <<actionRing, engineSawReady, eventsSeen>> /\ sending # << >> /\ sending' = << >>
        /\ wpc # "exited"
    BY <1>10 DEF NotifyPeer
  <2>2. \/ wpc \in {"start", "callback"} /\ wpc' = wpc
        \/ wpc \in {"ready", "ack", "beat"} /\ wpc' \in {"poll", "recv", "exited"}
    BY <1>10 DEF NotifyPeer, Sent, ExitWith
  <2>3. SendingInCall' BY <2>1 DEF SendingInCall
  <2>4. AcksConsecutive' BY <2>1, <2>2, AcksSame DEF ReportsInv, Acked, LastAcked
  <2>5. ReadyFirst' /\ ReadyBeforeLoop'
    BY <2>1, <2>2 DEF ReportsInv, ReadyFirst, ReadyBeforeLoop, ReadySent
  <2> QED BY <2>3, <2>4, <2>5 DEF ReportsInv
<1> QED BY <1>1, <1>2, <1>3, <1>4, <1>5, <1>6, <1>7, <1>8, <1>9, <1>10 DEF SwNext, EngineStep, WorkerStep

\* The engine reads WorkerReady before any ack or heartbeat and the acks
\* without a gap or a repetition, whatever fails and wherever the worker dies.
THEOREM ReportsCorrect == SwSpec => []ReportsInOrder
<1>1. SwInit => ReportsInv
  BY DEF SwInit, ReportsInv, SendingInCall, AcksConsecutive, AckAt, ReadyBeforeLoop, ReadyFirst
<1>2. SwTypeOK /\ ReportsInv => ReportsInOrder BY DEF ReportsInOrder, ReportsInv
<1> QED BY <1>1, <1>2, ReportsStep, SwTypeCorrect, PTL DEF SwSpec

-----------------------------------------------------------------------------
(* The two directions of the codec: their types, the kinds of their        *)
(* switches, the frames of their rings and what a reader makes of one.     *)
Directions == {"events", "actions"}
Visit(d) == IF d = "events" THEN EventVisit ELSE ActionVisit
Switch(d) == IF d = "events" THEN EventSwitch ELSE ActionSwitch
Number(d, kind) == StrategyWireMessageType[Visit(d)[kind]]
Decoded(d, frame) == decodeEnvelope(Switch(d), frame)
Frames(d) ==
  {f \in [type : Nat, payload : DOMAIN Visit(d), whole : {"yes", "payload", "envelope"}] : f.type = Number(d, f.payload)}
Says(frame) == IF frame.whole = "yes" THEN frame.payload ELSE Refused
Kinds == DOMAIN EventVisit \cup DOMAIN ActionVisit \cup {Refused}

(* One direction: what was handed to the ring was received, or is still in *)
(* the ring, in that order.                                                *)
Carried(d, frames, given, heard) ==
  /\ frames \in Seq(Frames(d)) /\ given \in Seq(Kinds) /\ heard \in Seq(Kinds)
  /\ Len(given) = Len(heard) + Len(frames)
  /\ \A i \in 1 .. Len(heard) : heard[i] = given[i]
  /\ \A i \in 1 .. Len(frames) : given[Len(heard) + i] = Says(frames[i])

WcInv ==
  /\ DOMAIN wire = Directions /\ DOMAIN handed = Directions /\ DOMAIN got = Directions
  /\ wire = [d \in Directions |-> wire[d]] /\ handed = [d \in Directions |-> handed[d]]
  /\ got = [d \in Directions |-> got[d]]
  /\ \A d \in Directions : Carried(d, wire[d], handed[d], got[d])

(* The three tables, written apart, agree: the case of the enumerator that *)
(* a kind is written with reads that kind again.                           *)
LEMMA SwitchUndoesVisit ==
  ASSUME NEW d \in Directions, NEW kind \in DOMAIN Visit(d)
  PROVE  Visit(d)[kind] \in DOMAIN Switch(d) /\ Switch(d)[Visit(d)[kind]] = kind
  <1>1. \A k \in DOMAIN EventVisit : EventVisit[k] \in DOMAIN EventSwitch /\ EventSwitch[EventVisit[k]] = k
    BY DEF EventVisit, EventSwitch
  <1>2. \A k \in DOMAIN ActionVisit : ActionVisit[k] \in DOMAIN ActionSwitch /\ ActionSwitch[ActionVisit[k]] = k
    BY DEF ActionVisit, ActionSwitch
  <1>3. CASE d = "events"
    BY <1>1, <1>3 DEF Visit, Switch
  <1>4. CASE d = "actions"
    BY <1>2, <1>4 DEF Visit, Switch
  <1> QED BY <1>3, <1>4 DEF Directions

(* No two enumerators of a switch have one number, and the numbers of the  *)
(* events end before those of the actions begin.                           *)
LEMMA NumbersApart ==
  /\ \A d \in Directions : \A e, f \in DOMAIN Switch(d) :
       StrategyWireMessageType[e] = StrategyWireMessageType[f] => e = f
  /\ \A e \in DOMAIN EventSwitch : StrategyWireMessageType[e] \in 1 .. 19
  /\ \A e \in DOMAIN ActionSwitch : StrategyWireMessageType[e] \in 101 .. 112
  <1>1. \A e, f \in DOMAIN EventSwitch : StrategyWireMessageType[e] = StrategyWireMessageType[f] => e = f
    BY DEF StrategyWireMessageType, EventSwitch
  <1>2. \A e, f \in DOMAIN ActionSwitch : StrategyWireMessageType[e] = StrategyWireMessageType[f] => e = f
    BY DEF StrategyWireMessageType, ActionSwitch
  <1>3. \A e \in DOMAIN EventSwitch : StrategyWireMessageType[e] \in 1 .. 19
    BY DEF StrategyWireMessageType, EventSwitch
  <1>4. \A e \in DOMAIN ActionSwitch : StrategyWireMessageType[e] \in 101 .. 112
    BY DEF StrategyWireMessageType, ActionSwitch
  <1>5. ASSUME NEW d \in Directions, NEW e \in DOMAIN Switch(d), NEW f \in DOMAIN Switch(d),
               StrategyWireMessageType[e] = StrategyWireMessageType[f]
        PROVE  e = f
    <2>1. CASE d = "events"
      BY <1>1, <1>5, <2>1 DEF Switch
    <2>2. CASE d = "actions"
      BY <1>2, <1>5, <2>2 DEF Switch
    <2> QED BY <2>1, <2>2 DEF Directions
  <1> QED BY <1>3, <1>4, <1>5

(* What the encoder writes is a frame of its direction.                    *)
LEMMA EncodedIs ==
  ASSUME NEW d \in Directions, NEW kind \in DOMAIN Visit(d)
  PROVE  encodeMessage(Number(d, kind), kind) \in Frames(d)
  <1>1. Number(d, kind) \in Nat
    <2>1. Visit(d)[kind] \in DOMAIN Switch(d)
      BY SwitchUndoesVisit
    <2>2. CASE d = "events"
      BY <2>1, <2>2, NumbersApart DEF Switch, Number
    <2>3. CASE d = "actions"
      BY <2>1, <2>3, NumbersApart DEF Switch, Number
    <2> QED BY <2>2, <2>3 DEF Directions
  <1> QED BY <1>1 DEF Frames, encodeMessage

(* The decoder of a direction tells a frame's kind or refuses it, and the  *)
(* decoder of the other refuses it.                                        *)
LEMMA DecodedIs ==
  ASSUME NEW d \in Directions, NEW frame \in Frames(d)
  PROVE  Decoded(d, frame) = Says(frame) /\ Says(frame) \in Kinds
  <1> DEFINE kind == frame.payload
             taken == {e \in DOMAIN Switch(d) : StrategyWireMessageType[e] = frame.type}
  <1>1. /\ frame.type = Number(d, kind) /\ kind \in DOMAIN Visit(d)
        /\ frame.whole \in {"yes", "payload", "envelope"}
    BY DEF Frames
  <1>2. Visit(d)[kind] \in DOMAIN Switch(d) /\ Switch(d)[Visit(d)[kind]] = kind
    BY <1>1, SwitchUndoesVisit
  <1>3. taken = {Visit(d)[kind]}
    <2>1. Visit(d)[kind] \in taken
      BY <1>1, <1>2 DEF Number
    <2>2. \A e \in taken : e = Visit(d)[kind]
      BY <1>1, <1>2, NumbersApart DEF Number
    <2> QED BY <2>1, <2>2
  <1>4. Switch(d)[CHOOSE e \in taken : TRUE] = kind /\ taken # {}
    BY <1>2, <1>3
  <1> HIDE DEF kind, taken
  <1>5. Decoded(d, frame) = IF frame.whole # "envelope" THEN decodePayload(frame, kind) ELSE Refused
    BY <1>4 DEF Decoded, decodeEnvelope, taken
  <1>6. kind \in Kinds
    BY <1>1 DEF Kinds, Visit
  <1> QED BY <1>1, <1>5, <1>6 DEF Says, Kinds, decodePayload, read_json, kind

LEMMA OtherRefuses ==
  /\ \A frame \in Frames("events") : decodeStrategyActionMessage(frame) = Refused
  /\ \A frame \in Frames("actions") : decodeStrategyEventMessage(frame) = Refused
  <1>0. "events" \in Directions /\ "actions" \in Directions
    BY DEF Directions
  <1>1. ASSUME NEW frame \in Frames("events"), NEW e \in DOMAIN ActionSwitch
        PROVE  StrategyWireMessageType[e] # frame.type
    <2>1. frame.type = StrategyWireMessageType[EventVisit[frame.payload]] /\ frame.payload \in DOMAIN Visit("events")
      BY DEF Frames, Number, Visit
    <2>2. EventVisit[frame.payload] \in DOMAIN EventSwitch
      BY <1>0, <2>1, SwitchUndoesVisit DEF Visit, Switch
    <2> QED BY <1>1, <2>1, <2>2, NumbersApart
  <1>2. ASSUME NEW frame \in Frames("actions"), NEW e \in DOMAIN EventSwitch
        PROVE  StrategyWireMessageType[e] # frame.type
    <2>1. frame.type = StrategyWireMessageType[ActionVisit[frame.payload]] /\ frame.payload \in DOMAIN Visit("actions")
      BY DEF Frames, Number, Visit
    <2>2. ActionVisit[frame.payload] \in DOMAIN ActionSwitch
      BY <1>0, <2>1, SwitchUndoesVisit DEF Visit, Switch
    <2> QED BY <1>2, <2>1, <2>2, NumbersApart
  <1> QED BY <1>1, <1>2 DEF decodeStrategyActionMessage, decodeStrategyEventMessage, decodeEnvelope

LEMMA SendCarries ==
  ASSUME NEW d, NEW frames, NEW given, NEW heard, Carried(d, frames, given, heard),
         NEW f \in Frames(d), f.whole = "yes", f.payload \in Kinds
  PROVE  Carried(d, Append(frames, f), Append(given, f.payload), heard)
  <1> USE DEF Carried
  <1> DEFINE kind == f.payload
             m == Len(frames)
             n == Len(heard)
             after == Append(frames, f)
             told == Append(given, kind)
  <1>1. m \in Nat /\ n \in Nat /\ Len(given) = n + m
    OBVIOUS
  <1>2. /\ after \in Seq(Frames(d)) /\ Len(after) = m + 1
        /\ \A i \in 1 .. m : after[i] = frames[i]
        /\ after[m + 1] = f
    BY AppendProperties DEF after
  <1>3. /\ told \in Seq(Kinds) /\ Len(told) = n + m + 1
        /\ \A i \in 1 .. n + m : told[i] = given[i]
        /\ told[n + m + 1] = kind
    BY AppendProperties DEF told
  <1> HIDE DEF after, told
  <1>4. Says(f) = kind
    BY DEF Says
  <1>5. ASSUME NEW i \in 1 .. m + 1 PROVE told[n + i] = Says(after[i])
    <2>1. CASE i \in 1 .. m
      <3>1. n + i \in 1 .. n + m
        BY <1>1, <2>1
      <3> QED BY <1>2, <1>3, <2>1, <3>1
    <2>2. CASE i = m + 1
      BY <1>1, <1>2, <1>3, <1>4, <2>2
    <2> QED BY <1>1, <2>1, <2>2
  <1>6. ASSUME NEW i \in 1 .. n PROVE heard[i] = told[i]
    <2>1. i \in 1 .. n + m
      BY <1>1
    <2> QED BY <1>3, <2>1
  <1>7. n + m + 1 = n + (m + 1)
    BY <1>1
  <1>8. Carried(d, after, told, heard)
    BY ONLY Carried(d, frames, given, heard), <1>2, <1>3, <1>5, <1>6, <1>7
  <1> QED BY <1>8 DEF after, told

LEMMA RecvCarries ==
  ASSUME NEW d, NEW frames, NEW given, NEW heard, Carried(d, frames, given, heard),
         frames # <<>>, Says(Head(frames)) \in Kinds
  PROVE  Carried(d, Tail(frames), given, Append(heard, Says(Head(frames))))
  <1> USE DEF Carried
  <1> DEFINE kind == Says(Head(frames))
             m == Len(frames)
             n == Len(heard)
  <1>1. m \in Nat /\ m >= 1 /\ n \in Nat /\ Len(given) = n + m
    OBVIOUS
  <1>2. /\ Tail(frames) \in Seq(Frames(d)) /\ Len(Tail(frames)) = m - 1
        /\ \A i \in 1 .. m - 1 : Tail(frames)[i] = frames[i + 1]
        /\ Head(frames) = frames[1]
    BY HeadTailProperties
  <1> HIDE DEF kind
  <1>3. /\ Append(heard, kind) \in Seq(Kinds) /\ Len(Append(heard, kind)) = n + 1
        /\ \A i \in 1 .. n : Append(heard, kind)[i] = heard[i]
        /\ Append(heard, kind)[n + 1] = kind
    BY AppendProperties DEF kind
  <1>4. given[n + 1] = kind
    BY <1>1, <1>2 DEF kind
  <1>5. ASSUME NEW i \in 1 .. n + 1 PROVE Append(heard, kind)[i] = given[i]
    <2>1. CASE i \in 1 .. n
      BY <1>3, <2>1
    <2>2. CASE i = n + 1
      BY <1>3, <1>4, <2>2
    <2> QED BY <1>1, <2>1, <2>2
  <1>6. ASSUME NEW i \in 1 .. m - 1 PROVE given[(n + 1) + i] = Says(Tail(frames)[i])
    <2>1. i + 1 \in 1 .. m /\ n + (i + 1) = (n + 1) + i
      BY <1>1
    <2> QED BY <1>2, <2>1
  <1> QED BY <1>1, <1>2, <1>3, <1>5, <1>6 DEF kind

LEMMA TearCarries ==
  ASSUME NEW d, NEW frames, NEW given, NEW heard, Carried(d, frames, given, heard),
         frames # <<>>, NEW w \in {"payload", "envelope"}
  PROVE  Carried(d, [frames EXCEPT ![1].whole = w], [given EXCEPT ![Len(heard) + 1] = Refused], heard)
  <1> USE DEF Carried
  <1> DEFINE torn == [frames[1] EXCEPT !.whole = w]
             m == Len(frames)
             n == Len(heard)
             after == [frames EXCEPT ![1] = torn]
             told == [given EXCEPT ![n + 1] = Refused]
  <1>1. m \in Nat /\ m >= 1 /\ n \in Nat /\ Len(given) = n + m
    OBVIOUS
  <1>2. torn \in Frames(d) /\ Says(torn) = Refused
    <2>1. frames[1] \in Frames(d)
      BY <1>1
    <2>2. torn.type = frames[1].type /\ torn.payload = frames[1].payload /\ torn.whole = w
      BY <2>1 DEF Frames
    <2>3. torn \in Frames(d)
      BY <2>1 DEF Frames
    <2> QED BY <2>2, <2>3 DEF Says
  <1> HIDE DEF torn
  <1>3. /\ after \in Seq(Frames(d)) /\ Len(after) = m
        /\ \A i \in 1 .. m : after[i] = IF i = 1 THEN torn ELSE frames[i]
    BY <1>1, <1>2, ExceptSeq
  <1>4. Refused \in Kinds /\ n + 1 \in 1 .. n + m
    BY <1>1 DEF Kinds
  <1>5. /\ told \in Seq(Kinds) /\ Len(told) = n + m
        /\ \A i \in 1 .. n + m : told[i] = IF i = n + 1 THEN Refused ELSE given[i]
    BY <1>1, <1>4, ExceptSeq
  <1> HIDE DEF after, told
  <1>6. ASSUME NEW i \in 1 .. m PROVE told[n + i] = Says(after[i])
    <2>1. n + i \in 1 .. n + m /\ (n + i = n + 1 <=> i = 1)
      BY <1>1
    <2> QED BY <1>2, <1>3, <1>5, <2>1
  <1>7. ASSUME NEW i \in 1 .. n PROVE heard[i] = told[i]
    <2>1. i \in 1 .. n + m /\ i # n + 1
      BY <1>1
    <2> QED BY <1>5, <2>1
  <1>8. Carried(d, after, told, heard)
    BY <1>1, <1>3, <1>5, <1>6, <1>7
  <1> QED BY <1>8 DEF after, told, torn

LEMMA SendKeeps ==
  ASSUME WcInv, NEW d \in Directions, NEW kind \in DOMAIN Visit(d), SendTo(d, encodeMessage(Number(d, kind), kind))
  PROVE  WcInv'
  <1> DEFINE f == encodeMessage(Number(d, kind), kind)
  <1>1. f \in Frames(d) /\ f.whole = "yes" /\ f.payload \in Kinds
    <2>1. f \in Frames(d)
      BY EncodedIs
    <2>2. f.payload \in DOMAIN Visit(d)
      BY <2>1 DEF Frames
    <2> QED BY <2>1, <2>2 DEF encodeMessage, Kinds, Visit
  <1> HIDE DEF f
  <1>2. /\ wire' = [wire EXCEPT ![d] = Append(@, f)] /\ handed' = [handed EXCEPT ![d] = Append(@, f.payload)]
        /\ got' = got
    BY DEF SendTo, f
  <1>3. Carried(d, Append(wire[d], f), Append(handed[d], f.payload), got[d])
    BY <1>1, SendCarries DEF WcInv
  <1> QED BY <1>2, <1>3 DEF WcInv

LEMMA RecvKeeps ==
  ASSUME WcInv, NEW d \in Directions, wire[d] # <<>>, RecvFrom(d, Decoded(d, Head(wire[d])))
  PROVE  WcInv'
  <1>1. Head(wire[d]) \in Frames(d)
    BY HeadTailProperties DEF WcInv, Carried
  <1>2. Decoded(d, Head(wire[d])) = Says(Head(wire[d])) /\ Says(Head(wire[d])) \in Kinds
    BY <1>1, DecodedIs
  <1>3. Carried(d, Tail(wire[d]), handed[d], Append(got[d], Says(Head(wire[d]))))
    BY <1>2, RecvCarries DEF WcInv
  <1>4. /\ wire' = [wire EXCEPT ![d] = Tail(@)] /\ got' = [got EXCEPT ![d] = Append(@, Says(Head(wire[d])))]
        /\ handed' = handed
    BY <1>2 DEF RecvFrom
  <1> QED BY <1>3, <1>4 DEF WcInv

LEMMA TornKeeps ==
  ASSUME WcInv, TornFrame
  PROVE  WcInv'
  <1>1. PICK d \in Directions, w \in {"payload", "envelope"} :
          /\ wire[d] # <<>> /\ wire' = [wire EXCEPT ![d][1].whole = w]
          /\ handed' = [handed EXCEPT ![d][Len(got[d]) + 1] = Refused] /\ got' = got
    BY DEF TornFrame, WcInv
  <1>2. Carried(d, [wire[d] EXCEPT ![1].whole = w], [handed[d] EXCEPT ![Len(got[d]) + 1] = Refused], got[d])
    BY <1>1, TearCarries DEF WcInv
  <1>3. /\ wire' = [wire EXCEPT ![d] = [wire[d] EXCEPT ![1].whole = w]]
        /\ handed' = [handed EXCEPT ![d] = [handed[d] EXCEPT ![Len(got[d]) + 1] = Refused]]
    BY <1>1
  <1> QED BY <1>1, <1>2, <1>3 DEF WcInv

(* The codec carries every message as it was sent, in both directions, and *)
(* no frame passes for one of the other direction, for rings of any size   *)
(* and any number of messages, whichever frames are torn                   *)
(* (StrategyTransportCodec.cpp).                                           *)
THEOREM CodecCorrect == WcSpec => []CodecFaithful
  <1>1. WcInit => WcInv
    BY DEF WcInit, WcInv, Directions, Carried
  <1>2. WcInv /\ [WcNext]_wcVars => WcInv'
    <2> SUFFICES ASSUME WcInv, [WcNext]_wcVars PROVE WcInv'
      OBVIOUS
    <2>0. "events" \in Directions /\ "actions" \in Directions
      BY DEF Directions
    <2>1. CASE sendEvent
      <3>1. PICK k \in DOMAIN Visit("events") : SendTo("events", encodeMessage(Number("events", k), k))
        BY <2>1 DEF sendEvent, encodeStrategyEventMessage, Number, Visit
      <3> QED BY <2>0, <3>1, SendKeeps
    <2>2. CASE sendAction
      <3>1. PICK k \in DOMAIN Visit("actions") : SendTo("actions", encodeMessage(Number("actions", k), k))
        BY <2>2 DEF sendAction, encodeStrategyActionMessage, Number, Visit
      <3> QED BY <2>0, <3>1, SendKeeps
    <2>3. CASE tryRecvEvent
      <3>1. wire["events"] # <<>> /\ RecvFrom("events", Decoded("events", Head(wire["events"])))
        BY <2>3 DEF tryRecvEvent, Decoded, Switch, decodeStrategyEventMessage
      <3> QED BY <2>0, <3>1, RecvKeeps
    <2>4. CASE tryRecvAction
      <3>1. wire["actions"] # <<>> /\ RecvFrom("actions", Decoded("actions", Head(wire["actions"])))
        BY <2>4 DEF tryRecvAction, Decoded, Switch, decodeStrategyActionMessage
      <3> QED BY <2>0, <3>1, RecvKeeps
    <2>5. CASE TornFrame
      BY <2>5, TornKeeps
    <2>6. CASE UNCHANGED wcVars
      BY <2>6 DEF wcVars, WcInv
    <2> QED BY <2>1, <2>2, <2>3, <2>4, <2>5, <2>6 DEF WcNext
  <1>3. WcInv => CodecFaithful
    <2> SUFFICES ASSUME WcInv PROVE CodecFaithful
      OBVIOUS
    <2>1. MessagesArriveAsSent
      <3>1. ASSUME NEW d \in Directions, NEW i \in DOMAIN got[d] PROVE got[d][i] = handed[d][i]
        <4>1. Carried(d, wire[d], handed[d], got[d])
          BY DEF WcInv
        <4>2. i \in 1 .. Len(got[d])
          BY ONLY <4>1, <3>1 DEF Carried
        <4> QED BY ONLY <4>1, <4>2 DEF Carried
      <3>2. DOMAIN got = Directions
        BY DEF WcInv
      <3> QED BY ONLY <3>1, <3>2 DEF MessagesArriveAsSent
    <2>2. DirectionsApart
      <3>1. wire["events"] \in Seq(Frames("events")) /\ wire["actions"] \in Seq(Frames("actions"))
        BY DEF WcInv, Carried, Directions
      <3> QED BY <3>1, OtherRefuses DEF DirectionsApart
    <2> QED BY <2>1, <2>2 DEF CodecFaithful
  <1> QED BY <1>1, <1>2, <1>3, PTL DEF WcSpec

-----------------------------------------------------------------------------
(* The rings' life, from make to the death of any process.  A name that    *)
(* the engine's rings have is theirs or nobody's, so its worker, which runs *)
(* only while the engine's transport is up, opens what the engine has made; *)
(* what an orphan has opened is not made anew while it is mapped.           *)

Engines == rings["engine"]
Whole(o) == o \in Region /\ header[o] = Fields /\ bytes[o] = mappingBytes(config)
Steps == {"down", "shm_open", "ftruncate", "header", "open", "check", "up"}
Place == [step : Steps, ring : Ring]
MayHave == [Ring -> Region \cup {None}]

LcTypeOK ==
  /\ config \in [capacity : Capacities, payload : Payloads, unlinkOnDestroy : BOOLEAN]
  /\ shm \in MayHave /\ rings \in [Side -> MayHave] /\ at \in [Side -> Place] /\ kills \in Nat
  /\ DOMAIN bytes = Region /\ bytes = [o \in Region |-> bytes[o]] /\ header \in [Region -> SUBSET Fields]

\* The rings that the engine has at each step of make.
EngineHas ==
  /\ At("engine", "down") => \A r \in Ring : Engines[r] = None
  /\ At("engine", "shm_open") => Engines[at["engine"].ring] = None /\ Engines["actions"] = None
  /\ at["engine"].step \in {"ftruncate", "header"} =>
       /\ Engines[at["engine"].ring] \in Region
       /\ at["engine"].ring = "events" => Engines["actions"] = None
  /\ at["engine"].step \in {"shm_open", "ftruncate", "header"} /\ at["engine"].ring = "actions" => Whole(Engines["events"])
  /\ At("engine", "header") => bytes[Engines[at["engine"].ring]] = mappingBytes(config)
  /\ At("engine", "up") => \A r \in Ring : Whole(Engines[r])
  /\ Engines["events"] = Engines["actions"] => Engines["events"] = None

\* Whose a name is.
NamesAre ==
  /\ \A r \in Ring : Engines[r] # None => shm[r] \in {None, Engines[r]}
  /\ config.unlinkOnDestroy /\ kills = 0 => \A r \in Ring : shm[r] \in {None, Engines[r]}

\* What the engine's worker has mapped, and when it runs.
WorkerHas ==
  /\ ~At("worker", "down") => At("engine", "up")
  /\ At("worker", "down") => \A r \in Ring : rings["worker"][r] = None
  /\ \A r \in Ring : rings["worker"][r] \in {None, Engines[r]}

\* What open has looked at, of any worker.
OpenedHas == \A w \in Worker, r \in Ring : Accepted(w, r) => {"magic", "version"} \subseteq header[rings[w][r]]

\* No header is begun before the object has its size.
SizedFirst == \A o \in Region : header[o] # {} => bytes[o] = mappingBytes(config)

LcInv == LcTypeOK /\ EngineHas /\ NamesAre /\ WorkerHas /\ OpenedHas /\ SizedFirst

LEMMA SidesAre == Side = {"engine", "worker", "orphan"} /\ Worker = {"worker", "orphan"} /\ Worker \subseteq Side
BY DEF Side, Worker

LEMMA DownIs == Down \in Place /\ Down.step = "down" /\ Down.ring = "events" /\ NoRings \in MayHave /\ \A r \in Ring : NoRings[r] = None
BY DEF Down, NoRings, Place, Steps, Ring, MayHave

LEMMA LcStart == LcInit => LcInv
<1> SUFFICES ASSUME LcInit PROVE LcInv
  OBVIOUS
<1> USE LcAssumption, DownIs, SidesAre DEF LcInit
<1>1. at \in [Side -> Place] /\ rings \in [Side -> MayHave] /\ \A s \in Side : at[s].step = "down" /\ \A r \in Ring : rings[s][r] = None
  OBVIOUS
<1>2. LcTypeOK
  BY <1>1 DEF LcTypeOK, Fields, MayHave
<1>3. EngineHas /\ NamesAre
  BY <1>1 DEF EngineHas, NamesAre, At, Engines, Ring
<1>4. WorkerHas /\ OpenedHas
  BY <1>1 DEF WorkerHas, OpenedHas, Accepted, At
<1>5. SizedFirst
  BY DEF SizedFirst
<1> QED BY <1>2, <1>3, <1>4, <1>5 DEF LcInv

\* The mapping's size and what is whole follow the configuration and the objects.
LEMMA SizesSame ==
  ASSUME config' = config
  PROVE  mappingBytes(config)' = mappingBytes(config)
BY DEF mappingBytes, slotCount, slotStride

LEMMA WholeSame ==
  ASSUME config' = config, NEW o, bytes'[o] = bytes[o], header'[o] = header[o]
  PROVE  Whole(o)' <=> Whole(o)
BY SizesSame DEF Whole

\* Where the sides are after a step of one.
LEMMA Goes ==
  ASSUME LcTypeOK, NEW s \in Side, NEW step \in Steps, NEW r \in Ring, Go(s, step, r)
  PROVE  /\ at' \in [Side -> Place] /\ at'[s] = [step |-> step, ring |-> r]
         /\ \A q \in Side : q # s => at'[q] = at[q]
<1>1. PICK p \in Place : p = [step |-> step, ring |-> r]
  BY DEF Place
<1>2. at \in [Side -> Place] /\ at' = [at EXCEPT ![s] = p]
  BY <1>1 DEF LcTypeOK, Go
<1> QED BY <1>1, <1>2

\* A side with other rings.
LEMMA RingsBecome ==
  ASSUME LcTypeOK, NEW s \in Side, NEW R \in MayHave, rings' = [rings EXCEPT ![s] = R]
  PROVE  rings' \in [Side -> MayHave] /\ rings'[s] = R /\ \A q \in Side : q # s => rings'[q] = rings[q]
BY DEF LcTypeOK

\* Objects that stay as they are.
LEMMA ObjectsStay ==
  ASSUME LcInv, UNCHANGED <<bytes, header, config>>
  PROVE  /\ SizedFirst' /\ mappingBytes(config)' = mappingBytes(config)
         /\ \A o : Whole(o)' <=> Whole(o)
<1>1. mappingBytes(config)' = mappingBytes(config)
  BY SizesSame
<1>2. SizedFirst'
  BY <1>1 DEF LcInv, SizedFirst
<1>3. \A o : Whole(o)' <=> Whole(o)
  BY WholeSame
<1> QED BY <1>1, <1>2, <1>3

\* What the workers have opened while none of them moves: an object that one of
\* them maps only gains fields.
LEMMA WorkersStay ==
  ASSUME LcInv, \A w \in Worker : at'[w] = at[w] /\ rings'[w] = rings[w],
         \A w \in Worker, r \in Ring : header[rings[w][r]] \subseteq header'[rings[w][r]] \/ rings[w][r] = None
  PROVE  OpenedHas'
<1> SUFFICES ASSUME NEW w \in Worker, NEW r \in Ring, Accepted(w, r)' PROVE {"magic", "version"} \subseteq header'[rings'[w][r]]
  BY DEF OpenedHas
<1>1. at'[w] = at[w] /\ rings'[w] = rings[w]
  OBVIOUS
<1>2. Accepted(w, r) /\ rings[w][r] # None
  BY <1>1 DEF Accepted, At
<1>3. {"magic", "version"} \subseteq header[rings[w][r]]
  BY <1>2 DEF LcInv, OpenedHas
<1> QED BY <1>1, <1>2, <1>3

\* The engine's worker while the engine is not up, and so while it makes its rings.
LEMMA WorkerIdle ==
  ASSUME LcInv, at["engine"].step # "up"
  PROVE  at["worker"].step = "down" /\ \A r \in Ring : rings["worker"][r] = None
BY DEF LcInv, WorkerHas, At

\* A step of the engine from before its transport is up.
LEMMA EngineMakes ==
  ASSUME LcInv, at["engine"].step # "up", at' \in [Side -> Place], rings' \in [Side -> MayHave], shm' \in MayHave,
         \A w \in Worker : at'[w] = at[w] /\ rings'[w] = rings[w], UNCHANGED <<bytes, header, config, kills>>
  PROVE  LcTypeOK' /\ WorkerHas' /\ OpenedHas'
<1>1. LcTypeOK'
  BY DEF LcInv, LcTypeOK
<1>2. OpenedHas'
  BY WorkersStay
<1>3. at'["worker"] = at["worker"] /\ rings'["worker"] = rings["worker"]
  BY SidesAre
<1>4. WorkerHas'
  BY <1>3, WorkerIdle DEF WorkerHas, At
<1> QED BY <1>1, <1>2, <1>4

\* The engine goes down: its rings are gone, and its worker is down.
LEMMA EngineDown ==
  ASSUME LcInv, Go("engine", "down", "events"), rings' = [rings EXCEPT !["engine"] = NoRings],
         at["worker"].step = "down", shm' \in MayHave, UNCHANGED <<bytes, header, config, kills>>,
         config.unlinkOnDestroy /\ kills = 0 => \A r \in Ring : shm'[r] = None
  PROVE  LcInv'
<1>1. /\ at' \in [Side -> Place] /\ at'["engine"] = [step |-> "down", ring |-> "events"]
      /\ \A w \in Worker : at'[w] = at[w]
  BY Goes, SidesAre DEF LcInv, Steps, Ring
<1>2. /\ rings' \in [Side -> MayHave] /\ rings'["engine"] = NoRings /\ \A w \in Worker : rings'[w] = rings[w]
  BY RingsBecome, SidesAre, DownIs DEF LcInv
<1>3. LcTypeOK'
  BY <1>1, <1>2 DEF LcInv, LcTypeOK
<1>4. EngineHas'
  BY <1>1, <1>2, DownIs DEF EngineHas, At, Engines, Ring
<1>5. NamesAre'
  BY <1>2, DownIs DEF NamesAre, Engines
<1>6. OpenedHas'
  BY <1>1, <1>2, WorkersStay
<1>7. WorkerHas'
  <2>1. at'["worker"] = at["worker"] /\ rings'["worker"] = rings["worker"]
    BY <1>1, <1>2, SidesAre
  <2> QED BY <2>1 DEF LcInv, WorkerHas, At
<1> QED BY <1>3, <1>4, <1>5, <1>6, <1>7, ObjectsStay DEF LcInv

\* A step of a worker leaves the engine's part alone.
LEMMA EngineStays ==
  ASSUME LcInv, NEW w \in Worker, at' \in [Side -> Place], rings' \in [Side -> MayHave],
         \A q \in Side : q # w => at'[q] = at[q] /\ rings'[q] = rings[q], UNCHANGED <<shm, bytes, header, config, kills>>
  PROVE  LcTypeOK' /\ EngineHas' /\ NamesAre' /\ SizedFirst' /\ at'["engine"] = at["engine"] /\ Engines' = Engines
<1>1. at'["engine"] = at["engine"] /\ rings'["engine"] = rings["engine"]
  BY SidesAre
<1>2. LcTypeOK'
  BY DEF LcInv, LcTypeOK
<1>3. SizedFirst' /\ mappingBytes(config)' = mappingBytes(config) /\ \A o : Whole(o)' <=> Whole(o)
  BY ObjectsStay
<1>4. EngineHas'
  BY <1>1, <1>3 DEF LcInv, EngineHas, At, Engines
<1>5. NamesAre'
  BY <1>1 DEF LcInv, NamesAre, Engines
<1> QED BY <1>1, <1>2, <1>3, <1>4, <1>5 DEF Engines

\* What the workers have opened after a step of one.
LEMMA OthersOpened ==
  ASSUME LcInv, NEW w \in Worker, \A q \in Side : q # w => at'[q] = at[q] /\ rings'[q] = rings[q],
         UNCHANGED header, \A r \in Ring : Accepted(w, r)' => {"magic", "version"} \subseteq header'[rings'[w][r]]
  PROVE  OpenedHas'
<1> SUFFICES ASSUME NEW q \in Worker, NEW r \in Ring, Accepted(q, r)' PROVE {"magic", "version"} \subseteq header'[rings'[q][r]]
  BY DEF OpenedHas
<1>1. CASE q = w
  BY <1>1
<1>2. CASE q # w
  <2>1. at'[q] = at[q] /\ rings'[q] = rings[q]
    BY <1>2, SidesAre
  <2>2. Accepted(q, r)
    BY <2>1 DEF Accepted, At
  <2> QED BY <2>1, <2>2 DEF LcInv, OpenedHas
<1> QED BY <1>1, <1>2

\* A worker that goes down without rings.
LEMMA WorkerDown ==
  ASSUME LcInv, NEW w \in Worker, rings' = [rings EXCEPT ![w] = NoRings], Go(w, "down", "events"),
         UNCHANGED <<shm, bytes, header, config, kills>>
  PROVE  LcInv'
<1>1. /\ at' \in [Side -> Place] /\ at'[w] = [step |-> "down", ring |-> "events"]
      /\ \A q \in Side : q # w => at'[q] = at[q]
  BY Goes, SidesAre DEF LcInv, Steps, Ring
<1>2. rings' \in [Side -> MayHave] /\ rings'[w] = NoRings /\ \A q \in Side : q # w => rings'[q] = rings[q]
  BY RingsBecome, SidesAre, DownIs DEF LcInv
<1>3. LcTypeOK' /\ EngineHas' /\ NamesAre' /\ SizedFirst' /\ at'["engine"] = at["engine"] /\ Engines' = Engines
  BY <1>1, <1>2, EngineStays
<1>4. OpenedHas'
  <2>1. \A r \in Ring : ~Accepted(w, r)'
    BY <1>2, DownIs DEF Accepted
  <2> QED BY <1>1, <1>2, <2>1, OthersOpened
<1>5. WorkerHas'
  <2>1. CASE w = "worker"
    BY <1>1, <1>2, <2>1, DownIs DEF WorkerHas, At
  <2>2. CASE w # "worker"
    <3>1. at'["worker"] = at["worker"] /\ rings'["worker"] = rings["worker"]
      BY <1>1, <1>2, <2>2, SidesAre
    <3> QED BY <1>3, <3>1 DEF LcInv, WorkerHas, At
  <2> QED BY <2>1, <2>2
<1> QED BY <1>3, <1>4, <1>5 DEF LcInv

\* No variable of the rings' life changes.
LEMMA NothingMoves == ASSUME LcInv, UNCHANGED LcVars PROVE LcInv'
<1>1. UNCHANGED <<shm, bytes, header, config, at, rings, kills>>
  BY DEF LcVars
<1>2. LcTypeOK'
  BY <1>1 DEF LcInv, LcTypeOK
<1>3. Engines' = Engines /\ (\A s, p : At(s, p)' <=> At(s, p)) /\ \A s, r : Accepted(s, r)' <=> Accepted(s, r)
  BY <1>1 DEF Engines, At, Accepted
<1>4. SizedFirst' /\ mappingBytes(config)' = mappingBytes(config) /\ \A o : Whole(o)' <=> Whole(o)
  BY <1>1, ObjectsStay
<1>5. EngineHas'
  BY <1>1, <1>3, <1>4 DEF LcInv, EngineHas
<1>6. NamesAre' /\ WorkerHas' /\ OpenedHas'
  BY <1>1, <1>3 DEF LcInv, NamesAre, WorkerHas, OpenedHas
<1> QED BY <1>2, <1>4, <1>5, <1>6 DEF LcInv

LEMMA MakeKeeps == ASSUME LcInv, make PROVE LcInv'
<1>1. LcTypeOK /\ at["engine"].step = "down" /\ UNCHANGED <<shm, bytes, header, config, rings, kills>>
  BY DEF make, LcInv, At
<1>2. CASE UNCHANGED at
  BY <1>1, <1>2, NothingMoves DEF LcVars
<1>3. CASE Go("engine", "shm_open", "events")
  <2>1. /\ at' \in [Side -> Place] /\ at'["engine"] = [step |-> "shm_open", ring |-> "events"]
        /\ \A w \in Worker : at'[w] = at[w]
    BY <1>1, <1>3, Goes, SidesAre DEF Steps, Ring
  <2>2. LcTypeOK' /\ WorkerHas' /\ OpenedHas'
    BY <1>1, <2>1, EngineMakes DEF LcTypeOK
  <2>3. Engines' = Engines /\ \A r \in Ring : Engines[r] = None
    BY <1>1 DEF Engines, LcInv, EngineHas, At
  <2>4. EngineHas'
    BY <2>1, <2>3 DEF EngineHas, At, Ring
  <2>5. NamesAre'
    BY <1>1, <2>3 DEF LcInv, NamesAre
  <2> QED BY <1>1, <2>2, <2>4, <2>5, ObjectsStay DEF LcInv
<1> QED BY <1>2, <1>3 DEF make

LEMMA ShmOpenKeeps == ASSUME LcInv, ShmOpen PROVE LcInv'
<1>1. PICK r \in Ring : r = at["engine"].ring
  BY SidesAre DEF LcInv, LcTypeOK, Place
<1>2. /\ LcTypeOK /\ at["engine"].step = "shm_open" /\ UNCHANGED <<config, kills>> /\ shm \in MayHave
      /\ rings \in [Side -> MayHave]
  BY DEF ShmOpen, LcInv, LcTypeOK, At
<1>3. Engines[r] = None /\ Engines["actions"] = None /\ at["worker"].step = "down"
  BY <1>1, <1>2, WorkerIdle DEF LcInv, EngineHas, At
<1>4. CASE /\ reset("engine", MadeBefore(r)) /\ Go("engine", "down", "events") /\ UNCHANGED <<bytes, header>>
  <2>1. /\ rings' = [rings EXCEPT !["engine"] = [x \in Ring |-> IF x \in MadeBefore(r) THEN None ELSE rings["engine"][x]]]
        /\ shm' = [x \in Ring |-> IF config.unlinkOnDestroy /\ x \in MadeBefore(r) THEN None ELSE shm[x]]
    BY <1>4 DEF reset
  <2>2. ASSUME NEW x \in Ring, x \notin MadeBefore(r) PROVE Engines[x] = None
    BY <1>1, <1>3, <2>2 DEF Ring, MadeBefore
  <2>3. [x \in Ring |-> IF x \in MadeBefore(r) THEN None ELSE rings["engine"][x]] = NoRings
    BY <2>2 DEF Engines, NoRings
  <2>4. shm' \in MayHave
    BY <1>2, <2>1 DEF MayHave
  <2>5. ASSUME config.unlinkOnDestroy, kills = 0, NEW x \in Ring PROVE shm'[x] = None
    <3>1. CASE x \in MadeBefore(r)
      BY <2>1, <2>5, <3>1
    <3>2. CASE x \notin MadeBefore(r)
      <4>1. shm[x] \in {None, Engines[x]}
        BY <2>5 DEF LcInv, NamesAre
      <4> QED BY <2>1, <2>2, <3>2, <4>1
    <3> QED BY <3>1, <3>2
  <2> QED BY <1>2, <1>3, <1>4, <2>1, <2>3, <2>4, <2>5, EngineDown
<1>5. CASE /\ shm[r] = None
           /\ \E o \in Unused :
                /\ \A q \in Unused : o <= q
                /\ shm' = [shm EXCEPT ![r] = o] /\ rings' = [rings EXCEPT !["engine"][r] = o]
                /\ bytes' = [bytes EXCEPT ![o] = 0] /\ header' = [header EXCEPT ![o] = {}]
                /\ Go("engine", "ftruncate", r)
  <2>1. PICK o \in Unused :
                /\ shm' = [shm EXCEPT ![r] = o] /\ rings' = [rings EXCEPT !["engine"][r] = o]
                /\ bytes' = [bytes EXCEPT ![o] = 0] /\ header' = [header EXCEPT ![o] = {}]
                /\ Go("engine", "ftruncate", r)
    BY <1>5
  <2>2. o \in Region /\ (\A x \in Ring : shm[x] # o) /\ \A s \in Side, x \in Ring : rings[s][x] # o
    BY DEF Unused
  <2>3. /\ at' \in [Side -> Place] /\ at'["engine"] = [step |-> "ftruncate", ring |-> r]
        /\ \A w \in Worker : at'[w] = at[w]
    BY <1>2, <2>1, Goes, SidesAre DEF Steps
  <2>4. shm' \in MayHave /\ shm'[r] = o /\ \A x \in Ring : x # r => shm'[x] = shm[x]
    BY <1>2, <2>1, <2>2 DEF MayHave
  <2>5. /\ rings' \in [Side -> MayHave] /\ rings'["engine"][r] = o
        /\ \A x \in Ring : x # r => rings'["engine"][x] = rings["engine"][x]
        /\ \A w \in Worker : rings'[w] = rings[w]
    <3>1. o \in Region \cup {None} /\ "engine" \in Side /\ \A w \in Worker : w \in Side /\ w # "engine"
      BY <2>2, SidesAre
    <3>2. rings' = [rings EXCEPT !["engine"][r] = o]
      BY <2>1
    <3>3. /\ rings' \in [Side -> MayHave] /\ rings'["engine"][r] = o
          /\ \A x \in Ring : x # r => rings'["engine"][x] = rings["engine"][x]
          /\ \A q \in Side : q # "engine" => rings'[q] = rings[q]
      BY <1>2, <3>1, <3>2 DEF MayHave
    <3> QED BY <3>1, <3>3
  <2>6. /\ DOMAIN bytes' = Region /\ bytes' = [x \in Region |-> bytes'[x]] /\ header' \in [Region -> SUBSET Fields]
        /\ bytes'[o] = 0 /\ header'[o] = {}
        /\ \A x \in Region : x # o => bytes'[x] = bytes[x] /\ header'[x] = header[x]
    BY <1>2, <2>1, <2>2 DEF LcTypeOK
  <2>7. LcTypeOK'
    BY <1>2, <2>3, <2>4, <2>5, <2>6 DEF LcTypeOK
  <2>8. mappingBytes(config)' = mappingBytes(config)
    BY <1>2, SizesSame
  <2>9. SizedFirst'
    BY <2>6, <2>8 DEF LcInv, SizedFirst
  <2>10. OpenedHas'
    <3>1. ASSUME NEW w \in Worker, NEW x \in Ring PROVE header[rings[w][x]] \subseteq header'[rings[w][x]] \/ rings[w][x] = None
      <4>1. rings[w][x] \in Region \cup {None} /\ rings[w][x] # o
        BY <1>2, <2>2, SidesAre DEF MayHave
      <4> QED BY <2>6, <4>1
    <3> QED BY <2>3, <2>5, <3>1, WorkersStay
  <2>11. \A x \in Ring : Engines'[x] = IF x = r THEN o ELSE Engines[x]
    BY <2>5 DEF Engines
  <2>12. Engines["events"] # o
    BY <2>2, SidesAre DEF Engines, Ring
  <2>13. r = "actions" => Whole(Engines["events"])'
    <3> SUFFICES ASSUME r = "actions" PROVE Whole(Engines["events"])'
      OBVIOUS
    <3>1. Whole(Engines["events"])
      BY <1>1, <1>2 DEF LcInv, EngineHas
    <3>2. PICK x \in Region : x = Engines["events"] /\ Whole(x)
      BY <3>1 DEF Whole
    <3>3. Engines'["events"] = x
      BY <2>11, <3>2 DEF Ring
    <3>4. bytes'[x] = bytes[x] /\ header'[x] = header[x]
      BY <2>6, <2>12, <3>2
    <3> QED BY <1>2, <3>2, <3>3, <3>4, WholeSame DEF Whole
  <2>14. EngineHas'
    <3>1. Engines'[r] = o /\ (r = "events" => Engines'["actions"] = None)
      BY <1>3, <2>11 DEF Ring
    <3>2. Engines'["events"] = Engines'["actions"] => Engines'["events"] = None
      <4>1. CASE r = "events"
        BY <2>2, <3>1, <4>1
      <4>2. CASE r = "actions"
        BY <2>11, <2>12, <3>1, <4>2 DEF Ring
      <4> QED BY <4>1, <4>2 DEF Ring
    <3> QED BY <2>2, <2>3, <2>13, <3>1, <3>2 DEF EngineHas, At
  <2>15. NamesAre'
    <3>1. ASSUME NEW x \in Ring PROVE Engines'[x] # None => shm'[x] \in {None, Engines'[x]}
      BY <2>4, <2>11 DEF LcInv, NamesAre
    <3>2. ASSUME config.unlinkOnDestroy, kills = 0, NEW x \in Ring PROVE shm'[x] \in {None, Engines'[x]}
      BY <2>4, <2>11, <3>2 DEF LcInv, NamesAre
    <3> QED BY <1>2, <3>1, <3>2 DEF NamesAre
  <2>16. WorkerHas'
    <3>1. at'["worker"] = at["worker"] /\ rings'["worker"] = rings["worker"]
      BY <2>3, <2>5, SidesAre
    <3>2. at["worker"].step = "down" /\ \A x \in Ring : rings["worker"][x] = None
      BY <1>2, WorkerIdle
    <3> QED BY <3>1, <3>2 DEF WorkerHas, At
  <2> QED BY <2>7, <2>9, <2>10, <2>14, <2>15, <2>16 DEF LcInv
<1> QED BY <1>1, <1>4, <1>5 DEF ShmOpen

LEMMA FtruncateKeeps == ASSUME LcInv, Ftruncate PROVE LcInv'
<1>1. PICK r \in Ring, o \in Region : r = at["engine"].ring /\ o = Engines[r]
  BY SidesAre DEF Ftruncate, LcInv, LcTypeOK, EngineHas, At, Place
<1>2. /\ at["engine"].step = "ftruncate" /\ bytes' = [bytes EXCEPT ![o] = mappingBytes(config)]
      /\ Go("engine", "header", r) /\ UNCHANGED <<shm, header, config, rings, kills>>
  BY <1>1 DEF Ftruncate, At, Engines
<1>3. /\ at' \in [Side -> Place] /\ at'["engine"] = [step |-> "header", ring |-> r]
      /\ \A w \in Worker : at'[w] = at[w]
  BY <1>2, Goes, SidesAre DEF LcInv, Steps
<1>4. /\ DOMAIN bytes' = Region /\ bytes' = [x \in Region |-> bytes'[x]]
      /\ bytes'[o] = mappingBytes(config) /\ \A q \in Region \ {o} : bytes'[q] = bytes[q]
  BY <1>2 DEF LcInv, LcTypeOK
<1>5. LcTypeOK'
  BY <1>2, <1>3, <1>4 DEF LcInv, LcTypeOK
<1>6. mappingBytes(config)' = mappingBytes(config)
  BY <1>2, SizesSame
<1>7. SizedFirst'
  BY <1>2, <1>4, <1>6 DEF LcInv, SizedFirst
<1>8. Engines' = Engines
  BY <1>2 DEF Engines
<1>9. r = "actions" => Whole(Engines["events"])'
  <2> SUFFICES ASSUME r = "actions" PROVE Whole(Engines["events"])'
    OBVIOUS
  <2>1. Whole(Engines["events"]) /\ Engines["events"] # o
    <3>1. Whole(Engines["events"]) /\ o = Engines["actions"] /\ o # None
      BY <1>1, <1>2, LcAssumption DEF LcInv, EngineHas
    <3>2. Engines["events"] # o
      BY <3>1 DEF LcInv, EngineHas
    <3> QED BY <3>1, <3>2
  <2>2. PICK x \in Region \ {o} : x = Engines["events"] /\ Whole(x)
    BY <2>1 DEF Whole
  <2>3. bytes'[x] = bytes[x] /\ header'[x] = header[x] /\ config' = config
    BY <1>2, <1>4
  <2>4. Whole(x)'
    BY <2>2, <2>3, WholeSame
  <2> QED BY <1>8, <2>2, <2>4
<1>10. EngineHas'
  BY <1>1, <1>2, <1>3, <1>4, <1>6, <1>8, <1>9 DEF LcInv, EngineHas, At
<1>11. NamesAre'
  BY <1>2, <1>8 DEF LcInv, NamesAre
<1>12. OpenedHas'
  BY <1>2, <1>3, WorkersStay
<1>13. WorkerHas'
  <2>1. at'["worker"] = at["worker"] /\ rings'["worker"] = rings["worker"]
    BY <1>2, <1>3, SidesAre
  <2>2. at["worker"].step = "down" /\ \A x \in Ring : rings["worker"][x] = None
    BY <1>2, WorkerIdle
  <2> QED BY <2>1, <2>2 DEF WorkerHas, At
<1> QED BY <1>5, <1>7, <1>10, <1>11, <1>12, <1>13 DEF LcInv

LEMMA CreateFailsKeeps == ASSUME LcInv, CreateFails PROVE LcInv'
<1>1. PICK r \in Ring : r = at["engine"].ring
  BY SidesAre DEF LcInv, LcTypeOK, Place
<1>2. /\ at["engine"].step = "ftruncate" /\ rings' = [rings EXCEPT !["engine"] = NoRings]
      /\ shm' = [q \in Ring |-> IF q = r \/ (config.unlinkOnDestroy /\ q \in MadeBefore(r)) THEN None ELSE shm[q]]
      /\ Go("engine", "down", "events") /\ UNCHANGED <<bytes, header, config, kills>>
  BY <1>1 DEF CreateFails, At
<1>3. shm' \in MayHave
  BY <1>2 DEF LcInv, LcTypeOK, MayHave
<1>4. ASSUME config.unlinkOnDestroy, kills = 0, NEW q \in Ring PROVE shm'[q] = None
  <2>1. q # r /\ q \notin MadeBefore(r) => q = "actions" /\ r = "events"
    BY DEF Ring, MadeBefore
  <2>2. q = "actions" /\ r = "events" => shm[q] = None
    BY <1>1, <1>2, <1>4 DEF LcInv, EngineHas, NamesAre
  <2> QED BY <1>2, <1>4, <2>1, <2>2
<1> QED BY <1>2, <1>3, <1>4, WorkerIdle, EngineDown

LEMMA CreatedKeeps == ASSUME LcInv, Created PROVE LcInv'
<1>1. PICK r \in Ring : r = at["engine"].ring
  BY SidesAre DEF LcInv, LcTypeOK, Place
<1>2. /\ LcTypeOK /\ at["engine"].step = "header" /\ header[Engines[r]] = Fields
      /\ UNCHANGED <<shm, bytes, header, config, rings, kills>>
      /\ IF r = "events" THEN Go("engine", "shm_open", "actions") ELSE Go("engine", "up", "events")
  BY <1>1 DEF Created, LcInv, At, Engines
<1>3. Whole(Engines[r])
  BY <1>1, <1>2 DEF LcInv, EngineHas, At, Whole
<1>4. SizedFirst' /\ mappingBytes(config)' = mappingBytes(config) /\ \A x : Whole(x)' <=> Whole(x)
  BY <1>2, ObjectsStay
<1>5. Engines' = Engines /\ (Engines["events"] = Engines["actions"] => Engines["events"] = None)
  BY <1>2 DEF Engines, LcInv, EngineHas
<1>6. NamesAre'
  BY <1>2, <1>5 DEF LcInv, NamesAre
<1>7. CASE r = "events"
  <2>1. /\ at' \in [Side -> Place] /\ at'["engine"] = [step |-> "shm_open", ring |-> "actions"]
        /\ \A w \in Worker : at'[w] = at[w]
    BY <1>2, <1>7, Goes, SidesAre DEF Steps, Ring
  <2>2. Engines["actions"] = None
    BY <1>1, <1>2, <1>7 DEF LcInv, EngineHas
  <2>3. EngineHas'
    BY <1>3, <1>4, <1>5, <1>7, <2>1, <2>2 DEF EngineHas, At
  <2>4. LcTypeOK' /\ WorkerHas' /\ OpenedHas'
    BY <1>2, <2>1, EngineMakes DEF LcTypeOK
  <2> QED BY <1>4, <1>6, <2>3, <2>4 DEF LcInv
<1>8. CASE r = "actions"
  <2>1. /\ at' \in [Side -> Place] /\ at'["engine"] = [step |-> "up", ring |-> "events"]
        /\ \A w \in Worker : at'[w] = at[w]
    BY <1>2, <1>8, Goes, SidesAre DEF Steps, Ring
  <2>2. Whole(Engines["events"])
    BY <1>1, <1>2, <1>8 DEF LcInv, EngineHas
  <2>3. \A x \in Ring : Whole(Engines[x])
    BY <1>3, <1>8, <2>2 DEF Ring
  <2>4. EngineHas'
    BY <1>4, <1>5, <2>1, <2>3 DEF EngineHas, At
  <2>5. LcTypeOK' /\ WorkerHas' /\ OpenedHas'
    BY <1>2, <2>1, EngineMakes DEF LcTypeOK
  <2> QED BY <1>4, <1>6, <2>4, <2>5 DEF LcInv
<1> QED BY <1>7, <1>8 DEF Ring

LEMMA DestroyKeeps == ASSUME LcInv, Destroy PROVE LcInv'
<1>1. /\ at["worker"].step = "down" /\ Go("engine", "down", "events") /\ UNCHANGED <<bytes, header, config, kills>>
  BY DEF Destroy, At
<1>2. /\ rings' = [rings EXCEPT !["engine"] = NoRings]
      /\ shm' = [r \in Ring |-> IF config.unlinkOnDestroy THEN None ELSE shm[r]]
  <2>1. [r \in Ring |-> IF r \in Ring THEN None ELSE rings["engine"][r]] = NoRings
    BY DEF NoRings
  <2>2. [r \in Ring |-> IF "engine" = "engine" /\ config.unlinkOnDestroy /\ r \in Ring THEN None ELSE shm[r]]
          = [r \in Ring |-> IF config.unlinkOnDestroy THEN None ELSE shm[r]]
    OBVIOUS
  <2> QED BY <2>1, <2>2 DEF Destroy, reset
<1>3. shm' \in MayHave /\ (config.unlinkOnDestroy => \A r \in Ring : shm'[r] = None)
  BY <1>2 DEF LcInv, LcTypeOK, MayHave
<1> QED BY <1>1, <1>2, <1>3, EngineDown

LEMMA StoreFieldKeeps == ASSUME LcInv, NEW f \in Fields, StoreField(f) PROVE LcInv'
<1>1. PICK r \in Ring : r = at["engine"].ring /\ at["engine"].step = "header"
  BY SidesAre DEF StoreField, LcInv, LcTypeOK, Place, At
<1>2. PICK o \in Region : o = Engines[r]
  BY <1>1 DEF LcInv, EngineHas
<1>3. header' = [header EXCEPT ![o] = @ \cup {f}] /\ UNCHANGED <<shm, bytes, config, at, rings, kills>>
  BY <1>1, <1>2 DEF StoreField, Engines
<1>4. /\ header' \in [Region -> SUBSET Fields] /\ header'[o] = header[o] \cup {f}
      /\ \A x \in Region : x # o => header'[x] = header[x]
  <2>1. header \in [Region -> SUBSET Fields]
    BY DEF LcInv, LcTypeOK
  <2>2. PICK h : h = header[o] \cup {f}
    OBVIOUS
  <2>3. h \in SUBSET Fields /\ header' = [header EXCEPT ![o] = h]
    BY <1>3, <2>1, <2>2
  <2> QED BY <2>1, <2>2, <2>3
<1>5. LcTypeOK'
  BY <1>3, <1>4 DEF LcInv, LcTypeOK
<1>6. mappingBytes(config)' = mappingBytes(config)
  BY <1>3, SizesSame
<1>7. bytes[o] = mappingBytes(config)
  BY <1>1, <1>2 DEF LcInv, EngineHas, At
<1>8. SizedFirst'
  <2> SUFFICES ASSUME NEW x \in Region, header'[x] # {} PROVE bytes'[x] = mappingBytes(config)'
    BY DEF SizedFirst
  <2>1. CASE x = o
    BY <1>3, <1>6, <1>7, <2>1
  <2>2. CASE x # o
    BY <1>3, <1>4, <1>6, <2>2 DEF LcInv, SizedFirst
  <2> QED BY <2>1, <2>2
<1>9. Engines' = Engines /\ \A s, p : At(s, p)' <=> At(s, p)
  BY <1>3 DEF Engines, At
<1>10. \A x \in Region : Whole(x) => Whole(x)'
  <2> SUFFICES ASSUME NEW x \in Region, Whole(x) PROVE Whole(x)'
    OBVIOUS
  <2>1. header'[x] = Fields
    <3>1. CASE x = o
      BY <1>4, <3>1 DEF Whole
    <3>2. CASE x # o
      BY <1>4, <3>2 DEF Whole
    <3> QED BY <3>1, <3>2
  <2> QED BY <1>3, <1>6, <2>1 DEF Whole
<1>11. EngineHas'
  <2>1. r = "actions" => Whole(Engines["events"])'
    <3> SUFFICES ASSUME r = "actions" PROVE Whole(Engines["events"])'
      OBVIOUS
    <3>1. Whole(Engines["events"])
      BY <1>1 DEF LcInv, EngineHas
    <3>2. Engines["events"] \in Region
      BY <3>1 DEF Whole
    <3> QED BY <1>9, <1>10, <3>1, <3>2
  <2> QED BY <1>1, <1>3, <1>6, <1>9, <2>1 DEF LcInv, EngineHas, At
<1>12. NamesAre' /\ WorkerHas'
  BY <1>3, <1>9 DEF LcInv, NamesAre, WorkerHas
<1>13. OpenedHas'
  <2>1. ASSUME NEW w \in Worker, NEW x \in Ring PROVE header[rings[w][x]] \subseteq header'[rings[w][x]] \/ rings[w][x] = None
    <3>1. rings[w][x] \in Region \cup {None}
      BY SidesAre DEF LcInv, LcTypeOK, MayHave
    <3> QED BY <1>4, <3>1
  <2> QED BY <1>3, <2>1, WorkersStay
<1> QED BY <1>5, <1>8, <1>11, <1>12, <1>13 DEF LcInv

\* A name goes, by unlink or because somebody clears it.
LEMMA NameGoes ==
  ASSUME LcInv, NEW r \in Ring, shm' = [shm EXCEPT ![r] = None], UNCHANGED <<bytes, header, config, at, rings, kills>>
  PROVE  LcInv'
<1>1. shm' \in MayHave /\ \A x \in Ring : shm'[x] \in {None, shm[x]}
  BY DEF LcInv, LcTypeOK, MayHave
<1>2. LcTypeOK'
  BY <1>1 DEF LcInv, LcTypeOK
<1>3. SizedFirst' /\ mappingBytes(config)' = mappingBytes(config) /\ \A x : Whole(x)' <=> Whole(x)
  BY ObjectsStay
<1>4. EngineHas'
  BY <1>3 DEF LcInv, EngineHas, At, Engines
<1>5. NamesAre'
  BY <1>1 DEF LcInv, NamesAre, Engines
<1>6. WorkerHas' /\ OpenedHas'
  BY DEF LcInv, WorkerHas, OpenedHas, Accepted, At, Engines
<1> QED BY <1>2, <1>3, <1>4, <1>5, <1>6 DEF LcInv

LEMMA LaunchKeeps == ASSUME LcInv, LaunchWorker PROVE LcInv'
<1>1. /\ at["engine"].step = "up" /\ at["worker"].step = "down" /\ Go("worker", "open", "events")
      /\ UNCHANGED <<shm, bytes, header, config, rings, kills>> /\ rings \in [Side -> MayHave] /\ "worker" \in Worker
  BY SidesAre DEF LaunchWorker, LcInv, LcTypeOK, At
<1>2. /\ at' \in [Side -> Place] /\ at'["worker"] = [step |-> "open", ring |-> "events"]
      /\ \A q \in Side : q # "worker" => at'[q] = at[q]
  BY <1>1, Goes, SidesAre DEF LcInv, Steps, Ring
<1>3. LcTypeOK' /\ EngineHas' /\ NamesAre' /\ SizedFirst' /\ at'["engine"] = at["engine"] /\ Engines' = Engines
  BY <1>1, <1>2, EngineStays
<1>4. WorkerHas'
  BY <1>1, <1>2, <1>3 DEF LcInv, WorkerHas, At
<1>5. OpenedHas'
  <2>1. \A r \in Ring : ~Accepted("worker", r)'
    BY <1>1 DEF LcInv, WorkerHas, Accepted, At
  <2> QED BY <1>1, <1>2, <2>1, OthersOpened
<1> QED BY <1>3, <1>4, <1>5 DEF LcInv

\* shm_open gives the engine's worker the engine's object: a name the engine's
\* ring has is its own.
LEMMA OpenKeeps == ASSUME LcInv, NEW w \in Worker, open(w) PROVE LcInv'
<1>1. PICK r \in Ring : r = at[w].ring
  BY SidesAre DEF LcInv, LcTypeOK, Place
<1>2. at[w].step = "open" /\ UNCHANGED <<shm, bytes, header, config, kills>> /\ w \in Side
  BY SidesAre DEF open, At
<1>3. CASE OpenFails(w)
  BY <1>2, <1>3, WorkerDown DEF OpenFails
<1>4. CASE shm[r] # None /\ rings' = [rings EXCEPT ![w][r] = shm[r]] /\ Go(w, "check", r)
  <2>1. PICK o \in Region \cup {None} : o = shm[r]
    BY DEF LcInv, LcTypeOK, MayHave
  <2>2. /\ at' \in [Side -> Place] /\ at'[w] = [step |-> "check", ring |-> r]
        /\ \A q \in Side : q # w => at'[q] = at[q]
    BY <1>2, <1>4, Goes DEF LcInv, Steps
  <2>3. /\ rings' \in [Side -> MayHave] /\ rings'[w][r] = o
        /\ \A x \in Ring : x # r => rings'[w][x] = rings[w][x]
        /\ \A q \in Side : q # w => rings'[q] = rings[q]
    <3>1. rings \in [Side -> MayHave] /\ rings' = [rings EXCEPT ![w][r] = o]
      BY <1>4, <2>1 DEF LcInv, LcTypeOK
    <3> QED BY <1>2, <3>1 DEF MayHave
  <2>4. LcTypeOK' /\ EngineHas' /\ NamesAre' /\ SizedFirst' /\ at'["engine"] = at["engine"] /\ Engines' = Engines
    BY <1>2, <2>2, <2>3, EngineStays
  <2>5. OpenedHas'
    <3>1. ASSUME NEW x \in Ring, Accepted(w, x)' PROVE {"magic", "version"} \subseteq header'[rings'[w][x]]
      <4>1. x # r /\ rings'[w][x] = rings[w][x] /\ rings[w][x] # None
        BY <2>2, <2>3, <3>1 DEF Accepted, At
      <4>2. Accepted(w, x)
        BY <1>2, <4>1 DEF Accepted, At
      <4> QED BY <1>2, <4>1, <4>2 DEF LcInv, OpenedHas
    <3> QED BY <1>2, <2>2, <2>3, <3>1, OthersOpened
  <2>6. WorkerHas'
    <3>1. CASE w = "worker"
      <4>1. at["engine"].step = "up"
        BY <1>2, <3>1 DEF LcInv, WorkerHas, At
      <4>2. Engines[r] \in Region /\ Engines[r] # None
        BY <4>1, LcAssumption DEF LcInv, EngineHas, At, Whole
      <4>3. o = Engines[r]
        BY <1>4, <2>1, <4>2 DEF LcInv, NamesAre
      <4>4. \A x \in Ring : rings'["worker"][x] \in {None, Engines'[x]}
        <5>1. \A x \in Ring : rings["worker"][x] \in {None, Engines[x]}
          BY DEF LcInv, WorkerHas
        <5> QED BY <2>3, <2>4, <3>1, <4>3, <5>1
      <4> QED BY <2>2, <2>4, <3>1, <4>1, <4>4 DEF WorkerHas, At
    <3>2. CASE w # "worker"
      <4>1. at'["worker"] = at["worker"] /\ rings'["worker"] = rings["worker"]
        BY <2>2, <2>3, <3>2, SidesAre
      <4> QED BY <2>4, <4>1 DEF LcInv, WorkerHas, At
    <3> QED BY <3>1, <3>2
  <2> QED BY <2>4, <2>5, <2>6 DEF LcInv
<1> QED BY <1>1, <1>3, <1>4 DEF open

LEMMA CheckKeeps == ASSUME LcInv, NEW w \in Worker, CheckHeader(w) PROVE LcInv'
<1>1. PICK r \in Ring : r = at[w].ring
  BY SidesAre DEF LcInv, LcTypeOK, Place
<1>2. at[w].step = "check" /\ UNCHANGED <<shm, bytes, header, config, kills>> /\ w \in Side
  BY SidesAre DEF CheckHeader, At
<1>3. CASE OpenFails(w)
  BY <1>2, <1>3, WorkerDown DEF OpenFails
<1>4. CASE /\ {"magic", "version"} \subseteq header[rings[w][r]] /\ UNCHANGED rings
           /\ \E step \in {"open", "up"}, q \in Ring : Go(w, step, q)
  <2>1. PICK step \in {"open", "up"}, x \in Ring : Go(w, step, x)
    BY <1>4
  <2>2. /\ at' \in [Side -> Place] /\ at'[w] = [step |-> step, ring |-> x]
        /\ \A q \in Side : q # w => at'[q] = at[q]
    BY <1>2, <2>1, Goes DEF LcInv, Steps
  <2>3. rings' = rings /\ rings \in [Side -> MayHave]
    BY <1>4 DEF LcInv, LcTypeOK
  <2>4. LcTypeOK' /\ EngineHas' /\ NamesAre' /\ SizedFirst' /\ at'["engine"] = at["engine"] /\ Engines' = Engines
    BY <1>2, <2>2, <2>3, EngineStays
  <2>5. OpenedHas'
    <3>1. ASSUME NEW q \in Ring, Accepted(w, q)' PROVE {"magic", "version"} \subseteq header'[rings'[w][q]]
      <4>1. CASE q = r
        BY <1>2, <1>4, <2>3, <4>1
      <4>2. CASE q # r
        <5>1. Accepted(w, q)
          BY <1>1, <2>3, <3>1, <4>2 DEF Accepted
        <5> QED BY <1>2, <2>3, <5>1 DEF LcInv, OpenedHas
      <4> QED BY <4>1, <4>2
    <3> QED BY <1>2, <2>2, <2>3, <3>1, OthersOpened
  <2>6. WorkerHas'
    <3>1. CASE w = "worker"
      BY <1>2, <2>2, <2>3, <2>4, <3>1 DEF LcInv, WorkerHas, At
    <3>2. CASE w # "worker"
      <4>1. at'["worker"] = at["worker"]
        BY <2>2, <3>2, SidesAre
      <4> QED BY <2>3, <2>4, <4>1 DEF LcInv, WorkerHas, At
    <3> QED BY <3>1, <3>2
  <2> QED BY <2>4, <2>5, <2>6 DEF LcInv
<1> QED BY <1>1, <1>3, <1>4 DEF CheckHeader, Ring

LEMMA WorkerEndsKeeps == ASSUME LcInv, NEW w \in Worker, WorkerEnds(w) PROVE LcInv'
<1>1. rings' = [rings EXCEPT ![w] = NoRings]
  <2>1. [r \in Ring |-> IF r \in Ring THEN None ELSE rings[w][r]] = NoRings
    BY DEF NoRings
  <2> QED BY <2>1 DEF WorkerEnds, reset
<1>2. UNCHANGED <<shm, bytes, header, config, kills>> /\ Go(w, "down", "events")
  <2>1. [r \in Ring |-> shm[r]] = shm
    BY DEF LcInv, LcTypeOK, MayHave
  <2>2. w # "engine"
    BY SidesAre
  <2> QED BY <2>1, <2>2 DEF WorkerEnds, reset
<1> QED BY <1>1, <1>2, WorkerDown

LEMMA KillWorkerKeeps == ASSUME LcInv, NEW w \in Worker, KillWorker(w) PROVE LcInv'
<1>1. Go(w, "down", "events")
  BY DEF KillWorker, Go, Down
<1> QED BY <1>1, WorkerDown DEF KillWorker

\* The engine dies: its worker goes on as the orphan, with what it has opened.
LEMMA KillEngineKeeps == ASSUME LcInv, KillEngine PROVE LcInv'
<1> DEFINE orphaned == IF At("worker", "down") THEN "orphan" ELSE "worker"
<1>1. /\ at' = [s \in Side |-> IF s = "orphan" THEN at[orphaned] ELSE Down]
      /\ rings' = [s \in Side |-> IF s = "orphan" THEN rings[orphaned] ELSE NoRings]
      /\ kills' = kills + 1 /\ UNCHANGED <<shm, bytes, header, config>>
  BY DEF KillEngine
<1>2. orphaned \in Worker /\ orphaned \in Side
  BY SidesAre
<1> HIDE DEF orphaned
<1>3. kills \in Nat /\ kills' \in Nat /\ kills' # 0
  BY <1>1 DEF LcInv, LcTypeOK
<1>4. at \in [Side -> Place] /\ rings \in [Side -> MayHave]
  BY DEF LcInv, LcTypeOK
<1>5. /\ at' \in [Side -> Place] /\ at'["engine"] = Down /\ at'["worker"] = Down /\ at'["orphan"] = at[orphaned]
  BY <1>1, <1>2, <1>4, SidesAre, DownIs
<1>6. /\ rings' \in [Side -> MayHave] /\ rings'["engine"] = NoRings /\ rings'["worker"] = NoRings
      /\ rings'["orphan"] = rings[orphaned]
  BY <1>1, <1>2, <1>4, SidesAre, DownIs
<1>7. LcTypeOK'
  BY <1>1, <1>3, <1>5, <1>6 DEF LcInv, LcTypeOK
<1>8. EngineHas'
  BY <1>5, <1>6, DownIs DEF EngineHas, At, Engines, Ring
<1>9. NamesAre'
  BY <1>3, <1>6, DownIs DEF NamesAre, Engines
<1>10. WorkerHas'
  BY <1>5, <1>6, DownIs DEF WorkerHas, At
<1>11. OpenedHas'
  <2> SUFFICES ASSUME NEW q \in Worker, NEW r \in Ring, Accepted(q, r)' PROVE {"magic", "version"} \subseteq header'[rings'[q][r]]
    BY DEF OpenedHas
  <2>1. CASE q = "worker"
    BY <1>6, <2>1, DownIs DEF Accepted
  <2>2. CASE q = "orphan"
    <3>1. Accepted(orphaned, r)
      BY <1>5, <1>6, <2>2 DEF Accepted, At
    <3> QED BY <1>1, <1>2, <1>6, <2>2, <3>1 DEF LcInv, OpenedHas
  <2> QED BY <2>1, <2>2, SidesAre
<1> QED BY <1>1, <1>7, <1>8, <1>9, <1>10, <1>11, ObjectsStay DEF LcInv

LEMMA LcKeeps == LcInv /\ [LcNext]_LcVars => LcInv'
BY MakeKeeps, ShmOpenKeeps, FtruncateKeeps, CreateFailsKeeps, CreatedKeeps, DestroyKeeps, StoreFieldKeeps, NameGoes,
   LaunchKeeps, OpenKeeps, CheckKeeps, WorkerEndsKeeps, KillWorkerKeeps, KillEngineKeeps, NothingMoves
DEF LcNext, unlink, ClearName

-----------------------------------------------------------------------------
(* Where the slots lie.                                                    *)

LEMMA Rounded ==
  ASSUME NEW v \in Nat, NEW a \in Nat \ {0}
  PROVE  alignUp(v, a) \in Nat /\ alignUp(v, a) >= v
<1> DEFINE x == v + a - 1
           q == x \div a
<1>1. x \in Int /\ q \in Int /\ x % a \in 0 .. a - 1 /\ x = q * a + (x % a)
  BY SMT
<1>2. PICK r \in Int : r = x % a /\ r <= a - 1
  BY <1>1
<1>3. q * a \in Int
  BY <1>1
<1>4. q * a >= v
  BY <1>1, <1>2, <1>3
<1> QED BY <1>3, <1>4 DEF alignUp

LEMMA Ceiling ==
  ASSUME NEW n \in Nat, \E p \in PowersOfTwo : n <= p
  PROVE  bit_ceil(n) \in PowersOfTwo /\ n <= bit_ceil(n)
<1> DEFINE Above == {p \in PowersOfTwo : n <= p}
<1>1. PowersOfTwo \subseteq Nat
  BY SMT DEF PowersOfTwo
<1>2. PICK p \in Above : \A q \in Above : p <= q
  <2>1. Above \subseteq Nat /\ Above # {}
    BY <1>1
  <2> HIDE DEF Above
  <2> QED BY <2>1, LeastNat
<1>3. p \in PowersOfTwo /\ n <= p /\ \A q \in PowersOfTwo : n <= q => p <= q
  BY <1>2
<1> QED BY <1>3 DEF bit_ceil

LEMMA SlotsLie == LcInv => SlotsFit
<1> SUFFICES ASSUME LcInv, NEW o \in Region, header[o] = Fields
             PROVE  LET n == slotCount(config)
                    IN /\ n \in PowersOfTwo /\ config.capacity <= n
                       /\ \A i \in 0 .. n - 1 :
                            slotHeader(config, i) + SlotHeaderBytes + config.payload <=
                              IF i = n - 1 THEN bytes[o] ELSE slotHeader(config, i + 1)
  BY DEF SlotsFit
<1> DEFINE n == slotCount(config)
           base == alignUp(HeaderBytes, CacheLine)
           stride == slotStride(config)
           room == SlotHeaderBytes + config.payload
<1>1. config.capacity \in Capacities /\ config.capacity \in Nat /\ config.payload \in Nat
  BY LcAssumption DEF LcInv, LcTypeOK
<1>2. n \in PowersOfTwo /\ config.capacity <= n
  BY <1>1, Ceiling, LcAssumption DEF slotCount
<1>3. n \in Nat
  <2>1. PowersOfTwo \subseteq Nat
    BY SMT DEF PowersOfTwo
  <2> QED BY <1>2, <2>1
<1>4. base \in Nat
  BY Rounded, LcAssumption
<1>5. room \in Nat /\ stride \in Nat /\ stride >= room
  BY <1>1, Rounded, LcAssumption DEF slotStride
<1>6. bytes[o] = base + n * stride
  BY DEF LcInv, SizedFirst, mappingBytes, Fields
<1>7. ASSUME NEW i \in 0 .. n - 1
      PROVE slotHeader(config, i) + SlotHeaderBytes + config.payload <=
              IF i = n - 1 THEN bytes[o] ELSE slotHeader(config, i + 1)
  <2>0. slotHeader(config, i) = base + i * stride /\ slotHeader(config, i + 1) = base + (i + 1) * stride
    BY DEF slotHeader
  <2> HIDE DEF n, base, stride
  <2>1. i \in Int /\ i * stride \in Int /\ (i + 1) * stride = i * stride + stride
    BY <1>3, <1>5
  <2>2. slotHeader(config, i) + SlotHeaderBytes + config.payload <= base + (i + 1) * stride
    BY <1>1, <1>4, <1>5, <2>0, <2>1, LcAssumption
  <2>3. i = n - 1 => bytes[o] = base + (i + 1) * stride
    BY <1>3, <1>6
  <2> QED BY <2>0, <2>2, <2>3
<1> QED BY <1>2, <1>7

LEMMA LcSafe == LcInv => RingsShared
<1> SUFFICES ASSUME LcInv PROVE RingsShared
  OBVIOUS
<1>1. WorkerSeesEnginesRings
  <2> SUFFICES ASSUME NEW r \in Ring, Accepted("worker", r)
               PROVE LET o == rings["worker"][r]
                     IN o = rings["engine"][r] /\ header[o] = Fields /\ bytes[o] = mappingBytes(config)
    BY DEF WorkerSeesEnginesRings
  <2>1. rings["worker"][r] = Engines[r] /\ At("engine", "up")
    BY DEF LcInv, WorkerHas, Accepted
  <2>2. Whole(Engines[r])
    BY <2>1 DEF LcInv, EngineHas
  <2> QED BY <2>1, <2>2 DEF Whole, Engines
<1>2. OrphanSeesRings
  <2> SUFFICES ASSUME NEW r \in Ring, Accepted("orphan", r)
               PROVE LET o == rings["orphan"][r]
                     IN {"magic", "version"} \subseteq header[o] /\ bytes[o] = mappingBytes(config)
    BY DEF OrphanSeesRings
  <2>1. rings["orphan"][r] \in Region
    BY SidesAre DEF Accepted, LcInv, LcTypeOK, MayHave
  <2>2. {"magic", "version"} \subseteq header[rings["orphan"][r]]
    BY SidesAre DEF LcInv, OpenedHas
  <2> QED BY <2>1, <2>2 DEF LcInv, SizedFirst
<1>3. NoNameLeft
  BY DEF NoNameLeft, LcInv, EngineHas, NamesAre
<1> QED BY <1>1, <1>2, <1>3, SlotsLie DEF RingsShared

(* Whichever system calls fail and whichever process is killed when, each   *)
(* alone, a worker maps the two rings of its engine, complete, an orphaned  *)
(* worker rings of full size whose header has magic and version, and an     *)
(* engine that ends by itself leaves no name; the slots lie in the mapping, *)
(* apart (ShmSpscRing::create, open and reset, ShmStrategyTransport::make). *)
THEOREM RingsCorrect == LcSpec => []RingsShared
<1> QED BY LcStart, LcKeeps, LcSafe, PTL DEF LcSpec
=============================================================================
