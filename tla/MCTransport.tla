---------------------------- MODULE MCTransport ----------------------------
(* The pieces between engine and worker that share no variable, explored in *)
(* one run: the creation and opening of the rings, the codec, and a worker  *)
(* whose frames may not decode and whose notifications may fail.  part is   *)
(* the piece that runs; the others stay as they start.                      *)
EXTENDS RingLifecycle, WireCodec, MCStrategyWorker, Bitwise

VARIABLE part

\* toIndex: the mask of a power of two.  It leaves every slot its own index, and
\* takes the one after the last to the first.
slotOf(n, idx) == idx & (n - 1)
ASSUME MaskKeepsSlots ==
  \A capacity \in Capacities :
    LET n == bit_ceil(capacity)
    IN (\A i \in 0 .. n - 1 : slotOf(n, i) = i) /\ slotOf(n, n) = 0

\* One initial state of the lifecycle for when it does not run.
LcOne == config = [capacity |-> 2, payload |-> 3, unlinkOnDestroy |-> TRUE]

TransportInit ==
  /\ part \in {"lifecycle", "codec", "worker"}
  /\ WcInit /\ SwInit
  /\ IF part = "lifecycle" THEN LcInit ELSE LcInit /\ LcOne

Only(p) ==
  /\ part = p /\ UNCHANGED part
  /\ p # "lifecycle" => UNCHANGED LcVars
  /\ p # "codec" => UNCHANGED wcVars
  /\ p # "worker" => UNCHANGED swVars

TransportNext ==
  \/ Only("lifecycle") /\ LcNext
  \/ Only("codec") /\ WcNext
  \/ Only("worker") /\ SwNext
=============================================================================
