--------------------------- MODULE MCShmSpscRing ---------------------------
(* Small instances of the ring for TLC: two payloads of different lengths  *)
(* that fit a slot and one that does not.                                  *)
EXTENDS ShmSpscRing, TLC

CONSTANTS short, long, tooLong

MCPayload == {short, long, tooLong}
MCSizeOf == (short :> 1) @@ (long :> 2) @@ (tooLong :> 3)
=============================================================================
