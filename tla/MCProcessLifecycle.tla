------------------------- MODULE MCProcessLifecycle -------------------------
(* Processes for TLC: a root with one child, and a root that starts two     *)
(* processes of which the first may start the second too.                   *)
EXTENDS ProcessLifecycle

CONSTANTS root, p1, p2, m1, m2

MCPair == {<<root, p1>>}
MCTriangle == {<<root, p1>>, <<root, p2>>, <<p1, p2>>}
MCStatus == {-1, 7}
=============================================================================
