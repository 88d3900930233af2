--------------------------- MODULE MCKernelCalls ---------------------------
(* The calls of user processes that wait for each other in the kernel: exec, *)
(* wait and exit, and reads and writes of one file.  They share no variable *)
(* and are explored in one run: part is the one that runs, the other stays  *)
(* as it starts.                                                            *)
EXTENDS MCProcessLifecycle, InodeRwLock

CONSTANTS t1, t2, t3

(* A file of three chunks in two sectors; calls for the whole of the first *)
(* sector, and for more than is left of the file from the middle of it.    *)
MCCall == {<<0, 2>>, <<1, 4>>}

VARIABLE part

CallsInit == part \in {"process", "file"} /\ PlInit /\ Init

Only(p) ==
  /\ part = p /\ UNCHANGED part
  /\ p # "process" => UNCHANGED plVars
  /\ p # "file" => UNCHANGED vars

CallsNext ==
  \/ Only("process") /\ PlNext
  \/ Only("file") /\ Next

(* The fairness of each specification, in the behaviours that run it. *)
CallsSpec ==
  /\ CallsInit /\ [][CallsNext]_<<part, plVars, vars>>
  /\ \A p \in Proc : WF_plVars(Only("process") /\ KernelStep(p))
  /\ \A t \in Thread : WF_vars(Only("file") /\ Running(t))
=============================================================================
