-------------------------- MODULE MCServicesFiles --------------------------
(* Two protocols in which what one side believes of the other must be kept *)
(* right over long histories: the worker's services and wakeups, and the   *)
(* inodes and entries that processes share.  They share no variable and    *)
(* are explored in one run: part is the one that runs, the other stays as  *)
(* it starts.                                                               *)
EXTENDS MCStrategyWorker, MCFileSystem

VARIABLE part

ServicesFilesInit == part \in {"worker", "files"} /\ SwInit /\ FsInit

Only(p) ==
  /\ part = p /\ UNCHANGED part
  /\ p # "worker" => UNCHANGED swVars
  /\ p # "files" => UNCHANGED FsVars

ServicesFilesNext ==
  \/ Only("worker") /\ SwNext
  \/ Only("files") /\ FsNext
=============================================================================
