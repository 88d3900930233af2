---------------------------- MODULE MCFileSystem ----------------------------
(* Two processes.  Both create and open `fa'; one of them has another file, *)
(* which it removes also while it has it open; `bad' is a name that is too  *)
(* long.  No file is removed while another process is between looking it up *)
(* and opening its inode: dir_lookup takes no lock, and a file that is      *)
(* removed there is opened after its sectors were given to another one.     *)
EXTENDS FileSystem, TLC

CONSTANTS t1, t2, fa, fb, bad

MCUses == (t1 :> {fa, fb}) @@ (t2 :> {fa, bad})
MCRemoves == (t1 :> {fb}) @@ (t2 :> {})
=============================================================================
