---------------------------- MODULE MCExt2Namei ----------------------------
(* Small instances of Ext2Namei.  Inode numbers, names and tasks are       *)
(* interchangeable, the root directory's number aside.                     *)
EXTENDS Ext2Namei, TLC

Interchange ==
    Permutations(Inos \ {Root}) \cup Permutations(Names) \cup Permutations(Procs)
=============================================================================
