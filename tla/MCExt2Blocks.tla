----------------------------- MODULE MCExt2Blocks -----------------------------
(* Two tasks, three files and a few blocks.  The first file has blocks     *)
(* that share an indirect block, and blocks behind two levels of them; the *)
(* second one, which is append-only, competes for the same few blocks; the *)
(* third one is only created and deleted, as the first one may be.         *)
EXTENDS Ext2Blocks, TLC

CONSTANTS i1, i2, i3

MCFileBlocks == [i \in Inodes |-> IF i = i1 THEN {1, 2, 3, 4}
                                  ELSE IF i = i2 THEN {0} ELSE {}]
MCSizes == [i \in Inodes |-> IF i = i1 THEN {2, 4} ELSE {}]

Interchange == Permutations(Blocks) \cup Permutations(Tasks)
=============================================================================
