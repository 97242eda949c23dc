------------------------------ MODULE MCExt2Dir ------------------------------
(* A small instance of Ext2Dir: chunks that hold two records, whose second *)
(* one may begin at 12 or at 16, and two chunks to a page.                 *)
EXTENDS Ext2Dir, TLC

\* New links: short names get one inode and long names the other.  Renames
\* mix them.
MCTargets == [n \in Names |-> IF n \in Short THEN {Max(Inos)} ELSE {Min(Inos)}]

Interchange == Permutations(Long)
=============================================================================
