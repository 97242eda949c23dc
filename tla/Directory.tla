------------------------------ MODULE Directory ------------------------------
(***************************************************************************)
(* What a directory promises to the file system above it: a function from  *)
(* names to inode numbers, 0 for a name that is not there.  An operation   *)
(* adds, removes, changes or moves one name and touches no other one.  A   *)
(* page that cannot be read ends the promise.                              *)
(***************************************************************************)
CONSTANTS Names,   \* the names, "." and ".." among them
          Fixed,   \* the names that are always there
          Inos     \* inode numbers, 0 not among them

VARIABLES dir,     \* the inode number of every name
          damaged  \* a page was lost

vars == <<dir, damaged>>

Init ==
  /\ dir \in [Names -> Inos \cup {0}]
  /\ \A n \in Names : dir[n] # 0 <=> n \in Fixed
  /\ damaged = FALSE

\* d with the inode i for the name n.
Put(d, n, i) == [d EXCEPT ![n] = i]

\* d with the name n moved to k.
Move(d, n, k) == [d EXCEPT ![k] = d[n], ![n] = 0]

\* The directories that one operation can turn d into: a name is added or
\* given another inode, removed, or moved to another name.
Results(d) ==
  {Put(d, n, i) : n \in Names, i \in Inos}
    \cup {Put(d, n, 0) : n \in Names \ Fixed}
    \cup {Move(d, n, k) : n \in {n \in Names \ Fixed : d[n] # 0}, k \in Names \ Fixed}

Operate ==
  /\ ~damaged /\ UNCHANGED damaged
  /\ dir' \in Results(dir)

Damage ==
  /\ damaged'
  /\ dir' \in [Names -> Inos \cup {0}]

Next == Operate \/ Damage

Spec == Init /\ [][Next]_vars
=============================================================================
