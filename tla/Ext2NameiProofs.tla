--------------------------- MODULE Ext2NameiProofs ----------------------------
(***************************************************************************)
(* Theorems about Ext2Namei, for any number of inodes, names and tasks, as *)
(* long as the device reports no write error (~SyncErrors).  The argument  *)
(* is an account of the links: which name, and which call that is under    *)
(* way, each link that an inode counts belongs to.                         *)
(***************************************************************************)
EXTENDS Ext2Namei, FiniteSetTheorems, TLAPS

-----------------------------------------------------------------------------
(* Who holds which lock                                                    *)

\* From lookup_hash on a call has the i_mutex of its directories, and from
\* the body of the operation on that of the inode it unlinks, links or
\* replaces.
InBody == {"body", "new", "makeEmpty", "addLink", "dec", "delOld"}
Found == InBody \cup {"lockTarget"}
Inside == Found \cup {"lookup"}

TaskRec ==
    [pc : Pcs, op : Ops \cup {"none"},
     dir : Inos \cup {None}, name : Names \cup {None},
     from : Inos \cup {None}, fname : Names \cup {None},
     ino : Inos \cup {None}, tgt : Inos \cup {None},
     trap : Inos \cup {None}]

NodeRec == [type : {"free", "file", "dir"}, nlink : Int, dead : BOOLEAN]

\* The types, without the bounds of the link counts.
TreeTypes ==
    /\ bitmap \subseteq Inos
    /\ node \in [Inos -> NodeRec]
    /\ entry \in [Inos -> [Names -> Inos \cup {None}]]
    /\ dotdot \in [Inos -> Inos \cup {None}]
    /\ dparent \in [Inos -> Inos \cup {None}]

CallTypes ==
    /\ imutex \in [Inos -> Procs \cup {None}]
    /\ renameMutex \in Procs \cup {None}
    /\ task \in [Procs -> TaskRec]

LockOf(p) ==
    LET t == task[p] IN
    /\ t.pc # "idle" => t.dir \in Inos /\ t.op \in Ops
    /\ t.op = "rename" => t.from \in Inos
    /\ t.pc = "idle" => t = Idle
    /\ t.pc \in {"dirFirst", "fromFirst", "second"} => TwoDirs(p)
    /\ t.pc = "second" => imutex[t.dir] = p \/ imutex[t.from] = p
    /\ t.pc \in Inside => imutex[t.dir] = p /\ (t.op = "rename" => imutex[t.from] = p)
    /\ t.pc = "lockTarget" => t.tgt # None
    /\ t.pc \in InBody /\ t.tgt # None =>
         imutex[t.tgt] = p /\ t.tgt # t.dir /\ (t.op = "rename" => t.tgt # t.from)

LockInv == \A p \in Procs : LockOf(p)

-----------------------------------------------------------------------------
(* What a call knows of the directories it works on                        *)

\* What is at the names of a call, step by step.
PlaceOf(p) ==
    LET t == task[p]
        there == entry[t.dir][t.name]
        old == entry[t.from][t.fname]
    IN
    /\ t.op \notin {"rename"} => t.from = None
    /\ t.pc \in Found => t.name \in Names /\ (t.op = "rename" => t.fname \in Names)
    /\ t.pc \in {"makeEmpty", "new"} => t.op = "mkdir"
    /\ t.pc = "addLink" => t.op \in {"create", "mkdir", "link"}
    /\ t.pc = "dec" => t.op \in {"unlink", "rmdir", "rename"}
    /\ t.pc = "delOld" => t.op = "rename"
    /\ t.pc \in Found /\ t.op \in {"create", "mkdir"} => there = None /\ t.tgt = None
    /\ t.op = "link" => t.ino # None
    /\ t.pc \in Found /\ t.op = "link" => there = None /\ t.tgt = t.ino /\ ~IsDir(t.ino)
    /\ t.pc \in Found /\ t.op \in {"unlink", "rmdir"} =>
         /\ t.tgt # None /\ (IsDir(t.tgt) <=> t.op = "rmdir")
         /\ there = IF t.pc = "dec" THEN None ELSE t.tgt
    /\ t.pc \in Found /\ t.op = "rename" =>
         /\ t.ino # None /\ old = t.ino /\ t.ino # t.tgt
         /\ t.tgt # None => (IsDir(t.tgt) <=> IsDir(t.ino))
         /\ there = IF t.pc \in {"dec", "delOld"} THEN t.ino ELSE t.tgt
         /\ t.dir = t.from => t.name # t.fname
    /\ t.pc \in {"makeEmpty", "addLink"} =>
         t.ino # None /\ (IsDir(t.ino) <=> t.op = "mkdir")
    /\ t.pc = "dec" => t.tgt # None
    /\ t.pc \in {"dec", "delOld"} /\ t.tgt # None /\ IsDir(t.tgt) => entry[t.tgt] = Empty

PlaceInv == \A p \in Procs : PlaceOf(p)

\* Rename has taken the last link of directory d, and not marked it dead yet.
Going(d) == \E q \in Procs : task[q].pc = "delOld" /\ task[q].tgt = d

\* The inode of a mkdir under way.
Fresh(i) == \E q \in Procs :
    task[q].op = "mkdir" /\ task[q].pc \in {"makeEmpty", "addLink"} /\ task[q].ino = i

Alive(d) == node[d].nlink > 0 \/ node[d].dead \/ Going(d)

\* A call's inodes are allocated; the directories it walked to are
\* directories, and until they are removed they have links.
RefOf(p) ==
    LET t == task[p] IN
    /\ {t.dir, t.from, t.ino, t.tgt} \subseteq bitmap \cup {None}
    /\ \A d \in {t.dir, t.from} \ {None} :
         /\ IsDir(d) /\ ~Fresh(d) /\ Alive(d)
         /\ t.pc \in Found => node[d].nlink > 0 /\ ~node[d].dead

RefInv == \A p \in Procs : RefOf(p)

-----------------------------------------------------------------------------
(* The account of the links                                                *)

\* The call of task p counts its name for inode i: it has raised the count
\* before the name is there, or has not lowered it since the name is gone.
Pending(p, i) ==
    \/ task[p].pc \in {"makeEmpty", "addLink"} /\ task[p].ino = i
    \/ task[p].pc = "dec" /\ task[p].tgt = i

\* The old name of a rename that has its new name is not counted.
Leaving(p) == task[p].op = "rename" /\ task[p].pc \in {"dec", "delOld"}

Counts(d, n, i) ==
    \/ /\ entry[d][n] = i
       /\ ~\E p \in Procs : Leaving(p) /\ task[p].from = d /\ task[p].fname = n
    \/ \E p \in Procs : Pending(p, i) /\ task[p].dir = d /\ task[p].name = n

CountedNames(i) == {dn \in Inos \X Names : Counts(dn[1], dn[2], i)}

\* Task p has a link of its parent for a directory that has no name there.
PendingDir(p) ==
    \/ task[p].op = "mkdir" /\ task[p].pc \in {"new", "makeEmpty", "addLink"}
    \/ task[p].op = "rmdir" /\ task[p].pc = "dec"

HasSub(d, n) ==
    \/ entry[d][n] # None /\ IsDir(entry[d][n])
    \/ \E p \in Procs : PendingDir(p) /\ task[p].dir = d /\ task[p].name = n

CountedDirs(d) == {n \in Names : HasSub(d, n)}

LiveDir(d) ==
    /\ node[d].nlink = 2 + Cardinality(CountedDirs(d))
    /\ IF d = Root THEN CountedNames(d) = {}
                   ELSE \E dn \in Inos \X Names : CountedNames(d) = {dn}

GoneDir(d) ==
    /\ node[d].nlink = 0
    /\ CountedNames(d) = {}
    /\ d # Root /\ entry[d] = Empty

Account(i) ==
    IF IsDir(i) THEN LiveDir(i) \/ GoneDir(i)
                ELSE node[i].nlink = Cardinality(CountedNames(i))

AccountInv == \A i \in bitmap : Account(i)

FreeInv ==
    /\ Root \in bitmap /\ IsDir(Root)
    /\ FreedUnreachable
    /\ \A i \in Inos \ bitmap : node[i] = FreeNode

\* Only directories have entries; new and removed ones have none.
EmptyInv ==
    /\ \A i \in Inos : ~IsDir(i) \/ Fresh(i) => entry[i] = Empty
    /\ RemovedStaysEmpty

MaxInv ==
    /\ LinkMax >= 2
    /\ \A i \in Inos : node[i].nlink <= LinkMax

Base == TreeTypes /\ CallTypes /\ LockInv
Inv == /\ Base /\ PlaceInv /\ RefInv
       /\ AccountInv /\ FreeInv /\ EmptyInv /\ MaxInv
       /\ ~SyncErrors

-----------------------------------------------------------------------------
(* The steps of one call, as what they do to its task                      *)

\* Only task p's call goes on.
Moves(p) ==
    /\ task' \in [Procs -> TaskRec]
    /\ \A q \in Procs \ {p} : task'[q] = task[q]

\* ... to the next place in the code, working on inode i and on the names it
\* had found.
SameCall(p) ==
    /\ task'[p].op = task[p].op
    /\ task'[p].dir = task[p].dir /\ task'[p].name = task[p].name
    /\ task'[p].from = task[p].from /\ task'[p].fname = task[p].fname
    /\ task'[p].tgt = task[p].tgt

GoesWith(p, i, pc) == Moves(p) /\ SameCall(p) /\ task'[p].ino = i /\ task'[p].pc = pc

Goes(p, pc) == GoesWith(p, task[p].ino, pc)

\* ... back to the caller, without locks.
Returns(p) ==
    /\ Moves(p)
    /\ task'[p] = Idle
    /\ imutex' \in [Inos -> Procs \cup {None}]
    /\ renameMutex' \in Procs \cup {None}
    /\ \A i \in Inos : imutex'[i] = IF imutex[i] = p THEN None ELSE imutex[i]

\* ... and takes the i_mutex of i.
Takes(p, i) ==
    /\ i \in Inos /\ imutex[i] = None
    /\ imutex' \in [Inos -> Procs \cup {None}]
    /\ imutex'[i] = p
    /\ \A j \in Inos \ {i} : imutex'[j] = imutex[j]

LEMMA IdleType ==
    /\ Idle \in TaskRec
    /\ Idle.pc = "idle" /\ Idle.op = "none" /\ Idle.dir = None /\ Idle.from = None
    /\ Idle.ino = None /\ Idle.tgt = None
BY DEF Idle, TaskRec, Pcs

LEMMA OneTask ==
    ASSUME CallTypes, NEW p \in Procs, NEW s \in TaskRec, task' = [task EXCEPT ![p] = s]
    PROVE  Moves(p) /\ task'[p] = s
BY DEF CallTypes, Moves

LEMMA GotoStep ==
    ASSUME CallTypes, NEW p \in Procs, NEW pc \in Pcs, Goto(p, pc)
    PROVE  Goes(p, pc)
<1> DEFINE s == [task[p] EXCEPT !.pc = pc]
<1>1. s \in TaskRec /\ task' = [task EXCEPT ![p] = s]
  BY DEF CallTypes, TaskRec, Goto
<1>2. Moves(p) /\ task'[p] = s
  BY <1>1, OneTask
<1> QED
  BY <1>2 DEF Goes, GoesWith, SameCall, CallTypes, TaskRec

LEMMA ReturnStep ==
    ASSUME CallTypes, NEW p \in Procs, Return(p)
    PROVE  Returns(p)
<1>1. Moves(p) /\ task'[p] = Idle
  BY OneTask, IdleType DEF Return
<1> QED
  BY <1>1 DEF CallTypes, Return, Returns

LEMMA TakeStep ==
    ASSUME CallTypes, NEW p \in Procs, NEW i \in Inos, Take(p, i)
    PROVE  Takes(p, i)
BY DEF CallTypes, Take, Takes

LEMMA StartStep ==
    ASSUME TreeTypes, CallTypes, NEW p \in Procs, Start(p)
    PROVE  /\ Moves(p)
           /\ task[p] = Idle /\ task'[p].pc = "lock" /\ task'[p].op \in Ops
           /\ task'[p].dir \in Walked
           /\ task'[p].from \in Walked \cup {None}
           /\ task'[p].op = "rename" <=> task'[p].from # None
           /\ task'[p].ino \in Linked \cup {None}
           /\ task'[p].op = "link" => task'[p].ino # None
           /\ task'[p].tgt = None
           /\ UNCHANGED <<Tree, imutex, renameMutex>>
<1>0. /\ task[p] = Idle /\ UNCHANGED <<Tree, imutex, renameMutex>>
      /\ Walked \subseteq Inos /\ Linked \subseteq Inos /\ None \notin Inos
  BY ConstantsOK DEF Start, locks, Walked, Linked, TreeTypes
<1>1. PICK d \in Walked :
       LET call(o) == [Idle EXCEPT !.pc = "lock", !.op = o, !.dir = d]
       IN  \/ \E o \in Ops \ {"link", "rename"} :
                task' = [task EXCEPT ![p] = call(o)]
           \/ \E i \in Linked :
                task' = [task EXCEPT ![p] = [call("link") EXCEPT !.ino = i]]
           \/ \E f \in Walked :
                task' = [task EXCEPT ![p] = [call("rename") EXCEPT !.from = f]]
  BY DEF Start
<1> DEFINE call(o) == [Idle EXCEPT !.pc = "lock", !.op = o, !.dir = d]
<1>2. CASE \E o \in Ops \ {"link", "rename"} : task' = [task EXCEPT ![p] = call(o)]
  <2>1. PICK o \in Ops \ {"link", "rename"} : task' = [task EXCEPT ![p] = call(o)]
    BY <1>2
  <2>2. call(o) \in TaskRec
    BY <1>0 DEF Idle, TaskRec, Pcs
  <2>3. Moves(p) /\ task'[p] = call(o)
    BY <2>1, <2>2, OneTask
  <2> QED
    BY <1>0, <2>3 DEF Idle
<1>3. CASE \E i \in Linked : task' = [task EXCEPT ![p] = [call("link") EXCEPT !.ino = i]]
  <2>1. PICK i \in Linked : task' = [task EXCEPT ![p] = [call("link") EXCEPT !.ino = i]]
    BY <1>3
  <2>2. [call("link") EXCEPT !.ino = i] \in TaskRec
    BY <1>0 DEF Idle, TaskRec, Pcs, Ops
  <2>3. Moves(p) /\ task'[p] = [call("link") EXCEPT !.ino = i]
    BY <2>1, <2>2, OneTask
  <2> QED
    BY <1>0, <2>3 DEF Idle, Ops
<1>4. CASE \E f \in Walked : task' = [task EXCEPT ![p] = [call("rename") EXCEPT !.from = f]]
  <2>1. PICK f \in Walked : task' = [task EXCEPT ![p] = [call("rename") EXCEPT !.from = f]]
    BY <1>4
  <2>2. [call("rename") EXCEPT !.from = f] \in TaskRec
    BY <1>0 DEF Idle, TaskRec, Pcs, Ops
  <2>3. Moves(p) /\ task'[p] = [call("rename") EXCEPT !.from = f]
    BY <2>1, <2>2, OneTask
  <2> QED
    BY <1>0, <2>3 DEF Idle, Ops
<1> QED
  BY <1>1, <1>2, <1>3, <1>4

LEMMA RankStep ==
    ASSUME CallTypes, NEW p \in Procs, RankParents(p)
    PROVE  /\ Goes(p, "dirFirst") \/ Goes(p, "fromFirst")
           /\ UNCHANGED <<Tree, imutex, ops>> /\ renameMutex' = p
<1>1. \A a, d : d_ancestor(a, d) \in Inos \cup {None}
  <2> TAKE a, d
  <2> DEFINE through == {c \in Inos \ {Root} : c \in Upwards(dparent, d) /\ dparent[c] = a}
  <2>1. through # {} => (CHOOSE c \in through : TRUE) \in through
    OBVIOUS
  <2> QED
    BY <2>1 DEF d_ancestor
<1>2. PICK pc \in {"dirFirst", "fromFirst"}, trap \in Inos \cup {None} :
        task' = [task EXCEPT ![p].pc = pc, ![p].trap = trap]
  BY <1>1 DEF RankParents
<1> DEFINE s == [task[p] EXCEPT !.pc = pc, !.trap = trap]
<1>3. s \in TaskRec
  BY ZenonT(60) DEF CallTypes, TaskRec, Pcs
<1>0. task' = [task EXCEPT ![p] = s]
  BY <1>2 DEF CallTypes
<1>4. Moves(p) /\ task'[p] = s
  BY <1>0, <1>3, OneTask
<1>5. Goes(p, pc)
  BY <1>4 DEF Goes, GoesWith, SameCall, CallTypes, TaskRec
<1> QED
  BY <1>5 DEF RankParents

LEMMA AdmitStep ==
    ASSUME TreeTypes, CallTypes, NEW p \in Procs, LockOf(p), Admit(p)
    PROVE  LET t == task[p]
               s == task'[p]
               child == entry[t.dir][s.name]
               source == entry[t.from][s.fname]
           IN  /\ Moves(p) /\ UNCHANGED <<Tree, imutex, renameMutex>>
               /\ t.pc = "lookup" /\ s.op = t.op /\ s.dir = t.dir /\ s.from = t.from
               /\ s.name \in Names /\ (t.op = "rename" => s.fname \in Names)
               /\ s.ino = IF t.op = "rename" THEN source ELSE t.ino
               /\ s.tgt = IF t.op = "link" THEN t.ino ELSE child
               /\ s.pc = IF s.tgt # None THEN "lockTarget" ELSE "body"
               /\ ~node[t.dir].dead
               /\ t.op \in {"create", "mkdir", "link"} => child = None
               /\ t.op = "link" => ~IsDir(t.ino)
               /\ t.op \in {"unlink", "rmdir"} =>
                    child # None /\ (IsDir(child) <=> t.op = "rmdir")
               /\ t.op = "rename" =>
                    /\ source # None /\ source # child /\ ~node[t.from].dead
                    /\ child # None => (IsDir(child) <=> IsDir(source))
<1> DEFINE t == task[p]
<1>0. /\ t \in TaskRec /\ t.pc = "lookup" /\ t.op \in Ops /\ t.dir \in Inos
      /\ t.op = "rename" => t.from \in Inos
      /\ UNCHANGED <<Tree, imutex, renameMutex>>
  BY DEF CallTypes, LockOf, Admit, locks
<1>1. PICK nm \in LastNames(p) :
         LET child  == entry[t.dir][nm[1]]
             source == Source(p, nm[2])
             tgt    == IF t.op = "link" THEN t.ino ELSE child
         IN  /\ Allowed(t, source, child)
             /\ task' = [task EXCEPT ![p] =
              [t EXCEPT !.name = nm[1], !.fname = nm[2], !.trap = None,
                        !.ino = IF t.op = "rename" THEN source ELSE @,
                        !.tgt = tgt,
                        !.pc = IF tgt # None THEN "lockTarget" ELSE "body"]]
  BY DEF Admit
<1> DEFINE n == nm[1]
           m == nm[2]
           child == entry[t.dir][n]
           source == Source(p, m)
           tgt == IF t.op = "link" THEN t.ino ELSE child
           ino == IF t.op = "rename" THEN source ELSE t.ino
           pc == IF tgt # None THEN "lockTarget" ELSE "body"
           s == [t EXCEPT !.name = n, !.fname = m, !.trap = None, !.ino = ino,
                          !.tgt = tgt, !.pc = pc]
<1>2. n \in Names /\ m \in Names \cup {None} /\ (t.op = "rename" => m \in Names)
  BY DEF LastNames
<1>3. child \in Inos \cup {None}
  BY <1>0, <1>2 DEF TreeTypes
<1>4. t.op = "rename" => source = entry[t.from][m] /\ source \in Inos \cup {None}
  BY <1>0, <1>2, ConstantsOK DEF TreeTypes, Source
<1>5. tgt \in Inos \cup {None} /\ ino \in Inos \cup {None} /\ pc \in Pcs
  BY <1>0, <1>3, <1>4 DEF TaskRec, Pcs
<1>6. Allowed(t, source, child) /\ task' = [task EXCEPT ![p] = s]
  BY <1>1
<1> HIDE DEF n, m, child, source, tgt, ino, pc
<1>7. s \in TaskRec
  BY <1>0, <1>2, <1>5 DEF TaskRec
<1>8. Moves(p) /\ task'[p] = s
  BY <1>6, <1>7, OneTask
<1>9. /\ s.op = t.op /\ s.dir = t.dir /\ s.from = t.from /\ s.name = n /\ s.fname = m
      /\ s.ino = ino /\ s.tgt = tgt /\ s.pc = pc
  BY <1>0 DEF TaskRec
<1>10. /\ ~node[t.dir].dead
       /\ t.op \in {"create", "mkdir", "link"} => child = None
       /\ t.op = "link" => ~IsDir(t.ino)
       /\ t.op \in {"unlink", "rmdir"} => child # None /\ (IsDir(child) <=> t.op = "rmdir")
       /\ t.op = "rename" =>
            /\ source # None /\ source # child /\ ~node[t.from].dead
            /\ child # None => (IsDir(child) <=> IsDir(source))
  <2>1. CASE t.op \in {"create", "mkdir"}
    BY <1>6, <2>1 DEF Allowed, may_create
  <2>2. CASE t.op = "link"
    BY <1>6, <2>2 DEF Allowed, may_create
  <2>3. CASE t.op = "unlink"
    BY <1>6, <2>3 DEF Allowed, may_delete, IsDir
  <2>4. CASE t.op = "rmdir"
    BY <1>6, <2>4 DEF Allowed, may_delete, IsDir
  <2>5. CASE t.op = "rename"
    BY <1>6, <2>5 DEF Allowed, MayRename, may_delete, may_create, IsDir
  <2> QED
    BY <1>0, <2>1, <2>2, <2>3, <2>4, <2>5 DEF Ops
<1>11. /\ tgt = IF t.op = "link" THEN t.ino ELSE child
       /\ ino = IF t.op = "rename" THEN source ELSE t.ino
       /\ pc = IF tgt # None THEN "lockTarget" ELSE "body"
       /\ child = entry[t.dir][n]
  BY DEF tgt, ino, pc, child
<1> HIDE DEF s
<1> QED
  BY <1>0, <1>2, <1>4, <1>8, <1>9, <1>10, <1>11

LEMMA NewStep ==
    ASSUME CallTypes, NEW p \in Procs, NEW i \in Inos, NEW pc \in Pcs,
           task' = [task EXCEPT ![p].ino = i, ![p].pc = pc]
    PROVE  GoesWith(p, i, pc)
<1> DEFINE s == [task[p] EXCEPT !.ino = i, !.pc = pc]
<1>1. s \in TaskRec
  BY DEF CallTypes, TaskRec
<1>2. task' = [task EXCEPT ![p] = s]
  BY DEF CallTypes
<1>3. Moves(p) /\ task'[p] = s
  BY <1>1, <1>2, OneTask
<1> QED
  BY <1>3 DEF GoesWith, SameCall, CallTypes, TaskRec

-----------------------------------------------------------------------------
(* The locks                                                               *)

\* Task p takes no lock away from the others.
Polite(p) == \A q \in Procs \ {p} : \A i \in Inos : imutex[i] = q => imutex'[i] = q

LEMMA PoliteSteps ==
    ASSUME CallTypes, NEW p \in Procs
    PROVE  /\ Returns(p) => Polite(p)
           /\ imutex' = imutex => Polite(p)
           /\ \A i \in Inos : Takes(p, i) => Polite(p)
BY ConstantsOK DEF CallTypes, Returns, Takes, Polite

LEMMA LockOthers ==
    ASSUME CallTypes, LockInv, NEW p \in Procs, Moves(p), Polite(p)
    PROVE  \A q \in Procs \ {p} : LockOf(q)'
<1> SUFFICES ASSUME NEW q \in Procs \ {p}
             PROVE  LockOf(q)'
  OBVIOUS
<1>1. LockOf(q) /\ task'[q] = task[q] /\ task[q] \in TaskRec
  BY DEF LockInv, Moves, CallTypes
<1>2. \A i \in Inos : imutex[i] = q => imutex'[i] = q
  BY DEF Polite
<1>3. TwoDirs(q)' <=> TwoDirs(q)
  BY <1>1 DEF TwoDirs
<1> QED
  BY <1>1, <1>2, <1>3 DEF LockOf, TwoDirs, TaskRec, Inside, Found, InBody

LEMMA LockReturns ==
    ASSUME CallTypes, LockInv, NEW p \in Procs, Returns(p)
    PROVE  LockInv' /\ CallTypes'
<1>1. \A q \in Procs \ {p} : LockOf(q)'
  BY LockOthers, PoliteSteps DEF Returns
<1>2. LockOf(p)'
  BY IdleType DEF Returns, LockOf, Inside, Found, InBody
<1>3. CallTypes'
  BY DEF CallTypes, Returns, Moves
<1> QED
  BY <1>1, <1>2, <1>3 DEF LockInv

(* A step in the body of an operation.                                     *)
LEMMA LockGoes ==
    ASSUME CallTypes, LockInv, NEW p \in Procs, NEW i, NEW pc \in InBody,
           task[p].pc \in InBody, GoesWith(p, i, pc), UNCHANGED <<imutex, renameMutex>>
    PROVE  LockInv' /\ CallTypes'
<1>1. \A q \in Procs \ {p} : LockOf(q)'
  BY LockOthers, PoliteSteps DEF GoesWith
<1>2. LockOf(p)
  BY DEF LockInv
<1>3. LockOf(p)'
  BY <1>2 DEF LockOf, GoesWith, SameCall, Inside, Found, InBody
<1>4. CallTypes'
  BY DEF CallTypes, GoesWith, Moves
<1> QED
  BY <1>1, <1>3, <1>4 DEF LockInv

LEMMA LockApproach ==
    ASSUME TreeTypes, CallTypes, LockInv, NEW p \in Procs,
           \/ Start(p) \/ LockParent(p) \/ RankParents(p) \/ LockFirst(p)
           \/ LockSecond(p) \/ Admit(p) \/ LockTarget(p)
    PROVE  LockInv' /\ CallTypes'
<1>0. LockOf(p) /\ task[p] \in TaskRec
  BY DEF LockInv, CallTypes
<1>1. CASE Start(p)
  <2>1. /\ Moves(p) /\ task'[p].pc = "lock" /\ task'[p].op \in Ops /\ task'[p].dir \in Inos
        /\ task'[p].op = "rename" => task'[p].from \in Inos
        /\ UNCHANGED <<imutex, renameMutex>>
    BY <1>1, StartStep DEF TreeTypes, Walked, Linked
  <2>2. \A q \in Procs \ {p} : LockOf(q)'
    BY <2>1, LockOthers, PoliteSteps
  <2>3. LockOf(p)'
    BY <2>1 DEF LockOf, Inside, Found, InBody
  <2>4. CallTypes'
    BY <2>1 DEF CallTypes, Moves
  <2> QED
    BY <2>2, <2>3, <2>4 DEF LockInv
<1>2. CASE LockParent(p)
  <2>1. task[p].pc = "lock" /\ task[p].dir \in Inos /\ ~TwoDirs(p)
    BY <1>0, <1>2 DEF LockParent, LockOf
  <2>2. Takes(p, task[p].dir) /\ Goes(p, "lookup") /\ renameMutex' = renameMutex
    BY <1>2, <2>1, TakeStep, GotoStep DEF LockParent, Pcs
  <2>3. \A q \in Procs \ {p} : LockOf(q)'
    BY <2>1, <2>2, LockOthers, PoliteSteps DEF Goes, GoesWith
  <2>4. LockOf(p)'
    BY <1>0, <2>1, <2>2 DEF LockOf, TwoDirs, Takes, Goes, GoesWith, SameCall, Inside, Found, InBody
  <2>5. CallTypes'
    BY <2>2 DEF CallTypes, Takes, Goes, GoesWith, Moves
  <2> QED
    BY <2>3, <2>4, <2>5 DEF LockInv
<1>3. CASE RankParents(p)
  <2>1. /\ Goes(p, "dirFirst") \/ Goes(p, "fromFirst")
        /\ imutex' = imutex /\ renameMutex' = p /\ TwoDirs(p) /\ task[p].pc = "lock"
    BY <1>3, RankStep DEF RankParents
  <2>2. \A q \in Procs \ {p} : LockOf(q)'
    BY <2>1, LockOthers, PoliteSteps DEF Goes, GoesWith
  <2>3. LockOf(p)'
    BY <1>0, <2>1 DEF LockOf, TwoDirs, Goes, GoesWith, SameCall, Inside, Found, InBody
  <2>4. CallTypes'
    BY <2>1 DEF CallTypes, Goes, GoesWith, Moves
  <2> QED
    BY <2>2, <2>3, <2>4 DEF LockInv
<1>4. CASE LockFirst(p)
  <2> DEFINE i == IF task[p].pc = "dirFirst" THEN task[p].dir ELSE task[p].from
  <2>1. task[p].pc \in {"dirFirst", "fromFirst"} /\ i \in Inos /\ TwoDirs(p)
    BY <1>0, <1>4 DEF LockFirst, LockOf, TwoDirs
  <2>2. Takes(p, i) /\ Goes(p, "second") /\ renameMutex' = renameMutex
    BY <1>4, <2>1, TakeStep, GotoStep DEF LockFirst, Pcs
  <2>3. \A q \in Procs \ {p} : LockOf(q)'
    BY <2>1, <2>2, LockOthers, PoliteSteps DEF Goes, GoesWith
  <2>4. LockOf(p)'
    BY <1>0, <2>1, <2>2 DEF LockOf, TwoDirs, Takes, Goes, GoesWith, SameCall, Inside, Found, InBody
  <2>5. CallTypes'
    BY <2>2 DEF CallTypes, Takes, Goes, GoesWith, Moves
  <2> QED
    BY <2>3, <2>4, <2>5 DEF LockInv
<1>5. CASE LockSecond(p)
  <2> DEFINE i == IF imutex[task[p].dir] = p THEN task[p].from ELSE task[p].dir
  <2>1. task[p].pc = "second" /\ i \in Inos /\ TwoDirs(p)
    BY <1>0, <1>5 DEF LockSecond, LockOf, TwoDirs
  <2>2. Takes(p, i) /\ Goes(p, "lookup") /\ renameMutex' = renameMutex
    BY <1>5, <2>1, TakeStep, GotoStep DEF LockSecond, Pcs
  <2>3. \A q \in Procs \ {p} : LockOf(q)'
    BY <2>1, <2>2, LockOthers, PoliteSteps DEF Goes, GoesWith
  <2>4. LockOf(p)'
    BY <1>0, <2>1, <2>2 DEF LockOf, TwoDirs, Takes, Goes, GoesWith, SameCall, Inside, Found, InBody
  <2>5. CallTypes'
    BY <2>2 DEF CallTypes, Takes, Goes, GoesWith, Moves
  <2> QED
    BY <2>3, <2>4, <2>5 DEF LockInv
<1>6. CASE Admit(p)
  <2>1. /\ Moves(p) /\ UNCHANGED <<imutex, renameMutex>>
        /\ task[p].pc = "lookup" /\ task'[p].op = task[p].op
        /\ task'[p].dir = task[p].dir /\ task'[p].from = task[p].from
        /\ task'[p].pc = IF task'[p].tgt # None THEN "lockTarget" ELSE "body"
    BY <1>0, <1>6, AdmitStep
  <2>2. \A q \in Procs \ {p} : LockOf(q)'
    BY <2>1, LockOthers, PoliteSteps
  <2>3. LockOf(p)'
    BY <1>0, <2>1 DEF LockOf, Inside, Found, InBody
  <2>4. CallTypes'
    BY <2>1 DEF CallTypes, Moves
  <2> QED
    BY <2>2, <2>3, <2>4 DEF LockInv
<1>7. CASE LockTarget(p)
  <2> DEFINE i == task[p].tgt
  <2>1. task[p].pc = "lockTarget" /\ i \in Inos
    BY <1>0, <1>7 DEF LockTarget, LockOf, TaskRec
  <2>2. Takes(p, i) /\ Goes(p, "body") /\ renameMutex' = renameMutex
    BY <1>7, <2>1, TakeStep, GotoStep DEF LockTarget, Pcs
  <2>3. \A q \in Procs \ {p} : LockOf(q)'
    BY <2>1, <2>2, LockOthers, PoliteSteps DEF Goes, GoesWith
  <2>4. i # task[p].dir /\ (task[p].op = "rename" => i # task[p].from)
    BY <1>0, <2>1, <2>2, ConstantsOK DEF LockOf, Takes, Inside, Found
  <2>5. LockOf(p)'
    BY <1>0, <2>1, <2>2, <2>4 DEF LockOf, Takes, Goes, GoesWith, SameCall, Inside, Found, InBody
  <2>6. CallTypes'
    BY <2>2 DEF CallTypes, Takes, Goes, GoesWith, Moves
  <2> QED
    BY <2>3, <2>5, <2>6 DEF LockInv
<1> QED
  BY <1>1, <1>2, <1>3, <1>4, <1>5, <1>6, <1>7

-----------------------------------------------------------------------------
(* The slots of the directories that a call has locked are its own         *)

OthersPend(p, d, n, i) == \E q \in Procs \ {p} :
    Pending(q, i) /\ task[q].dir = d /\ task[q].name = n
OthersLeave(p, d, n) == \E q \in Procs \ {p} :
    Leaving(q) /\ task[q].from = d /\ task[q].fname = n
OthersPendDir(p, d, n) == \E q \in Procs \ {p} :
    PendingDir(q) /\ task[q].dir = d /\ task[q].name = n

\* What task p's own state says of slot n of directory d.
Own(p, d, n, i) ==
    \/ entry[d][n] = i /\ ~(Leaving(p) /\ task[p].from = d /\ task[p].fname = n)
    \/ Pending(p, i) /\ task[p].dir = d /\ task[p].name = n
OwnSub(p, d, n) ==
    \/ entry[d][n] # None /\ IsDir(entry[d][n])
    \/ PendingDir(p) /\ task[p].dir = d /\ task[p].name = n

LEMMA OthersStay ==
    ASSUME NEW p \in Procs, Moves(p), NEW d, NEW n, NEW i
    PROVE  /\ OthersPend(p, d, n, i)' <=> OthersPend(p, d, n, i)
           /\ OthersLeave(p, d, n)' <=> OthersLeave(p, d, n)
           /\ OthersPendDir(p, d, n)' <=> OthersPendDir(p, d, n)
BY DEF Moves, OthersPend, OthersLeave, OthersPendDir, Pending, Leaving, PendingDir

LEMMA CountsSplit ==
    ASSUME NEW p \in Procs, NEW d, NEW n, NEW i
    PROVE  /\ Counts(d, n, i) <=>
                \/ /\ entry[d][n] = i /\ ~OthersLeave(p, d, n)
                   /\ ~(Leaving(p) /\ task[p].from = d /\ task[p].fname = n)
                \/ OthersPend(p, d, n, i)
                \/ Pending(p, i) /\ task[p].dir = d /\ task[p].name = n
           /\ HasSub(d, n) <=>
                \/ entry[d][n] # None /\ IsDir(entry[d][n])
                \/ OthersPendDir(p, d, n)
                \/ PendingDir(p) /\ task[p].dir = d /\ task[p].name = n
BY DEF Counts, HasSub, OthersPend, OthersLeave, OthersPendDir

\* A call that counts something has locked its directories.
LEMMA WhoCounts ==
    ASSUME LockInv, PlaceInv, NEW q \in Procs
    PROVE  /\ \A i : Pending(q, i) => imutex[task[q].dir] = q
           /\ Leaving(q) => imutex[task[q].from] = q
           /\ PendingDir(q) => imutex[task[q].dir] = q
<1>1. LockOf(q)
  BY DEF LockInv
<1> QED
  BY <1>1 DEF LockOf, Pending, Leaving, PendingDir, Inside, Found, InBody

LEMMA OwnSlots ==
    ASSUME LockInv, PlaceInv, NEW p \in Procs, NEW d, imutex[d] = p, NEW n, NEW i
    PROVE  /\ ~OthersPend(p, d, n, i) /\ ~OthersLeave(p, d, n) /\ ~OthersPendDir(p, d, n)
           /\ Counts(d, n, i) <=> Own(p, d, n, i)
           /\ HasSub(d, n) <=> OwnSub(p, d, n)
<1>1. ~OthersPend(p, d, n, i) /\ ~OthersLeave(p, d, n) /\ ~OthersPendDir(p, d, n)
  BY WhoCounts DEF OthersPend, OthersLeave, OthersPendDir
<1> QED
  BY <1>1, CountsSplit DEF Own, OwnSub

\* A step in the body of task p's call, or the end of the call.
BodyStep(p) ==
    /\ task[p].pc \in InBody
    /\ \/ Returns(p)
       \/ \E i, pc : pc \in InBody /\ GoesWith(p, i, pc) /\ UNCHANGED <<imutex, renameMutex>>

\* A call writes in the directories that it has locked, and only there.
WritesOwn(p) == \A d \in Inos : imutex[d] # p => entry'[d] = entry[d]

TypesStay == bitmap \subseteq bitmap' /\ \A i \in bitmap : IsDir(i)' <=> IsDir(i)

LEMMA BodyCounts ==
    ASSUME Base, PlaceInv, FreedUnreachable, NEW p \in Procs,
           BodyStep(p), WritesOwn(p), TypesStay,
           NEW d \in Inos, NEW n \in Names, NEW i
    PROVE  /\ imutex[d] # p => /\ Counts(d, n, i)' <=> Counts(d, n, i)
                               /\ HasSub(d, n)' <=> HasSub(d, n)
           /\ imutex[d] = p => /\ Counts(d, n, i) <=> Own(p, d, n, i)
                               /\ Counts(d, n, i)' <=> Own(p, d, n, i)'
                               /\ HasSub(d, n) <=> OwnSub(p, d, n)
                               /\ HasSub(d, n)' <=> OwnSub(p, d, n)'
<1>0. LockInv /\ Moves(p) /\ LockOf(p)
  BY DEF Base, LockInv, BodyStep, Returns, GoesWith
<1>1. /\ OthersPend(p, d, n, i)' <=> OthersPend(p, d, n, i)
      /\ OthersLeave(p, d, n)' <=> OthersLeave(p, d, n)
      /\ OthersPendDir(p, d, n)' <=> OthersPendDir(p, d, n)
  BY <1>0, OthersStay
<1>2. /\ Counts(d, n, i) <=>
           \/ /\ entry[d][n] = i /\ ~OthersLeave(p, d, n)
              /\ ~(Leaving(p) /\ task[p].from = d /\ task[p].fname = n)
           \/ OthersPend(p, d, n, i)
           \/ Pending(p, i) /\ task[p].dir = d /\ task[p].name = n
      /\ HasSub(d, n) <=>
           \/ entry[d][n] # None /\ IsDir(entry[d][n])
           \/ OthersPendDir(p, d, n)
           \/ PendingDir(p) /\ task[p].dir = d /\ task[p].name = n
  BY CountsSplit
<1>3. /\ Counts(d, n, i)' <=>
           \/ /\ entry'[d][n] = i /\ ~OthersLeave(p, d, n)'
              /\ ~(Leaving(p)' /\ task'[p].from = d /\ task'[p].fname = n)
           \/ OthersPend(p, d, n, i)'
           \/ Pending(p, i)' /\ task'[p].dir = d /\ task'[p].name = n
      /\ HasSub(d, n)' <=>
           \/ entry'[d][n] # None /\ IsDir(entry[d][n])'
           \/ OthersPendDir(p, d, n)'
           \/ PendingDir(p)' /\ task'[p].dir = d /\ task'[p].name = n
  BY DEF Counts, HasSub, OthersPend, OthersLeave, OthersPendDir
<1>4. CASE imutex[d] # p
  <2>1. task[p].dir # d /\ (task[p].op = "rename" => task[p].from # d)
    BY <1>0, <1>4 DEF BodyStep, LockOf, Inside, Found, InBody
  <2>2. ~(Leaving(p) /\ task[p].from = d) /\ task[p].dir # d
    BY <2>1 DEF Leaving
  <2>3. ~(Leaving(p)' /\ task'[p].from = d) /\ task'[p].dir # d
    BY <2>1, IdleType, ConstantsOK DEF BodyStep, Returns, GoesWith, SameCall, Leaving
  <2>4. entry'[d] = entry[d]
    BY <1>4 DEF WritesOwn
  <2>5. entry[d][n] # None => (IsDir(entry[d][n])' <=> IsDir(entry[d][n]))
    BY <2>4 DEF TypesStay, FreedUnreachable, IsDir
  <2> QED
    BY <1>1, <1>2, <1>3, <1>4, <2>2, <2>3, <2>4, <2>5
<1>5. CASE imutex[d] = p
  <2>1. /\ ~OthersPend(p, d, n, i) /\ ~OthersLeave(p, d, n) /\ ~OthersPendDir(p, d, n)
        /\ Counts(d, n, i) <=> Own(p, d, n, i)
        /\ HasSub(d, n) <=> OwnSub(p, d, n)
    BY <1>0, <1>5, OwnSlots
  <2>2. (Counts(d, n, i)' <=> Own(p, d, n, i)') /\ (HasSub(d, n)' <=> OwnSub(p, d, n)')
    BY <1>1, <1>3, <2>1 DEF Own, OwnSub
  <2> QED
    BY <1>5, <2>1, <2>2
<1> QED
  BY <1>4, <1>5

-----------------------------------------------------------------------------
(* What a step of one call leaves the others                               *)

\* No directory that others may have walked to is lost without a sign, and
\* those that others have locked stay.
Gentle(p) == \A d \in bitmap : IsDir(d) /\ ~Fresh(d) =>
    /\ ~Fresh(d)'
    /\ Alive(d) => Alive(d)'
    /\ imutex[d] # p /\ node[d].nlink > 0 /\ ~node[d].dead =>
         node'[d].nlink > 0 /\ ~node'[d].dead

LEMMA OthersPlace ==
    ASSUME Base, PlaceInv, RefInv, NEW p \in Procs, Moves(p), WritesOwn(p), TypesStay,
           NEW q \in Procs \ {p}
    PROVE  PlaceOf(q)'
<1> DEFINE t == task[q]
<1>1. PlaceOf(q) /\ LockOf(q) /\ task'[q] = t /\ t \in TaskRec
  BY DEF PlaceInv, Base, LockInv, CallTypes, Moves
<1>2. {t.dir, t.from, t.ino, t.tgt} \subseteq bitmap \cup {None}
  BY DEF RefInv, RefOf
<1>3. t.pc \in Found => t.dir \in Inos /\ entry'[t.dir] = entry[t.dir]
  BY <1>1 DEF LockOf, WritesOwn, Found, Inside, InBody
<1>4. t.pc \in Found /\ t.op = "rename" => entry'[t.from] = entry[t.from]
  BY <1>1 DEF LockOf, WritesOwn, Found, Inside, InBody
<1>5. t.pc \in InBody /\ t.tgt # None => entry'[t.tgt] = entry[t.tgt]
  BY <1>1 DEF LockOf, WritesOwn, TaskRec
<1>6. t.ino # None => (IsDir(t.ino)' <=> IsDir(t.ino))
  BY <1>1, <1>2 DEF TypesStay, IsDir
<1>7. t.tgt # None => (IsDir(t.tgt)' <=> IsDir(t.tgt))
  BY <1>1, <1>2 DEF TypesStay, IsDir
<1> QED
  BY <1>1, <1>3, <1>4, <1>5, <1>6, <1>7 DEF PlaceOf, InBody, Found

LEMMA OthersRef ==
    ASSUME Base, PlaceInv, RefInv, NEW p \in Procs, Moves(p), TypesStay, Gentle(p),
           NEW q \in Procs \ {p}
    PROVE  RefOf(q)'
<1> DEFINE t == task[q]
<1>1. RefOf(q) /\ LockOf(q) /\ task'[q] = t /\ t \in TaskRec
  BY DEF RefInv, Base, LockInv, CallTypes, Moves
<1>2. {t.dir, t.from, t.ino, t.tgt} \subseteq bitmap' \cup {None}
  BY <1>1 DEF RefOf, TypesStay
<1>3. ASSUME NEW d \in {t.dir, t.from} \ {None}
      PROVE  /\ IsDir(d)' /\ ~Fresh(d)' /\ Alive(d)'
             /\ t.pc \in Found => node'[d].nlink > 0 /\ ~node'[d].dead
  <2>1. /\ d \in bitmap /\ IsDir(d) /\ ~Fresh(d) /\ Alive(d)
        /\ t.pc \in Found => node[d].nlink > 0 /\ ~node[d].dead
    BY <1>1 DEF RefOf
  <2>2. IsDir(d)' /\ ~Fresh(d)' /\ Alive(d)'
    BY <2>1 DEF TypesStay, Gentle
  <2>3. t.pc \in Found => imutex[d] = q
    <3>1. t.from # None => t.op = "rename"
      BY DEF PlaceInv, PlaceOf
    <3> QED
      BY <1>1, <3>1 DEF LockOf, Found, Inside
  <2> QED
    BY <2>1, <2>2, <2>3 DEF Gentle
<1> QED
  BY <1>1, <1>2, <1>3 DEF RefOf

LEMMA IdlePlace ==
    ASSUME NEW p \in Procs, task'[p] = Idle
    PROVE  PlaceOf(p)' /\ RefOf(p)'
BY IdleType DEF PlaceOf, RefOf, Found, InBody

\* The two ends of a step, put together.
LEMMA ReturnsInv ==
    ASSUME Inv, NEW p \in Procs, Returns(p), WritesOwn(p), TypesStay, Gentle(p),
           TreeTypes', AccountInv', FreeInv', EmptyInv', MaxInv'
    PROVE  Inv'
<1>1. Base /\ PlaceInv /\ RefInv /\ CallTypes /\ LockInv /\ Moves(p)
  BY DEF Inv, Base, Returns
<1>2. Base'
  BY <1>1, LockReturns DEF Base
<1>3. PlaceOf(p)' /\ RefOf(p)'
  BY IdlePlace DEF Returns
<1>4. PlaceInv'
  BY <1>1, <1>3, OthersPlace DEF PlaceInv
<1>5. RefInv'
  BY <1>1, <1>3, OthersRef DEF RefInv
<1> QED
  BY <1>2, <1>4, <1>5 DEF Inv

LEMMA GoesInv ==
    ASSUME Inv, NEW p \in Procs, NEW i, NEW pc \in InBody, task[p].pc \in InBody,
           GoesWith(p, i, pc), UNCHANGED <<imutex, renameMutex>>,
           WritesOwn(p), TypesStay, Gentle(p), PlaceOf(p)', RefOf(p)',
           TreeTypes', AccountInv', FreeInv', EmptyInv', MaxInv'
    PROVE  Inv'
<1>1. Base /\ PlaceInv /\ RefInv /\ CallTypes /\ LockInv /\ Moves(p)
  BY DEF Inv, Base, GoesWith
<1>2. Base'
  BY <1>1, LockGoes DEF Base
<1>3. PlaceInv'
  BY <1>1, OthersPlace DEF PlaceInv
<1>4. RefInv'
  BY <1>1, OthersRef DEF RefInv
<1> QED
  BY <1>2, <1>3, <1>4 DEF Inv

-----------------------------------------------------------------------------
(* How the account changes                                                 *)

LEMMA FiniteCounts ==
    /\ \A S \in SUBSET (Inos \X Names) : IsFiniteSet(S) /\ Cardinality(S) \in Nat
    /\ \A S \in SUBSET Names : IsFiniteSet(S) /\ Cardinality(S) \in Nat
<1>1. IsFiniteSet(Inos) /\ IsFiniteSet(Names)
  BY ConstantsOK
<1>2. IsFiniteSet(Inos \X Names)
  BY <1>1, FS_Product
<1> QED
  BY <1>1, <1>2, FS_Subset, FS_CardinalityType

LEMMA CountedTypes ==
    ASSUME NEW i
    PROVE  /\ CountedNames(i) \in SUBSET (Inos \X Names)
           /\ CountedNames(i)' \in SUBSET (Inos \X Names)
           /\ CountedDirs(i) \in SUBSET Names
           /\ CountedDirs(i)' \in SUBSET Names
BY DEF CountedNames, CountedDirs

LEMMA PlusOne ==
    ASSUME NEW S, IsFiniteSet(S), NEW x
    PROVE  /\ x \notin S => Cardinality(S \cup {x}) = Cardinality(S) + 1
           /\ x \in S => Cardinality(S \ {x}) = Cardinality(S) - 1
BY FS_AddElement, FS_RemoveElement

\* Slot n of directory d is counted for inode j from now on, or no longer.
NamesSame == \A e \in Inos, m \in Names, i \in Inos : Counts(e, m, i)' <=> Counts(e, m, i)
NamesGain(d, n, j) ==
    /\ ~Counts(d, n, j)
    /\ \A e \in Inos, m \in Names, i \in Inos :
         Counts(e, m, i)' <=> Counts(e, m, i) \/ (e = d /\ m = n /\ i = j)
NamesLose(d, n, j) ==
    /\ Counts(d, n, j)
    /\ \A e \in Inos, m \in Names, i \in Inos :
         Counts(e, m, i)' <=> Counts(e, m, i) /\ ~(e = d /\ m = n /\ i = j)

DirsSame == \A e \in Inos, m \in Names : HasSub(e, m)' <=> HasSub(e, m)
DirsGain(d, n) ==
    /\ ~HasSub(d, n)
    /\ \A e \in Inos, m \in Names : HasSub(e, m)' <=> HasSub(e, m) \/ (e = d /\ m = n)
DirsLose(d, n) ==
    /\ HasSub(d, n)
    /\ \A e \in Inos, m \in Names : HasSub(e, m)' <=> HasSub(e, m) /\ ~(e = d /\ m = n)

LEMMA NamesSameSets ==
    ASSUME NamesSame, NEW i \in Inos
    PROVE  CountedNames(i)' = CountedNames(i)
<1>1. \A dn \in Inos \X Names : Counts(dn[1], dn[2], i)' <=> Counts(dn[1], dn[2], i)
  BY DEF NamesSame
<1> QED
  BY <1>1 DEF CountedNames

LEMMA NamesGainSets ==
    ASSUME NEW d \in Inos, NEW n \in Names, NEW j \in Inos, NamesGain(d, n, j)
    PROVE  /\ \A i \in Inos \ {j} : CountedNames(i)' = CountedNames(i)
           /\ CountedNames(j)' = CountedNames(j) \cup {<<d, n>>}
           /\ Cardinality(CountedNames(j)') = Cardinality(CountedNames(j)) + 1
<1>1. \A i \in Inos \ {j} : \A dn \in Inos \X Names :
        Counts(dn[1], dn[2], i)' <=> Counts(dn[1], dn[2], i)
  BY DEF NamesGain
<1>2. \A i \in Inos \ {j} : CountedNames(i)' = CountedNames(i)
  BY <1>1 DEF CountedNames
<1>3. \A dn \in Inos \X Names :
        Counts(dn[1], dn[2], j)' <=> Counts(dn[1], dn[2], j) \/ dn = <<d, n>>
  BY DEF NamesGain
<1>4. CountedNames(j)' = CountedNames(j) \cup {<<d, n>>}
  BY <1>3 DEF CountedNames
<1>5. <<d, n>> \notin CountedNames(j)
  BY DEF CountedNames, NamesGain
<1> QED
  BY <1>2, <1>4, <1>5, FiniteCounts, CountedTypes, PlusOne

LEMMA NamesLoseSets ==
    ASSUME NEW d \in Inos, NEW n \in Names, NEW j \in Inos, NamesLose(d, n, j)
    PROVE  /\ \A i \in Inos \ {j} : CountedNames(i)' = CountedNames(i)
           /\ <<d, n>> \in CountedNames(j)
           /\ CountedNames(j)' = CountedNames(j) \ {<<d, n>>}
           /\ Cardinality(CountedNames(j)') = Cardinality(CountedNames(j)) - 1
<1>1. \A i \in Inos \ {j} : \A dn \in Inos \X Names :
        Counts(dn[1], dn[2], i)' <=> Counts(dn[1], dn[2], i)
  BY DEF NamesLose
<1>2. \A i \in Inos \ {j} : CountedNames(i)' = CountedNames(i)
  BY <1>1 DEF CountedNames
<1>3. \A dn \in Inos \X Names :
        Counts(dn[1], dn[2], j)' <=> Counts(dn[1], dn[2], j) /\ dn # <<d, n>>
  BY DEF NamesLose
<1>4. CountedNames(j)' = CountedNames(j) \ {<<d, n>>}
  BY <1>3 DEF CountedNames
<1>5. <<d, n>> \in CountedNames(j)
  BY DEF CountedNames, NamesLose
<1> QED
  BY <1>2, <1>4, <1>5, FiniteCounts, CountedTypes, PlusOne

LEMMA DirsSameSets ==
    ASSUME DirsSame, NEW i \in Inos
    PROVE  CountedDirs(i)' = CountedDirs(i)
BY DEF DirsSame, CountedDirs

LEMMA DirsGainSets ==
    ASSUME NEW d \in Inos, NEW n \in Names, DirsGain(d, n)
    PROVE  /\ \A i \in Inos \ {d} : CountedDirs(i)' = CountedDirs(i)
           /\ Cardinality(CountedDirs(d)') = Cardinality(CountedDirs(d)) + 1
<1>1. \A i \in Inos \ {d} : CountedDirs(i)' = CountedDirs(i)
  BY DEF DirsGain, CountedDirs
<1>2. CountedDirs(d)' = CountedDirs(d) \cup {n} /\ n \notin CountedDirs(d)
  BY DEF DirsGain, CountedDirs
<1> QED
  BY <1>1, <1>2, FiniteCounts, CountedTypes, PlusOne

LEMMA DirsLoseSets ==
    ASSUME NEW d \in Inos, NEW n \in Names, DirsLose(d, n)
    PROVE  /\ \A i \in Inos \ {d} : CountedDirs(i)' = CountedDirs(i)
           /\ Cardinality(CountedDirs(d)') = Cardinality(CountedDirs(d)) - 1
<1>1. \A i \in Inos \ {d} : CountedDirs(i)' = CountedDirs(i)
  BY DEF DirsLose, CountedDirs
<1>2. CountedDirs(d)' = CountedDirs(d) \ {n} /\ n \in CountedDirs(d)
  BY DEF DirsLose, CountedDirs
<1> QED
  BY <1>1, <1>2, FiniteCounts, CountedTypes, PlusOne

\* An inode whose links and entries no step has touched.
LEMMA AccountStays ==
    ASSUME NEW i \in Inos, Account(i), IsDir(i)' <=> IsDir(i),
           node'[i].nlink = node[i].nlink,
           CountedNames(i)' = CountedNames(i), CountedDirs(i)' = CountedDirs(i),
           entry'[i] = entry[i] \/ node[i].nlink > 0
    PROVE  Account(i)'
BY DEF Account, LiveDir, GoneDir

LEMMA LiveFacts ==
    ASSUME Inv, NEW i \in bitmap, IsDir(i), node[i].nlink > 0
    PROVE  LiveDir(i) /\ node[i].nlink >= 2
<1>1. LiveDir(i)
  BY DEF Inv, AccountInv, Account, GoneDir
<1>2. Cardinality(CountedDirs(i)) \in Nat
  BY FiniteCounts, CountedTypes
<1> QED
  BY <1>1, <1>2 DEF LiveDir

(* A directory is counted under one name at most, and never the root.      *)
LEMMA OneName ==
    ASSUME Inv, NEW i \in bitmap, IsDir(i), NEW d \in Inos, NEW n \in Names, Counts(d, n, i)
    PROVE  LiveDir(i) /\ i # Root /\ CountedNames(i) = {<<d, n>>}
<1>1. <<d, n>> \in CountedNames(i)
  BY DEF CountedNames
<1> QED
  BY <1>1 DEF Inv, AccountInv, Account, LiveDir, GoneDir

(* Where no link is under way, the account is the tree's.                  *)
Loose(t) == t.pc \notin {"new", "makeEmpty", "addLink", "dec", "delOld"}

LEMMA QuietStep ==
    ASSUME Inv, NEW p \in Procs, Moves(p), Loose(task[p]), Loose(task'[p]), UNCHANGED Tree
    PROVE  /\ WritesOwn(p) /\ TypesStay /\ Gentle(p)
           /\ TreeTypes' /\ AccountInv' /\ FreeInv' /\ EmptyInv' /\ MaxInv'
           /\ \A i : (Fresh(i)' <=> Fresh(i)) /\ (Going(i)' <=> Going(i))
<1>1. bitmap' = bitmap /\ node' = node /\ entry' = entry /\ dotdot' = dotdot /\ dparent' = dparent
  BY DEF Tree
<1>2. WritesOwn(p) /\ TypesStay /\ TreeTypes'
  BY <1>1 DEF WritesOwn, TypesStay, IsDir, TreeTypes, Inv, Base
<1>3. \A i : (Fresh(i)' <=> Fresh(i)) /\ (Going(i)' <=> Going(i))
  BY DEF Moves, Loose, Fresh, Going
<1>4. Gentle(p)
  BY <1>1, <1>3 DEF Gentle, Alive
<1>5. ASSUME NEW d \in Inos, NEW n \in Names, NEW i \in Inos
      PROVE  (Counts(d, n, i)' <=> Counts(d, n, i)) /\ (HasSub(d, n)' <=> HasSub(d, n))
  <2>1. /\ OthersPend(p, d, n, i)' <=> OthersPend(p, d, n, i)
        /\ OthersLeave(p, d, n)' <=> OthersLeave(p, d, n)
        /\ OthersPendDir(p, d, n)' <=> OthersPendDir(p, d, n)
    BY OthersStay
  <2>2. /\ Counts(d, n, i) <=> \/ entry[d][n] = i /\ ~OthersLeave(p, d, n)
                               \/ OthersPend(p, d, n, i)
        /\ HasSub(d, n) <=> \/ entry[d][n] # None /\ IsDir(entry[d][n])
                            \/ OthersPendDir(p, d, n)
    BY CountsSplit DEF Loose, Pending, Leaving, PendingDir
  <2>3. /\ Counts(d, n, i)' <=> \/ entry'[d][n] = i /\ ~OthersLeave(p, d, n)'
                                \/ OthersPend(p, d, n, i)'
        /\ HasSub(d, n)' <=> \/ entry'[d][n] # None /\ IsDir(entry[d][n])'
                             \/ OthersPendDir(p, d, n)'
    BY DEF Counts, HasSub, OthersPend, OthersLeave, OthersPendDir, Loose, Pending, Leaving,
           PendingDir
  <2> QED
    BY <1>1, <2>1, <2>2, <2>3 DEF IsDir
<1>6. NamesSame /\ DirsSame
  BY <1>5 DEF NamesSame, DirsSame
<1>7. AccountInv'
  <2> SUFFICES ASSUME NEW i \in bitmap'
               PROVE  Account(i)'
    BY DEF AccountInv
  <2>1. i \in bitmap /\ i \in Inos /\ Account(i)
    BY <1>1 DEF Inv, Base, TreeTypes, AccountInv
  <2>2. CountedNames(i)' = CountedNames(i) /\ CountedDirs(i)' = CountedDirs(i)
    BY <1>6, <2>1, NamesSameSets, DirsSameSets
  <2> QED
    BY <1>1, <2>1, <2>2, AccountStays DEF IsDir
<1>8. FreeInv' /\ MaxInv'
  BY <1>1 DEF Inv, FreeInv, FreedUnreachable, MaxInv, IsDir
<1>9. EmptyInv'
  BY <1>1, <1>3 DEF Inv, EmptyInv, RemovedStaysEmpty, IsDir
<1> QED
  BY <1>2, <1>3, <1>4, <1>7, <1>8, <1>9

(* A call that is refused, or fails before it has done anything.           *)
LEMMA GivesUp ==
    ASSUME Inv, NEW p \in Procs, Loose(task[p]), Returns(p), UNCHANGED Tree
    PROVE  Inv'
<1>1. Moves(p) /\ Loose(task'[p])
  BY IdleType DEF Returns, Loose
<1> QED
  BY <1>1, QuietStep, ReturnsInv

-----------------------------------------------------------------------------
(* Up to the body of the operation                                         *)

(* Whatever has a name has one that is counted.                            *)
LEMMA NamedCounts ==
    ASSUME Inv, NEW d \in Inos, NEW n \in Names, NEW i \in Inos, entry[d][n] = i
    PROVE  \E e \in Inos, m \in Names : entry[e][m] = i /\ Counts(e, m, i)
<1>1. CASE Counts(d, n, i)
  BY <1>1
<1>2. CASE ~Counts(d, n, i)
  <2>1. PICK r \in Procs : Leaving(r) /\ task[r].from = d /\ task[r].fname = n
    BY <1>2 DEF Counts
  <2> DEFINE t == task[r]
  <2>2. /\ t.pc \in Found /\ t.op = "rename" /\ t.pc \in {"dec", "delOld"}
    BY <2>1 DEF Leaving, Found, InBody
  <2>3. /\ t.dir \in Inos /\ t.name \in Names
        /\ imutex[t.dir] = r
    BY <2>2 DEF Inv, Base, LockInv, LockOf, PlaceInv, PlaceOf, Inside, Found, InBody
  <2>4. /\ entry[t.from][t.fname] = t.ino /\ entry[t.dir][t.name] = t.ino
        /\ t.dir = t.from => t.name # t.fname
    BY <2>2 DEF Inv, PlaceInv, PlaceOf
  <2>5. entry[t.dir][t.name] = i
    BY <2>1, <2>4
  <2>6. Counts(t.dir, t.name, i) <=> Own(r, t.dir, t.name, i)
    BY <2>3, OwnSlots DEF Inv, Base
  <2>7. Own(r, t.dir, t.name, i)
    BY <2>4, <2>5 DEF Own
  <2> QED
    BY <2>3, <2>5, <2>6, <2>7
<1> QED
  BY <1>1, <1>2

(* No path leads to the inode of a mkdir under way.                        *)
LEMMA WalkedNotFresh ==
    ASSUME Inv, NEW d \in Walked
    PROVE  ~Fresh(d)
<1> SUFFICES ASSUME Fresh(d)
             PROVE  FALSE
  OBVIOUS
<1>1. d \in bitmap /\ d \in Inos /\ IsDir(d) /\ (d = Root \/ NamesOf(entry, d) # {})
  BY DEF Walked, Linked, Inv, Base, TreeTypes
<1>2. PICK q \in Procs :
        task[q].op = "mkdir" /\ task[q].pc \in {"makeEmpty", "addLink"} /\ task[q].ino = d
  BY DEF Fresh
<1> DEFINE t == task[q]
<1>3. t.dir \in Inos /\ t.name \in Names /\ entry[t.dir][t.name] = None
  <2>1. LockOf(q) /\ PlaceOf(q)
    BY DEF Inv, Base, LockInv, PlaceInv
  <2> QED
    BY <1>2, <2>1 DEF LockOf, PlaceOf, Found, InBody
<1>4. Counts(t.dir, t.name, d)
  BY <1>2 DEF Counts, Pending
<1>5. d # Root /\ CountedNames(d) = {<<t.dir, t.name>>}
  BY <1>1, <1>3, <1>4, OneName
<1>6. PICK e \in Inos, m \in Names : entry[e][m] = d
  BY <1>1, <1>5 DEF NamesOf
<1>7. PICK e2 \in Inos, m2 \in Names : entry[e2][m2] = d /\ Counts(e2, m2, d)
  BY <1>1, <1>6, NamedCounts
<1>8. <<e2, m2>> \in CountedNames(d)
  BY <1>7 DEF CountedNames
<1>9. e2 = t.dir /\ m2 = t.name
  BY <1>5, <1>8
<1> QED
  BY <1>1, <1>3, <1>7, <1>9, ConstantsOK

LEMMA InvStart ==
    ASSUME Inv, NEW p \in Procs, Start(p)
    PROVE  Inv'
<1>0. Base /\ TreeTypes /\ CallTypes /\ LockInv /\ PlaceInv /\ RefInv
  BY DEF Inv, Base
<1>1. /\ Moves(p)
      /\ task[p] = Idle /\ task'[p].pc = "lock" /\ task'[p].op \in Ops
      /\ task'[p].dir \in Walked
      /\ task'[p].from \in Walked \cup {None}
      /\ task'[p].op = "rename" <=> task'[p].from # None
      /\ task'[p].ino \in Linked \cup {None}
      /\ task'[p].op = "link" => task'[p].ino # None
      /\ task'[p].tgt = None
      /\ UNCHANGED <<Tree, imutex, renameMutex>>
  BY <1>0, StartStep
<1>2. LockInv' /\ CallTypes'
  BY <1>0, LockApproach
<1>3. Loose(task[p]) /\ Loose(task'[p]) /\ UNCHANGED Tree
  BY <1>1, IdleType DEF Loose
<1>4. /\ WritesOwn(p) /\ TypesStay /\ Gentle(p)
      /\ TreeTypes' /\ AccountInv' /\ FreeInv' /\ EmptyInv' /\ MaxInv'
      /\ \A i : Fresh(i)' <=> Fresh(i)
  BY <1>1, <1>3, QuietStep
<1>5. PlaceOf(p)'
  BY <1>1 DEF PlaceOf, Found, InBody
<1>6. \A d \in Walked : d \in bitmap /\ IsDir(d) /\ node[d].nlink > 0 /\ ~Fresh(d)
  BY WalkedNotFresh DEF Walked, Linked
<1>7. RefOf(p)'
  BY <1>1, <1>4, <1>6 DEF RefOf, Alive, Linked, IsDir, Tree, Found, InBody
<1>8. PlaceInv' /\ RefInv'
  BY <1>0, <1>1, <1>4, <1>5, <1>7, OthersPlace, OthersRef DEF PlaceInv, RefInv
<1> QED
  BY <1>2, <1>4, <1>8 DEF Inv, Base

LEMMA InvLock ==
    ASSUME Inv, NEW p \in Procs,
           \/ LockParent(p) \/ RankParents(p) \/ LockFirst(p) \/ LockSecond(p) \/ LockTarget(p)
    PROVE  Inv'
<1>0. Base /\ TreeTypes /\ CallTypes /\ LockInv /\ PlaceInv /\ RefInv
  BY DEF Inv, Base
<1>1. PICK pc \in {"lookup", "dirFirst", "fromFirst", "second", "body"} : Goes(p, pc)
  BY <1>0, RankStep, GotoStep DEF LockParent, LockFirst, LockSecond, LockTarget, Pcs
<1>2. /\ UNCHANGED Tree /\ Loose(task[p]) /\ Loose(task'[p])
      /\ task'[p].pc \in Found <=> task[p].pc \in Found
  BY <1>1, <1>0, RankStep, GotoStep
     DEF LockParent, RankParents, LockFirst, LockSecond, LockTarget, Goes, GoesWith, Loose, Pcs,
         Found, InBody
<1>3. LockInv' /\ CallTypes'
  BY <1>0, LockApproach
<1>4. Moves(p) /\ SameCall(p) /\ task'[p].ino = task[p].ino
  BY <1>1 DEF Goes, GoesWith
<1>5. /\ WritesOwn(p) /\ TypesStay /\ Gentle(p)
      /\ TreeTypes' /\ AccountInv' /\ FreeInv' /\ EmptyInv' /\ MaxInv'
      /\ \A i : (Fresh(i)' <=> Fresh(i)) /\ (Going(i)' <=> Going(i))
  BY <1>2, <1>4, QuietStep
<1>6. PlaceOf(p) /\ RefOf(p)
  BY <1>0 DEF PlaceInv, RefInv
<1>7. PlaceOf(p)'
  BY <1>2, <1>4, <1>6 DEF PlaceOf, SameCall, Tree, IsDir, Loose, Found, InBody
<1>8. RefOf(p)'
  BY <1>2, <1>4, <1>5, <1>6 DEF RefOf, SameCall, Tree, IsDir, Alive
<1>9. PlaceInv' /\ RefInv'
  BY <1>0, <1>4, <1>5, <1>7, <1>8, OthersPlace, OthersRef DEF PlaceInv, RefInv
<1> QED
  BY <1>3, <1>5, <1>9 DEF Inv, Base

(* Under its i_mutex a directory that is not dead has links.               *)
LEMMA LockedAlive ==
    ASSUME Inv, NEW p \in Procs, task[p].pc = "lookup",
           NEW d \in {task[p].dir, task[p].from} \ {None}, ~node[d].dead
    PROVE  node[d].nlink > 0
<1>1. Alive(d)
  BY DEF Inv, RefInv, RefOf
<1>2. imutex[d] = p
  BY DEF Inv, Base, LockInv, LockOf, PlaceInv, PlaceOf, Inside
<1>3. ASSUME Going(d)
      PROVE  FALSE
  <2>1. PICK q \in Procs : task[q].pc = "delOld" /\ task[q].tgt = d
    BY <1>3 DEF Going
  <2>2. imutex[d] = q
    BY <2>1 DEF Inv, Base, LockInv, LockOf, InBody
  <2> QED
    BY <1>2, <2>1, <2>2
<1> QED
  BY <1>1, <1>3 DEF Alive

LEMMA InvAdmit ==
    ASSUME Inv, NEW p \in Procs, Admit(p)
    PROVE  Inv'
<1> DEFINE t == task[p]
           s == task'[p]
           child == entry[t.dir][s.name]
           source == entry[t.from][s.fname]
<1>0. Base /\ TreeTypes /\ CallTypes /\ LockInv /\ PlaceInv /\ RefInv /\ LockOf(p)
  BY DEF Inv, Base, LockInv
<1>1. /\ Moves(p) /\ UNCHANGED <<Tree, imutex, renameMutex>>
      /\ t.pc = "lookup" /\ s.op = t.op /\ s.dir = t.dir /\ s.from = t.from
      /\ s.name \in Names /\ (t.op = "rename" => s.fname \in Names)
      /\ s.ino = IF t.op = "rename" THEN source ELSE t.ino
      /\ s.tgt = IF t.op = "link" THEN t.ino ELSE child
      /\ s.pc = IF s.tgt # None THEN "lockTarget" ELSE "body"
      /\ ~node[t.dir].dead
      /\ t.op \in {"create", "mkdir", "link"} => child = None
      /\ t.op = "link" => ~IsDir(t.ino)
      /\ t.op \in {"unlink", "rmdir"} => child # None /\ (IsDir(child) <=> t.op = "rmdir")
      /\ t.op = "rename" =>
           /\ source # None /\ source # child /\ ~node[t.from].dead
           /\ child # None => (IsDir(child) <=> IsDir(source))
  BY <1>0, AdmitStep
<1>2. t.op \in Ops /\ t.dir \in Inos /\ (t.op = "rename" <=> t.from # None)
  BY <1>0, <1>1, ConstantsOK DEF LockOf, PlaceInv, PlaceOf
<1>3. LockInv' /\ CallTypes'
  BY <1>0, LockApproach
<1>4. UNCHANGED Tree /\ Loose(t) /\ Loose(s)
  BY <1>1 DEF Loose
<1>5. /\ WritesOwn(p) /\ TypesStay /\ Gentle(p)
      /\ TreeTypes' /\ AccountInv' /\ FreeInv' /\ EmptyInv' /\ MaxInv'
      /\ \A i : (Fresh(i)' <=> Fresh(i)) /\ (Going(i)' <=> Going(i))
  BY <1>1, <1>4, QuietStep
<1>6. s.pc \in {"lockTarget", "body"}
  BY <1>1
<1>7. PlaceOf(p) /\ RefOf(p)
  BY <1>0 DEF PlaceInv, RefInv
<1>8. entry' = entry /\ node' = node /\ bitmap' = bitmap
  BY <1>1 DEF Tree
<1>9. PlaceOf(p)'
  <2>1. \A i : IsDir(i)' <=> IsDir(i)
    BY <1>8 DEF IsDir
  <2>2. t.op = "link" => t.ino # None
    BY <1>7 DEF PlaceOf
  <2>3. entry'[s.dir][s.name] = child /\ entry'[s.from][s.fname] = source
    BY <1>1, <1>8
  <2>4. t.op = "rename" => (t.dir = t.from => s.name # s.fname)
    BY <1>1
  <2> HIDE DEF child, source
  <2> QED
    BY <1>1, <1>2, <1>6, <1>8, <2>1, <2>2, <2>3, <2>4 DEF PlaceOf, Ops, IsDir
<1>10. RefOf(p)'
  <2>1. child \in bitmap \cup {None} /\ (t.op = "rename" => source \in bitmap \cup {None})
    BY <1>0, <1>1, <1>2 DEF Inv, FreeInv, FreedUnreachable, LockOf
  <2>2. {s.dir, s.from, s.ino, s.tgt} \subseteq bitmap \cup {None}
    BY <1>1, <1>7, <2>1 DEF RefOf
  <2>3. \A d \in {t.dir, t.from} \ {None} : ~node[d].dead
    BY <1>1, <1>2
  <2>4. \A d \in {t.dir, t.from} \ {None} : node[d].nlink > 0
    BY <1>1, <2>3, LockedAlive
  <2>5. \A d \in {t.dir, t.from} \ {None} : IsDir(d) /\ ~Fresh(d)
    BY <1>7 DEF RefOf
  <2> HIDE DEF child, source
  <2> QED
    BY <1>1, <1>5, <1>8, <2>2, <2>3, <2>4, <2>5 DEF RefOf, Alive, IsDir
<1>11. PlaceInv' /\ RefInv'
  BY <1>0, <1>1, <1>5, <1>9, <1>10, OthersPlace, OthersRef DEF PlaceInv, RefInv
<1> QED
  BY <1>3, <1>5, <1>11 DEF Inv, Base

LEMMA InvRefuse ==
    ASSUME Inv, NEW p \in Procs, Refuse(p)
    PROVE  Inv'
<1>1. Loose(task[p]) /\ Return(p) /\ UNCHANGED Tree
  BY DEF Refuse, Loose
<1>2. Returns(p)
  BY <1>1, ReturnStep DEF Inv, Base
<1> QED
  BY <1>1, <1>2, GivesUp

-----------------------------------------------------------------------------
(* In the body of an operation                                             *)

LEMMA BodyFacts ==
    ASSUME Inv, NEW p \in Procs, task[p].pc \in InBody
    PROVE  LET t == task[p] IN
           /\ t \in TaskRec /\ t.op \in Ops
           /\ t.dir \in bitmap /\ t.dir \in Inos /\ IsDir(t.dir) /\ ~Fresh(t.dir)
           /\ node[t.dir].nlink > 0 /\ ~node[t.dir].dead /\ LiveDir(t.dir)
           /\ imutex[t.dir] = p /\ t.name \in Names
           /\ t.op = "rename" =>
                /\ t.from \in bitmap /\ t.from \in Inos /\ IsDir(t.from) /\ ~Fresh(t.from)
                /\ node[t.from].nlink > 0 /\ ~node[t.from].dead /\ LiveDir(t.from)
                /\ imutex[t.from] = p /\ t.fname \in Names
           /\ t.op # "rename" => t.from = None
           /\ t.ino # None => t.ino \in bitmap /\ t.ino \in Inos
           /\ t.tgt # None =>
                /\ t.tgt \in bitmap /\ t.tgt \in Inos /\ imutex[t.tgt] = p
                /\ t.tgt # t.dir /\ (t.op = "rename" => t.tgt # t.from)
<1> DEFINE t == task[p]
<1>1. LockOf(p) /\ PlaceOf(p) /\ RefOf(p) /\ t \in TaskRec /\ bitmap \subseteq Inos
  BY DEF Inv, Base, LockInv, PlaceInv, RefInv, CallTypes, TreeTypes
<1>2. t.pc \in Found /\ t.pc \in Inside /\ t.pc # "idle"
  BY DEF Inside, Found, InBody
<1>3. /\ t.op \in Ops /\ t.dir \in Inos /\ imutex[t.dir] = p /\ t.name \in Names
      /\ t.op = "rename" => t.from \in Inos /\ imutex[t.from] = p /\ t.fname \in Names
      /\ t.op # "rename" => t.from = None
      /\ t.tgt # None => /\ imutex[t.tgt] = p /\ t.tgt # t.dir
                         /\ t.op = "rename" => t.tgt # t.from
  BY <1>1, <1>2 DEF LockOf, PlaceOf
<1>4. \A d \in {t.dir, t.from} \ {None} :
        d \in bitmap /\ IsDir(d) /\ ~Fresh(d) /\ node[d].nlink > 0 /\ ~node[d].dead
  BY <1>1, <1>2 DEF RefOf
<1>5. \A d \in {t.dir, t.from} \ {None} : LiveDir(d)
  BY <1>4, LiveFacts
<1>6. (t.ino # None => t.ino \in bitmap) /\ (t.tgt # None => t.tgt \in bitmap)
  BY <1>1 DEF RefOf
<1>7. t.dir # None /\ (t.op = "rename" => t.from # None)
  BY <1>3, ConstantsOK
<1> QED
  BY <1>1, <1>3, <1>4, <1>5, <1>6, <1>7

(* A free inode has no names and no entries, and no call refers to it.     *)
LEMMA FreeFacts ==
    ASSUME Inv, NEW i \in Inos \ bitmap
    PROVE  /\ \A q \in Procs : i \notin {task[q].dir, task[q].from, task[q].ino, task[q].tgt}
           /\ \A d \in Inos, n \in Names : ~Counts(d, n, i)
           /\ CountedNames(i) = {} /\ CountedDirs(i) = {} /\ entry[i] = Empty
           /\ ~Fresh(i) /\ ~Going(i) /\ i # Root
<1>1. \A q \in Procs : i \notin {task[q].dir, task[q].from, task[q].ino, task[q].tgt}
  BY ConstantsOK DEF Inv, RefInv, RefOf
<1>2. entry[i] = Empty
  BY DEF Inv, FreeInv, EmptyInv, FreeNode, IsDir
<1>3. \A d \in Inos, n \in Names : ~Counts(d, n, i)
  BY <1>1, ConstantsOK DEF Counts, Pending, Inv, FreeInv, FreedUnreachable
<1>4. \A n \in Names : ~HasSub(i, n)
  BY <1>1, <1>2 DEF HasSub, Empty
<1>5. CountedNames(i) = {} /\ CountedDirs(i) = {}
  BY <1>3, <1>4 DEF CountedNames, CountedDirs
<1>6. ~Fresh(i) /\ ~Going(i) /\ i # Root
  BY <1>1 DEF Fresh, Going, Inv, FreeInv
<1> QED
  BY <1>1, <1>2, <1>3, <1>5, <1>6

(* A locked directory without entries, not the call's own, has no links    *)
(* of subdirectories.                                                      *)
LEMMA NoSubs ==
    ASSUME Inv, NEW p \in Procs, NEW d \in Inos, imutex[d] = p, task[p].dir # d,
           entry[d] = Empty
    PROVE  CountedDirs(d) = {} /\ Cardinality(CountedDirs(d)) = 0
<1>1. \A n \in Names : HasSub(d, n) <=> OwnSub(p, d, n)
  BY OwnSlots DEF Inv, Base
<1>2. \A n \in Names : ~OwnSub(p, d, n)
  BY DEF OwnSub, Empty
<1>3. CountedDirs(d) = {}
  BY <1>1, <1>2 DEF CountedDirs
<1> QED
  BY <1>3, FS_EmptySet

\* The account changes where the slots of the call's own directories do.
OwnSame(p) == \A d \in Inos, n \in Names, k \in Inos : imutex[d] = p =>
    (Own(p, d, n, k)' <=> Own(p, d, n, k))
OwnGain(p, e, m, j) == \A d \in Inos, n \in Names, k \in Inos : imutex[d] = p =>
    (Own(p, d, n, k)' <=> Own(p, d, n, k) \/ (d = e /\ n = m /\ k = j))
OwnLose(p, e, m, j) == \A d \in Inos, n \in Names, k \in Inos : imutex[d] = p =>
    (Own(p, d, n, k)' <=> Own(p, d, n, k) /\ ~(d = e /\ n = m /\ k = j))
OwnSubSame(p) == \A d \in Inos, n \in Names : imutex[d] = p =>
    (OwnSub(p, d, n)' <=> OwnSub(p, d, n))
OwnSubGain(p, e, m) == \A d \in Inos, n \in Names : imutex[d] = p =>
    (OwnSub(p, d, n)' <=> OwnSub(p, d, n) \/ (d = e /\ n = m))
OwnSubLose(p, e, m) == \A d \in Inos, n \in Names : imutex[d] = p =>
    (OwnSub(p, d, n)' <=> OwnSub(p, d, n) /\ ~(d = e /\ n = m))

LEMMA OwnCounts ==
    ASSUME Inv, NEW p \in Procs, BodyStep(p), WritesOwn(p), TypesStay,
           NEW e \in Inos, NEW m \in Names, NEW j \in Inos, imutex[e] = p
    PROVE  /\ Counts(e, m, j) <=> Own(p, e, m, j)
           /\ HasSub(e, m) <=> OwnSub(p, e, m)
           /\ OwnSame(p) => NamesSame
           /\ OwnGain(p, e, m, j) /\ ~Own(p, e, m, j) => NamesGain(e, m, j)
           /\ OwnLose(p, e, m, j) /\ Own(p, e, m, j) => NamesLose(e, m, j)
           /\ OwnSubSame(p) => DirsSame
           /\ OwnSubGain(p, e, m) /\ ~OwnSub(p, e, m) => DirsGain(e, m)
           /\ OwnSubLose(p, e, m) /\ OwnSub(p, e, m) => DirsLose(e, m)
<1>0. Base /\ PlaceInv /\ FreedUnreachable /\ LockInv
  BY DEF Inv, Base, FreeInv
<1>1. (Counts(e, m, j) <=> Own(p, e, m, j)) /\ (HasSub(e, m) <=> OwnSub(p, e, m))
  BY <1>0, OwnSlots
<1>2. \A d \in Inos, n \in Names, k \in Inos :
        /\ imutex[d] # p => /\ Counts(d, n, k)' <=> Counts(d, n, k)
                            /\ HasSub(d, n)' <=> HasSub(d, n)
        /\ imutex[d] = p => /\ Counts(d, n, k) <=> Own(p, d, n, k)
                            /\ Counts(d, n, k)' <=> Own(p, d, n, k)'
                            /\ HasSub(d, n) <=> OwnSub(p, d, n)
                            /\ HasSub(d, n)' <=> OwnSub(p, d, n)'
  BY <1>0, BodyCounts
<1>3. OwnSame(p) => NamesSame
  BY <1>2 DEF OwnSame, NamesSame
<1>4. OwnGain(p, e, m, j) /\ ~Own(p, e, m, j) => NamesGain(e, m, j)
  BY <1>1, <1>2 DEF OwnGain, NamesGain
<1>5. OwnLose(p, e, m, j) /\ Own(p, e, m, j) => NamesLose(e, m, j)
  BY <1>1, <1>2 DEF OwnLose, NamesLose
<1>6. OwnSubSame(p) => DirsSame
  BY <1>2 DEF OwnSubSame, DirsSame
<1>7. OwnSubGain(p, e, m) /\ ~OwnSub(p, e, m) => DirsGain(e, m)
  BY <1>1, <1>2 DEF OwnSubGain, DirsGain
<1>8. OwnSubLose(p, e, m) /\ OwnSub(p, e, m) => DirsLose(e, m)
  BY <1>1, <1>2 DEF OwnSubLose, DirsLose
<1> QED
  BY <1>1, <1>3, <1>4, <1>5, <1>6, <1>7, <1>8

\* What a call's place in the code says of its own slots.
LEMMA OwnAt ==
    ASSUME Inv, NEW p \in Procs, NEW d \in Inos, NEW n \in Names, NEW k
    PROVE  LET t == task[p]
               here == t.dir = d /\ t.name = n
           IN  /\ t.pc \in {"body", "new"} => (Own(p, d, n, k) <=> entry[d][n] = k)
               /\ t.pc \in {"makeEmpty", "addLink"} =>
                    (Own(p, d, n, k) <=> entry[d][n] = k \/ (here /\ t.ino = k))
               /\ t.pc = "dec" /\ t.op # "rename" =>
                    (Own(p, d, n, k) <=> entry[d][n] = k \/ (here /\ t.tgt = k))
               /\ t.pc = "body" => (OwnSub(p, d, n) <=> entry[d][n] # None /\ IsDir(entry[d][n]))
               /\ t.pc \in {"new", "makeEmpty", "addLink"} /\ t.op = "mkdir" =>
                    (OwnSub(p, d, n) <=> (entry[d][n] # None /\ IsDir(entry[d][n])) \/ here)
               /\ t.op \notin {"mkdir", "rmdir"} =>
                    (OwnSub(p, d, n) <=> entry[d][n] # None /\ IsDir(entry[d][n]))
               /\ t.pc = "dec" /\ t.op = "rmdir" =>
                    (OwnSub(p, d, n) <=> (entry[d][n] # None /\ IsDir(entry[d][n])) \/ here)
BY DEF Own, OwnSub, Leaving, Pending, PendingDir

\* The step has not touched inode k, or only entries of a directory in use.
Untouched(k) ==
    /\ k \in bitmap /\ node'[k].nlink = node[k].nlink
    /\ CountedNames(k)' = CountedNames(k) /\ CountedDirs(k)' = CountedDirs(k)
    /\ entry'[k] = entry[k] \/ node[k].nlink > 0

LEMMA AccountRest ==
    ASSUME Inv, TypesStay, \A k \in bitmap' : Account(k)' \/ Untouched(k)
    PROVE  AccountInv'
<1> SUFFICES ASSUME NEW k \in bitmap', Untouched(k)
             PROVE  Account(k)'
  BY DEF AccountInv
<1>1. k \in bitmap /\ k \in Inos /\ Account(k) /\ (IsDir(k)' <=> IsDir(k))
  BY DEF Inv, Base, AccountInv, TreeTypes, TypesStay, Untouched
<1> QED
  BY <1>1, AccountStays DEF Untouched

(* What most steps leave as it was.                                        *)
LEMMA FrameStep ==
    ASSUME Inv, bitmap \subseteq bitmap', bitmap' \subseteq Inos,
           node' \in [Inos -> NodeRec], \A j \in bitmap : node'[j].type = node[j].type,
           \A j \in Inos \ bitmap' : node'[j] = node[j],
           entry' = entry, dotdot' = dotdot, dparent' = dparent
    PROVE  /\ TreeTypes' /\ FreeInv' /\ TypesStay
           /\ \A p \in Procs : WritesOwn(p)
           /\ \A j \in bitmap : j \in Inos
           /\ bitmap' = bitmap => \A j \in Inos : IsDir(j)' <=> IsDir(j)
<1>1. TreeTypes' /\ \A j \in bitmap : j \in Inos
  BY DEF Inv, Base, TreeTypes
<1>2. FreeInv'
  BY DEF Inv, Base, TreeTypes, FreeInv, FreedUnreachable, IsDir
<1>3. TypesStay /\ \A p \in Procs : WritesOwn(p)
  BY DEF TypesStay, WritesOwn, IsDir
<1>4. bitmap' = bitmap => \A j \in Inos : IsDir(j)' <=> IsDir(j)
  BY DEF IsDir
<1> QED
  BY <1>1, <1>2, <1>3, <1>4

LEMMA NewInode ==
    ASSUME Inv, NEW p \in Procs, NEW i \in Inos, NEW type \in {"file", "dir"},
           NEW nlink \in 0..2, ext2_new_inode(i, type, nlink),
           entry' = entry, dotdot' = dotdot, dparent' = dparent
    PROVE  /\ i \notin bitmap /\ bitmap' = bitmap \cup {i}
           /\ \A j \in Inos \ {i} : node'[j] = node[j]
           /\ TreeTypes' /\ FreeInv' /\ MaxInv' /\ TypesStay /\ WritesOwn(p)
           /\ node'[i].nlink = nlink /\ ~node'[i].dead /\ (IsDir(i)' <=> type = "dir")
<1>0. node \in [Inos -> NodeRec] /\ bitmap \subseteq Inos
  BY DEF Inv, Base, TreeTypes
<1>1. /\ i \notin bitmap /\ bitmap' = bitmap \cup {i}
      /\ node' = [node EXCEPT ![i] = NewNode(type, nlink)]
  BY DEF ext2_new_inode
<1>2. node'[i] = NewNode(type, nlink) /\ \A j \in Inos \ {i} : node'[j] = node[j]
  BY <1>0, <1>1
<1>3. node' \in [Inos -> NodeRec]
  <2>1. NewNode(type, nlink) \in NodeRec
    BY DEF NewNode, NodeRec
  <2> QED
    BY <1>0, <1>1, <2>1
<1>4. node'[i].nlink = nlink /\ ~node'[i].dead /\ (IsDir(i)' <=> type = "dir")
  BY <1>2 DEF NewNode, IsDir
<1>5. TreeTypes' /\ FreeInv' /\ TypesStay /\ WritesOwn(p)
  BY <1>0, <1>1, <1>2, <1>3, FrameStep
<1>6. MaxInv'
  BY <1>2, <1>4, ConstantsOK DEF Inv, MaxInv
<1> QED
  BY <1>1, <1>2, <1>4, <1>5, <1>6

LEMMA InvCreate ==
    ASSUME Inv, NEW p \in Procs, ext2_create(p)
    PROVE  Inv'
<1> DEFINE t == task[p]
<1>0. /\ t.pc = "body" /\ t.op = "create" /\ t.pc \in InBody /\ Loose(t)
      /\ entry' = entry /\ dotdot' = dotdot /\ dparent' = dparent
      /\ CallTypes /\ bitmap \subseteq Inos /\ FreedUnreachable
  BY DEF ext2_create, InBody, Loose, Inv, Base, TreeTypes, FreeInv
<1>1. /\ t.dir \in bitmap /\ t.dir \in Inos /\ t.name \in Names /\ imutex[t.dir] = p
      /\ IsDir(t.dir) /\ ~Fresh(t.dir) /\ node[t.dir].nlink > 0 /\ ~node[t.dir].dead
      /\ t.from = None /\ entry[t.dir][t.name] = None /\ t.tgt = None
  <2>1. t.pc \in Found /\ PlaceOf(p)
    BY <1>0 DEF Found, InBody, Inv, PlaceInv
  <2> QED
    BY <1>0, <2>1, BodyFacts DEF PlaceOf
<1>2. CASE \E i \in Inos : /\ ext2_new_inode(i, "file", 1)
                           /\ task' = [task EXCEPT ![p].ino = i, ![p].pc = "addLink"]
                           /\ UNCHANGED locks
  <2>1. PICK i \in Inos : /\ ext2_new_inode(i, "file", 1)
                          /\ task' = [task EXCEPT ![p].ino = i, ![p].pc = "addLink"]
                          /\ UNCHANGED locks
    BY <1>2
  <2>2. GoesWith(p, i, "addLink") /\ UNCHANGED <<imutex, renameMutex>>
    BY <1>0, <2>1, NewStep DEF Pcs, locks
  <2>3. /\ i \notin bitmap /\ bitmap' = bitmap \cup {i}
        /\ \A j \in Inos \ {i} : node'[j] = node[j]
        /\ TreeTypes' /\ FreeInv' /\ MaxInv' /\ TypesStay /\ WritesOwn(p)
        /\ node'[i].nlink = 1 /\ ~node'[i].dead /\ ~IsDir(i)'
    BY <1>0, <2>1, NewInode
  <2>4. BodyStep(p)
    BY <1>0, <2>2 DEF BodyStep, InBody
  <2>5. NamesGain(t.dir, t.name, i) /\ DirsSame
    <3>1. OwnGain(p, t.dir, t.name, i) /\ OwnSubSame(p)
      BY <1>0, <2>2, <2>3 DEF OwnGain, OwnSubSame, Own, OwnSub, Leaving, Pending, PendingDir,
         GoesWith, SameCall, TypesStay, FreedUnreachable, IsDir
    <3>2. ~Own(p, t.dir, t.name, i)
      BY <1>0, <1>1, OwnAt, ConstantsOK
    <3> QED
      BY <1>1, <2>3, <2>4, <3>1, <3>2, OwnCounts
  <2>6. AccountInv'
    <3>1. CountedNames(i) = {} /\ Cardinality(CountedNames(i)) = 0
      BY <2>3, FreeFacts, FS_EmptySet
    <3>2. Cardinality(CountedNames(i)') = 1
      BY <1>1, <2>5, <3>1, NamesGainSets
    <3>4. Account(i)'
      BY <2>3, <3>2 DEF Account
    <3>3. \A k \in bitmap : Untouched(k)
      BY <1>0, <1>1, <2>3, <2>5, NamesGainSets, DirsSameSets DEF Untouched
    <3> QED
      BY <2>3, <3>4, <3>3, AccountRest
  <2>7. \A k : (Fresh(k)' <=> Fresh(k)) /\ (Going(k)' <=> Going(k))
    BY <1>0, <2>2 DEF Fresh, Going, GoesWith, Moves, SameCall
  <2>8. EmptyInv'
    <3>1. entry[i] = Empty
      BY <2>3, FreeFacts
    <3> QED
      BY <1>0, <2>3, <2>7, <3>1 DEF Inv, EmptyInv, RemovedStaysEmpty, IsDir
  <2>9. Gentle(p)
    BY <1>0, <2>3, <2>7 DEF Gentle, Alive
  <2>10. PlaceOf(p)'
    BY <1>0, <1>1, <2>2, <2>3, ConstantsOK DEF PlaceOf, GoesWith, SameCall
  <2>11. RefOf(p)'
    BY <1>0, <1>1, <2>2, <2>3, <2>7 DEF RefOf, GoesWith, SameCall, IsDir, Alive
  <2> QED
    BY <1>0, <2>2, <2>3, <2>6, <2>8, <2>9, <2>10, <2>11, GoesInv DEF InBody
<1>3. CASE \E i \in Inos : ext2_new_inode(i, "file", 0) /\ Return(p)
  <2>1. PICK i \in Inos : ext2_new_inode(i, "file", 0) /\ Return(p)
    BY <1>3
  <2>2. Returns(p)
    BY <1>0, <2>1, ReturnStep
  <2>3. /\ i \notin bitmap /\ bitmap' = bitmap \cup {i}
        /\ \A j \in Inos \ {i} : node'[j] = node[j]
        /\ TreeTypes' /\ FreeInv' /\ MaxInv' /\ TypesStay /\ WritesOwn(p)
        /\ node'[i].nlink = 0 /\ ~node'[i].dead /\ ~IsDir(i)'
    BY <1>0, <2>1, NewInode
  <2>4. BodyStep(p)
    BY <1>0, <2>2 DEF BodyStep
  <2>5. NamesSame /\ DirsSame
    <3>1. OwnSame(p) /\ OwnSubSame(p)
      BY <1>0, <2>2, <2>3, IdleType DEF OwnSame, OwnSubSame, Own, OwnSub, Leaving, Pending,
         PendingDir, Returns, TypesStay, FreedUnreachable, IsDir
    <3> QED
      BY <1>1, <2>3, <2>4, <3>1, OwnCounts
  <2>6. AccountInv'
    <3>1. CountedNames(i)' = {}
      BY <2>3, <2>5, FreeFacts, NamesSameSets
    <3>2. Account(i)'
      BY <2>3, <3>1, FS_EmptySet DEF Account
    <3>3. \A k \in bitmap : Untouched(k)
      BY <1>0, <2>3, <2>5, NamesSameSets, DirsSameSets DEF Untouched
    <3> QED
      BY <2>3, <3>2, <3>3, AccountRest
  <2>7. \A k : (Fresh(k)' <=> Fresh(k)) /\ (Going(k)' <=> Going(k))
    BY <1>0, <2>2, IdleType DEF Fresh, Going, Returns, Moves
  <2>8. EmptyInv'
    <3>1. entry[i] = Empty
      BY <2>3, FreeFacts
    <3> QED
      BY <1>0, <2>3, <2>7, <3>1 DEF Inv, EmptyInv, RemovedStaysEmpty, IsDir
  <2>9. Gentle(p)
    BY <1>0, <2>3, <2>7 DEF Gentle, Alive
  <2> QED
    BY <2>2, <2>3, <2>6, <2>8, <2>9, ReturnsInv
<1>4. CASE Return(p) /\ UNCHANGED <<bitmap, node>>
  BY <1>0, <1>4, ReturnStep, GivesUp DEF Tree
<1> QED
  BY <1>2, <1>3, <1>4 DEF ext2_create

\* Only the link count of inode i changes.
Relinked(i, n) ==
    /\ node'[i].nlink = n
    /\ node'[i].type = node[i].type /\ (node'[i].dead <=> node[i].dead)

LEMMA NlinkStep ==
    ASSUME TreeTypes, NEW i \in Inos
    PROVE  /\ AddNlink(i) => /\ node' \in [Inos -> NodeRec]
                             /\ Relinked(i, node[i].nlink + 1)
                             /\ \A j \in Inos \ {i} : node'[j] = node[j]
           /\ DropNlink(i) => /\ node' \in [Inos -> NodeRec]
                              /\ Relinked(i, node[i].nlink - 1)
                              /\ \A j \in Inos \ {i} : node'[j] = node[j]
<1>0. node \in [Inos -> NodeRec] /\ node[i] \in NodeRec
  BY DEF TreeTypes
<1>1. ASSUME NEW m \in Int, node' = [node EXCEPT ![i].nlink = m]
      PROVE  /\ node' \in [Inos -> NodeRec] /\ Relinked(i, m)
             /\ \A j \in Inos \ {i} : node'[j] = node[j]
  <2> DEFINE r == [node[i] EXCEPT !.nlink = m]
  <2>1. r \in NodeRec /\ r.nlink = m /\ r.type = node[i].type /\ r.dead = node[i].dead
    BY <1>0 DEF NodeRec
  <2>2. node' = [node EXCEPT ![i] = r]
    BY <1>1
  <2> HIDE DEF r
  <2>3. node'[i] = r /\ \A j \in Inos \ {i} : node'[j] = node[j]
    BY <1>0, <2>2
  <2> QED
    BY <1>0, <2>1, <2>2, <2>3 DEF Relinked
<1>2. node[i].nlink + 1 \in Int /\ node[i].nlink - 1 \in Int
  BY <1>0 DEF NodeRec
<1> QED
  BY <1>1, <1>2 DEF AddNlink, DropNlink

(* A directory in use that gains or loses a subdirectory.                  *)
LEMMA LiveChanges ==
    ASSUME Inv, NEW d \in bitmap, IsDir(d), LiveDir(d), NEW x \in {-1, 0, 1},
           node'[d].nlink = node[d].nlink + x, CountedNames(d)' = CountedNames(d),
           Cardinality(CountedDirs(d)') = Cardinality(CountedDirs(d)) + x, IsDir(d)'
    PROVE  Account(d)' /\ node'[d].nlink > 0
<1>1. Cardinality(CountedDirs(d)) \in Nat /\ Cardinality(CountedDirs(d)') \in Nat
  BY FiniteCounts, CountedTypes
<1>2. node[d].nlink = 2 + Cardinality(CountedDirs(d))
  BY DEF LiveDir
<1>3. node'[d].nlink = 2 + Cardinality(CountedDirs(d)')
  BY <1>1, <1>2
<1>4. LiveDir(d)'
  BY <1>3 DEF LiveDir
<1> QED
  BY <1>1, <1>3, <1>4 DEF Account

LEMMA InvMkdir ==
    ASSUME Inv, NEW p \in Procs, ext2_mkdir(p)
    PROVE  Inv'
<1> DEFINE t == task[p]
<1>0. /\ t.pc = "body" /\ t.op = "mkdir" /\ t.pc \in InBody /\ Loose(t)
      /\ bitmap' = bitmap /\ entry' = entry /\ dotdot' = dotdot /\ dparent' = dparent
      /\ CallTypes /\ TreeTypes /\ bitmap \subseteq Inos /\ FreedUnreachable
  BY DEF ext2_mkdir, InBody, Loose, Inv, Base, TreeTypes, FreeInv
<1>d. PICK d \in Inos : d = t.dir
  BY <1>0, BodyFacts
<1>1. /\ d \in bitmap /\ t.name \in Names /\ imutex[d] = p
      /\ IsDir(d) /\ ~Fresh(d) /\ node[d].nlink > 0 /\ ~node[d].dead /\ LiveDir(d)
      /\ t.from = None /\ entry[d][t.name] = None /\ t.tgt = None
      /\ t.ino # None => t.ino \in bitmap
  <2>1. t.pc \in Found /\ PlaceOf(p)
    BY <1>0 DEF Found, InBody, Inv, PlaceInv
  <2> QED
    BY <1>0, <1>d, <2>1, BodyFacts DEF PlaceOf
<1>2. CASE /\ node[d].nlink < LinkMax /\ AddNlink(d)
           /\ Goto(p, "new") /\ UNCHANGED locks
  <2>1. GoesWith(p, t.ino, "new") /\ UNCHANGED <<imutex, renameMutex>>
    BY <1>0, <1>2, GotoStep DEF Pcs, locks, Goes
  <2>2. /\ node' \in [Inos -> NodeRec] /\ Relinked(d, node[d].nlink + 1)
        /\ \A j \in Inos \ {d} : node'[j] = node[j]
    BY <1>0, <1>1, <1>2, NlinkStep
  <2>3. /\ TreeTypes' /\ FreeInv' /\ TypesStay /\ WritesOwn(p)
        /\ \A j \in Inos : IsDir(j)' <=> IsDir(j)
    <3>1. \A j \in Inos : node'[j].type = node[j].type
      BY <2>2 DEF Relinked
    <3>2. \A j \in Inos \ bitmap' : node'[j] = node[j]
      BY <1>0, <1>1, <2>2
    <3> QED
      BY <1>0, <2>2, <3>1, <3>2, FrameStep
  <2>4. BodyStep(p)
    BY <1>0, <2>1 DEF BodyStep, InBody
  <2>5. NamesSame /\ DirsGain(d, t.name)
    <3>1. OwnSame(p) /\ OwnSubGain(p, d, t.name)
      BY <1>0, <1>d, <2>1, <2>3 DEF OwnSame, OwnSubGain, Own, OwnSub, Leaving, Pending, PendingDir,
         GoesWith, SameCall, TypesStay, FreedUnreachable, IsDir
    <3>2. ~OwnSub(p, d, t.name)
      BY <1>0, <1>1, <1>d, OwnAt
    <3> QED
      BY <1>1, <2>3, <2>4, <3>1, <3>2, OwnCounts
  <2>6. Account(d)'
    <3>1. CountedNames(d)' = CountedNames(d)
      BY <1>1, <2>5, NamesSameSets
    <3>2. Cardinality(CountedDirs(d)') = Cardinality(CountedDirs(d)) + 1
      BY <1>1, <2>5, DirsGainSets
    <3>3. node'[d].nlink = node[d].nlink + 1 /\ IsDir(d)'
      BY <1>1, <2>2, <2>3 DEF Relinked
    <3> QED
      BY <1>1, <3>1, <3>2, <3>3, LiveChanges
  <2>7. AccountInv'
    <3>1. \A k \in bitmap \ {d} : Untouched(k)
      <4> TAKE k \in bitmap \ {d}
      <4>1. k \in Inos /\ k # d
        BY <1>0
      <4>2. CountedNames(k)' = CountedNames(k)
        BY <2>5, <4>1, NamesSameSets
      <4>3. CountedDirs(k)' = CountedDirs(k)
        BY <1>1, <2>5, <4>1, DirsGainSets
      <4> QED
        BY <1>0, <2>2, <4>1, <4>2, <4>3 DEF Untouched
    <3> QED
      BY <1>0, <2>3, <2>6, <3>1, AccountRest
  <2>8. \A k : (Fresh(k)' <=> Fresh(k)) /\ (Going(k)' <=> Going(k))
    BY <1>0, <2>1 DEF Fresh, Going, GoesWith, Moves, SameCall
  <2>9. EmptyInv'
    BY <1>0, <2>2, <2>3, <2>8 DEF Inv, EmptyInv, RemovedStaysEmpty, Relinked
  <2>10. node'[d].nlink > 0 /\ node'[d].nlink <= LinkMax /\ ~node'[d].dead
    <3>1. node[d].nlink \in Int
      BY <1>0, <1>1 DEF TreeTypes, NodeRec
    <3> QED
      BY <1>1, <1>2, <2>2, <3>1, ConstantsOK DEF Relinked
  <2>11. MaxInv' /\ Gentle(p)
    BY <1>0, <2>2, <2>8, <2>10 DEF Inv, MaxInv, Gentle, Alive
  <2>12. PlaceOf(p)'
    BY <1>0, <1>1, <1>d, <2>1 DEF PlaceOf, GoesWith, SameCall
  <2>13. RefOf(p)'
    BY <1>0, <1>1, <1>d, <2>1, <2>3, <2>8, <2>10 DEF RefOf, GoesWith, SameCall, Alive, Found, InBody, Inv, RefInv
  <2> QED
    BY <1>0, <2>1, <2>3, <2>7, <2>9, <2>11, <2>12, <2>13, GoesInv DEF InBody
<1>3. CASE Return(p) /\ UNCHANGED node
  BY <1>0, <1>3, ReturnStep, GivesUp DEF Tree
<1> QED
  BY <1>d, <1>2, <1>3 DEF ext2_mkdir

LEMMA TwoNodes ==
    ASSUME TreeTypes, NEW i \in Inos, NEW d \in Inos \ {i}, NEW r \in NodeRec,
           node' = [node EXCEPT ![i] = r, ![d].nlink = @ - 1]
    PROVE  /\ node' \in [Inos -> NodeRec]
           /\ node'[i] = r /\ Relinked(d, node[d].nlink - 1)
           /\ \A j \in Inos \ {i, d} : node'[j] = node[j]
<1>0. node \in [Inos -> NodeRec] /\ node[d] \in NodeRec
  BY DEF TreeTypes
<1> DEFINE s == [node[d] EXCEPT !.nlink = @ - 1]
<1>1. /\ s \in NodeRec /\ s.nlink = node[d].nlink - 1 /\ s.type = node[d].type
      /\ s.dead = node[d].dead
  BY <1>0 DEF NodeRec
<1>2. node' = [node EXCEPT ![i] = r, ![d] = s]
  BY <1>0
<1> HIDE DEF s
<1>3. node' \in [Inos -> NodeRec] /\ node'[d] = s /\ node'[i] = r
  BY <1>0, <1>1, <1>2
<1>4. \A j \in Inos \ {i, d} : node'[j] = node[j]
  BY <1>0, <1>2
<1> QED
  BY <1>1, <1>3, <1>4 DEF Relinked

(* The parent of a directory that is gone, or was not made, loses a link.  *)
LEMMA LosesDir ==
    ASSUME Inv, NEW d \in bitmap, IsDir(d), LiveDir(d), NEW n \in Names, DirsLose(d, n),
           CountedNames(d)' = CountedNames(d),
           Relinked(d, node[d].nlink - 1)
    PROVE  Account(d)' /\ node'[d].nlink > 0 /\ node'[d].nlink <= LinkMax /\ IsDir(d)'
<1>1. d \in Inos /\ node[d].nlink \in Int /\ LinkMax \in Int /\ node[d].nlink <= LinkMax
  BY ConstantsOK DEF Inv, Base, TreeTypes, NodeRec, MaxInv
<1>2. IsDir(d)' /\ node'[d].nlink = node[d].nlink + (-1) /\ node'[d].nlink <= LinkMax
  BY <1>1 DEF Relinked, IsDir
<1>3. Cardinality(CountedDirs(d)') = Cardinality(CountedDirs(d)) + (-1)
  BY <1>1, DirsLoseSets, FiniteCounts, CountedTypes
<1> QED
  BY <1>2, <1>3, LiveChanges

LEMMA InvMkdirInode ==
    ASSUME Inv, NEW p \in Procs, MkdirInode(p)
    PROVE  Inv'
<1> DEFINE t == task[p]
<1>0. /\ t.pc = "new" /\ t.op = "mkdir" /\ t.pc \in InBody
      /\ entry' = entry /\ dotdot' = dotdot /\ dparent' = dparent
      /\ CallTypes /\ TreeTypes /\ bitmap \subseteq Inos /\ FreedUnreachable
  BY DEF MkdirInode, InBody, Inv, Base, TreeTypes, FreeInv, PlaceInv, PlaceOf
<1>d. PICK d \in Inos, n \in Names : d = t.dir /\ n = t.name
  BY <1>0, BodyFacts
<1>1. /\ d \in bitmap /\ imutex[d] = p
      /\ IsDir(d) /\ ~Fresh(d) /\ node[d].nlink > 0 /\ ~node[d].dead /\ LiveDir(d)
      /\ t.from = None /\ entry[d][n] = None /\ t.tgt = None
  <2>1. t.pc \in Found /\ PlaceOf(p)
    BY <1>0 DEF Found, InBody, Inv, PlaceInv
  <2> QED
    BY <1>0, <1>d, <2>1, BodyFacts DEF PlaceOf
<1>own. OwnSub(p, d, n)
  BY <1>0, <1>d, OwnAt
<1>2. CASE \E i \in Inos : /\ ext2_new_inode(i, "dir", 2)
                           /\ task' = [task EXCEPT ![p].ino = i, ![p].pc = "makeEmpty"]
                           /\ UNCHANGED locks
  <2>1. PICK i \in Inos : /\ ext2_new_inode(i, "dir", 2)
                          /\ task' = [task EXCEPT ![p].ino = i, ![p].pc = "makeEmpty"]
                          /\ UNCHANGED locks
    BY <1>2
  <2>2. GoesWith(p, i, "makeEmpty") /\ UNCHANGED <<imutex, renameMutex>>
    BY <1>0, <2>1, NewStep DEF Pcs, locks
  <2>3. /\ i \notin bitmap /\ bitmap' = bitmap \cup {i}
        /\ \A j \in Inos \ {i} : node'[j] = node[j]
        /\ TreeTypes' /\ FreeInv' /\ MaxInv' /\ TypesStay /\ WritesOwn(p)
        /\ node'[i].nlink = 2 /\ ~node'[i].dead /\ IsDir(i)'
    BY <1>0, <2>1, NewInode
  <2>4. BodyStep(p)
    BY <1>0, <2>2 DEF BodyStep, InBody
  <2>5. NamesGain(d, n, i) /\ DirsSame
    <3>1. OwnGain(p, d, n, i) /\ OwnSubSame(p)
      BY <1>0, <1>d, <2>2, <2>3 DEF OwnGain, OwnSubSame, Own, OwnSub, Leaving, Pending,
         PendingDir, GoesWith, SameCall, TypesStay, FreedUnreachable, IsDir
    <3>2. ~Own(p, d, n, i)
      BY <1>0, <1>1, OwnAt, ConstantsOK
    <3> QED
      BY <1>1, <2>3, <2>4, <3>1, <3>2, OwnCounts
  <2>6. CountedNames(i) = {} /\ CountedDirs(i) = {} /\ entry[i] = Empty /\ i # Root
    BY <2>3, FreeFacts
  <2>7. AccountInv'
    <3>1. CountedNames(i)' = {<<d, n>>} /\ CountedDirs(i)' = {}
      BY <2>5, <2>6, NamesGainSets, DirsSameSets
    <3>4. node'[i].nlink = 2 + Cardinality(CountedDirs(i)')
      BY <2>3, <3>1, FS_EmptySet
    <3>5. LiveDir(i)'
      BY <2>6, <3>1, <3>4 DEF LiveDir
    <3>2. Account(i)'
      BY <2>3, <3>5 DEF Account
    <3>3. \A k \in bitmap : Untouched(k)
      BY <1>0, <2>3, <2>5, NamesGainSets, DirsSameSets DEF Untouched
    <3> QED
      BY <2>3, <3>2, <3>3, AccountRest
  <2>8. \A k : (Fresh(k)' <=> Fresh(k) \/ k = i) /\ (Going(k)' <=> Going(k))
    BY <1>0, <2>2 DEF Fresh, Going, GoesWith, Moves, SameCall
  <2>9. EmptyInv'
    BY <1>0, <2>3, <2>6, <2>8 DEF Inv, EmptyInv, RemovedStaysEmpty, IsDir
  <2>10. Gentle(p)
    BY <1>0, <2>3, <2>8 DEF Gentle, Alive
  <2>11. PlaceOf(p)'
    BY <1>0, <1>d, <1>1, <2>2, <2>3, ConstantsOK DEF PlaceOf, GoesWith, SameCall
  <2>12. RefOf(p)'
    BY <1>0, <1>d, <1>1, <2>2, <2>3, <2>8 DEF RefOf, GoesWith, SameCall, IsDir, Alive
  <2> QED
    BY <1>0, <2>2, <2>3, <2>7, <2>9, <2>10, <2>11, <2>12, GoesInv DEF InBody
<1>3. ASSUME Return(p), bitmap \subseteq bitmap', bitmap' \subseteq Inos,
             node' \in [Inos -> NodeRec], Relinked(d, node[d].nlink - 1),
             \A j \in bitmap \ {d} : node'[j] = node[j],
             \A j \in Inos \ bitmap' : node'[j] = node[j],
             \A j \in bitmap' \ bitmap : node'[j] = NewNode("dir", 0)
      PROVE  Inv'
  <2>1. Returns(p) /\ BodyStep(p)
    BY <1>0, <1>3, ReturnStep DEF BodyStep
  <2>2. \A j \in bitmap : node'[j].type = node[j].type /\ (node'[j].dead <=> node[j].dead)
    BY <1>3 DEF Relinked
  <2>3. TreeTypes' /\ FreeInv' /\ TypesStay /\ WritesOwn(p)
    BY <1>0, <1>3, <2>2, FrameStep
  <2>4. NamesSame /\ DirsLose(d, n)
    <3>1. OwnSame(p) /\ OwnSubLose(p, d, n)
      BY <1>0, <1>d, <1>1, <2>1, <2>3, IdleType DEF OwnSame, OwnSubLose, Own, OwnSub, Leaving,
         Pending, PendingDir, Returns, TypesStay, FreedUnreachable, IsDir
    <3> QED
      BY <1>1, <1>own, <2>1, <2>3, <3>1, OwnCounts
  <2>5. \A k \in Inos : CountedNames(k)' = CountedNames(k)
    BY <2>4, NamesSameSets
  <2>6. Account(d)' /\ node'[d].nlink > 0 /\ node'[d].nlink <= LinkMax /\ IsDir(d)'
    BY <1>1, <1>3, <2>4, <2>5, LosesDir
  <2>7. \A j \in bitmap' \ bitmap : /\ node'[j].nlink = 0 /\ ~node'[j].dead /\ IsDir(j)'
                                    /\ CountedNames(j) = {} /\ entry[j] = Empty /\ j # Root
    BY <1>3, FreeFacts DEF NewNode, IsDir
  <2>8. AccountInv'
    <3>1. \A k \in bitmap' \ bitmap : Account(k)'
      BY <1>0, <1>3, <2>5, <2>7 DEF Account, GoneDir
    <3>2. \A k \in bitmap \ {d} : Untouched(k)
      BY <1>0, <1>3, <2>4, <2>5, DirsLoseSets DEF Untouched
    <3> QED
      BY <2>3, <2>6, <3>1, <3>2, AccountRest
  <2>9. \A k : (Fresh(k)' <=> Fresh(k)) /\ (Going(k)' <=> Going(k))
    BY <1>0, <2>1, IdleType DEF Fresh, Going, Returns, Moves
  <2>10. EmptyInv'
    BY <1>0, <1>3, <2>2, <2>7, <2>9 DEF Inv, EmptyInv, RemovedStaysEmpty, IsDir
  <2>11. MaxInv'
    BY <1>0, <1>3, <2>6, <2>7, ConstantsOK DEF Inv, MaxInv
  <2>12. Gentle(p)
    BY <1>3, <2>2, <2>6, <2>9 DEF Gentle, Alive
  <2> QED
    BY <2>1, <2>3, <2>8, <2>10, <2>11, <2>12, ReturnsInv
<1>4. CASE \E i \in Inos \ bitmap :
            /\ bitmap' = bitmap \cup {i}
            /\ node' = [node EXCEPT ![i] = NewNode("dir", 0), ![t.dir].nlink = @ - 1]
            /\ Return(p)
  <2>1. PICK i \in Inos \ bitmap :
            /\ bitmap' = bitmap \cup {i}
            /\ node' = [node EXCEPT ![i] = NewNode("dir", 0), ![d].nlink = @ - 1]
            /\ Return(p)
    BY <1>4, <1>d
  <2>2. NewNode("dir", 0) \in NodeRec
    BY DEF NewNode, NodeRec
  <2>3. /\ node' \in [Inos -> NodeRec] /\ node'[i] = NewNode("dir", 0)
        /\ Relinked(d, node[d].nlink - 1) /\ \A j \in Inos \ {i, d} : node'[j] = node[j]
    BY <1>0, <1>1, <2>1, <2>2, TwoNodes, ZenonT(60)
  <2> QED
    BY <1>0, <1>1, <1>3, <2>1, <2>3
<1>5. CASE DropNlink(t.dir) /\ Return(p) /\ UNCHANGED bitmap
  <2>1. /\ node' \in [Inos -> NodeRec] /\ Relinked(d, node[d].nlink - 1)
        /\ \A j \in Inos \ {d} : node'[j] = node[j]
    BY <1>0, <1>d, <1>5, NlinkStep
  <2> QED
    BY <1>0, <1>1, <1>3, <1>5, <2>1
<1> QED
  BY <1>2, <1>4, <1>5 DEF MkdirInode

(* The directory that a mkdir makes has nothing but its two links, one of  *)
(* them for the name that is not there yet.                                *)
LEMMA FreshDir ==
    ASSUME Inv, NEW p \in Procs, task[p].op = "mkdir", task[p].pc \in {"makeEmpty", "addLink"},
           NEW i, i = task[p].ino, NEW d, d = task[p].dir, NEW n, n = task[p].name
    PROVE  /\ i \in bitmap /\ i \in Inos /\ i # None /\ i # d /\ i # Root
           /\ IsDir(i) /\ Fresh(i) /\ node[i].nlink = 2
           /\ d \in Inos /\ n \in Names /\ entry[d][n] = None
           /\ CountedNames(i) = {<<d, n>>} /\ entry[i] = Empty
           /\ Own(p, d, n, i) /\ OwnSub(p, d, n)
<1>0. task[p].pc \in InBody /\ task[p].pc \in Found /\ PlaceOf(p)
  BY DEF InBody, Found, Inv, PlaceInv
<1>1. i # None /\ IsDir(i) /\ entry[d][n] = None
  BY <1>0 DEF PlaceOf
<1>2. i \in bitmap /\ i \in Inos /\ d \in Inos /\ n \in Names /\ ~Fresh(d)
  BY <1>0, <1>1, BodyFacts
<1>3. Fresh(i) /\ i # d
  BY <1>2 DEF Fresh
<1>4. Counts(d, n, i)
  BY DEF Counts, Pending
<1>5. LiveDir(i) /\ i # Root /\ CountedNames(i) = {<<d, n>>}
  BY <1>1, <1>2, <1>4, OneName
<1>6. entry[i] = Empty
  BY <1>2, <1>3 DEF Inv, EmptyInv
<1>7. CountedDirs(i) = {}
  <2>1. \A q \in Procs : task[q].dir # i
    BY <1>2, <1>3, ConstantsOK DEF Inv, RefInv, RefOf
  <2> QED
    BY <1>6, <2>1 DEF CountedDirs, HasSub, Empty
<1>8. node[i].nlink = 2
  BY <1>5, <1>7, FS_EmptySet DEF LiveDir
<1>9. Own(p, d, n, i) /\ OwnSub(p, d, n)
  BY DEF Own, OwnSub, Pending, PendingDir
<1> QED
  BY <1>1, <1>2, <1>3, <1>5, <1>6, <1>8, <1>9

(* out_fail of ext2_mkdir.                                                 *)
LEMMA InvMkdirUndo ==
    ASSUME Inv, NEW p \in Procs, task[p].op = "mkdir", task[p].pc \in {"makeEmpty", "addLink"},
           MkdirUndo(p), Return(p), UNCHANGED <<bitmap, entry, dotdot, dparent>>
    PROVE  Inv'
<1> DEFINE t == task[p]
<1>0. t.pc \in InBody /\ CallTypes /\ TreeTypes /\ bitmap \subseteq Inos /\ FreedUnreachable
  BY DEF InBody, Inv, Base, TreeTypes, FreeInv
<1>d. PICK i, d, n : i = t.ino /\ d = t.dir /\ n = t.name
  OBVIOUS
<1>1. /\ i \in bitmap /\ i \in Inos /\ i # None /\ i # d /\ i # Root
      /\ IsDir(i) /\ Fresh(i) /\ node[i].nlink = 2
      /\ d \in Inos /\ n \in Names /\ entry[d][n] = None
      /\ CountedNames(i) = {<<d, n>>} /\ entry[i] = Empty
      /\ Own(p, d, n, i) /\ OwnSub(p, d, n)
  BY <1>d, FreshDir
<1>2. d \in bitmap /\ imutex[d] = p /\ IsDir(d) /\ LiveDir(d) /\ t.from = None
  BY <1>0, <1>d, BodyFacts
<1>3. Returns(p) /\ BodyStep(p)
  BY <1>0, ReturnStep DEF BodyStep
<1>4. /\ node' \in [Inos -> NodeRec] /\ Relinked(i, 0) /\ Relinked(d, node[d].nlink - 1)
      /\ \A j \in Inos \ {i, d} : node'[j] = node[j]
  <2> DEFINE r == [node[i] EXCEPT !.nlink = @ - 2]
  <2>1. r \in NodeRec /\ r.nlink = 0 /\ r.type = node[i].type /\ r.dead = node[i].dead
    <3>1. node[i] \in NodeRec
      BY <1>0, <1>1 DEF TreeTypes
    <3> QED
      BY <1>1, <3>1 DEF NodeRec
  <2>2. node' = [node EXCEPT ![i] = r, ![d].nlink = @ - 1]
    BY <1>d DEF MkdirUndo
  <2> HIDE DEF r
  <2>3. /\ node' \in [Inos -> NodeRec] /\ node'[i] = r /\ Relinked(d, node[d].nlink - 1)
        /\ \A j \in Inos \ {i, d} : node'[j] = node[j]
    BY <1>0, <1>1, <2>1, <2>2, TwoNodes
  <2> QED
    BY <2>1, <2>3 DEF Relinked
<1>5. \A j \in Inos : node'[j].type = node[j].type /\ (node'[j].dead <=> node[j].dead)
  BY <1>4 DEF Relinked
<1>6. /\ TreeTypes' /\ FreeInv' /\ TypesStay /\ WritesOwn(p)
      /\ \A j \in Inos : IsDir(j)' <=> IsDir(j)
  BY <1>0, <1>1, <1>2, <1>4, <1>5, FrameStep
<1>7. NamesLose(d, n, i) /\ DirsLose(d, n)
  <2>1. OwnLose(p, d, n, i) /\ OwnSubLose(p, d, n)
    BY <1>0, <1>d, <1>1, <1>3, <1>6, IdleType DEF OwnLose, OwnSubLose, Own, OwnSub, Leaving,
       Pending, PendingDir, Returns, TypesStay, FreedUnreachable, IsDir
  <2> QED
    BY <1>1, <1>2, <1>3, <1>6, <2>1, OwnCounts
<1>8. CountedNames(i)' = {} /\ \A k \in Inos \ {i} : CountedNames(k)' = CountedNames(k)
  <2>1. /\ CountedNames(i)' = CountedNames(i) \ {<<d, n>>}
        /\ \A k \in Inos \ {i} : CountedNames(k)' = CountedNames(k)
    BY <1>1, <1>7, NamesLoseSets
  <2> QED
    BY <1>1, <2>1
<1>9. Account(i)'
  BY <1>1, <1>4, <1>6, <1>8 DEF Account, GoneDir, Relinked
<1>10. Account(d)' /\ node'[d].nlink > 0 /\ node'[d].nlink <= LinkMax
  <2>1. CountedNames(d)' = CountedNames(d)
    BY <1>1, <1>8
  <2> QED
    BY <1>1, <1>2, <1>4, <1>7, <2>1, LosesDir
<1>11. AccountInv'
  <2>1. \A k \in bitmap \ {i, d} : Untouched(k)
    BY <1>0, <1>1, <1>4, <1>7, <1>8, DirsLoseSets DEF Untouched
  <2> QED
    BY <1>6, <1>9, <1>10, <2>1, AccountRest
<1>12. \A k : (Fresh(k)' => Fresh(k)) /\ (Going(k)' <=> Going(k))
  BY <1>3, IdleType DEF Fresh, Going, Returns, Moves
<1>13. EmptyInv'
  BY <1>5, <1>6, <1>12 DEF Inv, EmptyInv, RemovedStaysEmpty
<1>14. MaxInv'
  BY <1>4, <1>10, ConstantsOK DEF Inv, MaxInv, Relinked
<1>15. Gentle(p)
  BY <1>0, <1>1, <1>4, <1>5, <1>10, <1>12 DEF Gentle, Alive
<1> QED
  BY <1>3, <1>6, <1>11, <1>13, <1>14, <1>15, ReturnsInv

LEMMA InvMakeEmpty ==
    ASSUME Inv, NEW p \in Procs, ext2_make_empty(p)
    PROVE  Inv'
<1> DEFINE t == task[p]
<1>0. /\ t.pc = "makeEmpty" /\ t.op = "mkdir" /\ t.pc \in InBody
      /\ CallTypes /\ TreeTypes /\ bitmap \subseteq Inos /\ FreedUnreachable
      /\ bitmap' = bitmap /\ entry' = entry /\ dparent' = dparent
      /\ PlaceOf(p) /\ RefOf(p)
  BY DEF ext2_make_empty, InBody, Inv, Base, TreeTypes, FreeInv, PlaceInv, PlaceOf, RefInv
<1>1. CASE /\ dotdot' = [dotdot EXCEPT ![t.ino] = t.dir]
           /\ Goto(p, "addLink") /\ UNCHANGED <<node, locks>>
  <2>1. GoesWith(p, t.ino, "addLink") /\ UNCHANGED <<imutex, renameMutex>> /\ node' = node
    BY <1>0, <1>1, GotoStep DEF Pcs, locks, Goes
  <2>2. TreeTypes' /\ t.dir \in Inos
    BY <1>0, <1>1, <2>1, BodyFacts DEF TreeTypes
  <2>3. FreeInv' /\ MaxInv' /\ TypesStay /\ WritesOwn(p) /\ \A j : IsDir(j)' <=> IsDir(j)
    BY <1>0, <2>1 DEF Inv, FreeInv, FreedUnreachable, MaxInv, TypesStay, WritesOwn, IsDir
  <2>4. BodyStep(p)
    BY <1>0, <2>1 DEF BodyStep, InBody
  <2>5. NamesSame /\ DirsSame
    <3>1. OwnSame(p) /\ OwnSubSame(p)
      BY <1>0, <2>1, <2>3 DEF OwnSame, OwnSubSame, Own, OwnSub, Leaving, Pending, PendingDir,
         GoesWith, SameCall, IsDir
    <3>2. t.dir \in Inos /\ t.name \in Names /\ imutex[t.dir] = p
      BY <1>0, BodyFacts
    <3> QED
      BY <2>3, <2>4, <3>1, <3>2, OwnCounts
  <2>6. AccountInv'
    <3>1. \A k \in bitmap : Untouched(k)
      BY <1>0, <2>1, <2>5, NamesSameSets, DirsSameSets DEF Untouched
    <3> QED
      BY <1>0, <2>3, <3>1, AccountRest
  <2>7. \A k : (Fresh(k)' <=> Fresh(k)) /\ (Going(k)' <=> Going(k))
    BY <1>0, <2>1 DEF Fresh, Going, GoesWith, Moves, SameCall
  <2>8. EmptyInv' /\ Gentle(p)
    BY <1>0, <2>1, <2>3, <2>7 DEF Inv, EmptyInv, RemovedStaysEmpty, Gentle, Alive
  <2>9. PlaceOf(p)'
    BY <1>0, <2>1, <2>3 DEF PlaceOf, GoesWith, SameCall, Found, InBody
  <2>10. RefOf(p)'
    BY <1>0, <2>1, <2>3, <2>7 DEF RefOf, GoesWith, SameCall, Alive, Found, InBody
  <2> QED
    BY <1>0, <2>1, <2>2, <2>3, <2>6, <2>8, <2>9, <2>10, GoesInv DEF InBody
<1>2. CASE MkdirUndo(p) /\ Return(p) /\ UNCHANGED dotdot
  BY <1>0, <1>2, InvMkdirUndo
<1> QED
  BY <1>1, <1>2 DEF ext2_make_empty

Put(d, n, v) == [entry EXCEPT ![d][n] = v]

(* One entry of a directory that the call has locked is written.           *)
LEMMA FrameWrite ==
    ASSUME Inv, NEW p \in Procs, bitmap' = bitmap,
           node' \in [Inos -> NodeRec], \A j \in Inos : node'[j].type = node[j].type,
           \A j \in Inos \ bitmap : node'[j] = node[j],
           NEW d \in Inos, imutex[d] = p, NEW n \in Names, NEW v \in bitmap \cup {None},
           entry' = Put(d, n, v),
           dotdot' \in [Inos -> Inos \cup {None}], dparent' \in [Inos -> Inos \cup {None}]
    PROVE  /\ TreeTypes' /\ FreeInv' /\ TypesStay /\ WritesOwn(p)
           /\ \A j \in Inos : IsDir(j)' <=> IsDir(j)
           /\ \A e \in Inos \ {d} : entry'[e] = entry[e]
           /\ \A e \in Inos, m \in Names :
                entry'[e][m] = IF e = d /\ m = n THEN v ELSE entry[e][m]
<1>0. entry \in [Inos -> [Names -> Inos \cup {None}]] /\ bitmap \subseteq Inos
  BY DEF Inv, Base, TreeTypes
<1>1. entry' \in [Inos -> [Names -> Inos \cup {None}]]
  BY <1>0 DEF Put
<1>2. /\ \A e \in Inos \ {d} : entry'[e] = entry[e]
      /\ \A e \in Inos, m \in Names :
           entry'[e][m] = IF e = d /\ m = n THEN v ELSE entry[e][m]
  BY <1>0 DEF Put
<1>3. TreeTypes'
  BY <1>0, <1>1 DEF TreeTypes
<1>4. FreeInv'
  BY <1>2 DEF Inv, Base, TreeTypes, FreeInv, FreedUnreachable, IsDir
<1>5. TypesStay /\ WritesOwn(p) /\ \A j \in Inos : IsDir(j)' <=> IsDir(j)
  BY <1>0, <1>2 DEF TypesStay, WritesOwn, IsDir
<1> QED
  BY <1>2, <1>3, <1>4, <1>5

LEMMA InvLink ==
    ASSUME Inv, NEW p \in Procs, ext2_link(p)
    PROVE  Inv'
<1> DEFINE t == task[p]
<1>0. /\ t.pc = "body" /\ t.op = "link" /\ t.pc \in InBody /\ Loose(t) /\ t.pc \in Found
      /\ bitmap' = bitmap /\ entry' = entry /\ dotdot' = dotdot /\ dparent' = dparent
      /\ CallTypes /\ TreeTypes /\ bitmap \subseteq Inos /\ FreedUnreachable
      /\ PlaceOf(p) /\ RefOf(p)
  BY DEF ext2_link, InBody, Found, Loose, Inv, Base, TreeTypes, FreeInv, PlaceInv, RefInv
<1>d. PICK d \in Inos, n \in Names, i \in Inos : d = t.dir /\ n = t.name /\ i = t.ino
  BY <1>0, BodyFacts DEF PlaceOf
<1>1. /\ d \in bitmap /\ imutex[d] = p /\ IsDir(d) /\ i \in bitmap /\ ~IsDir(i)
      /\ entry[d][n] = None /\ t.tgt = i
  BY <1>0, <1>d, BodyFacts, ConstantsOK DEF PlaceOf
<1>2. CASE /\ node[i].nlink > 0 /\ node[i].nlink < LinkMax /\ AddNlink(i)
           /\ Goto(p, "addLink") /\ UNCHANGED locks
  <2>1. GoesWith(p, i, "addLink") /\ UNCHANGED <<imutex, renameMutex>>
    BY <1>0, <1>d, <1>2, GotoStep DEF Pcs, locks, Goes
  <2>2. /\ node' \in [Inos -> NodeRec] /\ Relinked(i, node[i].nlink + 1)
        /\ \A j \in Inos \ {i} : node'[j] = node[j]
    BY <1>0, <1>2, NlinkStep
  <2>3. \A j \in Inos : node'[j].type = node[j].type /\ (node'[j].dead <=> node[j].dead)
    BY <2>2 DEF Relinked
  <2>4. /\ TreeTypes' /\ FreeInv' /\ TypesStay /\ WritesOwn(p)
        /\ \A j \in Inos : IsDir(j)' <=> IsDir(j)
    BY <1>0, <1>1, <2>2, <2>3, FrameStep
  <2>5. BodyStep(p)
    BY <1>0, <2>1 DEF BodyStep, InBody
  <2>6. NamesGain(d, n, i) /\ DirsSame
    <3>1. OwnGain(p, d, n, i) /\ OwnSubSame(p)
      BY <1>0, <1>d, <2>1, <2>4 DEF OwnGain, OwnSubSame, Own, OwnSub, Leaving, Pending,
         PendingDir, GoesWith, SameCall, TypesStay, FreedUnreachable, IsDir
    <3>2. ~Own(p, d, n, i)
      BY <1>0, <1>1, OwnAt, ConstantsOK
    <3> QED
      BY <1>1, <2>4, <2>5, <3>1, <3>2, OwnCounts
  <2>7. AccountInv'
    <3>1. node[i].nlink = Cardinality(CountedNames(i))
      BY <1>1 DEF Inv, AccountInv, Account
    <3>2. Cardinality(CountedNames(i)') = Cardinality(CountedNames(i)) + 1
      BY <2>6, NamesGainSets
    <3>3. Account(i)'
      BY <1>1, <2>2, <2>4, <3>1, <3>2 DEF Account, Relinked
    <3>4. \A k \in bitmap \ {i} : Untouched(k)
      BY <1>0, <2>2, <2>6, NamesGainSets, DirsSameSets DEF Untouched
    <3> QED
      BY <1>0, <2>4, <3>3, <3>4, AccountRest
  <2>8. \A k : (Fresh(k)' <=> Fresh(k)) /\ (Going(k)' <=> Going(k))
    BY <1>0, <2>1 DEF Fresh, Going, GoesWith, Moves, SameCall
  <2>9. EmptyInv'
    BY <1>0, <2>3, <2>4, <2>8 DEF Inv, EmptyInv, RemovedStaysEmpty
  <2>10. MaxInv'
    <3>1. node[i].nlink \in Int /\ LinkMax \in Int
      BY <1>0, ConstantsOK DEF TreeTypes, NodeRec
    <3> QED
      BY <1>2, <2>2, <3>1 DEF Inv, MaxInv, Relinked
  <2>11. Gentle(p)
    BY <1>0, <1>1, <2>2, <2>3, <2>8 DEF Gentle, Alive
  <2>12. PlaceOf(p)'
    BY <1>0, <1>d, <1>1, <2>1, <2>4, ConstantsOK DEF PlaceOf, GoesWith, SameCall
  <2>13. RefOf(p)'
    <3>1. \A k \in {t.dir, t.from} \ {None} :
            k \in bitmap /\ IsDir(k) /\ ~Fresh(k) /\ Alive(k) /\ node[k].nlink > 0 /\ ~node[k].dead
      BY <1>0 DEF RefOf
    <3>2. \A k \in {t.dir, t.from} \ {None} : k \in Inos \ {i} /\ node'[k] = node[k]
      BY <1>0, <1>1, <2>2, <3>1
    <3> QED
      BY <1>0, <1>d, <2>1, <2>4, <2>8, <3>1, <3>2 DEF RefOf, GoesWith, SameCall, Alive
  <2> QED
    BY <1>0, <2>1, <2>4, <2>7, <2>9, <2>10, <2>11, <2>12, <2>13, GoesInv DEF InBody
<1>3. CASE Return(p) /\ UNCHANGED node
  BY <1>0, <1>3, ReturnStep, GivesUp DEF Tree
<1> QED
  BY <1>d, <1>2, <1>3 DEF ext2_link

LEMMA InvAddLink ==
    ASSUME Inv, NEW p \in Procs, ext2_add_link(p)
    PROVE  Inv'
<1> DEFINE t == task[p]
<1>0. /\ t.pc = "addLink" /\ t.op \in {"create", "mkdir", "link"} /\ t.pc \in InBody /\ t.pc \in Found
      /\ bitmap' = bitmap /\ dotdot' = dotdot /\ Return(p)
      /\ CallTypes /\ TreeTypes /\ bitmap \subseteq Inos /\ FreedUnreachable
      /\ PlaceOf(p) /\ RefOf(p)
  BY DEF ext2_add_link, InBody, Found, Inv, Base, TreeTypes, FreeInv, PlaceInv, PlaceOf, RefInv
<1>d. PICK d \in Inos, n \in Names, i \in Inos : d = t.dir /\ n = t.name /\ i = t.ino
  BY <1>0, BodyFacts DEF PlaceOf
<1>1. /\ d \in bitmap /\ imutex[d] = p /\ IsDir(d) /\ ~Fresh(d)
      /\ node[d].nlink > 0 /\ ~node[d].dead
      /\ i \in bitmap /\ i # None /\ (IsDir(i) <=> t.op = "mkdir")
      /\ entry[d][n] = None /\ t.from = None
  BY <1>0, <1>d, BodyFacts, ConstantsOK DEF PlaceOf
<1>2. Returns(p) /\ BodyStep(p)
  BY <1>0, ReturnStep DEF BodyStep
<1>3. \A k : (Fresh(k)' => Fresh(k)) /\ (Going(k)' <=> Going(k))
  BY <1>0, <1>2, IdleType DEF Fresh, Going, Returns, Moves
<1>4. CASE AddLinkOk(p) /\ UNCHANGED node
  <2>1. /\ entry' = Put(d, n, i) /\ node' = node
        /\ dparent' \in [Inos -> Inos \cup {None}] /\ dotdot' \in [Inos -> Inos \cup {None}]
        /\ node' \in [Inos -> NodeRec]
    BY <1>0, <1>d, <1>4 DEF AddLinkOk, WithName, Put, TreeTypes
  <2>2. /\ TreeTypes' /\ FreeInv' /\ TypesStay /\ WritesOwn(p)
        /\ \A j \in Inos : IsDir(j)' <=> IsDir(j)
        /\ \A e \in Inos \ {d} : entry'[e] = entry[e]
        /\ \A e \in Inos, m \in Names :
             entry'[e][m] = IF e = d /\ m = n THEN i ELSE entry[e][m]
    <3>1. i \in bitmap \cup {None} /\ \A j \in Inos : node'[j] = node[j]
      BY <1>1, <2>1
    <3> QED
      BY <1>0, <1>1, <2>1, <3>1, FrameWrite
  <2>3. NamesSame /\ DirsSame
    <3>1. OwnSame(p)
      BY <1>0, <1>d, <1>1, <1>2, <2>2, IdleType, ConstantsOK DEF OwnSame, Own, Leaving, Pending,
         Returns
    <3>2. OwnSubSame(p)
      BY <1>0, <1>d, <1>1, <1>2, <2>1, <2>2, IdleType, ConstantsOK DEF OwnSubSame, OwnSub,
         PendingDir, Returns, FreedUnreachable, IsDir
    <3> QED
      BY <1>1, <1>2, <2>2, <3>1, <3>2, OwnCounts
  <2>4. AccountInv'
    <3>1. \A k \in bitmap : Untouched(k)
      BY <1>0, <1>1, <2>1, <2>2, <2>3, NamesSameSets, DirsSameSets DEF Untouched
    <3> QED
      BY <1>0, <2>2, <3>1, AccountRest
  <2>5. EmptyInv'
    BY <1>1, <1>3, <2>1, <2>2 DEF Inv, EmptyInv, RemovedStaysEmpty
  <2>6. MaxInv' /\ Gentle(p)
    BY <1>3, <2>1 DEF Inv, MaxInv, Gentle, Alive
  <2> QED
    BY <1>2, <2>2, <2>4, <2>5, <2>6, ReturnsInv
<1>5. CASE AddLinkFails(p) /\ t.op = "mkdir" /\ MkdirUndo(p)
  BY <1>0, <1>5, InvMkdirUndo DEF AddLinkFails, Inv
<1>6. CASE AddLinkFails(p) /\ t.op # "mkdir" /\ DropNlink(i)
  <2>1. entry' = entry /\ dparent' = dparent
    BY <1>6 DEF AddLinkFails, Inv
  <2>2. /\ node' \in [Inos -> NodeRec] /\ Relinked(i, node[i].nlink - 1)
        /\ \A j \in Inos \ {i} : node'[j] = node[j]
    BY <1>0, <1>6, NlinkStep
  <2>3. \A j \in Inos : node'[j].type = node[j].type /\ (node'[j].dead <=> node[j].dead)
    BY <2>2 DEF Relinked
  <2>4. /\ TreeTypes' /\ FreeInv' /\ TypesStay /\ WritesOwn(p)
        /\ \A j \in Inos : IsDir(j)' <=> IsDir(j)
    BY <1>0, <1>1, <2>1, <2>2, <2>3, FrameStep
  <2>5. NamesLose(d, n, i) /\ DirsSame
    <3>1. OwnLose(p, d, n, i) /\ Own(p, d, n, i)
      BY <1>0, <1>d, <1>1, <1>2, <2>1, IdleType, ConstantsOK DEF OwnLose, Own, Leaving, Pending,
         Returns
    <3>2. OwnSubSame(p)
      BY <1>0, <1>2, <1>6, <2>1, <2>4, IdleType DEF OwnSubSame, OwnSub, PendingDir, Returns,
         FreedUnreachable, IsDir, TypesStay
    <3> QED
      BY <1>1, <1>2, <2>4, <3>1, <3>2, OwnCounts
  <2>6. AccountInv' /\ node[i].nlink \in Int
    <3>1. node[i].nlink = Cardinality(CountedNames(i)) /\ node[i].nlink \in Int
      BY <1>0, <1>1, <1>6 DEF Inv, AccountInv, Account, TreeTypes, NodeRec
    <3>2. Cardinality(CountedNames(i)') = Cardinality(CountedNames(i)) - 1
      BY <2>5, NamesLoseSets
    <3>3. Account(i)'
      BY <1>1, <1>6, <2>2, <2>4, <3>1, <3>2 DEF Account, Relinked
    <3>4. \A k \in bitmap \ {i} : Untouched(k)
      BY <1>0, <2>1, <2>2, <2>5, NamesLoseSets, DirsSameSets DEF Untouched
    <3> QED
      BY <1>0, <2>4, <3>1, <3>3, <3>4, AccountRest
  <2>7. EmptyInv'
    BY <1>3, <2>1, <2>3, <2>4 DEF Inv, EmptyInv, RemovedStaysEmpty
  <2>8. MaxInv'
    BY <2>2, <2>6, ConstantsOK DEF Inv, MaxInv, Relinked
  <2>9. Gentle(p)
    BY <1>0, <1>1, <1>3, <1>6, <2>2, <2>3 DEF Gentle, Alive
  <2> QED
    BY <1>2, <2>4, <2>6, <2>7, <2>8, <2>9, ReturnsInv
<1> QED
  BY <1>d, <1>4, <1>5, <1>6 DEF ext2_add_link

LEMMA InvDeleteEntry ==
    ASSUME Inv, NEW p \in Procs, ext2_delete_entry(p)
    PROVE  Inv'
<1> DEFINE t == task[p]
<1>0. /\ t.pc = "body" /\ t.op \in {"unlink", "rmdir"} /\ t.pc \in InBody /\ Loose(t) /\ t.pc \in Found
      /\ bitmap' = bitmap /\ node' = node /\ dotdot' = dotdot /\ dparent' = dparent
      /\ CallTypes /\ TreeTypes /\ bitmap \subseteq Inos /\ FreedUnreachable
      /\ PlaceOf(p) /\ RefOf(p)
  BY DEF ext2_delete_entry, InBody, Found, Loose, Inv, Base, TreeTypes, FreeInv, PlaceInv, RefInv
<1>d. PICK d \in Inos, n \in Names, g \in Inos : d = t.dir /\ n = t.name /\ g = t.tgt
  BY <1>0, BodyFacts DEF PlaceOf
<1>1. /\ d \in bitmap /\ imutex[d] = p /\ IsDir(d) /\ ~Fresh(d)
      /\ node[d].nlink > 0 /\ ~node[d].dead
      /\ g \in bitmap /\ g # d /\ g # None /\ (IsDir(g) <=> t.op = "rmdir")
      /\ entry[d][n] = g /\ t.from = None
  BY <1>0, <1>d, BodyFacts, ConstantsOK DEF PlaceOf
<1>2. CASE Return(p) /\ UNCHANGED entry
  BY <1>0, <1>2, ReturnStep, GivesUp DEF Tree
<1>3. CASE /\ t.op = "unlink" \/ ext2_empty_dir(t.tgt)
           /\ entry' = WithName(p, None) /\ Goto(p, "dec") /\ UNCHANGED locks
  <2>1. /\ GoesWith(p, t.ino, "dec") /\ UNCHANGED <<imutex, renameMutex>>
        /\ entry' = Put(d, n, None)
        /\ t.op = "rmdir" => entry[g] = Empty
    BY <1>0, <1>d, <1>3, GotoStep DEF Pcs, locks, Goes, WithName, Put, ext2_empty_dir
  <2>2. /\ node' \in [Inos -> NodeRec] /\ dotdot' \in [Inos -> Inos \cup {None}]
        /\ dparent' \in [Inos -> Inos \cup {None}]
    BY <1>0 DEF TreeTypes
  <2>3. /\ TreeTypes' /\ FreeInv' /\ TypesStay /\ WritesOwn(p)
        /\ \A j \in Inos : IsDir(j)' <=> IsDir(j)
        /\ \A e \in Inos \ {d} : entry'[e] = entry[e]
        /\ \A e \in Inos, m \in Names :
             entry'[e][m] = IF e = d /\ m = n THEN None ELSE entry[e][m]
    BY <1>0, <1>1, <2>1, <2>2, FrameWrite
  <2>4. BodyStep(p)
    BY <1>0, <2>1 DEF BodyStep, InBody
  <2>5. NamesSame /\ DirsSame
    <3>1. OwnSame(p)
      BY <1>0, <1>d, <1>1, <2>1, <2>3, ConstantsOK DEF OwnSame, Own, Leaving, Pending,
         GoesWith, SameCall
    <3>2. OwnSubSame(p)
      BY <1>0, <1>d, <1>1, <2>1, <2>3 DEF OwnSubSame, OwnSub, PendingDir,
         GoesWith, SameCall, IsDir
    <3> QED
      BY <1>1, <2>3, <2>4, <3>1, <3>2, OwnCounts
  <2>6. AccountInv'
    <3>1. \A k \in bitmap : Untouched(k)
      BY <1>0, <1>1, <2>3, <2>5, NamesSameSets, DirsSameSets DEF Untouched
    <3> QED
      BY <1>0, <2>3, <3>1, AccountRest
  <2>7. \A k : (Fresh(k)' <=> Fresh(k)) /\ (Going(k)' <=> Going(k))
    BY <1>0, <2>1 DEF Fresh, Going, GoesWith, Moves, SameCall
  <2>8. EmptyInv'
    BY <1>0, <1>1, <2>3, <2>7 DEF Inv, EmptyInv, RemovedStaysEmpty
  <2>9. MaxInv' /\ Gentle(p)
    BY <1>0, <2>7 DEF Inv, MaxInv, Gentle, Alive
  <2>10. PlaceOf(p)'
    BY <1>0, <1>d, <1>1, <2>1, <2>3 DEF PlaceOf, GoesWith, SameCall
  <2>11. RefOf(p)'
    BY <1>0, <2>1, <2>7 DEF RefOf, GoesWith, SameCall, Alive, IsDir
  <2> QED
    BY <1>0, <2>1, <2>3, <2>6, <2>8, <2>9, <2>10, <2>11, GoesInv DEF InBody
<1> QED
  BY <1>2, <1>3 DEF ext2_delete_entry, Inv

LEMMA InvUnlinkDec ==
    ASSUME Inv, NEW p \in Procs, UnlinkDec(p)
    PROVE  Inv'
<1> DEFINE t == task[p]
<1>0. /\ t.pc = "dec" /\ t.op \in {"unlink", "rmdir"} /\ t.pc \in InBody /\ t.pc \in Found
      /\ bitmap' = bitmap /\ entry' = entry /\ dotdot' = dotdot /\ dparent' = dparent /\ Return(p)
      /\ CallTypes /\ TreeTypes /\ bitmap \subseteq Inos /\ FreedUnreachable
      /\ PlaceOf(p) /\ RefOf(p)
  BY DEF UnlinkDec, InBody, Found, Inv, Base, TreeTypes, FreeInv, PlaceInv, RefInv
<1>d. PICK d \in Inos, n \in Names, g \in Inos : d = t.dir /\ n = t.name /\ g = t.tgt
  BY <1>0, BodyFacts DEF PlaceOf
<1>1. /\ d \in bitmap /\ imutex[d] = p /\ IsDir(d) /\ LiveDir(d)
      /\ g \in bitmap /\ g # d /\ g # None /\ imutex[g] = p /\ (IsDir(g) <=> t.op = "rmdir")
      /\ entry[d][n] = None /\ t.from = None
      /\ IsDir(g) => entry[g] = Empty
  BY <1>0, <1>d, BodyFacts, ConstantsOK DEF PlaceOf
<1>2. Returns(p) /\ BodyStep(p)
  BY <1>0, ReturnStep DEF BodyStep
<1>3. \A k : (Fresh(k)' <=> Fresh(k)) /\ (Going(k)' <=> Going(k))
  BY <1>0, <1>2, IdleType DEF Fresh, Going, Returns, Moves
<1>4. Own(p, d, n, g) /\ OwnLose(p, d, n, g)
  BY <1>0, <1>d, <1>1, <1>2, IdleType, ConstantsOK DEF OwnLose, Own, Leaving, Pending, Returns
<1>5. CASE t.op = "unlink" /\ DropNlink(g)
  <2>2. /\ node' \in [Inos -> NodeRec] /\ Relinked(g, node[g].nlink - 1)
        /\ \A j \in Inos \ {g} : node'[j] = node[j]
    BY <1>0, <1>5, NlinkStep
  <2>3. \A j \in Inos : node'[j].type = node[j].type /\ (node'[j].dead <=> node[j].dead)
    BY <2>2 DEF Relinked
  <2>4. /\ TreeTypes' /\ FreeInv' /\ TypesStay /\ WritesOwn(p)
        /\ \A j \in Inos : IsDir(j)' <=> IsDir(j)
    BY <1>0, <1>1, <2>2, <2>3, FrameStep
  <2>5. NamesLose(d, n, g) /\ DirsSame
    <3>1. OwnSubSame(p)
      BY <1>0, <1>2, <1>5, <2>4, IdleType DEF OwnSubSame, OwnSub, PendingDir, Returns,
         FreedUnreachable, IsDir, TypesStay
    <3> QED
      BY <1>1, <1>2, <1>4, <2>4, <3>1, OwnCounts
  <2>6. AccountInv' /\ node[g].nlink \in Int
    <3>1. node[g].nlink = Cardinality(CountedNames(g)) /\ node[g].nlink \in Int
      BY <1>0, <1>1, <1>5 DEF Inv, AccountInv, Account, TreeTypes, NodeRec
    <3>2. Cardinality(CountedNames(g)') = Cardinality(CountedNames(g)) - 1
      BY <2>5, NamesLoseSets
    <3>3. Account(g)'
      BY <1>1, <1>5, <2>2, <2>4, <3>1, <3>2 DEF Account, Relinked
    <3>4. \A k \in bitmap \ {g} : Untouched(k)
      BY <1>0, <2>2, <2>5, NamesLoseSets, DirsSameSets DEF Untouched
    <3> QED
      BY <1>0, <2>4, <3>1, <3>3, <3>4, AccountRest
  <2>7. EmptyInv'
    BY <1>0, <1>3, <2>3, <2>4 DEF Inv, EmptyInv, RemovedStaysEmpty
  <2>8. MaxInv'
    BY <2>2, <2>6, ConstantsOK DEF Inv, MaxInv, Relinked
  <2>9. Gentle(p)
    BY <1>0, <1>1, <1>3, <1>5, <2>2, <2>3 DEF Gentle, Alive
  <2> QED
    BY <1>2, <2>4, <2>6, <2>7, <2>8, <2>9, ReturnsInv
<1>6. CASE /\ t.op = "rmdir"
           /\ node' = [node EXCEPT ![g].nlink = @ - 2, ![g].dead = TRUE, ![d].nlink = @ - 1]
  <2>1. CountedNames(g) = {<<d, n>>} /\ g # Root /\ node[g].nlink = 2
    <3>1. Counts(d, n, g)
      BY <1>0, <1>d DEF Counts, Pending
    <3>2. LiveDir(g) /\ g # Root /\ CountedNames(g) = {<<d, n>>}
      BY <1>1, <1>6, <3>1, OneName
    <3>3. Cardinality(CountedDirs(g)) = 0
      BY <1>1, <1>6, <1>d, NoSubs
    <3> QED
      BY <3>2, <3>3 DEF LiveDir
  <2> DEFINE a == [node[g] EXCEPT !.nlink = @ - 2]
             r == [a EXCEPT !.dead = TRUE]
  <2>0. node[g] \in NodeRec /\ t.op = "rmdir"
    BY <1>0, <1>6 DEF TreeTypes
  <2>3. node' = [node EXCEPT ![g] = r, ![d].nlink = @ - 1]
    BY <1>0, <1>6 DEF TreeTypes
  <2>20. a \in NodeRec /\ a.nlink = 0 /\ a.type = node[g].type
    BY <2>0, <2>1 DEF NodeRec
  <2> HIDE DEF a
  <2>2. r \in NodeRec /\ r.nlink = 0 /\ r.type = node[g].type /\ r.dead
    BY <2>20 DEF NodeRec
  <2> HIDE DEF r
  <2>4. /\ node' \in [Inos -> NodeRec] /\ node'[g] = r /\ Relinked(d, node[d].nlink - 1)
        /\ \A j \in Inos \ {g, d} : node'[j] = node[j]
    BY <1>0, <1>1, <2>2, <2>3, TwoNodes
  <2>5. \A j \in Inos : node'[j].type = node[j].type
    BY <2>2, <2>4 DEF Relinked
  <2>6. /\ TreeTypes' /\ FreeInv' /\ TypesStay /\ WritesOwn(p)
        /\ \A j \in Inos : IsDir(j)' <=> IsDir(j)
    BY <1>0, <1>1, <2>4, <2>5, FrameStep
  <2>7. NamesLose(d, n, g) /\ DirsLose(d, n)
    <3>1. OwnSubLose(p, d, n) /\ OwnSub(p, d, n)
      BY <1>0, <1>d, <1>1, <1>2, <2>0, <2>6, IdleType DEF OwnSubLose, OwnSub, PendingDir, Returns,
         TypesStay, FreedUnreachable, IsDir
    <3> QED
      BY <1>1, <1>2, <1>4, <2>6, <3>1, OwnCounts
  <2>8. CountedNames(g)' = {} /\ \A k \in Inos \ {g} : CountedNames(k)' = CountedNames(k)
    <3>1. /\ CountedNames(g)' = CountedNames(g) \ {<<d, n>>}
          /\ \A k \in Inos \ {g} : CountedNames(k)' = CountedNames(k)
      BY <2>7, NamesLoseSets
    <3> QED
      BY <2>1, <3>1
  <2>9. Account(g)'
    BY <1>0, <1>1, <1>6, <2>1, <2>2, <2>4, <2>6, <2>8 DEF Account, GoneDir
  <2>10. Account(d)' /\ node'[d].nlink > 0 /\ node'[d].nlink <= LinkMax
    <3>1. CountedNames(d)' = CountedNames(d)
      BY <1>1, <2>8
    <3> QED
      BY <1>1, <2>4, <2>7, <3>1, LosesDir
  <2>11. AccountInv'
    <3>1. \A k \in bitmap \ {g, d} : Untouched(k)
      BY <1>0, <2>4, <2>7, <2>8, DirsLoseSets DEF Untouched
    <3> QED
      BY <1>0, <2>6, <2>9, <2>10, <3>1, AccountRest
  <2>12. \A j \in Inos \ {g} : node'[j].dead <=> node[j].dead
    BY <2>4 DEF Relinked
  <2>13. EmptyInv'
    BY <1>0, <1>1, <1>3, <1>6, <2>6, <2>12 DEF Inv, EmptyInv, RemovedStaysEmpty
  <2>14. MaxInv'
    BY <2>2, <2>4, <2>10, ConstantsOK DEF Inv, MaxInv
  <2>15. Gentle(p)
    BY <1>0, <1>1, <1>3, <2>2, <2>4, <2>10, <2>12 DEF Gentle, Alive
  <2> QED
    BY <1>2, <2>6, <2>11, <2>13, <2>14, <2>15, ReturnsInv
<1> QED
  BY <1>d, <1>0, <1>5, <1>6 DEF UnlinkDec

-----------------------------------------------------------------------------
(* Rename: inode j is counted under a new name instead of its old one      *)

NamesMove(f, m, d, n, j) ==
    /\ Counts(f, m, j) /\ ~Counts(d, n, j)
    /\ \A e \in Inos, x \in Names, k \in Inos :
         Counts(e, x, k)' <=> \/ Counts(e, x, k) /\ ~(e = f /\ x = m /\ k = j)
                              \/ e = d /\ x = n /\ k = j
OwnMove(p, f, m, d, n, j) == \A e \in Inos, x \in Names, k \in Inos : imutex[e] = p =>
    (Own(p, e, x, k)' <=> \/ Own(p, e, x, k) /\ ~(e = f /\ x = m /\ k = j)
                          \/ e = d /\ x = n /\ k = j)

LEMMA OwnMoves ==
    ASSUME Inv, NEW p \in Procs, BodyStep(p), WritesOwn(p), TypesStay,
           NEW f \in Inos, NEW m \in Names, NEW d \in Inos, NEW n \in Names, NEW j \in Inos,
           imutex[f] = p, imutex[d] = p, Own(p, f, m, j), ~Own(p, d, n, j),
           OwnMove(p, f, m, d, n, j)
    PROVE  NamesMove(f, m, d, n, j)
<1>0. Base /\ PlaceInv /\ FreedUnreachable /\ LockInv
  BY DEF Inv, Base, FreeInv
<1>1. Counts(f, m, j) /\ ~Counts(d, n, j)
  BY <1>0, OwnSlots
<1>2. \A e \in Inos, x \in Names, k \in Inos :
        /\ imutex[e] # p => (Counts(e, x, k)' <=> Counts(e, x, k))
        /\ imutex[e] = p => /\ Counts(e, x, k) <=> Own(p, e, x, k)
                            /\ Counts(e, x, k)' <=> Own(p, e, x, k)'
  BY <1>0, BodyCounts
<1> QED
  BY <1>1, <1>2 DEF OwnMove, NamesMove

LEMMA NamesMoveSets ==
    ASSUME NEW f \in Inos, NEW m \in Names, NEW d \in Inos, NEW n \in Names, NEW j \in Inos,
           NamesMove(f, m, d, n, j)
    PROVE  /\ \A i \in Inos \ {j} : CountedNames(i)' = CountedNames(i)
           /\ CountedNames(j)' = (CountedNames(j) \ {<<f, m>>}) \cup {<<d, n>>}
           /\ Cardinality(CountedNames(j)') = Cardinality(CountedNames(j))
<1>1. \A i \in Inos \ {j} : \A dn \in Inos \X Names :
        Counts(dn[1], dn[2], i)' <=> Counts(dn[1], dn[2], i)
  BY DEF NamesMove
<1>2. \A i \in Inos \ {j} : CountedNames(i)' = CountedNames(i)
  BY <1>1 DEF CountedNames
<1>3. \A dn \in Inos \X Names :
        Counts(dn[1], dn[2], j)' <=> \/ Counts(dn[1], dn[2], j) /\ dn # <<f, m>>
                                     \/ dn = <<d, n>>
  BY DEF NamesMove
<1> DEFINE S == CountedNames(j) \ {<<f, m>>}
<1>4. CountedNames(j)' = S \cup {<<d, n>>}
  BY <1>3 DEF CountedNames
<1>5. <<f, m>> \in CountedNames(j) /\ <<d, n>> \notin S
  BY DEF CountedNames, NamesMove
<1>6. IsFiniteSet(CountedNames(j)) /\ IsFiniteSet(S) /\ Cardinality(CountedNames(j)) \in Nat
  BY FiniteCounts, CountedTypes
<1>7. Cardinality(S) = Cardinality(CountedNames(j)) - 1
  BY <1>5, <1>6, PlusOne
<1>8. Cardinality(S \cup {<<d, n>>}) = Cardinality(S) + 1
  BY <1>5, <1>6, PlusOne
<1>9. Cardinality(CountedNames(j)') = Cardinality(CountedNames(j))
  BY <1>4, <1>6, <1>7, <1>8
<1> QED
  BY <1>2, <1>4, <1>9

\* The names of a directory in use.
LiveNames(d) == IF d = Root THEN CountedNames(d) = {}
                            ELSE \E dn \in Inos \X Names : CountedNames(d) = {dn}

(* The directories in use have one name each after a rename too.           *)
LEMMA NamesStayLive ==
    ASSUME Inv, NEW f \in Inos, NEW m \in Names, NEW d \in Inos, NEW n \in Names,
           NEW j \in Inos, NamesMove(f, m, d, n, j),
           NEW k \in bitmap, IsDir(k), LiveDir(k)
    PROVE  LiveNames(k)'
<1>0. k \in Inos
  BY DEF Inv, Base, TreeTypes
<1>1. CASE k = j
  <2>1. Counts(f, m, k)
    BY <1>1 DEF NamesMove
  <2>2. k # Root /\ CountedNames(k) = {<<f, m>>}
    BY <2>1, OneName
  <2>3. CountedNames(k)' = (CountedNames(k) \ {<<f, m>>}) \cup {<<d, n>>}
    BY <1>1, NamesMoveSets
  <2>4. CountedNames(k)' = {<<d, n>>}
    BY <2>2, <2>3
  <2> QED
    BY <2>2, <2>4 DEF LiveNames
<1>2. CASE k # j
  <2>1. CountedNames(k)' = CountedNames(k)
    BY <1>0, <1>2, NamesMoveSets
  <2> QED
    BY <2>1 DEF LiveDir, LiveNames
<1> QED
  BY <1>1, <1>2

(* ... and the account of a file that moves is right.                      *)
LEMMA MovesAccount ==
    ASSUME Inv, NEW f \in Inos, NEW m \in Names, NEW d \in Inos, NEW n \in Names,
           NEW j \in Inos, NamesMove(f, m, d, n, j), TypesStay,
           NEW k \in bitmap, node'[k].nlink = node[k].nlink,
           CountedDirs(k)' = CountedDirs(k), entry'[k] = entry[k] \/ node[k].nlink > 0
    PROVE  Account(k)'
<1>0. k \in Inos /\ (IsDir(k)' <=> IsDir(k)) /\ Account(k)
  BY DEF Inv, Base, TreeTypes, TypesStay, AccountInv
<1>1. CASE ~IsDir(k)
  <2>1. Cardinality(CountedNames(k)') = Cardinality(CountedNames(k))
    BY <1>0, NamesMoveSets
  <2> QED
    BY <1>0, <1>1, <2>1 DEF Account
<1>2. CASE IsDir(k) /\ LiveDir(k)
  <2>1. LiveNames(k)'
    BY <1>2, NamesStayLive
  <2> QED
    BY <1>0, <1>2, <2>1 DEF Account, LiveDir, LiveNames
<1>3. CASE IsDir(k) /\ ~LiveDir(k)
  <2>1. k # j
    BY <1>3, OneName DEF NamesMove
  <2>2. CountedNames(k)' = CountedNames(k)
    BY <1>0, <2>1, NamesMoveSets
  <2> QED
    BY <1>0, <1>3, <2>2, AccountStays
<1> QED
  BY <1>1, <1>2, <1>3

LEMMA RenameFacts ==
    ASSUME Inv, NEW p \in Procs, task[p].op = "rename", task[p].pc \in InBody,
           NEW d, d = task[p].dir, NEW n, n = task[p].name,
           NEW f, f = task[p].from, NEW m, m = task[p].fname,
           NEW i, i = task[p].ino, NEW g, g = task[p].tgt
    PROVE  /\ d \in Inos /\ n \in Names /\ f \in Inos /\ m \in Names /\ i \in Inos
           /\ d \in bitmap /\ imutex[d] = p /\ IsDir(d) /\ ~Fresh(d)
           /\ node[d].nlink > 0 /\ ~node[d].dead /\ LiveDir(d)
           /\ f \in bitmap /\ imutex[f] = p /\ IsDir(f) /\ ~Fresh(f)
           /\ node[f].nlink > 0 /\ ~node[f].dead /\ LiveDir(f)
           /\ i \in bitmap /\ i # None /\ i # g /\ entry[f][m] = i
           /\ g # None => /\ g \in bitmap /\ g \in Inos /\ imutex[g] = p /\ g # d /\ g # f
                          /\ IsDir(g) <=> IsDir(i)
           /\ entry[d][n] = IF task[p].pc \in {"dec", "delOld"} THEN i ELSE g
           /\ d = f => n # m
           /\ task[p].pc \in {"dec", "delOld"} /\ g # None /\ IsDir(g) => entry[g] = Empty
           /\ task[p].pc = "dec" => g # None
<1>1. task[p].pc \in Found /\ PlaceOf(p)
  BY DEF Found, InBody, Inv, PlaceInv
<1> QED
  BY <1>1, BodyFacts DEF PlaceOf

LEMMA InvRenameAdd ==
    ASSUME Inv, NEW p \in Procs, RenameAdd(p)
    PROVE  Inv'
<1> DEFINE t == task[p]
<1>0. /\ t.pc = "body" /\ t.op = "rename" /\ t.tgt = None /\ t.pc \in InBody /\ Loose(t)
      /\ t.pc \in Found
      /\ bitmap' = bitmap /\ dotdot' = dotdot /\ dparent' = dparent
      /\ CallTypes /\ TreeTypes /\ bitmap \subseteq Inos /\ FreedUnreachable /\ ~SyncErrors
      /\ PlaceOf(p) /\ RefOf(p)
  BY DEF RenameAdd, InBody, Found, Loose, Inv, Base, TreeTypes, FreeInv, PlaceInv, RefInv
<1>d. PICK d, n, f, m, i : d = t.dir /\ n = t.name /\ f = t.from /\ m = t.fname /\ i = t.ino
  OBVIOUS
<1>1. /\ d \in Inos /\ n \in Names /\ f \in Inos /\ m \in Names /\ i \in Inos
      /\ d \in bitmap /\ imutex[d] = p /\ IsDir(d) /\ ~Fresh(d)
      /\ node[d].nlink > 0 /\ ~node[d].dead /\ LiveDir(d)
      /\ f \in bitmap /\ imutex[f] = p /\ IsDir(f) /\ ~Fresh(f)
      /\ node[f].nlink > 0 /\ ~node[f].dead
      /\ i \in bitmap /\ i # None /\ entry[f][m] = i
      /\ entry[d][n] = None /\ (d = f => n # m)
  BY <1>0, <1>d, RenameFacts
<1>2. CASE /\ HasRoom(p) /\ entry' = WithName(p, t.ino)
           /\ IF Moving(p) THEN AddNlink(t.dir) ELSE UNCHANGED node
           /\ Goto(p, "delOld") /\ UNCHANGED locks
  <2>1. /\ GoesWith(p, i, "delOld") /\ UNCHANGED <<imutex, renameMutex>>
        /\ entry' = Put(d, n, i)
    BY <1>0, <1>d, <1>2, GotoStep DEF Pcs, locks, Goes, WithName, Put
  <2>2. /\ IsDir(i) => node[d].nlink < LinkMax /\ AddNlink(d)
        /\ ~IsDir(i) => node' = node
    BY <1>d, <1>2 DEF Moving, HasRoom
  <2>3. /\ node' \in [Inos -> NodeRec] /\ \A j \in Inos \ {d} : node'[j] = node[j]
        /\ IF IsDir(i) THEN Relinked(d, node[d].nlink + 1) ELSE node' = node
    <3>1. CASE IsDir(i)
      BY <1>0, <1>1, <2>2, <3>1, NlinkStep
    <3>2. CASE ~IsDir(i)
      BY <1>0, <2>2, <3>2 DEF TreeTypes
    <3> QED
      BY <3>1, <3>2
  <2>4. \A j \in Inos : node'[j].type = node[j].type /\ (node'[j].dead <=> node[j].dead)
    BY <2>3 DEF Relinked
  <2>5. /\ TreeTypes' /\ FreeInv' /\ TypesStay /\ WritesOwn(p)
        /\ \A j \in Inos : IsDir(j)' <=> IsDir(j)
        /\ \A e \in Inos \ {d} : entry'[e] = entry[e]
        /\ \A e \in Inos, x \in Names :
             entry'[e][x] = IF e = d /\ x = n THEN i ELSE entry[e][x]
    <3>1. /\ dotdot' \in [Inos -> Inos \cup {None}] /\ dparent' \in [Inos -> Inos \cup {None}]
          /\ \A j \in Inos \ bitmap : node'[j] = node[j]
          /\ i \in bitmap \cup {None}
      BY <1>0, <1>1, <2>3 DEF TreeTypes
    <3> QED
      BY <1>0, <1>1, <2>1, <2>3, <2>4, <3>1, FrameWrite
  <2>6. BodyStep(p)
    BY <1>0, <2>1 DEF BodyStep, InBody
  <2>7. NamesMove(f, m, d, n, i)
    <3>1. Own(p, f, m, i) /\ ~Own(p, d, n, i)
      BY <1>0, <1>1, OwnAt
    <3>2. OwnMove(p, f, m, d, n, i)
      BY <1>0, <1>d, <1>1, <2>1, <2>5, ConstantsOK DEF OwnMove, Own, Leaving, Pending, GoesWith,
         SameCall
    <3> QED
      BY <1>1, <2>5, <2>6, <3>1, <3>2, OwnMoves
  <2>8. IF IsDir(i) THEN DirsGain(d, n) ELSE DirsSame
    <3>1. \A e \in Inos, x \in Names :
            /\ OwnSub(p, e, x) <=> entry[e][x] # None /\ IsDir(entry[e][x])
            /\ OwnSub(p, e, x)' <=> entry'[e][x] # None /\ IsDir(entry[e][x])'
      BY <1>0, <2>1 DEF OwnSub, PendingDir, GoesWith, SameCall
    <3>2. \A e \in Inos, x \in Names :
            /\ entry[e][x] # None => entry[e][x] \in Inos
            /\ entry'[e][x] # None => entry'[e][x] \in Inos
      BY <1>0, <1>1, <2>5 DEF FreedUnreachable
    <3>3. \A e \in Inos, x \in Names :
            OwnSub(p, e, x)' <=> OwnSub(p, e, x) \/ (e = d /\ x = n /\ IsDir(i))
      BY <1>1, <2>5, <3>1, <3>2 DEF IsDir
    <3>4. ~OwnSub(p, d, n)
      BY <1>1, <3>1
    <3>5. IF IsDir(i) THEN OwnSubGain(p, d, n) ELSE OwnSubSame(p)
      BY <3>3 DEF OwnSubGain, OwnSubSame
    <3> QED
      BY <1>1, <2>5, <2>6, <3>4, <3>5, OwnCounts
  <2>9. \A k \in bitmap \ {d} : Account(k)'
    <3> TAKE k \in bitmap \ {d}
    <3>1. k \in Inos /\ node'[k] = node[k] /\ entry'[k] = entry[k]
      BY <1>0, <2>3, <2>5
    <3>2. CountedDirs(k)' = CountedDirs(k)
      BY <1>1, <2>8, <3>1, DirsGainSets, DirsSameSets
    <3> QED
      BY <1>1, <2>5, <2>7, <3>1, <3>2, MovesAccount
  <2>10. Account(d)' /\ node'[d].nlink > 0 /\ node'[d].nlink <= LinkMax
    <3>0. node[d].nlink \in Int /\ LinkMax \in Int /\ node[d].nlink <= LinkMax
      BY <1>0, <1>1, ConstantsOK DEF TreeTypes, NodeRec, Inv, MaxInv
    <3>1. CASE IsDir(i)
      <4>1. Cardinality(CountedDirs(d)') = Cardinality(CountedDirs(d)) + 1
        BY <1>1, <2>8, <3>1, DirsGainSets
      <4>2. Cardinality(CountedDirs(d)) \in Nat
        BY FiniteCounts, CountedTypes
      <4>3. node'[d].nlink = node[d].nlink + 1
        BY <2>3, <3>1 DEF Relinked
      <4>4. LiveNames(d)'
        BY <1>1, <2>7, NamesStayLive
      <4>5. node'[d].nlink = 2 + Cardinality(CountedDirs(d)')
        BY <1>1, <4>1, <4>2, <4>3 DEF LiveDir
      <4>6. Account(d)'
        BY <1>1, <2>5, <4>4, <4>5 DEF Account, LiveDir, LiveNames
      <4> QED
        BY <1>1, <2>2, <3>0, <3>1, <4>3, <4>6
    <3>2. CASE ~IsDir(i)
      <4>1. CountedDirs(d)' = CountedDirs(d) /\ node'[d].nlink = node[d].nlink
        BY <1>1, <2>3, <2>8, <3>2, DirsSameSets
      <4> QED
        BY <1>1, <2>5, <2>7, <3>0, <4>1, MovesAccount
    <3> QED
      BY <3>1, <3>2
  <2>11. AccountInv'
    BY <1>0, <2>9, <2>10 DEF AccountInv
  <2>12. \A k : (Fresh(k)' <=> Fresh(k)) /\ (Going(k) => Going(k)')
    BY <1>0, <2>1 DEF Fresh, Going, GoesWith, Moves, SameCall
  <2>13. EmptyInv'
    BY <1>1, <2>4, <2>5, <2>12 DEF Inv, EmptyInv, RemovedStaysEmpty
  <2>14. MaxInv'
    BY <2>3, <2>10 DEF Inv, MaxInv
  <2>15. Gentle(p)
    BY <1>0, <2>3, <2>4, <2>10, <2>12 DEF Gentle, Alive
  <2>16. PlaceOf(p)'
    BY <1>0, <1>d, <1>1, <2>1, <2>5 DEF PlaceOf, GoesWith, SameCall
  <2>17. RefOf(p)'
    <3>1. \A k \in {d, f} : /\ k \in bitmap' /\ IsDir(k)' /\ ~Fresh(k)'
                            /\ node'[k].nlink > 0 /\ ~node'[k].dead
      BY <1>0, <1>1, <2>3, <2>4, <2>5, <2>10, <2>12
    <3> QED
      BY <1>0, <1>d, <1>1, <2>1, <3>1 DEF RefOf, GoesWith, SameCall, Alive
  <2> QED
    BY <1>0, <2>1, <2>5, <2>11, <2>13, <2>14, <2>15, <2>16, <2>17, GoesInv DEF InBody
<1>3. CASE /\ IF HasRoom(p) THEN AddLinkFails(p) ELSE UNCHANGED entry
           /\ Return(p) /\ UNCHANGED node
  BY <1>0, <1>3, ReturnStep, GivesUp DEF Tree, AddLinkFails
<1> QED
  BY <1>2, <1>3 DEF RenameAdd

LEMMA InvRenameOver ==
    ASSUME Inv, NEW p \in Procs, RenameOver(p)
    PROVE  Inv'
<1> DEFINE t == task[p]
<1>0. /\ t.pc = "body" /\ t.op = "rename" /\ t.tgt # None /\ t.pc \in InBody /\ Loose(t)
      /\ t.pc \in Found
      /\ bitmap' = bitmap /\ node' = node /\ dotdot' = dotdot /\ dparent' = dparent
      /\ CallTypes /\ TreeTypes /\ bitmap \subseteq Inos /\ FreedUnreachable
      /\ PlaceOf(p) /\ RefOf(p)
  BY DEF RenameOver, InBody, Found, Loose, Inv, Base, TreeTypes, FreeInv, PlaceInv, RefInv
<1>d. PICK d, n, f, m, i, g : /\ d = t.dir /\ n = t.name /\ f = t.from /\ m = t.fname
                              /\ i = t.ino /\ g = t.tgt
  OBVIOUS
<1>1. /\ d \in Inos /\ n \in Names /\ f \in Inos /\ m \in Names /\ i \in Inos
      /\ d \in bitmap /\ imutex[d] = p /\ IsDir(d) /\ ~Fresh(d)
      /\ node[d].nlink > 0 /\ ~node[d].dead
      /\ f \in bitmap /\ imutex[f] = p /\ IsDir(f)
      /\ i \in bitmap /\ i # None /\ entry[f][m] = i /\ i # g
      /\ g \in bitmap /\ g \in Inos /\ g # None /\ g # d /\ (IsDir(g) <=> IsDir(i))
      /\ entry[d][n] = g /\ (d = f => n # m)
  BY <1>0, <1>d, RenameFacts
<1>2. CASE Return(p) /\ UNCHANGED entry
  BY <1>0, <1>2, ReturnStep, GivesUp DEF Tree
<1>3. CASE /\ ~Moving(p) \/ ext2_empty_dir(t.tgt)
           /\ entry' = WithName(p, t.ino) /\ Goto(p, "dec") /\ UNCHANGED locks
  <2>1. /\ GoesWith(p, i, "dec") /\ UNCHANGED <<imutex, renameMutex>>
        /\ entry' = Put(d, n, i)
        /\ IsDir(g) => entry[g] = Empty
    BY <1>0, <1>d, <1>1, <1>3, GotoStep
       DEF Pcs, locks, Goes, WithName, Put, Moving, ext2_empty_dir
  <2>5. /\ TreeTypes' /\ FreeInv' /\ TypesStay /\ WritesOwn(p)
        /\ \A j \in Inos : IsDir(j)' <=> IsDir(j)
        /\ \A e \in Inos \ {d} : entry'[e] = entry[e]
        /\ \A e \in Inos, x \in Names :
             entry'[e][x] = IF e = d /\ x = n THEN i ELSE entry[e][x]
    <3>1. /\ dotdot' \in [Inos -> Inos \cup {None}] /\ dparent' \in [Inos -> Inos \cup {None}]
          /\ node' \in [Inos -> NodeRec] /\ i \in bitmap \cup {None}
      BY <1>0, <1>1 DEF TreeTypes
    <3> QED
      BY <1>0, <1>1, <2>1, <3>1, FrameWrite
  <2>6. BodyStep(p)
    BY <1>0, <2>1 DEF BodyStep, InBody
  <2>7. NamesMove(f, m, d, n, i)
    <3>1. Own(p, f, m, i) /\ ~Own(p, d, n, i)
      BY <1>0, <1>1, OwnAt
    <3>2. OwnMove(p, f, m, d, n, i)
      BY <1>0, <1>d, <1>1, <2>1, <2>5, ConstantsOK DEF OwnMove, Own, Leaving, Pending, GoesWith,
         SameCall
    <3> QED
      BY <1>1, <2>5, <2>6, <3>1, <3>2, OwnMoves
  <2>8. DirsSame
    <3>1. OwnSubSame(p)
      BY <1>0, <1>1, <2>1, <2>5 DEF OwnSubSame, OwnSub, PendingDir, GoesWith, SameCall, IsDir
    <3> QED
      BY <1>1, <2>5, <2>6, <3>1, OwnCounts
  <2>9. AccountInv'
    <3> SUFFICES ASSUME NEW k \in bitmap
                 PROVE  Account(k)'
      BY <1>0 DEF AccountInv
    <3>1. k \in Inos /\ node'[k] = node[k] /\ (entry'[k] = entry[k] \/ node[k].nlink > 0)
      BY <1>0, <1>1, <2>5
    <3>2. CountedDirs(k)' = CountedDirs(k)
      BY <2>8, <3>1, DirsSameSets
    <3> QED
      BY <1>1, <2>5, <2>7, <3>1, <3>2, MovesAccount
  <2>12. \A k : (Fresh(k)' <=> Fresh(k)) /\ (Going(k)' <=> Going(k))
    BY <1>0, <2>1 DEF Fresh, Going, GoesWith, Moves, SameCall
  <2>13. EmptyInv'
    BY <1>0, <1>1, <2>5, <2>12 DEF Inv, EmptyInv, RemovedStaysEmpty
  <2>14. MaxInv' /\ Gentle(p)
    BY <1>0, <2>12 DEF Inv, MaxInv, Gentle, Alive
  <2>16. PlaceOf(p)'
    BY <1>0, <1>d, <1>1, <2>1, <2>5 DEF PlaceOf, GoesWith, SameCall
  <2>17. RefOf(p)'
    BY <1>0, <1>d, <2>1, <2>12 DEF RefOf, GoesWith, SameCall, Alive, IsDir
  <2> QED
    BY <1>0, <2>1, <2>5, <2>9, <2>13, <2>14, <2>16, <2>17, GoesInv DEF InBody
<1> QED
  BY <1>2, <1>3 DEF RenameOver

LEMMA InvRenameDec ==
    ASSUME Inv, NEW p \in Procs, RenameDec(p)
    PROVE  Inv'
<1> DEFINE t == task[p]
<1>0. /\ t.pc = "dec" /\ t.op = "rename" /\ t.pc \in InBody /\ t.pc \in Found
      /\ bitmap' = bitmap /\ entry' = entry /\ dotdot' = dotdot /\ dparent' = dparent
      /\ CallTypes /\ TreeTypes /\ bitmap \subseteq Inos /\ FreedUnreachable
      /\ PlaceOf(p) /\ RefOf(p)
  BY DEF RenameDec, InBody, Found, Inv, Base, TreeTypes, FreeInv, PlaceInv, RefInv
<1>d. PICK d, n, f, m, i, g : /\ d = t.dir /\ n = t.name /\ f = t.from /\ m = t.fname
                              /\ i = t.ino /\ g = t.tgt
  OBVIOUS
<1>1. /\ d \in Inos /\ n \in Names /\ f \in Inos /\ m \in Names /\ i \in Inos
      /\ d \in bitmap /\ imutex[d] = p /\ IsDir(d) /\ ~Fresh(d)
      /\ node[d].nlink > 0 /\ ~node[d].dead
      /\ f \in bitmap /\ imutex[f] = p /\ IsDir(f) /\ ~Fresh(f)
      /\ node[f].nlink > 0 /\ ~node[f].dead
      /\ i \in bitmap /\ i # None /\ entry[f][m] = i /\ i # g
      /\ g \in bitmap /\ g \in Inos /\ g # None /\ g # d /\ g # f /\ imutex[g] = p
      /\ (IsDir(g) <=> IsDir(i)) /\ (IsDir(g) => entry[g] = Empty)
      /\ entry[d][n] = i /\ (d = f => n # m)
  BY <1>0, <1>d, RenameFacts
<1>2. GoesWith(p, i, "delOld") /\ UNCHANGED <<imutex, renameMutex>>
  BY <1>0, <1>d, GotoStep DEF RenameDec, Pcs, locks, Goes
<1>3. BodyStep(p)
  BY <1>0, <1>2 DEF BodyStep, InBody
<1>4. Counts(d, n, g)
  BY <1>0, <1>d DEF Counts, Pending
<1>5. IsDir(g) => node[g].nlink = 2 /\ CountedNames(g) = {<<d, n>>} /\ g # Root
  <2> SUFFICES ASSUME IsDir(g)
               PROVE  node[g].nlink = 2 /\ CountedNames(g) = {<<d, n>>} /\ g # Root
    OBVIOUS
  <2>1. LiveDir(g) /\ g # Root /\ CountedNames(g) = {<<d, n>>}
    BY <1>1, <1>4, OneName
  <2>2. Cardinality(CountedDirs(g)) = 0
    BY <1>1, <1>d, NoSubs
  <2> QED
    BY <2>1, <2>2 DEF LiveDir
<1>6. ~IsDir(g) => node[g].nlink = Cardinality(CountedNames(g))
  BY <1>1 DEF Inv, AccountInv, Account
<1> DEFINE r == [node[g] EXCEPT !.nlink = @ - (IF Moving(p) THEN 2 ELSE 1)]
<1>7. /\ r \in NodeRec /\ r.type = node[g].type /\ r.dead = node[g].dead
      /\ r.nlink = node[g].nlink - (IF IsDir(g) THEN 2 ELSE 1)
  <2>1. node[g] \in NodeRec /\ (Moving(p) <=> IsDir(g))
    BY <1>0, <1>1, <1>d DEF TreeTypes, Moving
  <2> QED
    BY <2>1 DEF NodeRec
<1>8. node' = [node EXCEPT ![g] = r]
  BY <1>d DEF RenameDec
<1> HIDE DEF r
<1>9. /\ node' \in [Inos -> NodeRec] /\ node'[g] = r
      /\ \A j \in Inos \ {g} : node'[j] = node[j]
  <2>1. node \in [Inos -> NodeRec]
    BY <1>0 DEF TreeTypes
  <2> QED
    BY <1>1, <1>7, <1>8, <2>1
<1>10. \A j \in Inos : node'[j].type = node[j].type /\ (node'[j].dead <=> node[j].dead)
  BY <1>7, <1>9
<1>11. /\ TreeTypes' /\ FreeInv' /\ TypesStay /\ WritesOwn(p)
       /\ \A j \in Inos : IsDir(j)' <=> IsDir(j)
  BY <1>0, <1>1, <1>9, <1>10, FrameStep
<1>12. NamesLose(d, n, g) /\ DirsSame
  <2>1. OwnLose(p, d, n, g) /\ Own(p, d, n, g)
    BY <1>0, <1>d, <1>1, <1>2 DEF OwnLose, Own, Leaving, Pending, GoesWith, SameCall
  <2>2. OwnSubSame(p)
    BY <1>0, <1>2, <1>11 DEF OwnSubSame, OwnSub, PendingDir, GoesWith, SameCall,
       FreedUnreachable, TypesStay, IsDir
  <2> QED
    BY <1>1, <1>3, <1>11, <2>1, <2>2, OwnCounts
<1>13. Account(g)'
  <2>1. /\ CountedNames(g)' = CountedNames(g) \ {<<d, n>>}
        /\ Cardinality(CountedNames(g)') = Cardinality(CountedNames(g)) - 1
    BY <1>1, <1>12, NamesLoseSets
  <2>2. CASE IsDir(g)
    <3>1. CountedNames(g)' = {} /\ node'[g].nlink = 0
      BY <1>5, <1>7, <1>9, <2>1, <2>2
    <3> QED
      BY <1>0, <1>1, <1>5, <1>11, <2>2, <3>1 DEF Account, GoneDir
  <2>3. CASE ~IsDir(g)
    <3>1. node'[g].nlink = Cardinality(CountedNames(g)')
      BY <1>6, <1>7, <1>9, <2>1, <2>3
    <3> QED
      BY <1>1, <1>11, <2>3, <3>1 DEF Account
  <2> QED
    BY <2>2, <2>3
<1>14. AccountInv'
  <2>1. \A k \in bitmap \ {g} : Untouched(k)
    BY <1>0, <1>1, <1>9, <1>12, NamesLoseSets, DirsSameSets DEF Untouched
  <2> QED
    BY <1>0, <1>11, <1>13, <2>1, AccountRest
<1>15. (\A k : Fresh(k)' <=> Fresh(k)) /\ Going(g)' /\ \A k : Going(k) => Going(k)'
  BY <1>0, <1>d, <1>2 DEF Fresh, Going, GoesWith, Moves, SameCall
<1>16. EmptyInv'
  BY <1>0, <1>10, <1>11, <1>15 DEF Inv, EmptyInv, RemovedStaysEmpty
<1>17. MaxInv'
  <2>1. node[g].nlink \in Int /\ LinkMax \in Int
    BY <1>0, <1>1, ConstantsOK DEF TreeTypes, NodeRec
  <2> QED
    BY <1>7, <1>9, <2>1 DEF Inv, MaxInv
<1>18. Gentle(p)
  BY <1>0, <1>1, <1>9, <1>10, <1>15 DEF Gentle, Alive
<1>19. PlaceOf(p)'
  BY <1>0, <1>d, <1>1, <1>2, <1>11 DEF PlaceOf, GoesWith, SameCall
<1>20. RefOf(p)'
  <2>1. \A k \in {d, f} : /\ k \in bitmap' /\ IsDir(k)' /\ ~Fresh(k)'
                          /\ node'[k].nlink > 0 /\ ~node'[k].dead
    BY <1>0, <1>1, <1>9, <1>11, <1>15
  <2> QED
    BY <1>0, <1>d, <1>1, <1>2, <2>1 DEF RefOf, GoesWith, SameCall, Alive
<1> QED
  BY <1>0, <1>2, <1>11, <1>14, <1>16, <1>17, <1>18, <1>19, <1>20, GoesInv DEF InBody

LEMMA InvRenameDelOld ==
    ASSUME Inv, NEW p \in Procs, RenameDelOld(p)
    PROVE  Inv'
<1> DEFINE t == task[p]
<1>0. /\ t.pc = "delOld" /\ t.op = "rename" /\ t.pc \in InBody /\ t.pc \in Found
      /\ bitmap' = bitmap /\ Return(p)
      /\ CallTypes /\ TreeTypes /\ bitmap \subseteq Inos /\ FreedUnreachable
      /\ node \in [Inos -> NodeRec] /\ dotdot \in [Inos -> Inos \cup {None}]
      /\ dparent \in [Inos -> Inos \cup {None}]
  BY DEF RenameDelOld, InBody, Found, Inv, Base, TreeTypes, FreeInv, PlaceInv, PlaceOf
<1>d. PICK d, n, f, m, i, g : /\ d = t.dir /\ n = t.name /\ f = t.from /\ m = t.fname
                              /\ i = t.ino /\ g = t.tgt
  OBVIOUS
<1>1. /\ d \in Inos /\ n \in Names /\ f \in Inos /\ m \in Names /\ i \in Inos
      /\ f \in bitmap /\ imutex[f] = p /\ IsDir(f) /\ ~Fresh(f)
      /\ node[f].nlink > 0 /\ ~node[f].dead /\ LiveDir(f)
      /\ i \in bitmap /\ i # None /\ entry[f][m] = i
      /\ g # None => /\ g \in bitmap /\ g \in Inos /\ imutex[g] = p /\ g # f
                     /\ IsDir(g) <=> IsDir(i)
                     /\ IsDir(g) => entry[g] = Empty
  BY <1>0, <1>d, RenameFacts
<1>2. Returns(p) /\ BodyStep(p)
  BY <1>0, ReturnStep DEF BodyStep
<1>3. /\ \A k : Fresh(k)' <=> Fresh(k)
      /\ \A k : k # g => (Going(k)' <=> Going(k))
  BY <1>0, <1>d, <1>2, IdleType DEF Fresh, Going, Returns, Moves
<1>4. /\ entry' = Put(f, m, None)
      /\ IsDir(i) => /\ node' = [k \in Inos |->
                          [node[k] EXCEPT !.nlink = IF k = f THEN @ - 1 ELSE @,
                                          !.dead = @ \/ k = g]]
                     /\ dotdot' = [dotdot EXCEPT ![i] = d]
                     /\ dparent' = d_move(t)
      /\ ~IsDir(i) => node' = node /\ dotdot' = dotdot /\ dparent' = dparent
  BY <1>d DEF RenameDelOld, Put, Moving
<1>5. /\ node' \in [Inos -> NodeRec]
      /\ \A k \in Inos : /\ node'[k].type = node[k].type
                         /\ node'[k].dead <=> node[k].dead \/ (k = g /\ IsDir(i))
                         /\ node'[k].nlink = IF k = f /\ IsDir(i) THEN node[k].nlink - 1
                                                                  ELSE node[k].nlink
  <2>1. CASE ~IsDir(i)
    BY <1>0, <1>4, <2>1
  <2>2. CASE IsDir(i)
    <3> DEFINE s(k) == [node[k] EXCEPT !.nlink = IF k = f THEN @ - 1 ELSE @,
                                       !.dead = @ \/ k = g]
    <3>1. ASSUME NEW k \in Inos
          PROVE  /\ s(k) \in NodeRec /\ s(k).type = node[k].type
                 /\ s(k).dead <=> node[k].dead \/ k = g
                 /\ s(k).nlink = IF k = f THEN node[k].nlink - 1 ELSE node[k].nlink
      <4> DEFINE a == [node[k] EXCEPT !.nlink = IF k = f THEN @ - 1 ELSE @]
                 b == node[k].dead \/ k = g
      <4>1. node[k] \in NodeRec
        BY <1>0
      <4>2. /\ a \in NodeRec /\ a.type = node[k].type
            /\ a.nlink = IF k = f THEN node[k].nlink - 1 ELSE node[k].nlink
        BY <4>1 DEF NodeRec
      <4>3. s(k) = [a EXCEPT !.dead = b]
        OBVIOUS
      <4>4. b \in BOOLEAN
        OBVIOUS
      <4> HIDE DEF a, b
      <4>5. [a EXCEPT !.dead = b] \in NodeRec
        BY <4>2, <4>4 DEF NodeRec
      <4>6. /\ [a EXCEPT !.dead = b].type = a.type /\ [a EXCEPT !.dead = b].nlink = a.nlink
            /\ [a EXCEPT !.dead = b].dead = b
        BY <4>2 DEF NodeRec
      <4>7. b <=> node[k].dead \/ k = g
        BY DEF b
      <4> HIDE DEF s
      <4> QED
        BY <4>2, <4>3, <4>5, <4>6, <4>7
    <3>2. node' = [k \in Inos |-> s(k)]
      BY <1>4, <2>2
    <3> HIDE DEF s
    <3> QED
      BY <2>2, <3>1, <3>2
  <2> QED
    BY <2>1, <2>2
<1>6. dotdot' \in [Inos -> Inos \cup {None}] /\ dparent' \in [Inos -> Inos \cup {None}]
  <2>1. CASE ~IsDir(i)
    BY <1>0, <1>4, <2>1
  <2>2. CASE IsDir(i)
    <3>1. d_move(t) \in [Inos -> Inos \cup {None}]
      <4>1. \A k \in Inos : (CASE k = i -> d [] k = g -> f [] OTHER -> dparent[k])
                               \in Inos \cup {None}
        BY <1>0, <1>1
      <4> QED
        BY <1>d, <4>1 DEF d_move
    <3>2. [dotdot EXCEPT ![i] = d] \in [Inos -> Inos \cup {None}]
      BY <1>0, <1>1
    <3> QED
      BY <1>4, <2>2, <3>1, <3>2
  <2> QED
    BY <2>1, <2>2
<1>7. /\ TreeTypes' /\ FreeInv' /\ TypesStay /\ WritesOwn(p)
      /\ \A j \in Inos : IsDir(j)' <=> IsDir(j)
      /\ \A e \in Inos \ {f} : entry'[e] = entry[e]
      /\ \A e \in Inos, x \in Names :
           entry'[e][x] = IF e = f /\ x = m THEN None ELSE entry[e][x]
  <2>1. \A j \in Inos \ bitmap : node'[j] = node[j]
    <3> TAKE j \in Inos \ bitmap
    <3>1. j # f /\ j # g
      BY <1>1, ConstantsOK
    <3>2. node'[j] \in NodeRec /\ node[j] \in NodeRec
      BY <1>0, <1>5
    <3> QED
      BY <1>5, <3>1, <3>2 DEF NodeRec
  <2>2. \A j \in Inos : node'[j].type = node[j].type
    BY <1>5
  <2> QED
    <3>1. /\ bitmap' = bitmap /\ node' \in [Inos -> NodeRec] /\ imutex[f] = p
          /\ f \in Inos /\ m \in Names /\ entry' = Put(f, m, None)
      BY <1>0, <1>1, <1>4, <1>5
    <3> QED
      BY <1>6, <2>1, <2>2, <3>1, FrameWrite
<1>8. NamesSame
  <2>1. OwnSame(p)
    BY <1>0, <1>d, <1>1, <1>2, <1>7, IdleType, ConstantsOK DEF OwnSame, Own, Leaving, Pending,
       Returns
  <2> QED
    BY <1>1, <1>2, <1>7, <2>1, OwnCounts
<1>9. IF IsDir(i) THEN DirsLose(f, m) ELSE DirsSame
  <2>1. \A e \in Inos, x \in Names :
          /\ OwnSub(p, e, x) <=> entry[e][x] # None /\ IsDir(entry[e][x])
          /\ OwnSub(p, e, x)' <=> entry'[e][x] # None /\ IsDir(entry[e][x])'
    BY <1>0, <1>2, IdleType DEF OwnSub, PendingDir, Returns
  <2>2. \A e \in Inos, x \in Names : entry[e][x] # None => entry[e][x] \in Inos
    BY <1>0 DEF FreedUnreachable
  <2>3. \A e \in Inos, x \in Names :
          OwnSub(p, e, x)' <=> OwnSub(p, e, x) /\ ~(e = f /\ x = m)
    BY <1>7, <2>1, <2>2 DEF IsDir
  <2>4. OwnSub(p, f, m) <=> IsDir(i)
    BY <1>1, <2>1
  <2>5. IF IsDir(i) THEN OwnSubLose(p, f, m) ELSE OwnSubSame(p)
    BY <2>3, <2>4 DEF OwnSubLose, OwnSubSame
  <2> QED
    BY <1>1, <1>2, <1>7, <2>4, <2>5, OwnCounts
<1>10. Account(f)' /\ node'[f].nlink > 0 /\ node'[f].nlink <= LinkMax
  <2>1. CountedNames(f)' = CountedNames(f)
    BY <1>1, <1>8, NamesSameSets
  <2>2. CASE IsDir(i)
    <3>1. Relinked(f, node[f].nlink - 1)
      BY <1>1, <1>5, <2>2, ConstantsOK DEF Relinked
    <3> QED
      BY <1>1, <1>9, <2>1, <2>2, <3>1, LosesDir
  <2>3. CASE ~IsDir(i)
    <3>1. CountedDirs(f)' = CountedDirs(f) /\ node'[f].nlink = node[f].nlink
      BY <1>1, <1>5, <1>9, <2>3, DirsSameSets
    <3> QED
      BY <1>1, <1>7, <2>1, <3>1, AccountStays DEF Inv, AccountInv, MaxInv
  <2> QED
    BY <2>2, <2>3
<1>11. AccountInv'
  <2>1. \A k \in bitmap \ {f} : Untouched(k)
    <3> TAKE k \in bitmap \ {f}
    <3>1. k \in Inos /\ node'[k].nlink = node[k].nlink /\ entry'[k] = entry[k]
      BY <1>0, <1>5, <1>7
    <3>2. CountedNames(k)' = CountedNames(k)
      BY <1>8, <3>1, NamesSameSets
    <3>3. CountedDirs(k)' = CountedDirs(k)
      BY <1>1, <1>9, <3>1, DirsLoseSets, DirsSameSets
    <3> QED
      BY <3>1, <3>2, <3>3 DEF Untouched
  <2> QED
    BY <1>0, <1>7, <1>10, <2>1, AccountRest
<1>12. EmptyInv'
  <2>1. \A k \in Inos : ~IsDir(k)' \/ Fresh(k)' => entry'[k] = Empty
    BY <1>1, <1>3, <1>7 DEF Inv, EmptyInv
  <2>2. \A k \in Inos : node'[k].dead => entry'[k] = Empty
    BY <1>1, <1>5, <1>7, ConstantsOK DEF Inv, EmptyInv, RemovedStaysEmpty
  <2> QED
    BY <2>1, <2>2 DEF EmptyInv, RemovedStaysEmpty
<1>13. MaxInv'
  BY <1>5, <1>10 DEF Inv, MaxInv
<1>14. Gentle(p)
  <2> SUFFICES ASSUME NEW k \in bitmap, IsDir(k), ~Fresh(k)
               PROVE  /\ ~Fresh(k)'
                      /\ Alive(k) => Alive(k)'
                      /\ imutex[k] # p /\ node[k].nlink > 0 /\ ~node[k].dead =>
                           node'[k].nlink > 0 /\ ~node'[k].dead
    BY DEF Gentle
  <2>1. k \in Inos /\ ~Fresh(k)'
    BY <1>0, <1>3
  <2>2. CASE k = g
    <3>1. g # None /\ IsDir(i) /\ imutex[k] = p
      BY <1>1, <2>1, <2>2, ConstantsOK
    <3>2. node'[k].dead
      BY <1>5, <2>1, <2>2, <3>1
    <3> QED
      BY <2>1, <3>1, <3>2 DEF Alive
  <2>3. CASE k # g
    <3>1. (Going(k)' <=> Going(k)) /\ (node'[k].dead <=> node[k].dead)
      BY <1>3, <1>5, <2>1, <2>3
    <3>2. node[k].nlink > 0 => node'[k].nlink > 0
      BY <1>5, <1>10, <2>1
    <3> QED
      BY <2>1, <3>1, <3>2 DEF Alive
  <2> QED
    BY <2>2, <2>3
<1> QED
  BY <1>2, <1>7, <1>11, <1>12, <1>13, <1>14, ReturnsInv

-----------------------------------------------------------------------------
(* The last iput                                                           *)

(* An inode without links that nobody holds has no name anywhere.          *)
LEMMA EvictFacts ==
    ASSUME Inv, NEW i \in Inos, i \in bitmap, node[i].nlink = 0, ~Held(i)
    PROVE  /\ i # Root /\ entry[i] = Empty
           /\ \A d \in Inos, n \in Names : entry[d][n] # i
           /\ \A p \in Procs : i \notin {task[p].dir, task[p].from, task[p].ino, task[p].tgt}
<1>1. Account(i)
  BY DEF Inv, AccountInv
<1>2. CountedNames(i) = {} /\ i # Root /\ entry[i] = Empty
  <2>1. CASE IsDir(i)
    <3>1. ~LiveDir(i)
      BY FiniteCounts, CountedTypes DEF LiveDir
    <3> QED
      BY <1>1, <2>1, <3>1 DEF Account, GoneDir
  <2>2. CASE ~IsDir(i)
    <3>1. Cardinality(CountedNames(i)) = 0
      BY <1>1, <2>2 DEF Account
    <3>2. CountedNames(i) = {}
      BY <3>1, FiniteCounts, CountedTypes, FS_EmptySet
    <3> QED
      BY <2>2, <3>2 DEF Inv, FreeInv, EmptyInv
  <2> QED
    BY <2>1, <2>2
<1>3. \A d \in Inos, n \in Names : entry[d][n] # i
  <2> SUFFICES ASSUME NEW d \in Inos, NEW n \in Names, entry[d][n] = i
               PROVE  FALSE
    OBVIOUS
  <2>1. PICK e \in Inos, m \in Names : Counts(e, m, i)
    BY NamedCounts
  <2>2. <<e, m>> \in CountedNames(i)
    BY <2>1 DEF CountedNames
  <2> QED
    BY <1>2, <2>2
<1> QED
  BY <1>2, <1>3 DEF Held

LEMMA InvEvict ==
    ASSUME Inv, NEW i \in Inos, ext2_evict_inode(i)
    PROVE  Inv'
<1>0. /\ i \in bitmap /\ node[i].nlink = 0 /\ ~Held(i)
      /\ bitmap' = bitmap \ {i} /\ node' = [node EXCEPT ![i] = FreeNode]
      /\ entry' = [entry EXCEPT ![i] = Empty]
      /\ dotdot' = [dotdot EXCEPT ![i] = None] /\ dparent' = [dparent EXCEPT ![i] = None]
      /\ imutex' = imutex /\ renameMutex' = renameMutex /\ task' = task
  BY DEF ext2_evict_inode, ext2_free_inode, locks
<1>1. Base /\ TreeTypes /\ CallTypes /\ LockInv /\ PlaceInv /\ RefInv /\ bitmap \subseteq Inos
  BY DEF Inv, Base, TreeTypes
<1>2. /\ i # Root /\ entry[i] = Empty
      /\ \A d \in Inos, n \in Names : entry[d][n] # i
      /\ \A p \in Procs : i \notin {task[p].dir, task[p].from, task[p].ino, task[p].tgt}
  BY <1>0, EvictFacts
<1>3. entry' = entry
  <2>1. entry \in [Inos -> [Names -> Inos \cup {None}]]
    BY <1>1 DEF TreeTypes
  <2> QED
    BY <1>0, <1>2, <2>1
<1>4. node'[i] = FreeNode /\ \A j : j \in Inos \ {i} => node'[j] = node[j]
  BY <1>0, <1>1 DEF TreeTypes
<1>5. TreeTypes'
  <2>1. FreeNode \in NodeRec
    BY DEF FreeNode, NodeRec
  <2> QED
    BY <1>0, <1>1, <1>3, <2>1 DEF TreeTypes
<1>6. CallTypes' /\ LockInv'
  BY <1>0, <1>1 DEF CallTypes, LockInv, LockOf, TwoDirs
<1>7. \A j \in Inos \ {i} : IsDir(j)' <=> IsDir(j)
  BY <1>4 DEF IsDir
<1>8. \A k : (Fresh(k)' <=> Fresh(k)) /\ (Going(k)' <=> Going(k))
  BY <1>0 DEF Fresh, Going
<1>9. PlaceInv'
  <2> SUFFICES ASSUME NEW p \in Procs
               PROVE  PlaceOf(p)'
    BY DEF PlaceInv
  <2>1. PlaceOf(p) /\ task[p] \in TaskRec /\ task'[p] = task[p]
    BY <1>0, <1>1 DEF PlaceInv, CallTypes
  <2>2. task[p].ino # None => (IsDir(task[p].ino)' <=> IsDir(task[p].ino))
    BY <1>2, <1>4, <2>1 DEF TaskRec, IsDir
  <2>3. task[p].tgt # None => (IsDir(task[p].tgt)' <=> IsDir(task[p].tgt))
    BY <1>2, <1>4, <2>1 DEF TaskRec, IsDir
  <2> QED
    BY <1>3, <2>1, <2>2, <2>3 DEF PlaceOf
<1>10. RefInv'
  <2> SUFFICES ASSUME NEW p \in Procs
               PROVE  RefOf(p)'
    BY DEF RefInv
  <2>1. RefOf(p) /\ task'[p] = task[p]
    BY <1>0, <1>1 DEF RefInv
  <2>2. \A d \in {task[p].dir, task[p].from} \ {None} : d \in Inos \ {i} /\ node'[d] = node[d]
    BY <1>1, <1>2, <1>4, <2>1 DEF RefOf
  <2>3. {task[p].dir, task[p].from, task[p].ino, task[p].tgt} \subseteq bitmap' \cup {None}
    BY <1>0, <1>2, <2>1 DEF RefOf
  <2> QED
    BY <1>8, <2>1, <2>2, <2>3 DEF RefOf, Alive, IsDir
<1>11. NamesSame /\ DirsSame
  <2>1. NamesSame
    BY <1>0, <1>3 DEF NamesSame, Counts, Leaving, Pending
  <2>2. \A e \in Inos, m \in Names : entry[e][m] # None =>
          entry[e][m] \in Inos \ {i}
    BY <1>1, <1>2 DEF Inv, FreeInv, FreedUnreachable
  <2>3. \A e \in Inos, m \in Names : entry[e][m] # None =>
          (IsDir(entry[e][m])' <=> IsDir(entry[e][m]))
    BY <1>3, <1>4, <2>2 DEF IsDir
  <2>4. DirsSame
    BY <1>0, <1>3, <2>3 DEF DirsSame, HasSub, PendingDir
  <2> QED
    BY <2>1, <2>4
<1>12. AccountInv'
  <2> SUFFICES ASSUME NEW k \in bitmap'
               PROVE  Account(k)'
    BY DEF AccountInv
  <2>1. k \in bitmap /\ k \in Inos \ {i} /\ Account(k)
    BY <1>0, <1>1 DEF Inv, AccountInv
  <2>2. CountedNames(k)' = CountedNames(k) /\ CountedDirs(k)' = CountedDirs(k)
    BY <1>11, <2>1, NamesSameSets, DirsSameSets
  <2> QED
    BY <1>3, <1>4, <1>7, <2>1, <2>2, AccountStays
<1>13. FreeInv'
  <2>1. Root \in bitmap' /\ IsDir(Root)'
    BY <1>0, <1>2, <1>4 DEF Inv, FreeInv, IsDir
  <2>2. FreedUnreachable'
    BY <1>0, <1>2, <1>3 DEF Inv, FreeInv, FreedUnreachable
  <2>3. \A j \in Inos \ bitmap' : node'[j] = FreeNode
    BY <1>0, <1>4 DEF Inv, FreeInv
  <2> QED
    BY <2>1, <2>2, <2>3 DEF FreeInv
<1>14. EmptyInv'
  <2>1. ~node'[i].dead
    BY <1>4 DEF FreeNode
  <2> QED
    BY <1>2, <1>3, <1>4, <1>7, <1>8, <2>1 DEF Inv, EmptyInv, RemovedStaysEmpty
<1>15. MaxInv'
  BY <1>4, ConstantsOK DEF Inv, MaxInv, FreeNode
<1> QED
  BY <1>5, <1>6, <1>9, <1>10, <1>12, <1>13, <1>14, <1>15 DEF Inv, Base

LEMMA InvNext ==
    ASSUME Inv, [Next]_vars
    PROVE  Inv'
<1>1. CASE \E p \in Procs : Step(p)
  <2>1. PICK p \in Procs : Step(p)
    BY <1>1
  <2> QED
    BY <2>1, InvStart, InvLock, InvRefuse, InvAdmit, InvCreate, InvMkdir, InvMkdirInode,
       InvMakeEmpty, InvLink, InvAddLink, InvDeleteEntry, InvUnlinkDec, InvRenameAdd,
       InvRenameOver, InvRenameDec, InvRenameDelOld DEF Step
<1>2. CASE \E i \in Inos : ext2_evict_inode(i)
  BY <1>2, InvEvict
<1>3. CASE UNCHANGED vars
  <2>0. /\ bitmap' = bitmap /\ node' = node /\ entry' = entry /\ dotdot' = dotdot
        /\ dparent' = dparent /\ imutex' = imutex /\ renameMutex' = renameMutex /\ task' = task
    BY <1>3 DEF vars
  <2>1. Base'
    BY <2>0 DEF Inv, Base, TreeTypes, CallTypes, LockInv, LockOf, TwoDirs
  <2>2. PlaceInv'
    BY <2>0 DEF Inv, PlaceInv, PlaceOf, IsDir
  <2>3. \A i : (Fresh(i)' <=> Fresh(i)) /\ (Alive(i)' <=> Alive(i)) /\ (IsDir(i)' <=> IsDir(i))
    BY <2>0 DEF Fresh, Alive, Going, IsDir
  <2>4. RefInv'
    BY <2>0, <2>3 DEF Inv, RefInv, RefOf
  <2>5. NamesSame /\ DirsSame
    BY <2>0, <2>3 DEF NamesSame, DirsSame, Counts, HasSub, Pending, Leaving, PendingDir, IsDir
  <2>6. AccountInv'
    <3>1. TypesStay /\ \A k \in bitmap : k \in Inos
      BY <2>0, <2>3 DEF TypesStay, Inv, Base, TreeTypes
    <3>2. \A k \in bitmap : Untouched(k)
      BY <2>0, <2>5, <3>1, NamesSameSets, DirsSameSets DEF Untouched
    <3> QED
      BY <2>0, <3>1, <3>2, AccountRest
  <2>7. FreeInv' /\ EmptyInv' /\ MaxInv'
    BY <2>0, <2>3 DEF Inv, FreeInv, FreedUnreachable, EmptyInv, RemovedStaysEmpty, MaxInv
  <2> QED
    BY <2>1, <2>2, <2>4, <2>6, <2>7 DEF Inv
<1> QED
  BY <1>1, <1>2, <1>3 DEF Next, Bounded

-----------------------------------------------------------------------------
(* The trees a behaviour starts from                                       *)

\* What the names say: a directory is at home under one name, and only the
\* directories of the tree have entries.
InitTree(dirs) ==
    /\ dirs \subseteq Inos /\ Root \in dirs /\ dirs \subseteq bitmap /\ bitmap \subseteq Inos
    /\ entry \in [Inos -> [Names -> bitmap \cup {None}]]
    /\ \A i \in Inos \ dirs : entry[i] = Empty
    /\ NamesOf(entry, Root) = {}
    /\ \A d \in dirs \ {Root} : \E dn \in Inos \X Names : NamesOf(entry, d) = {dn}
    /\ \A i \in Inos : LinksOf(entry, dirs, i) <= LinkMax
    /\ node = [i \in Inos |->
                 IF i \notin bitmap THEN FreeNode
                 ELSE [type |-> IF i \in dirs THEN "dir" ELSE "file",
                       nlink |-> LinksOf(entry, dirs, i), dead |-> FALSE]]
    /\ dotdot \in [Inos -> Inos \cup {None}] /\ dparent = dotdot
    /\ \A e \in Inos, n \in Names, d \in dirs : entry[e][n] = d => dparent[d] = e
    /\ \A d \in dirs \ {Root} : Root \in Upwards(dparent, d)

LEMMA InitIsTree ==
    ASSUME Init
    PROVE  \E dirs : InitTree(dirs)
<1>0. Root \in Inos /\ None \notin Inos
  BY ConstantsOK
<1>1. PICK sub \in SUBSET (Inos \ {Root}) :
       LET dirs == sub \cup {Root} IN
       \E home \in [sub -> dirs \X Names] :
       LET rest == (dirs \X Names) \ {home[d] : d \in sub} IN
       \E links \in [rest -> (Inos \ dirs) \cup {None}] :
         LET up     == [i \in Inos |-> IF i \in sub THEN home[i][1]
                                      ELSE IF i = Root THEN Root ELSE None]
             in(dn) == IF dn \in rest THEN links[dn]
                       ELSE CHOOSE d \in sub : home[d] = dn
             used   == dirs \cup ({links[dn] : dn \in rest} \ {None})
         IN  /\ Cardinality({dn \in dirs \X Names : in(dn) # None}) <= MaxNames
             /\ \A c, d \in sub : c # d => home[c] # home[d]
             /\ \A d \in sub : Root \in Upwards(up, d)
             /\ entry = [i \in Inos |-> IF i \in dirs
                            THEN [n \in Names |-> in(<<i, n>>)] ELSE Empty]
             /\ \A i \in Inos : LinksOf(entry, dirs, i) <= LinkMax
             /\ bitmap = used
             /\ node = [i \in Inos |->
                          IF i \notin used THEN FreeNode
                          ELSE [type |-> IF i \in dirs THEN "dir" ELSE "file",
                                nlink |-> LinksOf(entry, dirs, i),
                                dead |-> FALSE]]
             /\ dotdot = up
             /\ dparent = up
  BY DEF Init
<1> DEFINE dirs == sub \cup {Root}
<1>2. PICK home \in [sub -> dirs \X Names] :
       LET rest == (dirs \X Names) \ {home[d] : d \in sub} IN
       \E links \in [rest -> (Inos \ dirs) \cup {None}] :
         LET up     == [i \in Inos |-> IF i \in sub THEN home[i][1]
                                      ELSE IF i = Root THEN Root ELSE None]
             in(dn) == IF dn \in rest THEN links[dn]
                       ELSE CHOOSE d \in sub : home[d] = dn
             used   == dirs \cup ({links[dn] : dn \in rest} \ {None})
         IN  /\ Cardinality({dn \in dirs \X Names : in(dn) # None}) <= MaxNames
             /\ \A c, d \in sub : c # d => home[c] # home[d]
             /\ \A d \in sub : Root \in Upwards(up, d)
             /\ entry = [i \in Inos |-> IF i \in dirs
                            THEN [n \in Names |-> in(<<i, n>>)] ELSE Empty]
             /\ \A i \in Inos : LinksOf(entry, dirs, i) <= LinkMax
             /\ bitmap = used
             /\ node = [i \in Inos |->
                          IF i \notin used THEN FreeNode
                          ELSE [type |-> IF i \in dirs THEN "dir" ELSE "file",
                                nlink |-> LinksOf(entry, dirs, i),
                                dead |-> FALSE]]
             /\ dotdot = up
             /\ dparent = up
  BY <1>1
<1> DEFINE rest == (dirs \X Names) \ {home[d] : d \in sub}
<1>3. PICK links \in [rest -> (Inos \ dirs) \cup {None}] :
         LET up     == [i \in Inos |-> IF i \in sub THEN home[i][1]
                                      ELSE IF i = Root THEN Root ELSE None]
             in(dn) == IF dn \in rest THEN links[dn]
                       ELSE CHOOSE d \in sub : home[d] = dn
             used   == dirs \cup ({links[dn] : dn \in rest} \ {None})
         IN  /\ Cardinality({dn \in dirs \X Names : in(dn) # None}) <= MaxNames
             /\ \A c, d \in sub : c # d => home[c] # home[d]
             /\ \A d \in sub : Root \in Upwards(up, d)
             /\ entry = [i \in Inos |-> IF i \in dirs
                            THEN [n \in Names |-> in(<<i, n>>)] ELSE Empty]
             /\ \A i \in Inos : LinksOf(entry, dirs, i) <= LinkMax
             /\ bitmap = used
             /\ node = [i \in Inos |->
                          IF i \notin used THEN FreeNode
                          ELSE [type |-> IF i \in dirs THEN "dir" ELSE "file",
                                nlink |-> LinksOf(entry, dirs, i),
                                dead |-> FALSE]]
             /\ dotdot = up
             /\ dparent = up
  BY <1>2
<1> DEFINE in(dn) == IF dn \in rest THEN links[dn] ELSE CHOOSE d \in sub : home[d] = dn
           used == dirs \cup ({links[dn] : dn \in rest} \ {None})
           up == [i \in Inos |-> IF i \in sub THEN home[i][1]
                                 ELSE IF i = Root THEN Root ELSE None]
<1>4. /\ \A c, d \in sub : c # d => home[c] # home[d]
      /\ \A d \in sub : Root \in Upwards(up, d)
      /\ entry = [i \in Inos |-> IF i \in dirs
                     THEN [n \in Names |-> in(<<i, n>>)] ELSE Empty]
      /\ \A i \in Inos : LinksOf(entry, dirs, i) <= LinkMax
      /\ bitmap = used
      /\ node = [i \in Inos |->
                   IF i \notin bitmap THEN FreeNode
                   ELSE [type |-> IF i \in dirs THEN "dir" ELSE "file",
                         nlink |-> LinksOf(entry, dirs, i), dead |-> FALSE]]
      /\ dotdot = up /\ dparent = up
  BY <1>3
<1>5. dirs \subseteq Inos /\ Root \in dirs /\ sub = dirs \ {Root}
  BY <1>0
<1>6. \A dn \in rest : links[dn] \in bitmap \cup {None} /\ links[dn] \notin dirs
  BY <1>0, <1>4, <1>5
<1>7. bitmap \subseteq Inos /\ dirs \subseteq bitmap
  BY <1>4, <1>5
<1>8. up \in [Inos -> Inos \cup {None}]
  <2>1. \A i \in sub : home[i][1] \in Inos
    BY <1>5
  <2> QED
    BY <1>0, <2>1
<1>u. \A d \in sub : d \in Inos /\ up[d] = home[d][1]
  OBVIOUS
<1>9. ASSUME NEW dn \in dirs \X Names, dn \notin rest
      PROVE  in(dn) \in sub /\ home[in(dn)] = dn
  <2>1. \E d \in sub : home[d] = dn
    BY <1>9
  <2>2. (CHOOSE d \in sub : home[d] = dn) \in sub /\ home[CHOOSE d \in sub : home[d] = dn] = dn
    BY <2>1
  <2> QED
    BY <1>9, <2>2
<1>10. \A dn \in rest : in(dn) = links[dn]
  OBVIOUS
<1>11. \A d \in sub : home[d] \in dirs \X Names /\ home[d] \notin rest
  OBVIOUS
<1>r. rest \subseteq dirs \X Names
  OBVIOUS
<1> HIDE DEF in, rest, used, up
<1>12. /\ \A e \in Inos \ dirs : entry[e] = Empty
       /\ \A e \in dirs, x \in Names : entry[e][x] = in(<<e, x>>)
  BY <1>4, <1>5
<1> HIDE DEF dirs
<1>13. \A dn \in dirs \X Names : in(dn) \in bitmap \cup {None}
  BY <1>5, <1>6, <1>7, <1>9, <1>10
<1>14. entry \in [Inos -> [Names -> bitmap \cup {None}]]
  <2>1. \A e \in dirs : [n \in Names |-> in(<<e, n>>)] \in [Names -> bitmap \cup {None}]
    BY <1>13
  <2>2. Empty \in [Names -> bitmap \cup {None}]
    BY DEF Empty
  <2> QED
    BY <1>4, <2>1, <2>2
<1>15. ASSUME NEW e \in Inos, NEW x \in Names, NEW k \in dirs, entry[e][x] = k
       PROVE  k \in sub /\ home[k] = <<e, x>>
  <2>1. e \in dirs
    BY <1>0, <1>5, <1>12, <1>15 DEF Empty
  <2>2. in(<<e, x>>) = k /\ <<e, x>> \in dirs \X Names
    BY <1>12, <1>15, <2>1
  <2>3. <<e, x>> \notin rest
    BY <1>6, <1>10, <2>2
  <2> QED
    BY <1>9, <2>2, <2>3
<1>16. NamesOf(entry, Root) = {}
  <2>1. ASSUME NEW dn \in Inos \X Names, entry[dn[1]][dn[2]] = Root
        PROVE  FALSE
    BY <1>5, <1>15, <2>1
  <2> QED
    BY <2>1 DEF NamesOf
<1>17. ASSUME NEW d \in dirs \ {Root}
       PROVE  \E dn \in Inos \X Names : NamesOf(entry, d) = {dn}
  <2>1. d \in sub /\ home[d] \in dirs \X Names /\ home[d] \in Inos \X Names /\ home[d] \notin rest
    BY <1>5, <1>11
  <2>2. in(home[d]) \in sub /\ home[in(home[d])] = home[d]
    BY <1>9, <2>1
  <2>3. in(home[d]) = d
    BY <1>4, <2>1, <2>2
  <2>4. home[d] = <<home[d][1], home[d][2]>> /\ home[d][1] \in dirs /\ home[d][2] \in Names
    BY <2>1
  <2>5. entry[home[d][1]][home[d][2]] = d
    BY <1>12, <2>3, <2>4
  <2>6. \A dn \in Inos \X Names : entry[dn[1]][dn[2]] = d => dn = home[d]
    BY <1>15
  <2>7. NamesOf(entry, d) = {home[d]}
    BY <2>1, <2>5, <2>6 DEF NamesOf
  <2> QED
    BY <2>1, <2>7
<1>18. /\ \A e \in Inos, n \in Names, d \in dirs : entry[e][n] = d => dparent[d] = e
       /\ \A d \in dirs \ {Root} : Root \in Upwards(dparent, d)
  BY <1>4, <1>5, <1>u, <1>15
<1>19. InitTree(dirs)
  BY <1>4, <1>5, <1>7, <1>8, <1>12, <1>14, <1>16, <1>17, <1>18 DEF InitTree
<1> QED
  BY <1>19

(* With no call under way the account is that of the entries.              *)
LEMMA QuietCounts ==
    ASSUME \A p \in Procs : task[p] = Idle, NEW d, NEW n, NEW i
    PROVE  /\ Counts(d, n, i) <=> entry[d][n] = i
           /\ HasSub(d, n) <=> entry[d][n] # None /\ IsDir(entry[d][n])
BY IdleType DEF Counts, HasSub, Pending, Leaving, PendingDir

LEMMA QuietNames ==
    ASSUME \A p \in Procs : task[p] = Idle, NEW i
    PROVE  CountedNames(i) = NamesOf(entry, i)
BY QuietCounts DEF CountedNames, NamesOf

LEMMA InvInit ==
    ASSUME Init, ~SyncErrors
    PROVE  Inv
<1>0. /\ imutex = [i \in Inos |-> None] /\ renameMutex = None
      /\ task = [p \in Procs |-> Idle] /\ \A p \in Procs : task[p] = Idle
      /\ Root \in Inos /\ None \notin Inos /\ LinkMax \in Nat
  BY ConstantsOK DEF Init
<1>1. PICK dirs : InitTree(dirs)
  BY InitIsTree
<1>2. /\ dirs \subseteq Inos /\ Root \in dirs /\ dirs \subseteq bitmap /\ bitmap \subseteq Inos
      /\ entry \in [Inos -> [Names -> bitmap \cup {None}]]
      /\ \A i \in Inos \ dirs : entry[i] = Empty
      /\ NamesOf(entry, Root) = {}
      /\ \A d \in dirs \ {Root} : \E dn \in Inos \X Names : NamesOf(entry, d) = {dn}
      /\ \A i \in Inos : LinksOf(entry, dirs, i) <= LinkMax
      /\ dotdot \in [Inos -> Inos \cup {None}] /\ dparent = dotdot
  BY <1>1 DEF InitTree
<1> DEFINE subs(i) == {n \in Names : entry[i][n] \in dirs}
<1>3. \A i : Cardinality(NamesOf(entry, i)) \in Nat /\ Cardinality(subs(i)) \in Nat
  <2>1. \A i : NamesOf(entry, i) \in SUBSET (Inos \X Names) /\ subs(i) \in SUBSET Names
    BY DEF NamesOf
  <2> QED
    BY <2>1, FiniteCounts
<1>4. \A i : LinksOf(entry, dirs, i) =
        Cardinality(NamesOf(entry, i)) + (IF i = Root THEN 1 ELSE 0)
          + (IF i \in dirs THEN 1 + Cardinality(subs(i)) ELSE 0)
  BY DEF LinksOf
<1> HIDE DEF subs
<1>5. \A i : LinksOf(entry, dirs, i) \in Nat
  BY <1>3, <1>4
<1>6. \A i \in Inos \ bitmap : node[i] = FreeNode
  BY <1>1 DEF InitTree
<1>7. \A i \in bitmap : /\ node[i].type = IF i \in dirs THEN "dir" ELSE "file"
                        /\ node[i].nlink = LinksOf(entry, dirs, i)
                        /\ ~node[i].dead
  BY <1>1, <1>2 DEF InitTree
<1>8. \A i \in Inos : (IsDir(i) <=> i \in dirs) /\ ~node[i].dead
  BY <1>2, <1>6, <1>7 DEF IsDir, FreeNode
<1>9. TreeTypes
  <2>1. FreeNode \in NodeRec
    BY DEF FreeNode, NodeRec
  <2>2. \A i \in Inos : [type |-> IF i \in dirs THEN "dir" ELSE "file",
                         nlink |-> LinksOf(entry, dirs, i), dead |-> FALSE] \in NodeRec
    <3> TAKE i \in Inos
    <3> DEFINE ty == IF i \in dirs THEN "dir" ELSE "file"
               li == LinksOf(entry, dirs, i)
    <3>1. ty \in {"free", "file", "dir"} /\ li \in Int
      BY <1>5
    <3> HIDE DEF ty, li
    <3>2. [type |-> ty, nlink |-> li, dead |-> FALSE] \in NodeRec
      BY <3>1 DEF NodeRec
    <3> QED
      BY <3>2 DEF ty, li
  <2>3. node \in [Inos -> NodeRec]
    BY <1>1, <2>1, <2>2 DEF InitTree
  <2>4. entry \in [Inos -> [Names -> Inos \cup {None}]]
    BY <1>2
  <2> QED
    BY <1>2, <2>3, <2>4 DEF TreeTypes
<1>10. CallTypes
  BY <1>0, IdleType DEF CallTypes
<1>11. LockInv /\ PlaceInv /\ RefInv
  <2> SUFFICES ASSUME NEW p \in Procs
               PROVE  LockOf(p) /\ PlaceOf(p) /\ RefOf(p)
    BY DEF LockInv, PlaceInv, RefInv
  <2>1. task[p] = Idle
    BY <1>0
  <2> QED
    BY <2>1, IdleType DEF LockOf, PlaceOf, RefOf, Inside, Found, InBody
<1>12. AccountInv
  <2> SUFFICES ASSUME NEW i \in bitmap
               PROVE  Account(i)
    BY DEF AccountInv
  <2>1. i \in Inos /\ CountedNames(i) = NamesOf(entry, i)
    BY <1>0, <1>2, QuietNames
  <2>2. node[i].nlink = Cardinality(NamesOf(entry, i)) + (IF i = Root THEN 1 ELSE 0)
                          + (IF i \in dirs THEN 1 + Cardinality(subs(i)) ELSE 0)
    BY <1>4, <1>7
  <2>3. CASE i \notin dirs
    <3>1. node[i].nlink = Cardinality(CountedNames(i))
      BY <1>2, <1>3, <2>1, <2>2, <2>3
    <3> QED
      BY <1>8, <2>1, <2>3, <3>1 DEF Account
  <2>4. CASE i \in dirs
    <3>1. CountedDirs(i) = subs(i)
      <4>1. \A n \in Names : entry[i][n] # None => entry[i][n] \in Inos
        BY <1>2, <2>1
      <4>3. \A n \in Names : HasSub(i, n) <=> entry[i][n] # None /\ IsDir(entry[i][n])
        BY <1>0, QuietCounts
      <4>4. None \notin dirs
        BY <1>0, <1>2
      <4>2. \A n \in Names : HasSub(i, n) <=> entry[i][n] \in dirs
        BY <1>8, <4>1, <4>3, <4>4
      <4> QED
        BY <4>2 DEF CountedDirs, subs
    <3>2. Cardinality(NamesOf(entry, i)) = IF i = Root THEN 0 ELSE 1
      <4>1. CASE i = Root
        BY <1>2, <4>1, FS_EmptySet
      <4>2. CASE i # Root
        <5>1. PICK dn \in Inos \X Names : NamesOf(entry, i) = {dn}
          BY <1>2, <2>4, <4>2
        <5> QED
          BY <4>2, <5>1, FS_Singleton
      <4> QED
        BY <4>1, <4>2
    <3>3. node[i].nlink = 2 + Cardinality(CountedDirs(i))
      BY <1>3, <2>2, <2>4, <3>1, <3>2
    <3>4. LiveDir(i)
      BY <1>2, <2>1, <2>4, <3>3 DEF LiveDir
    <3> QED
      BY <1>8, <2>1, <2>4, <3>4 DEF Account
  <2> QED
    BY <2>3, <2>4
<1>13. FreeInv
  BY <1>0, <1>2, <1>6, <1>8 DEF FreeInv, FreedUnreachable
<1>14. EmptyInv
  <2>1. \A i : ~Fresh(i)
    BY <1>0, IdleType DEF Fresh
  <2> QED
    BY <1>2, <1>8, <2>1 DEF EmptyInv, RemovedStaysEmpty
<1>15. MaxInv
  <2>1. LinkMax >= 2
    <3>1. LinksOf(entry, dirs, Root) = Cardinality(NamesOf(entry, Root)) + 2 + Cardinality(subs(Root))
      <4>1. /\ Cardinality(NamesOf(entry, Root)) \in Nat /\ Cardinality(subs(Root)) \in Nat
            /\ LinksOf(entry, dirs, Root) =
                 Cardinality(NamesOf(entry, Root)) + (IF Root = Root THEN 1 ELSE 0)
                   + (IF Root \in dirs THEN 1 + Cardinality(subs(Root)) ELSE 0)
        BY <1>3, <1>4
      <4> QED
        BY <1>2, <4>1
    <3>2. LinksOf(entry, dirs, Root) >= 2
      BY <1>3, <3>1
    <3> QED
      BY <1>0, <1>2, <1>5, <3>2
  <2>2. \A i \in Inos : node[i].nlink <= LinkMax
    BY <1>0, <1>2, <1>6, <1>7 DEF FreeNode
  <2> QED
    BY <2>1, <2>2 DEF MaxInv
<1> QED
  BY <1>9, <1>10, <1>11, <1>12, <1>13, <1>14, <1>15 DEF Inv, Base

-----------------------------------------------------------------------------
(* The theorems                                                            *)

\* The invariant holds in every state of a behaviour without write errors.
LEMMA Invariance ==
    ASSUME ~SyncErrors
    PROVE  Spec => []Inv
<1>1. Init => Inv
  BY InvInit
<1>2. Inv /\ [Next]_vars => Inv'
  BY InvNext
<1> QED
  BY <1>1, <1>2, PTL DEF Spec

LEMMA NlinkRange ==
    ASSUME Inv, NEW i \in Inos
    PROVE  node[i].nlink \in 0..LinkMax
<1>1. node[i].nlink \in Int /\ node[i].nlink <= LinkMax /\ LinkMax \in Int
  BY ConstantsOK DEF Inv, Base, TreeTypes, NodeRec, MaxInv
<1>2. node[i].nlink >= 0
  <2>0. Cardinality(CountedNames(i)) \in Nat /\ Cardinality(CountedDirs(i)) \in Nat
    BY FiniteCounts, CountedTypes
  <2>1. CASE i \notin bitmap
    BY <2>1 DEF Inv, FreeInv, FreeNode
  <2>2. CASE i \in bitmap
    <3>1. Account(i)
      BY <2>2 DEF Inv, AccountInv
    <3> QED
      BY <2>0, <3>1 DEF Account, LiveDir, GoneDir
  <2> QED
    BY <2>1, <2>2
<1> QED
  BY <1>1, <1>2

\* The bound on the calls, which no part of the account depends on.
OpsBound == ops \in 0..MaxOps

LEMMA OpsBounded ==
    Spec => []OpsBound
<1>1. Init => OpsBound
  BY ConstantsOK DEF Init, OpsBound
<1>2. OpsBound /\ [Next]_vars => OpsBound'
  <2> SUFFICES ASSUME OpsBound, [Next]_vars
               PROVE  OpsBound'
    OBVIOUS
  <2>1. CASE \E p \in Procs : Start(p)
    <3>1. ops < MaxOps /\ ops' = ops + 1
      BY <2>1 DEF Start
    <3> QED
      BY <3>1, ConstantsOK DEF OpsBound
  <2>2. CASE ops' = ops
    BY <2>2 DEF OpsBound
  <2>3. \A p \in Procs : Step(p) => Start(p) \/ ops' = ops
    BY ZenonT(60) DEF Step, LockParent, RankParents, LockFirst, LockSecond, Refuse, Admit, LockTarget,
       ext2_create, ext2_mkdir, MkdirInode, ext2_make_empty, ext2_link, ext2_add_link,
       ext2_delete_entry, UnlinkDec, RenameAdd, RenameOver, RenameDec, RenameDelOld
  <2>4. (\E i \in Inos : ext2_evict_inode(i)) \/ Bounded \/ UNCHANGED vars => ops' = ops
    BY DEF ext2_evict_inode, Bounded, vars
  <2> QED
    BY <2>1, <2>2, <2>3, <2>4 DEF Next
<1> QED
  BY <1>1, <1>2, PTL DEF Spec

(* Every behaviour without device errors has the declared types.  The part *)
(* that is not plain typing: no error path of ext2_mkdir, ext2_link or     *)
(* ext2_add_nondir takes a link count below zero, and none of the steps    *)
(* between the test of EXT2_LINK_MAX and the increment lets it pass that.  *)
THEOREM TypeCorrect ==
    ASSUME ~SyncErrors
    PROVE  Spec => []TypeOK
<1>1. Inv /\ OpsBound => TypeOK
  <2> SUFFICES ASSUME Inv, OpsBound
               PROVE  TypeOK
    OBVIOUS
  <2>1. node \in [Inos -> [type : {"free", "file", "dir"}, nlink : 0..LinkMax, dead : BOOLEAN]]
    <3>1. node \in [Inos -> NodeRec] /\ \A i \in Inos : node[i].nlink \in 0..LinkMax
      BY NlinkRange DEF Inv, Base, TreeTypes
    <3>2. \A i \in Inos :
            node[i] \in [type : {"free", "file", "dir"}, nlink : 0..LinkMax, dead : BOOLEAN]
      <4> TAKE i \in Inos
      <4>1. node[i] \in NodeRec /\ node[i].nlink \in 0..LinkMax
        BY <3>1
      <4> QED
        BY <4>1 DEF NodeRec
    <3> QED
      BY <3>1, <3>2
  <2> QED
    BY <2>1 DEF Inv, Base, TreeTypes, CallTypes, TaskRec, OpsBound, TypeOK
<1> QED
  BY <1>1, Invariance, OpsBounded, PTL

(* An inode that ext2_free_inode has freed has no entry in any directory.  *)
THEOREM FreedIsUnreachable ==
    ASSUME ~SyncErrors
    PROVE  Spec => []FreedUnreachable
<1>1. Inv => FreedUnreachable
  BY DEF Inv, FreeInv
<1> QED
  BY <1>1, Invariance, PTL

(* Between the system calls each link count is the number of names, plus,  *)
(* for a directory, its "." and the ".." of its subdirectories.            *)
THEOREM LinkCountsAreExact ==
    ASSUME ~SyncErrors
    PROVE  Spec => []LinkCountsExact
<1>1. Inv => LinkCountsExact
  <2> DEFINE dirs == {d \in bitmap : IsDir(d) /\ node[d].nlink > 0}
             subs(i) == {n \in Names : entry[i][n] \in dirs}
  <2> SUFFICES ASSUME Inv, Quiet, NEW i \in bitmap
               PROVE  node[i].nlink = LinksOf(entry, dirs, i)
    BY DEF LinkCountsExact
  <2>0. i \in Inos /\ Account(i) /\ IsDir(Root) /\ bitmap \subseteq Inos
        /\ (\A p \in Procs : task[p] = Idle)
    BY DEF Inv, Base, TreeTypes, AccountInv, FreeInv, Quiet
  <2>1. LinksOf(entry, dirs, i) =
          Cardinality(NamesOf(entry, i)) + (IF i = Root THEN 1 ELSE 0)
            + (IF i \in dirs THEN 1 + Cardinality(subs(i)) ELSE 0)
    BY DEF LinksOf
  <2>2. CountedNames(i) = NamesOf(entry, i)
    BY <2>0, QuietNames
  <2>3. Cardinality(CountedNames(i)) \in Nat /\ Cardinality(CountedDirs(i)) \in Nat
    BY FiniteCounts, CountedTypes
  <2>4. CountedDirs(i) = subs(i)
    <3>1. \A n \in Names : HasSub(i, n) <=> entry[i][n] # None /\ IsDir(entry[i][n])
      BY <2>0, QuietCounts
    <3>2. ASSUME NEW n \in Names, entry[i][n] # None, IsDir(entry[i][n])
          PROVE  entry[i][n] \in dirs
      <4>1. PICK c : c = entry[i][n]
        OBVIOUS
      <4>2. c \in bitmap /\ IsDir(c) /\ Counts(i, n, c)
        BY <2>0, <3>2, <4>1, QuietCounts DEF Inv, FreeInv, FreedUnreachable
      <4>3. LiveDir(c)
        BY <2>0, <4>2, OneName
      <4>4. node[c].nlink > 0
        BY <4>3, FiniteCounts, CountedTypes DEF LiveDir
      <4> QED
        BY <4>1, <4>2, <4>4
    <3>3. None \notin dirs
      BY <2>0, ConstantsOK
    <3>4. \A n \in Names : entry[i][n] \in dirs => entry[i][n] # None /\ IsDir(entry[i][n])
      BY <3>3
    <3> QED
      BY <3>1, <3>2, <3>4 DEF CountedDirs
  <2> HIDE DEF subs
  <2>5. CASE ~IsDir(i)
    <3>1. i # Root /\ i \notin dirs /\ node[i].nlink = Cardinality(NamesOf(entry, i))
      BY <2>0, <2>2, <2>5 DEF Account
    <3> QED
      BY <2>1, <2>2, <2>3, <3>1
  <2>6. CASE IsDir(i) /\ GoneDir(i)
    <3>1. i # Root /\ i \notin dirs /\ node[i].nlink = 0 /\ Cardinality(NamesOf(entry, i)) = 0
      BY <2>2, <2>6, FS_EmptySet DEF GoneDir
    <3> QED
      BY <2>1, <3>1
  <2>7. CASE IsDir(i) /\ LiveDir(i)
    <3>1. node[i].nlink = 2 + Cardinality(subs(i)) /\ i \in dirs
      BY <2>3, <2>4, <2>7 DEF LiveDir
    <3>2. Cardinality(NamesOf(entry, i)) = IF i = Root THEN 0 ELSE 1
      <4>1. CASE i = Root
        BY <2>2, <2>7, <4>1, FS_EmptySet DEF LiveDir
      <4>2. CASE i # Root
        <5>1. PICK dn \in Inos \X Names : NamesOf(entry, i) = {dn}
          BY <2>2, <2>7, <4>2 DEF LiveDir
        <5> QED
          BY <4>2, <5>1, FS_Singleton
      <4> QED
        BY <4>1, <4>2
    <3> HIDE DEF dirs
    <3> QED
      BY <2>1, <2>3, <2>4, <3>1, <3>2
  <2> QED
    BY <2>0, <2>5, <2>6, <2>7 DEF Account
<1> QED
  BY <1>1, Invariance, PTL

(* Nothing is ever created in a directory that rmdir or rename has marked  *)
(* S_DEAD, although tasks may have walked to it before.                    *)
THEOREM RemovedIsEmpty ==
    ASSUME ~SyncErrors
    PROVE  Spec => []RemovedStaysEmpty
<1>1. Inv => RemovedStaysEmpty
  BY DEF Inv, EmptyInv
<1> QED
  BY <1>1, Invariance, PTL

(* A call adds a link only to an inode that has one.                       *)
LEMMA NeverRevived ==
    ASSUME Inv, [Next]_vars, NEW i \in bitmap \cap bitmap', node[i].nlink = 0
    PROVE  node'[i].nlink <= 0
<1>0. TreeTypes /\ node \in [Inos -> NodeRec] /\ i \in Inos /\ bitmap \subseteq Inos
  BY DEF Inv, Base, TreeTypes
<1>1. node' = node => node'[i].nlink <= 0
  OBVIOUS
<1>2. \A j \in Inos : (node[j].nlink > 0 /\ AddNlink(j)) \/ DropNlink(j) => node'[i].nlink <= 0
  <2> SUFFICES ASSUME NEW j \in Inos, (node[j].nlink > 0 /\ AddNlink(j)) \/ DropNlink(j)
               PROVE  node'[i].nlink <= 0
    OBVIOUS
  <2>1. CASE i = j
    <3>1. DropNlink(j)
      BY <2>1
    <3> QED
      BY <1>0, <2>1, <3>1, NlinkStep DEF Relinked
  <2>2. CASE i # j
    BY <1>0, <2>2, NlinkStep
  <2> QED
    BY <2>1, <2>2
<1>3. ASSUME NEW p \in Procs, Step(p)
      PROVE  node'[i].nlink <= 0
  <2> DEFINE t == task[p]
  <2>0. t.pc \in InBody => /\ t.dir \in Inos /\ node[t.dir].nlink > 0
                           /\ t.ino # None => t.ino \in Inos
                           /\ t.tgt # None => t.tgt \in Inos
    BY BodyFacts
  <2>1. CASE \/ Start(p) \/ LockParent(p) \/ RankParents(p) \/ LockFirst(p) \/ LockSecond(p)
             \/ Refuse(p) \/ Admit(p) \/ LockTarget(p) \/ ext2_delete_entry(p) \/ RenameOver(p)
    <3>1. node' = node
      BY <2>1 DEF Start, LockParent, RankParents, LockFirst, LockSecond, Refuse, Admit,
         LockTarget, ext2_delete_entry, RenameOver, Tree
    <3> QED
      BY <1>1, <3>1
  <2>2. CASE ext2_create(p)
    <3>1. node' = node \/ \E k \in Inos \ bitmap : \E r : node' = [node EXCEPT ![k] = r]
      BY <2>2 DEF ext2_create, ext2_new_inode
    <3> QED
      BY <1>0, <3>1
  <2>3. CASE ext2_mkdir(p)
    <3>1. t.pc \in InBody /\ (AddNlink(t.dir) \/ node' = node)
      BY <2>3 DEF ext2_mkdir, InBody
    <3> QED
      BY <1>1, <1>2, <2>0, <3>1
  <2>4. CASE MkdirInode(p)
    <3>1. t.pc \in InBody
      BY <2>4 DEF MkdirInode, InBody
    <3>2. CASE \E k \in Inos : ext2_new_inode(k, "dir", 2)
      BY <1>0, <3>2 DEF ext2_new_inode
    <3>3. CASE \E k \in Inos \ bitmap :
                 node' = [node EXCEPT ![k] = NewNode("dir", 0), ![t.dir].nlink = @ - 1]
      <4>1. PICK k \in Inos \ bitmap :
                 node' = [node EXCEPT ![k] = NewNode("dir", 0), ![t.dir].nlink = @ - 1]
        BY <3>3
      <4>2. t.dir \in bitmap /\ t.dir \in Inos /\ NewNode("dir", 0) \in NodeRec
        BY <3>1, BodyFacts DEF NewNode, NodeRec
      <4>3. /\ Relinked(t.dir, node[t.dir].nlink - 1)
            /\ \A j \in Inos \ {k, t.dir} : node'[j] = node[j]
        BY <1>0, <4>1, <4>2, TwoNodes
      <4> QED
        BY <1>0, <2>0, <3>1, <4>1, <4>3
    <3>4. CASE DropNlink(t.dir)
      BY <1>2, <2>0, <3>1, <3>4
    <3> QED
      BY <2>4, <3>2, <3>3, <3>4 DEF MkdirInode
  <2>5. ASSUME MkdirUndo(p), t.pc \in {"makeEmpty", "addLink"}, t.op = "mkdir"
        PROVE  node'[i].nlink <= 0
    <3>1. PICK k, d, n : k = t.ino /\ d = t.dir /\ n = t.name
      OBVIOUS
    <3>2. /\ k \in Inos /\ d \in Inos /\ k # d /\ node[k].nlink = 2
          /\ node[d].nlink > 0 /\ node[k] \in NodeRec
      <4>1. k \in Inos /\ d \in Inos /\ k # d /\ node[k].nlink = 2
        BY <2>5, <3>1, FreshDir
      <4> QED
        BY <1>0, <2>0, <2>5, <3>1, <4>1 DEF InBody
    <3> DEFINE r == [node[k] EXCEPT !.nlink = @ - 2]
    <3>3. r \in NodeRec
      BY <3>2 DEF NodeRec
    <3>4. node' = [node EXCEPT ![k] = r, ![d].nlink = @ - 1]
      BY <2>5, <3>1 DEF MkdirUndo
    <3> HIDE DEF r
    <3>5. \A j \in Inos \ {k, d} : node'[j] = node[j]
      BY <1>0, <3>2, <3>3, <3>4, TwoNodes
    <3> QED
      BY <1>0, <3>2, <3>5
  <2>6. CASE ext2_make_empty(p)
    <3>1. t.pc = "makeEmpty" /\ t.op = "mkdir" /\ (MkdirUndo(p) \/ node' = node)
      BY <2>6 DEF ext2_make_empty, Inv, PlaceInv, PlaceOf
    <3> QED
      BY <1>1, <2>5, <3>1
  <2>7. CASE ext2_link(p)
    <3>1. t.ino \in Inos
      <4>1. t.pc \in InBody /\ t.ino # None
        BY <2>7 DEF ext2_link, InBody, Inv, PlaceInv, PlaceOf
      <4> QED
        BY <2>0, <4>1
    <3>2. node' = node \/ (node[t.ino].nlink > 0 /\ AddNlink(t.ino))
      BY <2>7 DEF ext2_link
    <3> QED
      BY <1>1, <1>2, <3>1, <3>2
  <2>8. CASE ext2_add_link(p)
    <3>1. t.pc = "addLink" /\ t.ino \in Inos
      <4>1. t.pc = "addLink" /\ t.pc \in InBody /\ t.ino # None
        BY <2>8 DEF ext2_add_link, InBody, Inv, PlaceInv, PlaceOf
      <4> QED
        BY <2>0, <4>1
    <3>2. node' = node \/ (t.op = "mkdir" /\ MkdirUndo(p)) \/ DropNlink(t.ino)
      BY <2>8 DEF ext2_add_link
    <3> QED
      BY <1>1, <1>2, <2>5, <3>1, <3>2
  <2>9. CASE UnlinkDec(p)
    <3>1. /\ t.pc \in InBody /\ t.dir \in Inos /\ t.tgt \in Inos
          /\ node[t.dir].nlink > 0
      <4>1. t.pc \in InBody /\ t.tgt # None
        BY <2>9 DEF UnlinkDec, InBody, Inv, PlaceInv, PlaceOf
      <4> QED
        BY <2>0, <4>1
    <3>2. CASE DropNlink(t.tgt)
      BY <1>2, <3>1, <3>2
    <3>3. CASE node' = [node EXCEPT ![t.tgt].nlink = @ - 2, ![t.tgt].dead = TRUE,
                                    ![t.dir].nlink = @ - 1]
      BY <1>0, <3>1, <3>3 DEF NodeRec
    <3> QED
      BY <2>9, <3>2, <3>3 DEF UnlinkDec
  <2>10. CASE RenameAdd(p)
    <3>1. t.pc \in InBody /\ (AddNlink(t.dir) \/ node' = node)
      BY <2>10 DEF RenameAdd, InBody
    <3> QED
      BY <1>1, <1>2, <2>0, <3>1
  <2>11. CASE RenameDec(p)
    <3>1. PICK x \in {1, 2} : node' = [node EXCEPT ![t.tgt].nlink = @ - x]
      BY <2>11 DEF RenameDec
    <3> QED
      BY <1>0, <3>1 DEF NodeRec
  <2>12. CASE RenameDelOld(p)
    <3>1. CASE node' = node
      BY <1>1, <3>1
    <3>2. CASE node' = [k \in Inos |->
                      [node[k] EXCEPT !.nlink = IF k = t.from THEN @ - 1 ELSE @,
                                      !.dead = @ \/ k = t.tgt]]
      <4>1. node'[i] = [node[i] EXCEPT !.nlink = IF i = t.from THEN @ - 1 ELSE @,
                                       !.dead = @ \/ i = t.tgt]
        BY <1>0, <3>2
      <4> DEFINE b == node[i].dead \/ i = t.tgt
                 a == [node[i] EXCEPT !.nlink = IF i = t.from THEN @ - 1 ELSE @]
      <4>2. a \in NodeRec /\ a.nlink <= 0
        BY <1>0 DEF NodeRec
      <4>3. node'[i] = [a EXCEPT !.dead = b]
        BY <4>1
      <4> HIDE DEF a, b
      <4> QED
        BY <4>2, <4>3 DEF NodeRec
    <3> QED
      BY <2>12, <3>1, <3>2 DEF RenameDelOld
  <2> QED
    BY <1>3, <2>1, <2>2, <2>3, <2>4, <2>6, <2>7, <2>8, <2>9, <2>10, <2>11, <2>12 DEF Step
<1>4. ASSUME NEW k \in Inos, ext2_evict_inode(k)
      PROVE  node'[i].nlink <= 0
  <2>1. i # k /\ node' = [node EXCEPT ![k] = FreeNode]
    BY <1>4 DEF ext2_evict_inode, ext2_free_inode
  <2> QED
    BY <1>0, <2>1
<1>5. Bounded \/ UNCHANGED vars => node' = node
  BY DEF Bounded, vars
<1> QED
  BY <1>1, <1>3, <1>4, <1>5 DEF Next

(* The counts are within the width of i_nlink in every reachable state,    *)
(* the next one included.                                                  *)
Ranged ==
    \A i \in Inos : node[i].nlink \in 0..LinkMax

LEMMA Ranges ==
    ASSUME ~SyncErrors
    PROVE  Spec => []Ranged
<1>1. Inv => Ranged
  BY NlinkRange DEF Ranged
<1> QED
  BY <1>1, Invariance, PTL

(* No inode that is still allocated gets a link again once its count has   *)
(* reached zero: the test of i_nlink in vfs_link is enough, because every  *)
(* other call that adds a link has locked a directory that still has some. *)
THEOREM UnlinkedIsFinal ==
    ASSUME ~SyncErrors
    PROVE  Spec => UnlinkedStaysUnlinked
<1>1. Inv /\ Ranged' /\ [Next]_vars =>
        [\A i \in bitmap \cap bitmap' : node[i].nlink = 0 => node'[i].nlink = 0]_vars
  <2> SUFFICES ASSUME Inv, Ranged', [Next]_vars, NEW i \in bitmap \cap bitmap', node[i].nlink = 0
               PROVE  node'[i].nlink = 0
    OBVIOUS
  <2>1. i \in Inos
    BY DEF Inv, Base, TreeTypes
  <2>2. node'[i].nlink <= 0
    BY <2>1, NeverRevived
  <2>3. node'[i].nlink \in 0..LinkMax
    BY <2>1 DEF Ranged
  <2> QED
    BY <2>2, <2>3
<1> QED
  BY <1>1, Invariance, Ranges, PTL DEF Spec, UnlinkedStaysUnlinked

-----------------------------------------------------------------------------
(* The way up: lemmas about any map from directories to parents            *)

Parents == [Inos -> Inos \cup {None}]

LEMMA UpSelf ==
    ASSUME NEW P, NEW d \in Inos
    PROVE  d \in Upwards(P, d)
BY DEF Upwards

LEMMA UpLeast ==
    ASSUME NEW P, NEW S \in SUBSET Inos, NEW d \in S, Closed(P, S)
    PROVE  Upwards(P, d) \subseteq S
BY DEF Upwards

LEMMA UpClosed ==
    ASSUME NEW P \in Parents, NEW d \in Inos
    PROVE  Closed(P, Upwards(P, d)) /\ Upwards(P, d) \in SUBSET Inos
<1>1. Upwards(P, d) \in SUBSET Inos
  BY DEF Upwards
<1>2. ASSUME NEW c \in Upwards(P, d) \ {Root}, P[c] # None
      PROVE  P[c] \in Upwards(P, d)
  <2>1. P[c] \in Inos
    BY <1>1, <1>2 DEF Parents
  <2>2. ASSUME NEW S \in SUBSET Inos, d \in S, Closed(P, S)
        PROVE  P[c] \in S
    <3>1. c \in S
      BY <1>2, <2>2 DEF Upwards
    <3> QED
      BY <1>2, <2>1, <2>2, <3>1 DEF Closed
  <2> QED
    BY <2>1, <2>2 DEF Upwards
<1> QED
  BY <1>1, <1>2 DEF Closed

(* The way up from d is d and the way up from its parent.                  *)
LEMMA UpUnfold ==
    ASSUME NEW P \in Parents, NEW d \in Inos, NEW a \in Upwards(P, d), a # d
    PROVE  d # Root /\ P[d] \in Inos /\ a \in Upwards(P, P[d])
<1>1. ASSUME NEW S \in SUBSET Inos, d \in S, Closed(P, S)
      PROVE  a \in S
  BY <1>1 DEF Upwards
<1>2. d # Root /\ P[d] \in Inos
  <2>1. SUFFICES ASSUME d = Root \/ P[d] = None
                 PROVE  FALSE
    BY DEF Parents
  <2>2. Closed(P, {d})
    BY <2>1 DEF Closed
  <2> QED
    BY <1>1, <2>2
<1> DEFINE S == {d} \cup Upwards(P, P[d])
<1>3. P[d] \in Upwards(P, P[d]) /\ Closed(P, Upwards(P, P[d])) /\ S \in SUBSET Inos
  BY <1>2, UpSelf, UpClosed
<1>4. Closed(P, S)
  BY <1>3 DEF Closed
<1> QED
  BY <1>1, <1>2, <1>3, <1>4

(* Two maps that agree on a closed set lead up the same way from there.    *)
LEMMA UpAgree ==
    ASSUME NEW P \in Parents, NEW Q \in Parents, NEW S \in SUBSET Inos, Closed(P, S),
           \A c \in S : Q[c] = P[c], NEW d \in S
    PROVE  Upwards(Q, d) = Upwards(P, d)
<1>0. d \in Inos
  OBVIOUS
<1>1. Upwards(P, d) \subseteq S /\ d \in Upwards(P, d) /\ d \in Upwards(Q, d)
  BY <1>0, UpLeast, UpSelf
<1>2. Closed(P, Upwards(P, d)) /\ Upwards(P, d) \in SUBSET Inos
  BY <1>0, UpClosed
<1>3. Closed(Q, Upwards(Q, d)) /\ Upwards(Q, d) \in SUBSET Inos
  BY <1>0, UpClosed
<1>4. Closed(Q, Upwards(P, d))
  BY <1>1, <1>2 DEF Closed
<1>5. Upwards(Q, d) \subseteq Upwards(P, d)
  BY <1>1, <1>2, <1>4, UpLeast
<1>6. Closed(P, Upwards(Q, d))
  BY <1>1, <1>3, <1>5 DEF Closed
<1>7. Upwards(P, d) \subseteq Upwards(Q, d)
  BY <1>1, <1>3, <1>6, UpLeast
<1> QED
  BY <1>5, <1>7

(* A directory that is its own ancestor does not lead to the root.         *)
LEMMA NoCycle ==
    ASSUME NEW P \in Parents, NEW x \in Inos \ {Root}, P[x] \in Inos, x \in Upwards(P, P[x])
    PROVE  Root \notin Upwards(P, x)
<1> DEFINE S == {y \in Upwards(P, x) : x \in Upwards(P, y)}
<1>1. Closed(P, Upwards(P, x)) /\ Upwards(P, x) \in SUBSET Inos /\ x \in Upwards(P, x)
  BY UpClosed, UpSelf
<1>2. S \in SUBSET Inos /\ x \in S
  BY <1>1
<1>3. Root \notin S
  <2>1. Upwards(P, Root) \subseteq {Root}
    BY ConstantsOK, UpLeast, ZenonT(60) DEF Closed
  <2> QED
    BY <2>1
<1>4. Closed(P, S)
  <2> SUFFICES ASSUME NEW y \in S \ {Root}, P[y] # None
               PROVE  P[y] \in S
    BY DEF Closed
  <2>1. P[y] \in Upwards(P, x) /\ y \in Inos
    BY <1>1 DEF Closed
  <2>2. CASE y = x
    BY <2>1, <2>2
  <2>3. CASE y # x
    BY <2>1, <2>3, UpUnfold
  <2> QED
    BY <2>2, <2>3
<1>5. Upwards(P, x) \subseteq S
  <2> HIDE DEF S
  <2> QED
    BY <1>2, <1>4, UpLeast
<1> QED
  BY <1>3, <1>5

(* The way up does not fork.                                               *)
LEMMA UpLinear ==
    ASSUME NEW P \in Parents, NEW d \in Inos, NEW b \in Upwards(P, d), NEW c \in Upwards(P, d)
    PROVE  b \in Upwards(P, c) \/ c \in Upwards(P, b)
<1> DEFINE S == {y \in Upwards(P, d) : b \in Upwards(P, y) \/ y \in Upwards(P, b)}
<1>1. Closed(P, Upwards(P, d)) /\ Upwards(P, d) \in SUBSET Inos /\ d \in Upwards(P, d)
  BY UpClosed, UpSelf
<1>2. b \in Inos /\ Closed(P, Upwards(P, b)) /\ b \in Upwards(P, b)
  BY <1>1, UpClosed, UpSelf
<1>3. S \in SUBSET Inos /\ d \in S
  BY <1>1
<1>4. Closed(P, S)
  <2> SUFFICES ASSUME NEW y \in S \ {Root}, P[y] # None
               PROVE  P[y] \in S
    BY DEF Closed
  <2>1. P[y] \in Upwards(P, d) /\ y \in Inos
    BY <1>1 DEF Closed
  <2>2. CASE y \in Upwards(P, b)
    BY <1>2, <2>1, <2>2 DEF Closed
  <2>3. CASE b \in Upwards(P, y) /\ b # y
    BY <2>1, <2>3, UpUnfold
  <2> QED
    BY <1>2, <2>2, <2>3
<1>5. Upwards(P, d) \subseteq S
  <2> HIDE DEF S
  <2> QED
    BY <1>3, <1>4, UpLeast
<1> QED
  BY <1>5

(* So d_ancestor has no choice: one child of a is on the way up from d.    *)
LEMMA OneChild ==
    ASSUME NEW P \in Parents, NEW d \in Inos, NEW a \in Inos,
           NEW b \in Upwards(P, d) \ {Root}, NEW c \in Upwards(P, d) \ {Root},
           P[b] = a, P[c] = a, Root \in Upwards(P, b), Root \in Upwards(P, c)
    PROVE  b = c
<1>0. b \in Inos \ {Root} /\ c \in Inos \ {Root}
  BY UpClosed
<1>1. b \in Upwards(P, c) \/ c \in Upwards(P, b)
  BY UpLinear
<1>2. CASE b \in Upwards(P, c) /\ b # c
  BY <1>0, <1>2, UpUnfold, NoCycle
<1>3. CASE c \in Upwards(P, b) /\ b # c
  BY <1>0, <1>3, UpUnfold, NoCycle
<1> QED
  BY <1>1, <1>2, <1>3

(* Moving i below d, where i is not on the way up from d, keeps every way  *)
(* to the root.                                                            *)
LEMMA MoveKeepsWay ==
    ASSUME NEW P \in Parents, NEW Q \in Parents, NEW S \in SUBSET Inos, Closed(P, S),
           NEW i \in S \ {Root}, NEW d \in S, i \notin Upwards(P, d),
           \A c \in S \ {i} : Q[c] = P[c], Q[i] = d,
           Root \in Upwards(P, d), NEW x \in S, Root \in Upwards(P, x)
    PROVE  Root \in Upwards(Q, x)
<1>0. d \in Inos /\ x \in Inos
  OBVIOUS
<1>1. Upwards(P, d) \subseteq S /\ d \in Upwards(P, d)
  BY <1>0, UpLeast, UpSelf
<1>2. Closed(P, Upwards(P, d)) /\ Upwards(P, d) \in SUBSET Inos
  BY <1>0, UpClosed
<1>3. \A c \in Upwards(P, d) : Q[c] = P[c]
  BY <1>1
<1>4. Upwards(Q, d) = Upwards(P, d)
  BY <1>1, <1>2, <1>3, UpAgree
<1>5. Closed(Q, Upwards(Q, x)) /\ Upwards(Q, x) \in SUBSET Inos /\ x \in Upwards(Q, x)
  BY <1>0, UpClosed, UpSelf
<1>6. CASE i \in Upwards(Q, x)
  <2>1. d \in Upwards(Q, x)
    BY <1>0, <1>5, <1>6, ConstantsOK DEF Closed
  <2>2. Upwards(Q, d) \subseteq Upwards(Q, x)
    BY <1>5, <2>1, UpLeast
  <2> QED
    BY <1>4, <2>2
<1>7. CASE i \notin Upwards(Q, x)
  <2> DEFINE T == Upwards(Q, x) \cap S
  <2>1. T \in SUBSET Inos /\ x \in T
    BY <1>5
  <2>2. Closed(P, T)
    BY <1>5, <1>7 DEF Closed
  <2>3. Upwards(P, x) \subseteq T
    <3> HIDE DEF T
    <3> QED
      BY <2>1, <2>2, UpLeast
  <2> QED
    BY <2>3
<1> QED
  BY <1>6, <1>7

-----------------------------------------------------------------------------
(* The tree of the directories                                             *)

\* A directory that has its name and its links.
Settled(d) == d \in bitmap /\ IsDir(d) /\ node[d].nlink > 0 /\ ~Fresh(d)

\* A directory is named by its parent, and by the directory a rename is just
\* moving it to.
HomeInv ==
    \A e \in Inos, n \in Names, d \in Inos :
      entry[e][n] = d /\ IsDir(d) =>
        \/ dparent[d] = e
        \/ \E p \in Procs : Leaving(p) /\ task[p].dir = e /\ task[p].name = n

DotInv == \A d \in Inos \ {Root} : Settled(d) => dotdot[d] = dparent[d]

ReachInv == \A d \in Inos : Settled(d) => Root \in Upwards(dparent, d)

\* lock_rename has found the child of the old parent that is on the way up
\* from the new one, if any.
TrapOf(p) ==
    TwoDirs(p) /\ Settled(task[p].dir) /\ Settled(task[p].from) =>
      \A c \in Upwards(dparent, task[p].dir) \ {Root} :
        dparent[c] = task[p].from => c = task[p].trap

\* What a call knows of the tree: a rename between two directories has
\* s_vfs_rename_mutex, and moves no directory below itself.
TreeOf(p) ==
    LET t == task[p] IN
    /\ TwoDirs(p) /\ t.pc \notin {"idle", "lock"} => renameMutex = p
    /\ t.pc \in {"dirFirst", "fromFirst", "second", "lookup"} => TrapOf(p)
    /\ TwoDirs(p) /\ t.pc \in Found /\ IsDir(t.ino) => t.ino \notin Upwards(dparent, t.dir)
    /\ t.pc \in {"dec", "delOld"} /\ t.tgt # None /\ IsDir(t.tgt) =>
         /\ dparent[t.tgt] = t.dir
         /\ t.pc = "delOld" => node[t.tgt].nlink <= 0
    /\ t.op = "mkdir" /\ t.pc = "addLink" => dotdot[t.ino] = t.dir

TreeInv == HomeInv /\ DotInv /\ ReachInv /\ \A p \in Procs : TreeOf(p)

(* A directory with a name is settled, and so is the one that names it.    *)
LEMMA NamedSettled ==
    ASSUME Inv, NEW e \in Inos, NEW n \in Names, NEW d \in Inos, entry[e][n] = d, IsDir(d)
    PROVE  Settled(d) /\ Settled(e) /\ d # Root
<1>0. d # None /\ d \in bitmap
  BY ConstantsOK DEF Inv, FreeInv, FreedUnreachable
<1>1. PICK g \in Inos, m \in Names : entry[g][m] = d /\ Counts(g, m, d)
  BY NamedCounts
<1>2. LiveDir(d) /\ d # Root /\ CountedNames(d) = {<<g, m>>}
  BY <1>0, <1>1, OneName
<1>3. node[d].nlink > 0
  BY <1>2, FiniteCounts, CountedTypes DEF LiveDir
<1>4. ~Fresh(d)
  <2> SUFFICES ASSUME NEW q \in Procs, task[q].op = "mkdir",
                      task[q].pc \in {"makeEmpty", "addLink"}, task[q].ino = d
               PROVE  FALSE
    BY DEF Fresh
  <2>1. PICK a, b : a = task[q].dir /\ b = task[q].name
    OBVIOUS
  <2>2. CountedNames(d) = {<<a, b>>} /\ entry[a][b] = None
    BY <2>1, FreshDir
  <2>3. <<a, b>> = <<g, m>>
    BY <1>2, <2>2
  <2>4. a = g /\ b = m
    BY <2>3
  <2> QED
    BY <1>0, <1>1, <2>2, <2>4
<1>5. Settled(e)
  <2>1. entry[e] # Empty
    BY <1>0 DEF Empty
  <2>2. e \in bitmap
    BY <2>1, FreeFacts
  <2>3. IsDir(e) /\ ~Fresh(e)
    BY <2>1 DEF Inv, EmptyInv
  <2>4. LiveDir(e)
    BY <2>1, <2>2, <2>3 DEF Inv, AccountInv, Account, GoneDir
  <2>5. node[e].nlink > 0
    BY <2>4, FiniteCounts, CountedTypes DEF LiveDir
  <2> QED
    BY <2>2, <2>3, <2>5 DEF Settled
<1> QED
  BY <1>0, <1>2, <1>3, <1>4, <1>5 DEF Settled

(* What a call finds in a directory it has locked is at home there.        *)
LEMMA LockedHome ==
    ASSUME Inv, TreeInv, NEW p \in Procs, NEW e \in Inos, imutex[e] = p, NEW n \in Names,
           NEW d \in Inos, entry[e][n] = d, IsDir(d),
           ~(Leaving(p) /\ task[p].dir = e /\ task[p].name = n)
    PROVE  dparent[d] = e
<1>1. dparent[d] = e \/ \E q \in Procs : Leaving(q) /\ task[q].dir = e /\ task[q].name = n
  BY DEF TreeInv, HomeInv
<1>2. ASSUME NEW q \in Procs, Leaving(q), task[q].dir = e, task[q].name = n
      PROVE  FALSE
  <2>1. imutex[e] = q
    BY <1>2 DEF Inv, Base, LockInv, LockOf, Leaving, Inside, Found, InBody
  <2> QED
    BY <1>2, <2>1
<1> QED
  BY <1>1, <1>2

\* The old name of a rename is in the parent of what it moves.
LEMMA SourceHome ==
    ASSUME Inv, TreeInv, NEW p \in Procs, task[p].op = "rename", task[p].pc \in Found,
           NEW i, i = task[p].ino, NEW f, f = task[p].from, IsDir(i)
    PROVE  i \in Inos /\ f \in Inos /\ Settled(i) /\ i # Root /\ dparent[i] = f
<1>1. PICK m : m = task[p].fname
  OBVIOUS
<1>2. /\ i # None /\ i \in Inos /\ entry[f][m] = i /\ m \in Names
      /\ f \in Inos /\ imutex[f] = p
      /\ task[p].pc \in {"dec", "delOld"} => (task[p].dir = f => task[p].name # m)
  <2>1. PlaceOf(p) /\ LockOf(p) /\ task[p] \in TaskRec
    BY DEF Inv, Base, CallTypes, PlaceInv, LockInv
  <2>2. task[p].pc # "idle" /\ task[p].pc \in Inside
    BY DEF Found, InBody, Inside
  <2>3. i # None /\ entry[f][m] = i /\ m \in Names /\ (task[p].dir = f => task[p].name # m)
    BY <1>1, <2>1 DEF PlaceOf
  <2>4. f \in Inos /\ imutex[f] = p
    BY <2>1, <2>2 DEF LockOf
  <2>5. i \in Inos
    BY <2>1, <2>3 DEF TaskRec
  <2> QED
    BY <2>3, <2>4, <2>5
<1>3. Settled(i) /\ i # Root
  BY <1>2, NamedSettled
<1>4. ~(Leaving(p) /\ task[p].dir = f /\ task[p].name = m)
  BY <1>2 DEF Leaving
<1>5. dparent[i] = f
  BY <1>2, <1>4, LockedHome
<1> QED
  BY <1>2, <1>3, <1>5

(* The directories that are settled are closed under the way up.           *)
LEMMA SettledUp ==
    ASSUME Inv, TreeInv, NEW d \in Inos \ {Root}, Settled(d)
    PROVE  dparent[d] \in Inos /\ Settled(dparent[d])
<1>1. LiveDir(d)
  BY LiveFacts DEF Settled
<1>2. PICK e \in Inos, n \in Names : CountedNames(d) = {<<e, n>>}
  BY <1>1 DEF LiveDir
<1>3. Counts(e, n, d)
  <2>1. <<e, n>> \in CountedNames(d)
    BY <1>2
  <2>2. Counts(<<e, n>>[1], <<e, n>>[2], d)
    BY <2>1, Zenon DEF CountedNames
  <2> QED
    BY <2>2
<1>4. CASE entry[e][n] = d
  <2>1. CASE dparent[d] = e
    BY <1>4, <2>1, NamedSettled DEF Settled
  <2>2. ASSUME NEW p \in Procs, Leaving(p), task[p].dir = e, task[p].name = n
        PROVE  dparent[d] \in Inos /\ Settled(dparent[d])
    <3>1. task[p].op = "rename" /\ task[p].pc \in Found /\ task[p].pc \in InBody
      BY <2>2 DEF Leaving, Found, InBody
    <3>2. task[p].ino = d
      BY <1>4, <2>2, <3>1 DEF Inv, PlaceInv, PlaceOf, Leaving
    <3>3. PICK f : f = task[p].from
      OBVIOUS
    <3>4. f \in Inos /\ dparent[d] = f
      BY <3>1, <3>2, <3>3, SourceHome DEF Settled
    <3>5. Settled(f)
      BY <3>1, <3>3, BodyFacts DEF Settled
    <3> QED
      BY <3>4, <3>5
  <2> QED
    BY <1>4, <2>1, <2>2 DEF TreeInv, HomeInv, Settled
<1>5. ASSUME NEW p \in Procs, Pending(p, d), task[p].dir = e
      PROVE  dparent[d] \in Inos /\ Settled(dparent[d])
  <2>1. CASE task[p].pc \in {"makeEmpty", "addLink"} /\ task[p].ino = d
    BY <2>1 DEF Inv, PlaceInv, PlaceOf, Settled, Fresh
  <2>2. CASE task[p].pc = "dec" /\ task[p].tgt = d
    <3>1. dparent[d] = e
      BY <1>5, <2>2, ConstantsOK DEF TreeInv, TreeOf, Settled
    <3>2. Settled(e)
      BY <1>5, <2>2, BodyFacts DEF Settled, InBody
    <3> QED
      BY <3>1, <3>2
  <2> QED
    BY <1>5, <2>1, <2>2 DEF Pending
<1> QED
  BY <1>3, <1>4, <1>5 DEF Counts

SettledDirs == {d \in Inos : Settled(d)}

LEMMA SettledClosed ==
    ASSUME Inv, TreeInv
    PROVE  Closed(dparent, SettledDirs) /\ SettledDirs \in SUBSET Inos /\ dparent \in Parents
BY SettledUp DEF Closed, SettledDirs, Parents, Inv, Base, TreeTypes

-----------------------------------------------------------------------------
(* Which directories become settled                                        *)

\* No call changes the type of an allocated inode or frees it.
LEMMA TypesStep ==
    ASSUME Inv, NEW p \in Procs, Step(p), NEW d \in bitmap
    PROVE  d \in bitmap' /\ (IsDir(d)' <=> IsDir(d))
<1>0. TreeTypes /\ node \in [Inos -> NodeRec] /\ d \in Inos /\ node[d] \in NodeRec
  BY DEF Inv, Base, TreeTypes
<1>1. \A i : AddNlink(i) \/ DropNlink(i) => node'[d].type = node[d].type
  BY <1>0 DEF AddNlink, DropNlink, NodeRec
<1>2. \A i, type, nlink : ext2_new_inode(i, type, nlink) =>
        d \in bitmap' /\ node'[d] = node[d]
  BY <1>0 DEF ext2_new_inode
<1>3. MkdirUndo(p) => node'[d].type = node[d].type
  BY <1>0 DEF MkdirUndo, NodeRec
<1>4. CASE \/ Start(p) \/ LockParent(p) \/ RankParents(p) \/ LockFirst(p) \/ LockSecond(p)
           \/ Refuse(p) \/ Admit(p) \/ LockTarget(p) \/ ext2_delete_entry(p) \/ RenameOver(p)
  <2>1. node' = node /\ bitmap' = bitmap
    BY <1>4 DEF Start, LockParent, RankParents, LockFirst, LockSecond, Refuse, Admit,
       LockTarget, ext2_delete_entry, RenameOver, Tree
  <2> QED
    BY <2>1 DEF IsDir
<1>5. CASE ext2_create(p)
  BY <1>2, <1>5 DEF ext2_create, IsDir
<1>6. CASE ext2_mkdir(p)
  BY <1>1, <1>6 DEF ext2_mkdir, IsDir
<1>7. CASE MkdirInode(p)
  <2>1. CASE \E i \in Inos \ bitmap :
               /\ bitmap' = bitmap \cup {i}
               /\ node' = [node EXCEPT ![i] = NewNode("dir", 0), ![task[p].dir].nlink = @ - 1]
    BY <1>0, <2>1 DEF NodeRec, IsDir
  <2> QED
    BY <1>1, <1>2, <1>7, <2>1 DEF MkdirInode, IsDir
<1>8. CASE ext2_make_empty(p)
  BY <1>3, <1>8 DEF ext2_make_empty, IsDir
<1>9. CASE ext2_link(p)
  BY <1>1, <1>9 DEF ext2_link, IsDir
<1>10. CASE ext2_add_link(p)
  BY <1>1, <1>3, <1>10 DEF ext2_add_link, IsDir
<1>11. CASE UnlinkDec(p)
  <2>1. CASE node' = [node EXCEPT ![task[p].tgt].nlink = @ - 2, ![task[p].tgt].dead = TRUE,
                                  ![task[p].dir].nlink = @ - 1]
    BY <1>0, <1>11, <2>1 DEF UnlinkDec, NodeRec, IsDir
  <2> QED
    BY <1>1, <1>11, <2>1 DEF UnlinkDec, IsDir
<1>12. CASE RenameAdd(p)
  BY <1>1, <1>12 DEF RenameAdd, IsDir
<1>13. CASE RenameDec(p)
  BY <1>0, <1>13 DEF RenameDec, NodeRec, IsDir
<1>14. CASE RenameDelOld(p)
  <2>1. bitmap' = bitmap
    BY <1>14 DEF RenameDelOld
  <2>2. CASE node' = node
    BY <2>1, <2>2 DEF IsDir
  <2>3. CASE node' = [k \in Inos |->
                    [node[k] EXCEPT !.nlink = IF k = task[p].from THEN @ - 1 ELSE @,
                                    !.dead = @ \/ k = task[p].tgt]]
    <3>1. node'[d].type = node[d].type
      BY <1>0, <2>3 DEF NodeRec
    <3> QED
      BY <2>1, <3>1 DEF IsDir
  <2> QED
    BY <1>14, <2>2, <2>3 DEF RenameDelOld
<1> QED
  BY <1>4, <1>5, <1>6, <1>7, <1>8, <1>9, <1>10, <1>11, <1>12, <1>13, <1>14 DEF Step

\* A mkdir that is undone leaves its directory without links.
LEMMA UndoneFresh ==
    ASSUME Inv, NEW p \in Procs, task[p].op = "mkdir", task[p].pc \in {"makeEmpty", "addLink"},
           MkdirUndo(p), NEW i, i = task[p].ino
    PROVE  node'[i].nlink <= 0
<1>1. PICK d, n : d = task[p].dir /\ n = task[p].name
  OBVIOUS
<1>2. i \in Inos /\ d \in Inos /\ i # d /\ node[i].nlink = 2 /\ TreeTypes /\ node[i] \in NodeRec
  BY <1>1, FreshDir DEF Inv, Base, TreeTypes
<1> DEFINE r == [node[i] EXCEPT !.nlink = @ - 2]
<1>3. r \in NodeRec /\ r.nlink = 0
  BY <1>2 DEF NodeRec
<1>4. node' = [node EXCEPT ![i] = r, ![d].nlink = @ - 1]
  BY <1>1 DEF MkdirUndo
<1> HIDE DEF r
<1>5. node'[i] = r
  BY <1>2, <1>3, <1>4, TwoNodes
<1> QED
  BY <1>3, <1>5

LEMMA OnlyCaller ==
    ASSUME Inv, NEW p \in Procs, Step(p), NEW q \in Procs \ {p}
    PROVE  task'[q] = task[q]
<1>0. task \in [Procs -> TaskRec]
  BY DEF Inv, Base, CallTypes
<1>1. CASE \/ Start(p) \/ LockParent(p) \/ RankParents(p) \/ LockFirst(p) \/ LockSecond(p)
           \/ Refuse(p) \/ Admit(p) \/ LockTarget(p)
  BY <1>0, <1>1 DEF Start, LockParent, RankParents, LockFirst, LockSecond, Refuse, Admit,
     LockTarget, Goto, Return
<1>2. CASE \/ ext2_create(p) \/ ext2_mkdir(p) \/ MkdirInode(p) \/ ext2_make_empty(p)
           \/ ext2_link(p) \/ ext2_add_link(p)
  BY <1>0, <1>2 DEF ext2_create, ext2_mkdir, MkdirInode, ext2_make_empty, ext2_link,
     ext2_add_link, Goto, Return
<1>3. CASE \/ ext2_delete_entry(p) \/ UnlinkDec(p)
           \/ RenameAdd(p) \/ RenameOver(p) \/ RenameDec(p) \/ RenameDelOld(p)
  BY <1>0, <1>3 DEF ext2_delete_entry, UnlinkDec, RenameAdd, RenameOver, RenameDec,
     RenameDelOld, Goto, Return
<1> QED
  BY <1>1, <1>2, <1>3 DEF Step

(* A directory is settled by the last step of its mkdir, and no other.     *)
LEMMA SettledStep ==
    ASSUME Inv, Inv', NEW p \in Procs, Step(p), NEW d \in Inos, Settled(d)', ~Settled(d)
    PROVE  /\ ext2_add_link(p) /\ AddLinkOk(p) /\ node' = node
           /\ task[p].op = "mkdir" /\ task[p].ino = d
<1>0. /\ d \in bitmap' /\ IsDir(d)' /\ node'[d].nlink > 0 /\ ~Fresh(d)'
      /\ node \in [Inos -> NodeRec] /\ node'[d].nlink \in Int
  <2>1. node' \in [Inos -> NodeRec] /\ node \in [Inos -> NodeRec]
    BY DEF Inv, Base, TreeTypes
  <2> QED
    BY <2>1 DEF Settled, NodeRec
<1>1. d \in bitmap
  <2> SUFFICES ASSUME d \notin bitmap
               PROVE  FALSE
    OBVIOUS
  <2>1. bitmap' # bitmap
    BY <1>0
  <2>2. \/ ext2_create(p)
        \/ MkdirInode(p)
    BY <2>1 DEF Step, Start, LockParent, RankParents, LockFirst, LockSecond, Refuse, Admit,
       LockTarget, ext2_mkdir, ext2_make_empty, ext2_link, ext2_add_link, ext2_delete_entry,
       UnlinkDec, RenameAdd, RenameOver, RenameDec, RenameDelOld, Tree
  <2>3. \A i \in Inos : \A n : ext2_new_inode(i, "file", n) => ~IsDir(d)'
    <3> SUFFICES ASSUME NEW i \in Inos, NEW n, ext2_new_inode(i, "file", n)
                 PROVE  ~IsDir(d)'
      OBVIOUS
    <3>1. d = i
      BY <1>0 DEF ext2_new_inode
    <3> QED
      BY <1>0, <3>1 DEF ext2_new_inode, NewNode, IsDir
  <2>4. CASE ext2_create(p)
    BY <1>0, <2>1, <2>3, <2>4 DEF ext2_create
  <2>5. CASE MkdirInode(p)
    <3>0. task[p] \in TaskRec /\ task \in [Procs -> TaskRec] /\ task[p].op = "mkdir"
      BY <2>5 DEF MkdirInode, Inv, Base, CallTypes, PlaceInv, PlaceOf
    <3>1. ASSUME NEW i \in Inos, ext2_new_inode(i, "dir", 2),
                 task' = [task EXCEPT ![p].ino = i, ![p].pc = "makeEmpty"]
          PROVE  FALSE
      <4>1. d = i
        BY <1>0, <3>1 DEF ext2_new_inode
      <4>2. task'[p].op = "mkdir" /\ task'[p].pc = "makeEmpty" /\ task'[p].ino = i
        BY <3>0, <3>1 DEF TaskRec
      <4> QED
        BY <1>0, <4>1, <4>2 DEF Fresh
    <3>2. ASSUME NEW i \in Inos \ bitmap, bitmap' = bitmap \cup {i},
                 node' = [node EXCEPT ![i] = NewNode("dir", 0), ![task[p].dir].nlink = @ - 1]
          PROVE  FALSE
      <4>1. d = i
        BY <1>0, <3>2
      <4>2. task[p].dir \in Inos \ {i} /\ NewNode("dir", 0) \in NodeRec /\ TreeTypes
        BY <2>5, BodyFacts DEF MkdirInode, InBody, NewNode, NodeRec, Inv, Base
      <4>3. node'[i] = NewNode("dir", 0)
        BY <3>2, <4>2, TwoNodes
      <4> QED
        BY <1>0, <4>1, <4>3 DEF NewNode
    <3> QED
      BY <2>1, <2>5, <3>1, <3>2 DEF MkdirInode
  <2> QED
    BY <2>2, <2>4, <2>5
<1>2. IsDir(d)
  BY <1>0, <1>1, TypesStep
<1>3. node[d].nlink > 0
  <2>1. node[d].nlink \in 0..LinkMax
    BY NlinkRange
  <2>2. node[d].nlink # 0
    <3>1. [Next]_vars
      BY DEF Next
    <3> QED
      BY <1>0, <1>1, <3>1, NeverRevived
  <2> QED
    BY <2>1, <2>2, ConstantsOK
<1>4. PICK q \in Procs : task[q].op = "mkdir" /\ task[q].pc \in {"makeEmpty", "addLink"} /\ task[q].ino = d
  BY <1>1, <1>2, <1>3 DEF Settled, Fresh
<1>5. q = p
  <2>1. q # p => task'[q] = task[q]
    BY OnlyCaller
  <2> QED
    BY <1>0, <1>4, <2>1 DEF Fresh
<1>6. ext2_make_empty(p) \/ ext2_add_link(p)
  <2>1. /\ task[p] # Idle /\ task[p].pc \in {"makeEmpty", "addLink"}
    BY <1>4, <1>5 DEF Idle
  <2> QED
    BY <2>1 DEF Step, Start, LockParent, RankParents, LockFirst, LockSecond, Refuse, Admit,
       LockTarget, ext2_create, ext2_mkdir, MkdirInode, ext2_link,
       ext2_delete_entry, UnlinkDec, RenameAdd, RenameOver, RenameDec, RenameDelOld
<1>7. ~MkdirUndo(p)
  BY <1>0, <1>4, <1>5, UndoneFresh
<1>8. ~ext2_make_empty(p)
  <2> SUFFICES ASSUME ext2_make_empty(p)
               PROVE  FALSE
    OBVIOUS
  <2>1. Goto(p, "addLink")
    BY <1>7 DEF ext2_make_empty
  <2>2. Goes(p, "addLink")
    BY <2>1, GotoStep DEF Pcs, Inv, Base
  <2> QED
    BY <1>0, <1>4, <1>5, <2>2 DEF Goes, GoesWith, SameCall, Fresh
<1> QED
  BY <1>4, <1>5, <1>6, <1>7, <1>8 DEF ext2_add_link

-----------------------------------------------------------------------------
(* Steps that leave the tree of the settled directories as it is           *)

\* The way up from a settled directory has settled directories only.
LEMMA UpSettled ==
    ASSUME Inv, TreeInv, NEW d \in Inos, Settled(d)
    PROVE  \A c \in Upwards(dparent, d) : c \in Inos /\ Settled(c)
<1>1. d \in SettledDirs
  BY DEF SettledDirs
<1>2. Upwards(dparent, d) \subseteq SettledDirs
  BY <1>1, SettledClosed, UpLeast
<1> QED
  BY <1>2 DEF SettledDirs

\* The settled directories stay where they are, and others that become
\* settled are new.
SettledStay ==
    /\ \A d \in Inos : Settled(d)' => Settled(d) \/ Fresh(d)
    /\ \A d \in Inos : Settled(d) => dparent'[d] = dparent[d] /\ dotdot'[d] = dotdot[d]

LEMMA TreeFrame ==
    ASSUME Inv, Inv', TreeInv, SettledStay
    PROVE  \A d \in Inos : Settled(d) => Upwards(dparent', d) = Upwards(dparent, d)
<1>1. dparent' \in Parents
  BY DEF Inv, Base, TreeTypes, Parents
<1>2. ASSUME NEW d \in Inos, Settled(d)
      PROVE  Upwards(dparent', d) = Upwards(dparent, d)
  <2>1. d \in SettledDirs /\ \A c \in SettledDirs : dparent'[c] = dparent[c]
    BY <1>2 DEF SettledDirs, SettledStay
  <2>2. PICK P, Q : P = dparent /\ Q = dparent'
    OBVIOUS
  <2>3. PICK S : S = SettledDirs
    OBVIOUS
  <2> QED
    BY <1>1, <2>1, <2>2, <2>3, SettledClosed, UpAgree
<1> QED
  BY <1>2

\* The call of q depends on the parent of directory d.
Uses(q, d) ==
    \/ task[q].pc \in {"dec", "delOld"} /\ task[q].tgt = d
    \/ task[q].op = "mkdir" /\ task[q].pc = "addLink" /\ task[q].ino = d

(* The calls of the tasks outside X are where they were.                   *)
Bystanders(X) ==
    /\ \A q \in Procs \ X : task'[q] = task[q] /\ (renameMutex = q => renameMutex' = q)
    /\ \A d \in Inos :
         \/ dparent'[d] = dparent[d] /\ dotdot'[d] = dotdot[d]
         \/ ~Settled(d) /\ \A q \in Procs \ X : ~Uses(q, d)

LEMMA OthersTree ==
    ASSUME Inv, Inv', TreeInv, [Next]_vars, NEW X \in SUBSET Procs, Bystanders(X), SettledStay,
           \A d \in bitmap : IsDir(d)' => IsDir(d), NEW q \in Procs \ X
    PROVE  TreeOf(q)'
<1>1. PICK t : t = task[q]
  OBVIOUS
<1>2. /\ task'[q] = t /\ t \in TaskRec
      /\ t.pc # "idle" => t.dir \in Inos
      /\ t.op = "rename" => t.from \in Inos
  BY <1>1 DEF Bystanders, Inv, Base, CallTypes, LockInv, LockOf
<1>3. {t.dir, t.from, t.ino, t.tgt} \subseteq bitmap \cup {None} /\ TreeOf(q)
  BY <1>1 DEF Inv, RefInv, RefOf, TreeInv
<1>4. \A i \in {t.ino, t.tgt} : i # None /\ IsDir(i)' => IsDir(i)
  BY <1>3
<1>5. TwoDirs(q)' <=> TwoDirs(q)
  BY <1>1, <1>2 DEF TwoDirs
<1>6. TwoDirs(q)' /\ t.pc \notin {"idle", "lock"} => renameMutex' = q
  BY <1>1, <1>3, <1>5 DEF TreeOf, Bystanders
<1>7. t.pc \in {"dirFirst", "fromFirst", "second", "lookup"} => TrapOf(q)'
  <2> SUFFICES ASSUME t.pc \in {"dirFirst", "fromFirst", "second", "lookup"}, TwoDirs(q),
                      Settled(t.dir)', Settled(t.from)',
                      NEW c \in Upwards(dparent', t.dir) \ {Root}, dparent'[c] = t.from
               PROVE  c = t.trap
    BY <1>2, <1>5 DEF TrapOf
  <2>1. t.dir \in Inos /\ t.from \in Inos
    BY <1>1, <1>2 DEF TwoDirs
  <2>2. Settled(t.dir) /\ Settled(t.from)
    <3>1. ~Fresh(t.dir) /\ ~Fresh(t.from)
      BY <1>1, <2>1, ConstantsOK DEF Inv, RefInv, RefOf
    <3> QED
      BY <2>1, <3>1 DEF SettledStay
  <2>3. c \in Upwards(dparent, t.dir)
    BY <2>1, <2>2, TreeFrame
  <2>4. dparent'[c] = dparent[c]
    BY <2>1, <2>2, <2>3, UpSettled DEF SettledStay
  <2> QED
    BY <1>1, <1>3, <2>2, <2>3, <2>4 DEF TreeOf, TrapOf
<1>8. TwoDirs(q)' /\ t.pc \in Found /\ IsDir(t.ino)' => t.ino \notin Upwards(dparent', t.dir)
  <2> SUFFICES ASSUME TwoDirs(q), t.pc \in Found, IsDir(t.ino)'
               PROVE  t.ino \notin Upwards(dparent', t.dir)
    BY <1>5
  <2>1. t.ino # None /\ t.dir \in Inos /\ t.op = "rename"
    BY <1>1, <1>2 DEF Inv, PlaceInv, PlaceOf, TwoDirs, Found, InBody
  <2>2. Settled(t.dir)
    BY <1>1, <1>3, <2>1, ConstantsOK DEF Inv, RefInv, RefOf, Settled
  <2>3. IsDir(t.ino)
    BY <1>4, <2>1
  <2> QED
    BY <1>1, <1>3, <2>1, <2>2, <2>3, TreeFrame DEF TreeOf
<1>9. ASSUME t.pc \in {"dec", "delOld"}, t.tgt # None, IsDir(t.tgt)'
      PROVE  /\ dparent'[t.tgt] = t.dir
             /\ t.pc = "delOld" => node'[t.tgt].nlink <= 0
  <2>1. t.tgt \in bitmap /\ t.tgt \in Inos /\ IsDir(t.tgt)
    BY <1>3, <1>4, <1>9 DEF Inv, Base, TreeTypes
  <2>2. dparent'[t.tgt] = dparent[t.tgt]
    BY <1>1, <1>9, <2>1 DEF Bystanders, Uses
  <2>3. dparent[t.tgt] = t.dir /\ (t.pc = "delOld" => node[t.tgt].nlink <= 0)
    BY <1>1, <1>3, <1>9, <2>1 DEF TreeOf
  <2>4. t.tgt \in bitmap'
    BY <1>2, <1>9 DEF Inv, RefInv, RefOf
  <2>5. ASSUME t.pc = "delOld"
        PROVE  node'[t.tgt].nlink <= 0
    <3>1. node[t.tgt].nlink \in 0..LinkMax
      BY <2>1, NlinkRange
    <3>2. node[t.tgt].nlink = 0
      BY <2>3, <2>5, <3>1, ConstantsOK
    <3> QED
      BY <2>1, <2>4, <3>2, NeverRevived
  <2> QED
    BY <2>2, <2>3, <2>5
<1>10. t.op = "mkdir" /\ t.pc = "addLink" => dotdot'[t.ino] = t.dir
  <2> SUFFICES ASSUME t.op = "mkdir", t.pc = "addLink"
               PROVE  dotdot'[t.ino] = t.dir
    OBVIOUS
  <2>1. t.ino \in Inos
    BY <1>1, <1>2 DEF Inv, PlaceInv, PlaceOf, TaskRec
  <2>2. dotdot'[t.ino] = dotdot[t.ino]
    BY <1>1, <2>1 DEF Bystanders, Uses
  <2> QED
    BY <1>1, <1>3, <2>2 DEF TreeOf
<1> QED
  BY <1>2, <1>6, <1>7, <1>8, <1>9, <1>10 DEF TreeOf

(* No directory gets a name but the one a call of X is moving.             *)
NamesMoveBy(X) ==
    /\ \A p \in X : Leaving(p) => /\ Leaving(p)'
                                  /\ task'[p].dir = task[p].dir /\ task'[p].name = task[p].name
    /\ \A e \in Inos, n \in Names, d \in Inos : entry'[e][n] = d /\ IsDir(d)' =>
         \/ entry[e][n] = d
         \/ \E p \in X : Leaving(p)' /\ task'[p].dir = e /\ task'[p].name = n

LEMMA TreeStays ==
    ASSUME Inv, Inv', TreeInv, [Next]_vars, NEW X \in SUBSET Procs, Bystanders(X), SettledStay,
           NamesMoveBy(X), \A d \in bitmap : IsDir(d)' => IsDir(d), \A p \in X : TreeOf(p)',
           \A d \in Inos : Settled(d)' => Settled(d)
    PROVE  TreeInv'
<1>1. \A p \in Procs : TreeOf(p)'
  BY OthersTree
<1>2. \A q \in Procs : Leaving(q) =>
        Leaving(q)' /\ task'[q].dir = task[q].dir /\ task'[q].name = task[q].name
  BY DEF NamesMoveBy, Bystanders, Leaving
<1>3. HomeInv'
  <2> SUFFICES ASSUME NEW e \in Inos, NEW n \in Names, NEW d \in Inos, entry'[e][n] = d, IsDir(d)',
                      entry[e][n] = d
               PROVE  \/ dparent'[d] = e
                      \/ \E p \in Procs : Leaving(p)' /\ task'[p].dir = e /\ task'[p].name = n
    BY DEF HomeInv, NamesMoveBy
  <2>1. d \in bitmap
    BY ConstantsOK DEF Inv, FreeInv, FreedUnreachable
  <2>2. IsDir(d) /\ Settled(d)
    BY <2>1, NamedSettled
  <2>3. dparent'[d] = dparent[d]
    BY <2>2 DEF SettledStay
  <2> QED
    BY <1>2, <2>2, <2>3 DEF TreeInv, HomeInv
<1>4. DotInv'
  BY DEF TreeInv, DotInv, SettledStay
<1>5. ReachInv'
  BY TreeFrame DEF TreeInv, ReachInv
<1> QED
  BY <1>1, <1>3, <1>4, <1>5 DEF TreeInv

-----------------------------------------------------------------------------
(* One lemma per group of steps                                            *)

LEMMA MutexStep ==
    ASSUME NEW p \in Procs, Step(p), NEW q \in Procs \ {p}, renameMutex = q
    PROVE  renameMutex' = q
BY ConstantsOK DEF Step, Start, LockParent, RankParents, LockFirst, LockSecond, Refuse, Admit,
   LockTarget, ext2_create, ext2_mkdir, MkdirInode, ext2_make_empty, ext2_link, ext2_add_link,
   ext2_delete_entry, UnlinkDec, RenameAdd, RenameOver, RenameDec, RenameDelOld, Return, locks

\* A step of p that changes no parent.
LEMMA PlainTree ==
    ASSUME Inv, Inv', TreeInv, NEW p \in Procs, Step(p), dparent' = dparent,
           \A d \in Inos : \/ dotdot'[d] = dotdot[d]
                           \/ ~Settled(d) /\ \A q \in Procs \ {p} : ~Uses(q, d),
           ext2_add_link(p) /\ AddLinkOk(p) /\ node' = node => task[p].op # "mkdir",
           NamesMoveBy({p}), TreeOf(p)'
    PROVE  TreeInv'
<1>1. Bystanders({p})
  BY OnlyCaller, MutexStep DEF Bystanders
<1>2. \A d \in Inos : Settled(d)' => Settled(d)
  BY SettledStep
<1>3. SettledStay
  BY <1>2 DEF SettledStay
<1>4. \A d \in bitmap : IsDir(d)' => IsDir(d)
  BY TypesStep
<1>5. [Next]_vars
  BY DEF Next
<1> QED
  BY <1>1, <1>2, <1>3, <1>4, <1>5, TreeStays

LEMMA IdleTree ==
    ASSUME NEW p \in Procs, task'[p] = Idle
    PROVE  TreeOf(p)'
BY DEF TreeOf, Idle, TwoDirs, Found, InBody

\* lock_rename leaves the trap.
LEMMA RankTrap ==
    ASSUME Inv, TreeInv, NEW p \in Procs, RankParents(p)
    PROVE  TrapOf(p)' /\ task'[p].pc \in {"dirFirst", "fromFirst"} /\ renameMutex' = p
<1>1. PICK t : t = task[p]
  OBVIOUS
<1>2. /\ t \in TaskRec /\ task \in [Procs -> TaskRec] /\ t.op = "rename"
      /\ t.dir \in Inos /\ t.from \in Inos /\ dparent \in Parents
  BY <1>1 DEF RankParents, TwoDirs, Inv, Base, TreeTypes, CallTypes, LockInv, LockOf, Parents
<1> DEFINE below == d_ancestor(t.from, t.dir)
           above == d_ancestor(t.dir, t.from)
           pc == IF below # None THEN "fromFirst" ELSE "dirFirst"
           trap == IF below # None THEN below ELSE above
<1>3. task' = [task EXCEPT ![p].pc = pc, ![p].trap = trap]
  BY <1>1 DEF RankParents
<1>4. renameMutex' = p /\ dparent' = dparent /\ node' = node /\ bitmap' = bitmap
  BY DEF RankParents, Tree
<1> HIDE DEF below, above
<1>5. /\ task'[p].dir = t.dir /\ task'[p].from = t.from /\ task'[p].op = t.op
      /\ task'[p].pc = pc /\ task'[p].trap = trap
  BY <1>1, <1>2, <1>3 DEF TaskRec
<1>6. ASSUME Settled(t.dir), NEW c \in Upwards(dparent, t.dir) \ {Root}, dparent[c] = t.from
      PROVE  c = trap
  <2> DEFINE through == {x \in Inos \ {Root} : x \in Upwards(dparent, t.dir) /\ dparent[x] = t.from}
  <2>1. c \in through
    BY <1>2, <1>6, UpClosed
  <2>2. below \in through
    BY <2>1 DEF below, d_ancestor
  <2>3. \A x \in through : Root \in Upwards(dparent, x)
    BY <1>2, <1>6, UpSettled DEF TreeInv, ReachInv
  <2>4. c = below
    BY <1>2, <2>1, <2>2, <2>3, OneChild
  <2> QED
    BY <2>2, <2>4, ConstantsOK
<1>7. Settled(t.dir)' => Settled(t.dir)
  <2>1. \A i : Fresh(i) => Fresh(i)'
    <3> SUFFICES ASSUME NEW i, NEW q \in Procs, task[q].op = "mkdir",
                        task[q].pc \in {"makeEmpty", "addLink"}, task[q].ino = i
                 PROVE  Fresh(i)'
      BY DEF Fresh
    <3>1. q # p
      BY <1>1, <1>2
    <3>2. task'[q] = task[q]
      BY <1>2, <1>3, <3>1
    <3> QED
      BY <3>2 DEF Fresh
  <2> QED
    BY <1>4, <2>1 DEF Settled, IsDir
<1> QED
  BY <1>4, <1>5, <1>6, <1>7 DEF TrapOf

(* What lock_rename and the checks after it rule out: a directory that is  *)
(* moved below itself (fs/namei.c, "source should not be ancestor of       *)
(* target").                                                               *)
LEMMA AdmittedMove ==
    ASSUME Inv, TreeInv, NEW p \in Procs, TwoDirs(p), task[p].pc = "lookup", NEW m \in Names,
           NEW i, i = entry[task[p].from][m], NEW child, MayRename(task[p], i, child), IsDir(i)
    PROVE  i \notin Upwards(dparent, task[p].dir)
<1>1. PICK d, f : d = task[p].dir /\ f = task[p].from
  OBVIOUS
<1>2. /\ d \in Inos /\ f \in Inos /\ imutex[f] = p /\ task[p].op = "rename"
      /\ i # None /\ i # task[p].trap /\ ~node[f].dead /\ ~node[d].dead
  BY <1>1 DEF TwoDirs, MayRename, may_create, may_delete, Inv, Base, LockInv, LockOf, Inside
<1>3. i \in Inos
  BY <1>1, <1>2 DEF Inv, Base, TreeTypes
<1>4. d \in bitmap /\ IsDir(d) /\ ~Fresh(d) /\ f \in bitmap /\ IsDir(f) /\ ~Fresh(f)
  BY <1>1, <1>2, ConstantsOK DEF Inv, RefInv, RefOf
<1>5. node[d].nlink > 0 /\ node[f].nlink > 0
  BY <1>1, <1>2, LockedAlive, ConstantsOK
<1>6. dparent[i] = f
  BY <1>1, <1>2, <1>3, LockedHome DEF Leaving
<1>7. i # Root
  BY <1>1, <1>2, <1>3, NamedSettled
<1>8. Settled(d) /\ Settled(f)
  BY <1>4, <1>5 DEF Settled
<1>9. TrapOf(p)
  BY DEF TreeInv, TreeOf
<1> QED
  BY <1>1, <1>2, <1>6, <1>7, <1>8, <1>9 DEF TrapOf

LEMMA TreeApproach ==
    ASSUME Inv, Inv', TreeInv, NEW p \in Procs, Step(p),
           \/ Start(p) \/ LockParent(p) \/ RankParents(p) \/ LockFirst(p)
           \/ LockSecond(p) \/ Admit(p) \/ LockTarget(p) \/ Refuse(p)
    PROVE  TreeInv'
<1>0. /\ UNCHANGED Tree /\ TreeOf(p) /\ task[p] \in TaskRec /\ CallTypes /\ TreeTypes
      /\ task \in [Procs -> TaskRec]
  BY DEF Start, LockParent, RankParents, LockFirst, LockSecond, Admit, LockTarget, Refuse,
     Inv, Base, CallTypes, TreeInv
<1>1. /\ dparent' = dparent /\ dotdot' = dotdot /\ entry' = entry /\ node' = node
      /\ \A i : IsDir(i)' <=> IsDir(i)
  BY <1>0 DEF Tree, IsDir
<1>2. task[p].pc \notin {"dec", "delOld", "addLink"}
  <2>1. Start(p) => task[p].pc = "idle"
    <3>1. Start(p) => task[p] = Idle
      BY DEF Start
    <3> QED
      BY <3>1 DEF Idle
  <2>2. Admit(p) \/ Refuse(p) => task[p].pc = "lookup"
    BY DEF Admit, Refuse
  <2>3. LockParent(p) \/ RankParents(p) => task[p].pc = "lock"
    BY DEF LockParent, RankParents
  <2>4. LockFirst(p) \/ LockSecond(p) \/ LockTarget(p) =>
          task[p].pc \in {"dirFirst", "fromFirst", "second", "lockTarget"}
    BY DEF LockFirst, LockSecond, LockTarget
  <2> QED
    BY <2>1, <2>2, <2>3, <2>4
<1>3. ~ext2_add_link(p) /\ NamesMoveBy({p})
  BY <1>1, <1>2 DEF ext2_add_link, NamesMoveBy, Leaving
<1>4. ASSUME NEW pc \in Pcs, Goto(p, pc)
      PROVE  /\ task'[p].dir = task[p].dir /\ task'[p].from = task[p].from
             /\ task'[p].op = task[p].op /\ task'[p].ino = task[p].ino
             /\ task'[p].trap = task[p].trap /\ task'[p].pc = pc
             /\ TwoDirs(p)' <=> TwoDirs(p)
  BY <1>0, <1>4 DEF Goto, TaskRec, TwoDirs
<1>5. CASE Start(p)
  <2>1. task'[p].pc = "lock"
    BY <1>0, <1>5, StartStep
  <2> QED
    BY <1>1, <1>3, <2>1, PlainTree DEF TreeOf, Found, InBody
<1>6. CASE LockParent(p)
  <2>1. Goto(p, "lookup") /\ ~TwoDirs(p)
    BY <1>6 DEF LockParent
  <2>2. task'[p].pc = "lookup" /\ ~TwoDirs(p)'
    BY <1>4, <2>1 DEF Pcs
  <2>3. TreeOf(p)'
    BY <2>2 DEF TreeOf, TrapOf, Found, InBody
  <2> QED
    BY <1>1, <1>3, <2>3, PlainTree
<1>7. CASE RankParents(p)
  <2>1. TreeOf(p)'
    BY <1>7, RankTrap DEF TreeOf, Found, InBody
  <2> QED
    BY <1>1, <1>3, <2>1, PlainTree
<1>8. CASE LockFirst(p) \/ LockSecond(p)
  <2>1. PICK pc \in {"second", "lookup"} : Goto(p, pc)
    BY <1>8 DEF LockFirst, LockSecond
  <2>2. /\ task[p].pc \in {"dirFirst", "fromFirst", "second"} /\ renameMutex' = renameMutex
        /\ pc \in Pcs
    BY <1>8 DEF LockFirst, LockSecond, Pcs
  <2>3. TrapOf(p) /\ (TwoDirs(p) => renameMutex = p)
    BY <1>0, <2>2 DEF TreeOf
  <2>4. \A d \in Inos : Settled(d)' => Settled(d)
    BY <1>3, SettledStep
  <2>5. TwoDirs(p) => task[p].dir \in Inos /\ task[p].from \in Inos
    BY <2>2 DEF TwoDirs, Inv, Base, LockInv, LockOf
  <2>6. TrapOf(p)'
    BY <1>1, <1>4, <2>1, <2>2, <2>3, <2>4, <2>5 DEF TrapOf
  <2>7. TreeOf(p)'
    BY <1>4, <2>1, <2>2, <2>3, <2>6 DEF TreeOf, Found, InBody
  <2> QED
    BY <1>1, <1>3, <2>7, PlainTree
<1>9. CASE Admit(p)
  <2>1. PICK nm \in LastNames(p) :
          LET t      == task[p]
              child  == entry[t.dir][nm[1]]
              source == Source(p, nm[2])
              tgt    == IF t.op = "link" THEN t.ino ELSE child
          IN  /\ Allowed(t, source, child)
              /\ task' = [task EXCEPT ![p] =
                   [t EXCEPT !.name = nm[1], !.fname = nm[2], !.trap = None,
                             !.ino = IF t.op = "rename" THEN source ELSE @,
                             !.tgt = tgt,
                             !.pc = IF tgt # None THEN "lockTarget" ELSE "body"]]
    BY <1>9 DEF Admit
  <2>2. /\ task'[p].pc \in {"lockTarget", "body"} /\ task'[p].op = task[p].op
        /\ task'[p].dir = task[p].dir /\ task'[p].from = task[p].from
        /\ task[p].op = "rename" => task'[p].ino = Source(p, nm[2])
    BY <1>0, <2>1 DEF TaskRec
  <2>3. task[p].pc = "lookup" /\ renameMutex' = renameMutex
    BY <1>9 DEF Admit, locks
  <2>4. TwoDirs(p)' <=> TwoDirs(p)
    BY <2>2 DEF TwoDirs
  <2>5. ASSUME TwoDirs(p), IsDir(task'[p].ino)
        PROVE  task'[p].ino \notin Upwards(dparent, task[p].dir)
    <3>1. /\ task[p].op = "rename" /\ nm[2] \in Names
      BY <2>5, ConstantsOK DEF TwoDirs, LastNames
    <3>2. PICK i : i = entry[task[p].from][nm[2]]
      OBVIOUS
    <3>3. task'[p].ino = i /\ i = Source(p, nm[2])
      BY <2>2, <3>1, <3>2, ConstantsOK DEF Source
    <3>4. PICK child : MayRename(task[p], i, child)
      BY <2>1, <3>1, <3>3 DEF Allowed
    <3> QED
      BY <2>3, <2>5, <3>1, <3>2, <3>3, <3>4, AdmittedMove
  <2>6. TwoDirs(p) => renameMutex = p
    BY <1>0, <2>3 DEF TreeOf
  <2>7. TreeOf(p)'
    BY <1>1, <2>2, <2>3, <2>4, <2>5, <2>6 DEF TreeOf
  <2> QED
    BY <1>1, <1>3, <2>7, PlainTree
<1>10. CASE LockTarget(p)
  <2>1. Goto(p, "body") /\ task[p].pc = "lockTarget" /\ renameMutex' = renameMutex
    BY <1>10 DEF LockTarget
  <2>2. TreeOf(p)'
    BY <1>0, <1>1, <1>4, <2>1 DEF TreeOf, Pcs, Found, InBody
  <2> QED
    BY <1>1, <1>3, <2>2, PlainTree
<1>11. CASE Refuse(p)
  <2>1. task'[p] = Idle
    BY <1>0, <1>11 DEF Refuse, Return
  <2> QED
    BY <1>1, <1>3, <2>1, IdleTree, PlainTree
<1> QED
  BY <1>5, <1>6, <1>7, <1>8, <1>9, <1>10, <1>11

\* A step that changes no parent, and no name.
LEMMA NamesKept ==
    ASSUME Inv, NEW p \in Procs, Step(p), entry' = entry, ~Leaving(p)
    PROVE  NamesMoveBy({p})
BY DEF NamesMoveBy

LEMMA ReturnIdle ==
    ASSUME Inv, NEW p \in Procs, Return(p)
    PROVE  task'[p] = Idle
BY ReturnStep DEF Inv, Base, Returns

LEMMA TreeMake ==
    ASSUME Inv, Inv', TreeInv, NEW p \in Procs, Step(p),
           ext2_create(p) \/ ext2_mkdir(p) \/ MkdirInode(p) \/ ext2_link(p)
    PROVE  TreeInv'
<1>0. task[p] \in TaskRec /\ task \in [Procs -> TaskRec]
  BY DEF Inv, Base, CallTypes
<1>1. /\ dparent' = dparent /\ dotdot' = dotdot /\ entry' = entry
      /\ task[p].pc \in {"body", "new"} /\ task[p].op \in {"create", "mkdir", "link"}
  BY DEF ext2_create, ext2_mkdir, MkdirInode, ext2_link, Inv, PlaceInv, PlaceOf
<1>2. NamesMoveBy({p}) /\ ~ext2_add_link(p)
  BY <1>1, NamesKept DEF Leaving, ext2_add_link
<1>3. CASE Return(p)
  BY <1>1, <1>2, <1>3, ReturnIdle, IdleTree, PlainTree
<1>4. CASE ~Return(p)
  <2>1. /\ task'[p].op = task[p].op /\ task'[p].pc \in {"addLink", "new", "makeEmpty"}
        /\ task[p].op = "mkdir" => task'[p].pc # "addLink"
    <3>1. CASE ext2_create(p)
      BY <1>0, <1>4, <3>1, ZenonT(90) DEF ext2_create, TaskRec
    <3>2. CASE ext2_mkdir(p)
      BY <1>0, <1>4, <3>2 DEF ext2_mkdir, TaskRec, Goto
    <3>3. CASE MkdirInode(p)
      BY <1>0, <1>4, <3>3, ZenonT(60) DEF MkdirInode, TaskRec
    <3>4. CASE ext2_link(p)
      BY <1>0, <1>4, <3>4 DEF ext2_link, TaskRec, Goto
    <3> QED
      BY <3>1, <3>2, <3>3, <3>4
  <2>2. TreeOf(p)'
    BY <1>1, <2>1 DEF TreeOf, TwoDirs
  <2> QED
    BY <1>1, <1>2, <2>2, PlainTree
<1> QED
  BY <1>3, <1>4

\* Nobody else has found the directory of a mkdir under way.
LEMMA FreshAlone ==
    ASSUME Inv, TreeInv, NEW p \in Procs, task[p].op = "mkdir",
           task[p].pc \in {"makeEmpty", "addLink"},
           NEW i, i = task[p].ino, NEW q \in Procs \ {p}
    PROVE  ~Uses(q, i)
<1>1. PICK d, n : d = task[p].dir /\ n = task[p].name
  OBVIOUS
<1>2. /\ i \in Inos /\ i # None /\ d \in Inos /\ n \in Names /\ IsDir(i)
      /\ CountedNames(i) = {<<d, n>>} /\ node[i].nlink = 2
  BY <1>1, FreshDir
<1>3. imutex[d] = p
  BY <1>1, BodyFacts DEF InBody
<1>4. CASE Pending(q, i)
  <2>1. PICK a, b : a = task[q].dir /\ b = task[q].name
    OBVIOUS
  <2>2. task[q].pc \in InBody
    BY <1>4 DEF Pending, InBody
  <2>3. a \in Inos /\ b \in Names /\ imutex[a] = q
    BY <2>1, <2>2, BodyFacts
  <2>4. Counts(a, b, i)
    BY <1>4, <2>1 DEF Counts
  <2>5. <<a, b>> \in CountedNames(i)
    BY <2>3, <2>4 DEF CountedNames
  <2>6. a = d
    BY <1>2, <2>5
  <2> QED
    BY <1>3, <2>3, <2>6
<1>5. CASE task[q].pc = "delOld" /\ task[q].tgt = i
  <2>1. node[i].nlink <= 0
    BY <1>2, <1>5 DEF TreeInv, TreeOf
  <2> QED
    BY <1>2, <2>1
<1> QED
  BY <1>4, <1>5 DEF Uses, Pending

LEMMA TreeMakeEmpty ==
    ASSUME Inv, Inv', TreeInv, NEW p \in Procs, Step(p), ext2_make_empty(p)
    PROVE  TreeInv'
<1>0. task[p] \in TaskRec /\ task \in [Procs -> TaskRec] /\ dotdot \in Parents
  BY DEF Inv, Base, CallTypes, TreeTypes, Parents
<1>1. /\ dparent' = dparent /\ entry' = entry
      /\ task[p].pc = "makeEmpty" /\ task[p].op = "mkdir"
  BY DEF ext2_make_empty, Inv, PlaceInv, PlaceOf
<1>2. NamesMoveBy({p}) /\ ~ext2_add_link(p)
  BY <1>1, NamesKept DEF Leaving, ext2_add_link
<1>3. CASE Return(p) /\ dotdot' = dotdot
  BY <1>1, <1>2, <1>3, ReturnIdle, IdleTree, PlainTree
<1>4. CASE dotdot' = [dotdot EXCEPT ![task[p].ino] = task[p].dir] /\ Goto(p, "addLink")
  <2>1. PICK i, d, n : i = task[p].ino /\ d = task[p].dir /\ n = task[p].name
    OBVIOUS
  <2>2. i \in Inos /\ Fresh(i) /\ d \in Inos /\ CountedNames(i) = {<<d, n>>}
        /\ n \in Names /\ entry[d][n] = None /\ IsDir(i) /\ i \in bitmap
    BY <1>1, <2>1, FreshDir
  <2>3. dotdot'[i] = d /\ \A c \in Inos \ {i} : dotdot'[c] = dotdot[c]
    BY <1>0, <1>4, <2>1, <2>2 DEF Parents
  <2>4. \A q \in Procs \ {p} : ~Uses(q, i)
    BY <1>1, <2>1, FreshAlone
  <2>5. task'[p].pc = "addLink" /\ task'[p].op = "mkdir" /\ task'[p].ino = i /\ task'[p].dir = d
    BY <1>0, <1>1, <1>4, <2>1 DEF Goto, TaskRec
  <2>6. TreeOf(p)'
    BY <2>3, <2>5 DEF TreeOf, TwoDirs
  <2>7. ~Settled(i)
    BY <2>2 DEF Settled
  <2> QED
    BY <1>1, <1>2, <2>3, <2>4, <2>6, <2>7, PlainTree
<1> QED
  BY <1>3, <1>4 DEF ext2_make_empty

\* The entry a call has written.
LEMMA WrittenName ==
    ASSUME Inv, NEW p \in Procs, task[p].pc \in InBody, NEW v, entry' = WithName(p, v)
    PROVE  \A e \in Inos, n \in Names :
             entry'[e][n] = IF e = task[p].dir /\ n = task[p].name THEN v ELSE entry[e][n]
BY BodyFacts DEF WithName, Inv, Base, TreeTypes

(* create, link, and a mkdir that fails.                                   *)
LEMMA TreeAddLink ==
    ASSUME Inv, Inv', TreeInv, NEW p \in Procs, Step(p), ext2_add_link(p),
           ~(task[p].op = "mkdir" /\ AddLinkOk(p) /\ node' = node)
    PROVE  TreeInv'
<1>0. /\ task[p].pc = "addLink" /\ task'[p] = Idle /\ dotdot' = dotdot /\ ~SyncErrors
      /\ IsDir(task[p].ino) <=> task[p].op = "mkdir"
  BY ReturnIdle DEF ext2_add_link, Inv, PlaceInv, PlaceOf
<1>1. CASE AddLinkOk(p) /\ node' = node
  <2>1. dparent' = dparent /\ entry' = WithName(p, task[p].ino)
    BY <1>1 DEF AddLinkOk
  <2>2. \A e \in Inos, n \in Names :
          entry'[e][n] = entry[e][n] \/ entry'[e][n] = task[p].ino
    BY <1>0, <2>1, WrittenName DEF InBody
  <2>3. NamesMoveBy({p})
    BY <1>0, <1>1, <2>2 DEF NamesMoveBy, Leaving, IsDir
  <2> QED
    BY <1>0, <1>1, <2>1, <2>3, IdleTree, PlainTree
<1>2. CASE AddLinkFails(p)
  <2>1. dparent' = dparent /\ entry' = entry
    BY <1>0, <1>2 DEF AddLinkFails
  <2>2. NamesMoveBy({p})
    BY <1>0, <2>1, NamesKept DEF Leaving
  <2> QED
    BY <1>0, <2>1, <2>2, IdleTree, PlainTree
<1> QED
  BY <1>1, <1>2 DEF ext2_add_link

(* A new directory hangs below its parent.                                 *)
LEMMA TreeMkdir ==
    ASSUME Inv, Inv', TreeInv, NEW p \in Procs, Step(p), ext2_add_link(p),
           task[p].op = "mkdir", AddLinkOk(p), node' = node
    PROVE  TreeInv'
<1>0. PICK i, d, n : i = task[p].ino /\ d = task[p].dir /\ n = task[p].name
  OBVIOUS
<1>1. task[p].pc = "addLink" /\ task'[p] = Idle /\ dotdot' = dotdot
  BY ReturnIdle DEF ext2_add_link
<1>2. i \in Inos \ {Root} /\ d \in Inos /\ Fresh(i) /\ ~Settled(i)
  BY <1>0, <1>1, FreshDir DEF Settled
<1>3. dparent \in Parents /\ dparent' \in Parents /\ dotdot[i] = d
  BY <1>0, <1>1 DEF Inv, Base, TreeTypes, Parents, TreeInv, TreeOf
<1>4. dparent' = [dparent EXCEPT ![i] = d] /\ entry' = WithName(p, i)
  BY <1>0 DEF AddLinkOk
<1>5. dparent'[i] = d /\ \A c \in Inos \ {i} : dparent'[c] = dparent[c]
  BY <1>2, <1>3, <1>4 DEF Parents
<1>6. \A c \in Inos : Settled(c)' => Settled(c) \/ c = i
  BY <1>0, SettledStep
<1>7. SettledStay
  BY <1>1, <1>2, <1>5, <1>6 DEF SettledStay
<1>8. Bystanders({p})
  BY <1>0, <1>1, <1>2, <1>5, OnlyCaller, MutexStep, FreshAlone DEF Bystanders
<1>9. \A q \in Procs : TreeOf(q)'
  <2>1. \A c \in bitmap : IsDir(c)' => IsDir(c)
    BY TypesStep
  <2>2. [Next]_vars
    BY DEF Next
  <2>3. \A q \in Procs \ {p} : TreeOf(q)'
    BY <1>7, <1>8, <2>1, <2>2, OthersTree
  <2> QED
    BY <1>1, <2>3, IdleTree
<1>10. DotInv'
  BY <1>1, <1>3, <1>5, <1>6 DEF TreeInv, DotInv
<1>11. ReachInv'
  <2>1. \A c \in Inos : Settled(c) => Root \in Upwards(dparent', c)
    BY <1>7, TreeFrame DEF TreeInv, ReachInv
  <2>2. Settled(d)
    BY <1>0, <1>1, BodyFacts DEF Settled, InBody
  <2>3. d \in Upwards(dparent', i) /\ Closed(dparent', Upwards(dparent', i))
        /\ Upwards(dparent', i) \in SUBSET Inos
    <3>1. i \in Upwards(dparent', i)
      BY <1>2, UpSelf
    <3>2. Closed(dparent', Upwards(dparent', i)) /\ Upwards(dparent', i) \in SUBSET Inos
      BY <1>2, <1>3, UpClosed
    <3> QED
      BY <1>2, <1>5, <3>1, <3>2, ConstantsOK DEF Closed
  <2>4. Upwards(dparent', d) \subseteq Upwards(dparent', i)
    BY <2>3, UpLeast
  <2> QED
    BY <1>2, <1>6, <2>1, <2>2, <2>4 DEF ReachInv
<1>12. HomeInv'
  <2> SUFFICES ASSUME NEW e \in Inos, NEW m \in Names, NEW c \in Inos,
                      entry'[e][m] = c, IsDir(c)'
               PROVE  \/ dparent'[c] = e
                      \/ \E q \in Procs : Leaving(q)' /\ task'[q].dir = e /\ task'[q].name = m
    BY DEF HomeInv
  <2>1. entry'[e][m] = IF e = d /\ m = n THEN i ELSE entry[e][m]
    BY <1>0, <1>1, <1>4, WrittenName DEF InBody
  <2>2. CASE e = d /\ m = n
    BY <1>5, <2>1, <2>2
  <2>3. CASE ~(e = d /\ m = n)
    <3>1. entry[e][m] = c /\ IsDir(c)
      BY <2>1, <2>3 DEF IsDir
    <3>2. Settled(c) /\ dparent'[c] = dparent[c]
      BY <1>2, <1>5, <3>1, NamedSettled
    <3>3. \A q \in Procs : Leaving(q) =>
            Leaving(q)' /\ task'[q].dir = task[q].dir /\ task'[q].name = task[q].name
      BY <1>1, <1>8 DEF Bystanders, Leaving
    <3> QED
      BY <3>1, <3>2, <3>3 DEF TreeInv, HomeInv
  <2> QED
    BY <2>2, <2>3
<1> QED
  BY <1>9, <1>10, <1>11, <1>12 DEF TreeInv

(* unlink and rmdir.                                                       *)
LEMMA TreeUnlink ==
    ASSUME Inv, Inv', TreeInv, NEW p \in Procs, Step(p), ext2_delete_entry(p) \/ UnlinkDec(p)
    PROVE  TreeInv'
<1>0. task[p] \in TaskRec /\ CallTypes
  BY DEF Inv, Base, CallTypes
<1>1. /\ dparent' = dparent /\ dotdot' = dotdot
      /\ task[p].op \in {"unlink", "rmdir"} /\ task[p].pc \in {"body", "dec"}
      /\ ~Leaving(p) /\ ~ext2_add_link(p)
  BY DEF ext2_delete_entry, UnlinkDec, Leaving, ext2_add_link
<1>2. PICK d, n, g : d = task[p].dir /\ n = task[p].name /\ g = task[p].tgt
  OBVIOUS
<1>3. d \in Inos /\ imutex[d] = p /\ n \in Names /\ (g # None => g \in Inos)
  BY <1>1, <1>2, BodyFacts DEF InBody
<1>4. NamesMoveBy({p})
  <2>1. CASE entry' = entry
    BY <1>1, <2>1, NamesKept
  <2>2. CASE entry' = WithName(p, None)
    <3>1. \A e \in Inos, m \in Names : entry'[e][m] = entry[e][m] \/ entry'[e][m] = None
      BY <1>1, <2>2, WrittenName DEF InBody
    <3> QED
      BY <1>1, <3>1, ConstantsOK DEF NamesMoveBy
  <2> QED
    BY <2>1, <2>2 DEF ext2_delete_entry, UnlinkDec
<1>5. CASE Return(p)
  BY <1>1, <1>4, <1>5, ReturnIdle, IdleTree, PlainTree
<1>6. CASE ext2_delete_entry(p) /\ Goto(p, "dec")
  <2>1. Goes(p, "dec") /\ task[p].pc = "body"
    BY <1>0, <1>6, GotoStep DEF Pcs, ext2_delete_entry
  <2>2. /\ task'[p].pc = "dec" /\ task'[p].op = task[p].op
        /\ task'[p].dir = d /\ task'[p].tgt = g
    BY <1>2, <2>1 DEF Goes, GoesWith, SameCall
  <2>3. g # None => entry[d][n] = g /\ g \in bitmap
    BY <1>1, <1>2, <2>1, BodyFacts DEF Inv, PlaceInv, PlaceOf, Found, InBody
  <2>4. g # None /\ IsDir(g) => dparent[g] = d
    BY <1>1, <1>3, <2>3, LockedHome
  <2>5. g # None /\ IsDir(g)' => IsDir(g)
    BY <2>3, TypesStep
  <2>6. TreeOf(p)'
    BY <1>1, <2>2, <2>4, <2>5 DEF TreeOf, TwoDirs
  <2> QED
    BY <1>1, <1>4, <2>6, PlainTree
<1> QED
  BY <1>5, <1>6 DEF ext2_delete_entry, UnlinkDec

(* A rename up to the point where the old name goes.                       *)
LEMMA TreeRename ==
    ASSUME Inv, Inv', TreeInv, NEW p \in Procs, Step(p),
           RenameAdd(p) \/ RenameOver(p) \/ RenameDec(p)
    PROVE  TreeInv'
<1>0. task[p] \in TaskRec /\ CallTypes /\ ~SyncErrors
  BY DEF Inv, Base, CallTypes
<1>1. /\ dparent' = dparent /\ dotdot' = dotdot /\ ~ext2_add_link(p)
      /\ task[p].op = "rename" /\ task[p].pc \in {"body", "dec"}
  BY <1>0 DEF RenameAdd, RenameOver, RenameDec, AddLinkFails, ext2_add_link
<1>2. PICK d, n, f, m, i, g :
        /\ d = task[p].dir /\ n = task[p].name /\ f = task[p].from
        /\ m = task[p].fname /\ i = task[p].ino /\ g = task[p].tgt
  OBVIOUS
<1>3. /\ d \in Inos /\ n \in Names /\ imutex[d] = p /\ i \in Inos /\ i \in bitmap
      /\ g # None => g \in Inos /\ g \in bitmap /\ g # d /\ (IsDir(g) <=> IsDir(i))
      /\ g # None => imutex[g] = p
      /\ entry[d][n] = IF task[p].pc = "dec" THEN i ELSE g
      /\ task[p].pc = "dec" => g # None /\ (IsDir(g) => entry[g] = Empty)
  BY <1>1, <1>2, RenameFacts DEF InBody
<1>4. CASE Return(p)
  <2>1. entry' = entry /\ task[p].pc = "body"
    <3>1. task'[p].pc = "idle"
      BY <1>4, ReturnIdle DEF Idle
    <3>2. \A pc \in Pcs : Goto(p, pc) => task'[p].pc = pc
      BY <1>0, GotoStep DEF Goes, GoesWith
    <3> QED
      BY <1>0, <3>1, <3>2 DEF RenameAdd, RenameOver, RenameDec, AddLinkFails, Pcs
  <2>2. NamesMoveBy({p})
    BY <2>1, NamesKept DEF Leaving
  <2> QED
    BY <1>1, <1>4, <2>2, ReturnIdle, IdleTree, PlainTree
<1>5. ASSUME NEW pc \in {"dec", "delOld"}, Goto(p, pc)
      PROVE  TreeInv'
  <2>1. Goes(p, pc)
    BY <1>0, <1>5, GotoStep DEF Pcs
  <2>2. /\ task'[p].pc = pc /\ task'[p].op = "rename" /\ task'[p].dir = d /\ task'[p].name = n
        /\ task'[p].from = f /\ task'[p].ino = i /\ task'[p].tgt = g
    BY <1>1, <1>2, <2>1 DEF Goes, GoesWith, SameCall
  <2>3. ~Return(p)
    BY <2>2, ReturnIdle DEF Idle
  <2>4. \/ RenameAdd(p) /\ g = None /\ entry' = WithName(p, i)
        \/ RenameOver(p) /\ task[p].pc = "body" /\ pc = "dec" /\ entry' = WithName(p, i)
        \/ RenameDec(p) /\ task[p].pc = "dec" /\ entry' = entry
    <3>1. RenameOver(p) => Goto(p, "dec")
      BY <2>3 DEF RenameOver
    <3>2. Goto(p, "dec") => pc = "dec"
      BY <1>0, <2>2, GotoStep DEF Goes, GoesWith, Pcs
    <3> QED
      BY <1>2, <2>3, <3>1, <3>2 DEF RenameAdd, RenameOver, RenameDec
  <2>5. NamesMoveBy({p})
    <3>1. Leaving(p)' /\ task'[p].dir = d /\ task'[p].name = n
      BY <1>5, <2>2 DEF Leaving
    <3>2. \A e \in Inos, a \in Names : entry'[e][a] = entry[e][a] \/ (e = d /\ a = n)
      BY <1>1, <1>2, <2>4, WrittenName DEF InBody
    <3> QED
      BY <1>2, <3>1, <3>2 DEF NamesMoveBy
  <2>6. \A k \in {i, g} : k # None /\ IsDir(k)' => IsDir(k)
    BY <1>3, TypesStep
  <2>7. g # None /\ IsDir(g) => dparent[g] = d
    <3>1. CASE task[p].pc = "body"
      <4>1. ~Leaving(p)
        BY <3>1 DEF Leaving
      <4> QED
        BY <1>3, <3>1, <4>1, LockedHome
    <3>2. CASE task[p].pc = "dec"
      BY <1>2, <3>2 DEF TreeInv, TreeOf
    <3> QED
      BY <1>1, <3>1, <3>2
  <2>8. ASSUME g # None, IsDir(g), pc = "delOld"
        PROVE  node'[g].nlink <= 0
    <3>1. RenameDec(p) /\ task[p].pc = "dec"
      BY <2>4, <2>8
    <3>2. Counts(d, n, g)
      BY <1>2, <3>1 DEF Counts, Pending
    <3>3. LiveDir(g)
      BY <1>3, <2>8, <3>2, OneName
    <3>4. Cardinality(CountedDirs(g)) = 0
      BY <1>2, <1>3, <2>8, <3>1, NoSubs
    <3>5. node[g].nlink = 2 /\ node[g] \in NodeRec /\ node \in [Inos -> NodeRec]
      BY <1>3, <2>8, <3>3, <3>4 DEF LiveDir, Inv, Base, TreeTypes
    <3>6. node' = [node EXCEPT ![g].nlink = @ - 2]
      BY <1>2, <1>3, <2>8, <3>1 DEF RenameDec, Moving
    <3>7. node'[g].nlink = node[g].nlink - 2
      BY <1>3, <2>8, <3>5, <3>6 DEF NodeRec
    <3> QED
      BY <3>5, <3>7
  <2>9. TwoDirs(p) => renameMutex' = p /\ (IsDir(i) => i \notin Upwards(dparent, d))
    <3>1. renameMutex' = renameMutex
      BY <2>3 DEF RenameAdd, RenameOver, RenameDec, locks
    <3>2. TwoDirs(p) => renameMutex = p /\ (IsDir(i) => i \notin Upwards(dparent, d))
      BY <1>1, <1>2 DEF TreeInv, TreeOf, Found, InBody
    <3> QED
      BY <3>1, <3>2
  <2>10. TwoDirs(p)' => TwoDirs(p)
    BY <1>1, <1>2, <2>2 DEF TwoDirs
  <2>11. TreeOf(p)'
    BY <1>1, <1>3, <1>5, <2>2, <2>6, <2>7, <2>8, <2>9, <2>10, ConstantsOK DEF TreeOf
  <2> QED
    BY <1>1, <2>5, <2>11, PlainTree
<1> QED
  BY <1>4, <1>5 DEF RenameAdd, RenameOver, RenameDec

(* The last step of a rename: what it does to the tree.                    *)
LEMMA DelOldFacts ==
    ASSUME Inv, TreeInv, NEW p \in Procs, RenameDelOld(p),
           NEW d, d = task[p].dir, NEW n, n = task[p].name,
           NEW f, f = task[p].from, NEW m, m = task[p].fname,
           NEW i, i = task[p].ino, NEW g, g = task[p].tgt
    PROVE  /\ d \in Inos /\ n \in Names /\ f \in Inos /\ m \in Names /\ i \in Inos /\ i # g
           /\ task[p].op = "rename" /\ task[p].pc = "delOld" /\ task[p].pc \in InBody
           /\ task[p].pc \in Found
           /\ task'[p] = Idle /\ imutex[d] = p /\ entry[d][n] = i /\ i # None
           /\ d = f => n # m
           /\ \A e \in Inos, x \in Names :
                entry'[e][x] = IF e = f /\ x = m THEN None ELSE entry[e][x]
           /\ IF IsDir(i)
                THEN /\ Settled(i) /\ i # Root /\ dparent[i] = f
                     /\ dparent'[i] = d /\ dotdot'[i] = d
                     /\ \A c \in Inos \ {i} : dotdot'[c] = dotdot[c]
                     /\ \A c \in Inos \ {i, g} : dparent'[c] = dparent[c]
                     /\ g # None => /\ g \in Inos /\ imutex[g] = p /\ ~Settled(g)
                                    /\ dparent[g] = d /\ dparent'[g] = f
                ELSE dparent' = dparent /\ dotdot' = dotdot
<1>0. /\ task[p].op = "rename" /\ task[p].pc = "delOld" /\ task[p].pc \in InBody
      /\ task[p].pc \in Found /\ task'[p] = Idle
  BY ReturnIdle DEF RenameDelOld, InBody, Found, Inv, PlaceInv, PlaceOf
<1>1. /\ d \in Inos /\ n \in Names /\ f \in Inos /\ m \in Names /\ i \in Inos
      /\ imutex[d] = p /\ i # None /\ i # g /\ entry[d][n] = i
      /\ d = f => n # m
      /\ g # None => g \in Inos /\ imutex[g] = p /\ (IsDir(g) <=> IsDir(i))
  BY <1>0, RenameFacts
<1>2. entry' = [entry EXCEPT ![f][m] = None] /\ entry \in [Inos -> [Names -> Inos \cup {None}]]
  BY DEF RenameDelOld, Inv, Base, TreeTypes
<1>3. \A e \in Inos, x \in Names :
        entry'[e][x] = IF e = f /\ x = m THEN None ELSE entry[e][x]
  BY <1>1, <1>2
<1>4. CASE IsDir(i)
  <2>1. dotdot' = [dotdot EXCEPT ![i] = d] /\ dparent' = d_move(task[p])
        /\ dotdot \in [Inos -> Inos \cup {None}]
    BY <1>4 DEF RenameDelOld, Moving, Inv, Base, TreeTypes
  <2>2. dotdot'[i] = d /\ \A c \in Inos \ {i} : dotdot'[c] = dotdot[c]
    BY <1>1, <2>1
  <2>3. dparent' = [c \in Inos |-> CASE c = i -> d [] c = g -> f [] OTHER -> dparent[c]]
    BY <2>1 DEF d_move
  <2>4. /\ dparent'[i] = d /\ \A c \in Inos \ {i, g} : dparent'[c] = dparent[c]
        /\ g # None => dparent'[g] = f
    BY <1>1, <2>3
  <2>5. Settled(i) /\ i # Root /\ dparent[i] = f
    BY <1>0, <1>4, SourceHome
  <2>6. g # None => dparent[g] = d /\ node[g].nlink <= 0
    BY <1>0, <1>1, <1>4 DEF TreeInv, TreeOf
  <2>7. g # None => ~Settled(g)
    <3> SUFFICES ASSUME g # None, Settled(g)
                 PROVE  FALSE
      OBVIOUS
    <3>1. node[g].nlink \in Int /\ node[g].nlink > 0
      BY <1>1 DEF Settled, Inv, Base, TreeTypes, NodeRec
    <3> QED
      BY <2>6, <3>1
  <2> QED
    BY <1>0, <1>1, <1>3, <1>4, <2>2, <2>4, <2>5, <2>6, <2>7
<1>5. CASE ~IsDir(i)
  <2>1. dparent' = dparent /\ dotdot' = dotdot
    BY <1>5 DEF RenameDelOld, Moving
  <2> QED
    BY <1>0, <1>1, <1>3, <1>5, <2>1
<1> QED
  BY <1>4, <1>5

\* Nobody counts or leaves the new name of a directory that is moving but
\* the rename that moves it.
LEMMA MovedName ==
    ASSUME Inv, NEW p \in Procs, Leaving(p), NEW i, i = task[p].ino,
           NEW d, d = task[p].dir, NEW n, n = task[p].name
    PROVE  i \in Inos /\ d \in Inos /\ n \in Names /\ imutex[d] = p /\ Counts(d, n, i)
<1>1. task[p].op = "rename" /\ task[p].pc \in {"dec", "delOld"} /\ task[p].pc \in InBody
  BY DEF Leaving, InBody
<1>2. /\ i \in Inos /\ d \in Inos /\ n \in Names /\ imutex[d] = p /\ entry[d][n] = i
      /\ d = task[p].from => n # task[p].fname
  BY <1>1, RenameFacts
<1>3. ASSUME NEW q \in Procs, Leaving(q), task[q].from = d, task[q].fname = n
      PROVE  FALSE
  <2>1. q # p
    BY <1>2, <1>3
  <2>2. imutex[task[q].from] = q
    BY <1>3, BodyFacts DEF Leaving, InBody
  <2> QED
    BY <1>2, <1>3, <2>1, <2>2
<1> QED
  BY <1>2, <1>3 DEF Counts

\* A directory that has got its new name has no other but the old one.
LEMMA OnlyNewName ==
    ASSUME Inv, NEW p \in Procs, Leaving(p), NEW i, i = task[p].ino, IsDir(i),
           NEW e \in Inos, NEW x \in Names, entry[e][x] = i,
           ~(e = task[p].from /\ x = task[p].fname)
    PROVE  e = task[p].dir /\ x = task[p].name
<1>0. PICK d, n : d = task[p].dir /\ n = task[p].name
  OBVIOUS
<1>1. i \in Inos /\ d \in Inos /\ n \in Names /\ imutex[d] = p /\ Counts(d, n, i)
  BY <1>0, MovedName
<1>2. i \in bitmap
  BY <1>1, ConstantsOK DEF Inv, FreeInv, FreedUnreachable
<1>3. CountedNames(i) = {<<d, n>>}
  BY <1>1, <1>2, OneName
<1>4. ASSUME NEW q \in Procs, Leaving(q), task[q].from = e, task[q].fname = x
      PROVE  FALSE
  <2>1. q # p
    BY <1>4
  <2>2. PICK a, b, k : a = task[q].dir /\ b = task[q].name /\ k = task[q].ino
    OBVIOUS
  <2>3. a \in Inos /\ b \in Names /\ imutex[a] = q /\ Counts(a, b, k)
    BY <1>4, <2>2, MovedName
  <2>4. k = i
    <3>1. task[q].op = "rename" /\ task[q].pc \in InBody
      BY <1>4 DEF Leaving, InBody
    <3>2. entry[e][x] = k
      BY <1>4, <2>2, <3>1, RenameFacts
    <3> QED
      BY <3>2
  <2>5. <<a, b>> \in CountedNames(i)
    BY <2>3, <2>4 DEF CountedNames
  <2>6. a = d
    BY <1>3, <2>5
  <2> QED
    BY <1>1, <2>1, <2>3, <2>6
<1>5. Counts(e, x, i)
  BY <1>4 DEF Counts
<1>6. <<e, x>> \in CountedNames(i)
  BY <1>5 DEF CountedNames
<1> QED
  BY <1>0, <1>3, <1>6

LEMMA HomeDelOld ==
    ASSUME Inv, Inv', TreeInv, NEW p \in Procs, Step(p), RenameDelOld(p)
    PROVE  HomeInv'
<1>0. PICK d, n, f, m, i, g :
        /\ d = task[p].dir /\ n = task[p].name /\ f = task[p].from
        /\ m = task[p].fname /\ i = task[p].ino /\ g = task[p].tgt
  OBVIOUS
<1>1. /\ Leaving(p) /\ entry[d][n] = i
      /\ \A e \in Inos, x \in Names :
           entry'[e][x] = IF e = f /\ x = m THEN None ELSE entry[e][x]
  BY <1>0, DelOldFacts DEF Leaving
<1>2. IsDir(i) => dparent'[i] = d
  BY <1>0, DelOldFacts
<1>3. \A c \in Inos \ {i} : Settled(c) => dparent'[c] = dparent[c]
  <2>1. CASE IsDir(i)
    <3>1. \A c \in Inos \ {i, g} : dparent'[c] = dparent[c]
      BY <1>0, <2>1, DelOldFacts
    <3>2. g # None => ~Settled(g)
      BY <1>0, <2>1, DelOldFacts
    <3> QED
      BY <3>1, <3>2, ConstantsOK
  <2>2. CASE ~IsDir(i)
    BY <1>0, <2>2, DelOldFacts
  <2> QED
    BY <2>1, <2>2
<1> SUFFICES ASSUME NEW e \in Inos, NEW x \in Names, NEW c \in Inos,
                    entry'[e][x] = c, IsDir(c)'
             PROVE  \/ dparent'[c] = e
                    \/ \E q \in Procs : Leaving(q)' /\ task'[q].dir = e /\ task'[q].name = x
  BY DEF HomeInv
<1>4. entry[e][x] = c /\ ~(e = f /\ x = m)
  BY <1>1, ConstantsOK
<1>5. c \in bitmap
  BY <1>4, ConstantsOK DEF Inv, FreeInv, FreedUnreachable
<1>6. IsDir(c) /\ Settled(c)
  BY <1>4, <1>5, TypesStep, NamedSettled
<1>7. CASE c = i
  BY <1>0, <1>1, <1>2, <1>4, <1>6, <1>7, OnlyNewName
<1>8. CASE c # i
  <2>1. dparent'[c] = dparent[c]
    BY <1>3, <1>6, <1>8
  <2>2. ASSUME NEW q \in Procs, Leaving(q), task[q].dir = e, task[q].name = x
        PROVE  Leaving(q)' /\ task'[q].dir = e /\ task'[q].name = x
    <3>1. q # p
      BY <1>0, <1>1, <1>4, <1>8, <2>2
    <3>2. task'[q] = task[q]
      BY <3>1, OnlyCaller
    <3> QED
      BY <2>2, <3>2 DEF Leaving
  <2> QED
    BY <1>4, <1>6, <2>1, <2>2 DEF TreeInv, HomeInv
<1> QED
  BY <1>7, <1>8

\* No other call depends on the parent of a directory that is moving.
LEMMA MovedAlone ==
    ASSUME Inv, TreeInv, NEW p \in Procs, Leaving(p), NEW i, i = task[p].ino, IsDir(i),
           Settled(i), NEW q \in Procs \ {p}
    PROVE  ~Uses(q, i)
<1>0. PICK d, n : d = task[p].dir /\ n = task[p].name
  OBVIOUS
<1>1. i \in Inos /\ d \in Inos /\ n \in Names /\ imutex[d] = p /\ Counts(d, n, i)
  BY <1>0, MovedName
<1>2. CountedNames(i) = {<<d, n>>} /\ node[i].nlink \in Int /\ node[i].nlink > 0 /\ i # None
  BY <1>1, OneName, ConstantsOK DEF Settled, Inv, Base, TreeTypes, NodeRec
<1>3. CASE task[q].pc = "dec" /\ task[q].tgt = i
  <2>1. PICK a, b : a = task[q].dir /\ b = task[q].name
    OBVIOUS
  <2>2. a \in Inos /\ b \in Names /\ imutex[a] = q
    BY <1>3, <2>1, BodyFacts DEF InBody
  <2>3. Counts(a, b, i)
    BY <1>3, <2>1 DEF Counts, Pending
  <2>4. <<a, b>> \in CountedNames(i)
    BY <2>2, <2>3 DEF CountedNames
  <2>5. a = d
    BY <1>2, <2>4
  <2> QED
    BY <1>1, <2>2, <2>5
<1>4. CASE task[q].pc = "delOld" /\ task[q].tgt = i
  <2>1. node[i].nlink <= 0
    BY <1>2, <1>4 DEF TreeInv, TreeOf
  <2> QED
    BY <1>2, <2>1
<1>5. CASE task[q].op = "mkdir" /\ task[q].pc = "addLink" /\ task[q].ino = i
  BY <1>5 DEF Settled, Fresh
<1> QED
  BY <1>3, <1>4, <1>5 DEF Uses

(* A rename within a directory, or of a file, leaves the tree as it is.    *)
LEMMA TreeSettles ==
    ASSUME Inv, Inv', TreeInv, NEW p \in Procs, Step(p), RenameDelOld(p),
           ~(IsDir(task[p].ino) /\ TwoDirs(p))
    PROVE  TreeInv'
<1>0. PICK d, n, f, m, i, g :
        /\ d = task[p].dir /\ n = task[p].name /\ f = task[p].from
        /\ m = task[p].fname /\ i = task[p].ino /\ g = task[p].tgt
  OBVIOUS
<1>1. task'[p] = Idle /\ task[p].op = "rename" /\ task[p].pc = "delOld" /\ i \in Inos
  BY <1>0, DelOldFacts
<1>2. \A c \in Inos : dparent'[c] = dparent[c] /\ dotdot'[c] = dotdot[c]
  <2>1. CASE IsDir(i)
    <3>1. d = f
      BY <1>0, <1>1, <2>1 DEF TwoDirs
    <3>2. /\ Settled(i) /\ i # Root /\ dparent[i] = f /\ dparent'[i] = d /\ dotdot'[i] = d
          /\ \A c \in Inos \ {i} : dotdot'[c] = dotdot[c]
          /\ \A c \in Inos \ {i, g} : dparent'[c] = dparent[c]
          /\ g # None => dparent[g] = d /\ dparent'[g] = f
      BY <1>0, <2>1, DelOldFacts
    <3>3. dotdot[i] = dparent[i]
      BY <1>1, <3>2 DEF TreeInv, DotInv
    <3> QED
      BY <3>1, <3>2, <3>3, ConstantsOK
  <2>2. CASE ~IsDir(i)
    BY <1>0, <2>2, DelOldFacts
  <2> QED
    BY <2>1, <2>2
<1>3. \A c \in Inos : Settled(c)' => Settled(c)
  BY <1>1, SettledStep DEF ext2_add_link
<1>4. SettledStay /\ Bystanders({p})
  BY <1>2, <1>3, OnlyCaller, MutexStep DEF SettledStay, Bystanders
<1>5. \A q \in Procs : TreeOf(q)'
  <2>1. \A c \in bitmap : IsDir(c)' => IsDir(c)
    BY TypesStep
  <2>2. [Next]_vars
    BY DEF Next
  <2>3. \A q \in Procs \ {p} : TreeOf(q)'
    BY <1>4, <2>1, <2>2, OthersTree
  <2> QED
    BY <1>1, <2>3, IdleTree
<1>6. DotInv'
  BY <1>2, <1>3 DEF TreeInv, DotInv
<1>7. ReachInv'
  BY <1>3, <1>4, TreeFrame DEF TreeInv, ReachInv
<1> QED
  BY <1>5, <1>6, <1>7, HomeDelOld DEF TreeInv

(* A directory that moves from one directory to another is not moved below *)
(* itself, since no other rename has changed the way up since lock_rename  *)
(* looked: the renames between directories exclude each other.             *)
LEMMA TreeMoves ==
    ASSUME Inv, Inv', TreeInv, NEW p \in Procs, Step(p), RenameDelOld(p),
           IsDir(task[p].ino), TwoDirs(p)
    PROVE  TreeInv'
<1>0. PICK d, n, f, m, i, g :
        /\ d = task[p].dir /\ n = task[p].name /\ f = task[p].from
        /\ m = task[p].fname /\ i = task[p].ino /\ g = task[p].tgt
  OBVIOUS
<1>1. /\ task'[p] = Idle /\ task[p].op = "rename" /\ task[p].pc = "delOld"
      /\ task[p].pc \in InBody /\ task[p].pc \in Found
      /\ i \in Inos /\ d \in Inos /\ Leaving(p)
  BY <1>0, DelOldFacts DEF Leaving
<1>2. /\ Settled(i) /\ i # Root /\ dparent'[i] = d /\ dotdot'[i] = d
      /\ \A c \in Inos \ {i} : dotdot'[c] = dotdot[c]
      /\ \A c \in Inos \ {i, g} : dparent'[c] = dparent[c]
      /\ g # None => g \in Inos /\ imutex[g] = p /\ ~Settled(g)
  BY <1>0, DelOldFacts
<1>3. \A c \in Inos : Settled(c)' => Settled(c)
  BY <1>1, SettledStep DEF ext2_add_link
<1>4. \A c \in Inos \ {i} : Settled(c) => dparent'[c] = dparent[c]
  BY <1>2, ConstantsOK
<1>5. renameMutex = p /\ i \notin Upwards(dparent, d)
  BY <1>0, <1>1 DEF TreeInv, TreeOf
<1>6. ASSUME NEW q \in Procs \ {p}
      PROVE  TreeOf(q)'
  <2>1. PICK t : t = task[q]
    OBVIOUS
  <2>2. task'[q] = t /\ TreeOf(q) /\ t \in TaskRec
    BY <2>1, OnlyCaller DEF TreeInv, Inv, Base, CallTypes
  <2>3. TwoDirs(q) => t.pc \in {"idle", "lock"}
    BY <1>5, <2>1, <2>2 DEF TreeOf
  <2>4. (TwoDirs(q)' <=> TwoDirs(q)) /\ {"idle", "lock"} \cap Found = {}
    BY <2>1, <2>2 DEF TwoDirs, Found, InBody
  <2>5. t.pc \in {"dirFirst", "fromFirst", "second", "lookup"} => TrapOf(q)'
    BY <2>3, <2>4 DEF TrapOf
  <2>6. ~Uses(q, i)
    BY <1>0, <1>1, <1>2, MovedAlone
  <2>7. ASSUME t.pc \in {"dec", "delOld"}, t.tgt # None, IsDir(t.tgt)'
        PROVE  /\ dparent'[t.tgt] = t.dir
               /\ t.pc = "delOld" => node'[t.tgt].nlink <= 0
    <3>1. t.tgt \in bitmap /\ t.tgt \in Inos /\ imutex[t.tgt] = q
      BY <2>1, <2>7, BodyFacts DEF InBody
    <3>2. t.tgt # i /\ t.tgt # g
      BY <1>2, <2>1, <2>6, <2>7, <3>1 DEF Uses
    <3>3. dparent'[t.tgt] = dparent[t.tgt] /\ IsDir(t.tgt)
      BY <1>2, <2>7, <3>1, <3>2, TypesStep
    <3>4. dparent[t.tgt] = t.dir /\ (t.pc = "delOld" => node[t.tgt].nlink <= 0)
      BY <2>1, <2>2, <2>7, <3>3 DEF TreeOf
    <3>5. ASSUME t.pc = "delOld"
          PROVE  node'[t.tgt].nlink <= 0
      <4>1. node[t.tgt].nlink \in 0..LinkMax
        BY <3>1, NlinkRange
      <4>2. node[t.tgt].nlink = 0
        BY <3>4, <3>5, <4>1, ConstantsOK
      <4>3. t.tgt \in bitmap' /\ [Next]_vars
        BY <3>1, TypesStep DEF Next
      <4> QED
        BY <3>1, <4>2, <4>3, NeverRevived
    <3> QED
      BY <3>3, <3>4, <3>5
  <2>8. t.op = "mkdir" /\ t.pc = "addLink" => dotdot'[t.ino] = t.dir
    <3> SUFFICES ASSUME t.op = "mkdir", t.pc = "addLink"
                 PROVE  dotdot'[t.ino] = t.dir
      OBVIOUS
    <3>1. t.ino \in Inos /\ t.ino # i
      BY <2>1, <2>2, <2>6 DEF Inv, PlaceInv, PlaceOf, TaskRec, Uses
    <3> QED
      BY <1>2, <2>1, <2>2, <3>1 DEF TreeOf
  <2> QED
    BY <2>2, <2>3, <2>4, <2>5, <2>7, <2>8 DEF TreeOf
<1>7. DotInv'
  BY <1>2, <1>3, <1>4 DEF TreeInv, DotInv
<1>8. ReachInv'
  <2> SUFFICES ASSUME NEW x \in Inos, Settled(x)
               PROVE  Root \in Upwards(dparent', x)
    BY <1>3 DEF ReachInv
  <2>1. PICK P, Q, S : P = dparent /\ Q = dparent' /\ S = SettledDirs
    OBVIOUS
  <2>2. P \in Parents /\ Q \in Parents /\ S \in SUBSET Inos /\ Closed(P, S)
    <3>1. dparent' \in Parents
      BY DEF Inv, Base, TreeTypes, Parents
    <3> QED
      BY <2>1, <3>1, SettledClosed
  <2>3. Settled(d)
    BY <1>0, <1>1, BodyFacts DEF Settled
  <2>4. i \in S \ {Root} /\ d \in S /\ x \in S
    BY <1>1, <1>2, <2>1, <2>3 DEF SettledDirs
  <2>5. (\A c \in S \ {i} : Q[c] = P[c]) /\ Q[i] = d
    BY <1>2, <1>4, <2>1 DEF SettledDirs
  <2>6. Root \in Upwards(P, d) /\ Root \in Upwards(P, x) /\ i \notin Upwards(P, d)
    BY <1>1, <1>5, <2>1, <2>3 DEF TreeInv, ReachInv
  <2>7. Root \in Upwards(Q, x)
    BY <2>2, <2>4, <2>5, <2>6, MoveKeepsWay
  <2> QED
    BY <2>1, <2>7
<1> QED
  BY <1>1, <1>6, <1>7, <1>8, HomeDelOld, IdleTree DEF TreeInv

(* The last iput.                                                          *)
LEMMA TreeEvict ==
    ASSUME Inv, Inv', TreeInv, NEW i \in Inos, ext2_evict_inode(i)
    PROVE  TreeInv'
<1>0. /\ i \in bitmap /\ node[i].nlink = 0 /\ ~Held(i)
      /\ bitmap' = bitmap \ {i} /\ node' = [node EXCEPT ![i] = FreeNode]
      /\ entry' = [entry EXCEPT ![i] = Empty]
      /\ dotdot' = [dotdot EXCEPT ![i] = None] /\ dparent' = [dparent EXCEPT ![i] = None]
      /\ renameMutex' = renameMutex /\ task' = task
  BY DEF ext2_evict_inode, ext2_free_inode, locks
<1>1. TreeTypes
  BY DEF Inv, Base
<1>2. \A q \in Procs : i \notin {task[q].dir, task[q].from, task[q].ino, task[q].tgt}
  BY <1>0, EvictFacts
<1>3. \A c \in Inos \ {i} : /\ dotdot'[c] = dotdot[c] /\ dparent'[c] = dparent[c]
                            /\ node'[c] = node[c]
  BY <1>0, <1>1 DEF TreeTypes
<1>4. node'[i] = FreeNode
  BY <1>0, <1>1 DEF TreeTypes
<1>5. ~Settled(i)
  BY <1>0 DEF Settled
<1>6. \A c \in Inos : Settled(c)' => Settled(c)
  <2> SUFFICES ASSUME NEW c \in Inos, Settled(c)'
               PROVE  Settled(c)
    OBVIOUS
  <2>1. c # i /\ c \in bitmap
    BY <1>0 DEF Settled
  <2> QED
    BY <1>0, <1>3, <2>1 DEF Settled, IsDir, Fresh
<1>7. SettledStay
  BY <1>3, <1>5, <1>6 DEF SettledStay
<1>8. Bystanders({})
  BY <1>0, <1>2, <1>3, <1>5 DEF Bystanders, Uses
<1>9. \A c \in bitmap : IsDir(c)' => IsDir(c)
  BY <1>1, <1>3, <1>4 DEF IsDir, FreeNode, TreeTypes
<1>10. NamesMoveBy({})
  <2>1. \A e \in Inos, n \in Names : entry'[e][n] = entry[e][n] \/ entry'[e][n] = None
    BY <1>0, <1>1 DEF TreeTypes, Empty
  <2> QED
    BY <2>1, ConstantsOK DEF NamesMoveBy
<1>11. [Next]_vars
  BY DEF Next
<1> QED
  BY <1>6, <1>7, <1>8, <1>9, <1>10, <1>11, TreeStays

LEMMA TreeStutters ==
    ASSUME Inv, Inv', TreeInv, UNCHANGED vars
    PROVE  TreeInv'
<1>0. /\ bitmap' = bitmap /\ node' = node /\ entry' = entry /\ dotdot' = dotdot
      /\ dparent' = dparent /\ renameMutex' = renameMutex /\ task' = task
  BY DEF vars
<1>1. \A c : (Settled(c)' <=> Settled(c)) /\ (IsDir(c)' <=> IsDir(c))
  BY <1>0 DEF Settled, IsDir, Fresh
<1>2. SettledStay /\ Bystanders({}) /\ NamesMoveBy({})
  BY <1>0, <1>1 DEF SettledStay, Bystanders, NamesMoveBy
<1> QED
  BY <1>1, <1>2, TreeStays

LEMMA TreeInit ==
    ASSUME Init, ~SyncErrors
    PROVE  TreeInv
<1>0. Inv /\ \A p \in Procs : task[p] = Idle
  BY InvInit DEF Init
<1>1. PICK dirs : InitTree(dirs)
  BY InitIsTree
<1>2. /\ dirs \subseteq Inos /\ Root \in dirs /\ dirs \subseteq bitmap /\ dparent = dotdot
      /\ \A e \in Inos, n \in Names, d \in dirs : entry[e][n] = d => dparent[d] = e
      /\ \A d \in dirs \ {Root} : Root \in Upwards(dparent, d)
      /\ node = [i \in Inos |->
                   IF i \notin bitmap THEN FreeNode
                   ELSE [type |-> IF i \in dirs THEN "dir" ELSE "file",
                         nlink |-> LinksOf(entry, dirs, i), dead |-> FALSE]]
  BY <1>1 DEF InitTree
<1>3. \A i \in Inos : IsDir(i) => i \in dirs
  BY <1>2 DEF IsDir, FreeNode
<1>4. HomeInv
  BY <1>2, <1>3 DEF HomeInv
<1>5. DotInv
  BY <1>2 DEF DotInv
<1>6. ReachInv
  BY <1>2, <1>3, UpSelf DEF ReachInv, Settled
<1>7. \A p \in Procs : TreeOf(p)
  BY <1>0 DEF TreeOf, Idle, TwoDirs, Found, InBody
<1> QED
  BY <1>4, <1>5, <1>6, <1>7 DEF TreeInv

LEMMA TreeNext ==
    ASSUME Inv, Inv', TreeInv, [Next]_vars
    PROVE  TreeInv'
<1>1. ASSUME NEW p \in Procs, Step(p)
      PROVE  TreeInv'
  <2>1. CASE ext2_add_link(p)
    BY <1>1, <2>1, TreeAddLink, TreeMkdir
  <2>2. CASE RenameDelOld(p)
    BY <1>1, <2>2, TreeSettles, TreeMoves
  <2> QED
    BY <1>1, <2>1, <2>2, TreeApproach, TreeMake, TreeMakeEmpty, TreeUnlink, TreeRename DEF Step
<1>2. CASE \E i \in Inos : ext2_evict_inode(i)
  BY <1>2, TreeEvict
<1>3. CASE UNCHANGED vars
  BY <1>3, TreeStutters
<1> QED
  BY <1>1, <1>2, <1>3 DEF Next, Bounded

\* With no call under way the tree of the dentries is that of the names.
LEMMA QuietTree ==
    ASSUME Inv, TreeInv, Quiet, NEW d \in bitmap \ {Root}, IsDir(d), node[d].nlink > 0
    PROVE  /\ \E n \in Names : NamesOf(entry, d) = {<<dotdot[d], n>>}
           /\ dparent[d] = dotdot[d]
           /\ Root \in Upwards(dotdot, d)
<1>0. d \in Inos /\ (\A p \in Procs : task[p] = Idle) /\ \A c : ~Fresh(c)
  BY IdleType DEF Inv, Base, TreeTypes, Quiet, Fresh
<1>1. Settled(d) /\ dotdot[d] = dparent[d]
  BY <1>0 DEF Settled, TreeInv, DotInv
<1>2. PICK e \in Inos, n \in Names : NamesOf(entry, d) = {<<e, n>>}
  <2>1. LiveDir(d) /\ CountedNames(d) = NamesOf(entry, d)
    BY <1>0, LiveFacts, QuietNames
  <2> QED
    BY <2>1 DEF LiveDir
<1>3. entry[e][n] = d
  <2>1. <<e, n>> \in NamesOf(entry, d)
    BY <1>2
  <2>2. entry[<<e, n>>[1]][<<e, n>>[2]] = d
    BY <2>1, Zenon DEF NamesOf
  <2> QED
    BY <2>2
<1>4. dparent[d] = e
  BY <1>0, <1>3, IdleType DEF TreeInv, HomeInv, Leaving
<1>5. Root \in Upwards(dotdot, d)
  <2>1. PICK P, Q, S : P = dparent /\ Q = [dotdot EXCEPT ![Root] = dparent[Root]]
                       /\ S = SettledDirs
    OBVIOUS
  <2>2. dotdot \in Parents /\ P \in Parents /\ Q \in Parents /\ S \in SUBSET Inos /\ Closed(P, S)
    BY <2>1, SettledClosed, ConstantsOK DEF Inv, Base, TreeTypes, Parents
  <2>3. \A c \in S : Q[c] = P[c]
    BY <2>1, <2>2 DEF SettledDirs, TreeInv, DotInv, Parents
  <2>4. d \in S /\ Root \in Upwards(P, d)
    BY <1>0, <1>1, <2>1 DEF SettledDirs, TreeInv, ReachInv
  <2>5. Root \in Upwards(Q, d)
    BY <2>2, <2>3, <2>4, UpAgree
  <2>6. \A T \in SUBSET Inos : Closed(Q, T) <=> Closed(dotdot, T)
    BY <2>1, <2>2 DEF Closed, Parents
  <2> QED
    BY <2>5, <2>6 DEF Upwards
<1> QED
  BY <1>1, <1>2, <1>4, <1>5

(* The directories form one tree whenever no call is under way: "two       *)
(* innocent renames" never "create a loop together", for any number of     *)
(* tasks that rename, create and remove directories at once.  The parts    *)
(* that hold at every step are in TreeInv: each directory is named by its  *)
(* d_parent or is just moving, leads up to the root, and is never on the   *)
(* way up from where a rename moves it to.                                 *)
THEOREM DirectoriesAreATree ==
    ASSUME ~SyncErrors
    PROVE  Spec => []DirectoriesFormATree
<1>1. Init => TreeInv
  BY TreeInit
<1>2. Inv /\ Inv' /\ TreeInv /\ [Next]_vars => TreeInv'
  BY TreeNext
<1>3. Inv /\ TreeInv => DirectoriesFormATree
  BY QuietTree DEF DirectoriesFormATree
<1> QED
  BY <1>1, <1>2, <1>3, Invariance, PTL DEF Spec

=============================================================================
