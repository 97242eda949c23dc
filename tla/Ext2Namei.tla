------------------------------ MODULE Ext2Namei ------------------------------
(***************************************************************************)
(* The names of an ext2 file system: directory entries, link counts, the   *)
(* inode bitmap, and the system calls that change them (create, mkdir,     *)
(* link, unlink, rmdir, rename) run by several tasks at once.  The calls   *)
(* are those of fs/namei.c, which takes the locks and makes the checks,    *)
(* down to fs/ext2/namei.c, which changes the directory.                   *)
(*                                                                         *)
(* A task walks its paths first and takes the locks afterwards, so what it *)
(* found may have been removed in between.  Every change of a directory is *)
(* made under the i_mutex of that directory, and every change of the link  *)
(* count of a file that has a name under the i_mutex of the file; the      *)
(* source of a rename is the one inode that is used without its i_mutex.   *)
(*                                                                         *)
(* Abstracted: permissions, quotas, security hooks and mount points; the   *)
(* kind of a non-directory (mknod and symlink are create); which free      *)
(* inode the allocator picks; and the layout of directory blocks, of which *)
(* only the mapping from names to inode numbers is kept.                   *)
(***************************************************************************)
EXTENDS Naturals, FiniteSets

CONSTANTS
    Inos,        \* inode numbers
    Root,        \* the inode number of the root directory
    Names,       \* file names, "." and ".." aside
    Procs,       \* the tasks that make system calls
    None,        \* no inode, or no task
    LinkMax,     \* EXT2_LINK_MAX
    SyncErrors,  \* whether directories are written synchronously (dirsync)
                 \* to a device that may report a write error
    MaxOps,      \* bound: system calls made in one behaviour
    MaxNames     \* bound: names in the tree a behaviour starts from

ASSUME ConstantsOK ==
    /\ IsFiniteSet(Inos) /\ IsFiniteSet(Names)
    /\ Root \in Inos
    /\ None \notin Inos \cup Names \cup Procs
    /\ LinkMax \in Nat \ {0}
    /\ SyncErrors \in BOOLEAN
    /\ MaxOps \in Nat /\ MaxNames \in Nat

VARIABLES
    bitmap,      \* inodes whose bit is set in the inode bitmap
    node,        \* the inode: its type, i_nlink, and the flag S_DEAD
    entry,       \* entry[d][n]: the inode that name n has in directory d
    dotdot,      \* the inode in the ".." entry of a directory
    dparent,     \* d_parent of a directory's dentry
    imutex,      \* the task that holds the i_mutex of an inode
    renameMutex, \* the task that holds s_vfs_rename_mutex
    task,        \* what each task is doing
    ops          \* system calls made so far

vars == <<bitmap, node, entry, dotdot, dparent, imutex, renameMutex, task, ops>>
locks == <<imutex, renameMutex>>

FreeNode == [type |-> "free", nlink |-> 0, dead |-> FALSE]
Empty == [n \in Names |-> None]

Ops == {"create", "mkdir", "link", "unlink", "rmdir", "rename"}

(***************************************************************************)
(* A task's system call: the directory and the name it works on, for a     *)
(* rename also the old directory and the old name; the inode it links,     *)
(* creates or moves; the inode whose name it removes; and the dentry that  *)
(* lock_rename returns.                                                    *)
(***************************************************************************)
Idle == [pc |-> "idle", op |-> "none", dir |-> None, name |-> None,
         from |-> None, fname |-> None, ino |-> None, tgt |-> None,
         trap |-> None]

Pcs == {"idle", "lock", "dirFirst", "fromFirst", "second", "lookup",
        "lockTarget", "new", "body", "makeEmpty", "addLink", "dec", "delOld"}

(* Types.  No link count ever passes EXT2_LINK_MAX, although mkdir, link   *)
(* and rename test it (fs/ext2/namei.c) some steps before they add to it.  *)
TypeOK ==
    /\ bitmap \subseteq Inos
    /\ node \in [Inos -> [type : {"free", "file", "dir"}, nlink : 0..LinkMax,
                          dead : BOOLEAN]]
    /\ entry \in [Inos -> [Names -> Inos \cup {None}]]
    /\ dotdot \in [Inos -> Inos \cup {None}]
    /\ dparent \in [Inos -> Inos \cup {None}]
    /\ imutex \in [Inos -> Procs \cup {None}]
    /\ renameMutex \in Procs \cup {None}
    /\ task \in [Procs ->
         [pc : Pcs, op : Ops \cup {"none"},
          dir : Inos \cup {None}, name : Names \cup {None},
          from : Inos \cup {None}, fname : Names \cup {None},
          ino : Inos \cup {None}, tgt : Inos \cup {None},
          trap : Inos \cup {None}]]
    /\ ops \in 0..MaxOps

-----------------------------------------------------------------------------
(***************************************************************************)
(* The shape of a directory tree.                                          *)
(***************************************************************************)
NamesOf(e, i) == {dn \in Inos \X Names : e[dn[1]][dn[2]] = i}

IsDir(i) == node[i].type = "dir"

\* The link count a tree calls for: a name counts one; a directory counts
\* its own "." and the ".." of each directory in it.
LinksOf(e, dirs, i) ==
    Cardinality(NamesOf(e, i))
      + (IF i = Root THEN 1 ELSE 0)
      + (IF i \in dirs
           THEN 1 + Cardinality({n \in Names : e[i][n] \in dirs}) ELSE 0)

\* The directories on the way from d up to the root, d itself included: the
\* least set of inodes that has d, and the parent of each member but the root.
Closed(parent, S) == \A c \in S \ {Root} : parent[c] \in S \cup {None}

Upwards(parent, d) ==
    {a \in Inos : \A S \in SUBSET Inos : d \in S /\ Closed(parent, S) => a \in S}

\* d_ancestor: the child of a through which a is an ancestor of d.
d_ancestor(a, d) ==
    LET through == {c \in Inos \ {Root} : c \in Upwards(dparent, d) /\ dparent[c] = a}
    IN  IF through = {} THEN None ELSE CHOOSE c \in through : TRUE

-----------------------------------------------------------------------------
(***************************************************************************)
(* Any consistent tree, with no call under way: directories, each at home  *)
(* under one name, and files under any number of the other names.          *)
(***************************************************************************)
Init ==
    /\ \E sub \in SUBSET (Inos \ {Root}) :
       LET dirs == sub \cup {Root} IN
       \E home \in [sub -> dirs \X Names] :
       LET rest == (dirs \X Names) \ {home[d] : d \in sub} IN
       \E links \in [rest -> (Inos \ dirs) \cup {None}] :
         LET up     == [i \in Inos |-> IF i \in sub THEN home[i][1]
                                      ELSE IF i = Root THEN Root ELSE None]
             in(dn) == IF dn \in rest THEN links[dn]
                       ELSE CHOOSE d \in sub : home[d] = dn
             used   == dirs \cup ({links[dn] : dn \in rest} \ {None})
         IN  /\ Cardinality({dn \in dirs \X Names : in(dn) # None}) <= MaxNames
             /\ \A c, d \in sub : c # d => home[c] # home[d]
             /\ \A d \in sub : Root \in Upwards(up, d)
             /\ entry = [i \in Inos |-> IF i \in dirs
                            THEN [n \in Names |-> in(<<i, n>>)] ELSE Empty]
             /\ \A i \in Inos : LinksOf(entry, dirs, i) <= LinkMax
             /\ bitmap = used
             /\ node = [i \in Inos |->
                          IF i \notin used THEN FreeNode
                          ELSE [type |-> IF i \in dirs THEN "dir" ELSE "file",
                                nlink |-> LinksOf(entry, dirs, i),
                                dead |-> FALSE]]
             /\ dotdot = up
             /\ dparent = up
    /\ imutex = [i \in Inos |-> None]
    /\ renameMutex = None
    /\ task = [p \in Procs |-> Idle]
    /\ ops = 0

-----------------------------------------------------------------------------
Goto(p, pc) == task' = [task EXCEPT ![p].pc = pc]

\* The call returns: it gives up its locks and its references.
Return(p) ==
    /\ imutex' = [i \in Inos |-> IF imutex[i] = p THEN None ELSE imutex[i]]
    /\ renameMutex' = IF renameMutex = p THEN None ELSE renameMutex
    /\ task' = [task EXCEPT ![p] = Idle]

Tree == <<bitmap, node, entry, dotdot, dparent>>

AddNlink(i)  == node' = [node EXCEPT ![i].nlink = @ + 1]
DropNlink(i) == node' = [node EXCEPT ![i].nlink = @ - 1]

(***************************************************************************)
(* The path walks: the call holds what it found, with no lock.  The last   *)
(* components of its paths are arguments that nothing reads before the     *)
(* lookup under the lock; the model chooses them there.                    *)
(***************************************************************************)
Linked == {i \in bitmap : node[i].nlink > 0 /\ (i = Root \/ NamesOf(entry, i) # {})}
Walked == {d \in Linked : IsDir(d)}

Start(p) ==
    /\ task[p] = Idle
    /\ ops < MaxOps
    /\ ops' = ops + 1
    /\ \E d \in Walked :
         LET call(o) == [Idle EXCEPT !.pc = "lock", !.op = o, !.dir = d]
         IN  \/ \E o \in Ops \ {"link", "rename"} :
                  task' = [task EXCEPT ![p] = call(o)]
             \/ \E i \in Linked :
                  task' = [task EXCEPT ![p] = [call("link") EXCEPT !.ino = i]]
             \/ \E f \in Walked :
                  task' = [task EXCEPT ![p] = [call("rename") EXCEPT !.from = f]]
    /\ UNCHANGED <<Tree, locks>>

(***************************************************************************)
(* The locks on the parents.  A rename between two directories first takes *)
(* s_vfs_rename_mutex and ranks the two: an ancestor goes first.           *)
(***************************************************************************)
TwoDirs(p) == task[p].op = "rename" /\ task[p].from # task[p].dir

Take(p, i) == imutex[i] = None /\ imutex' = [imutex EXCEPT ![i] = p]

LockParent(p) ==
    /\ task[p].pc = "lock" /\ ~TwoDirs(p)
    /\ Take(p, task[p].dir)
    /\ Goto(p, "lookup")
    /\ UNCHANGED <<Tree, renameMutex, ops>>

\* mutant: s_vfs_rename_mutex is not waited for
RankParents_NoMutex(p) ==
    /\ task[p].pc = "lock" /\ TwoDirs(p)
    /\ renameMutex' = p
    /\ LET below == d_ancestor(task[p].from, task[p].dir)
           above == d_ancestor(task[p].dir, task[p].from)
       IN  task' = [task EXCEPT
             ![p].pc = IF below # None THEN "fromFirst" ELSE "dirFirst",
             ![p].trap = IF below # None THEN below ELSE above]
    /\ UNCHANGED <<Tree, imutex, ops>>

\* lock_rename up to the first i_mutex.
RankParents(p) ==
    /\ task[p].pc = "lock" /\ TwoDirs(p)
    /\ renameMutex = None
    /\ renameMutex' = p
    /\ LET below == d_ancestor(task[p].from, task[p].dir)
           above == d_ancestor(task[p].dir, task[p].from)
       IN  task' = [task EXCEPT
             ![p].pc = IF below # None THEN "fromFirst" ELSE "dirFirst",
             ![p].trap = IF below # None THEN below ELSE above]
    /\ UNCHANGED <<Tree, imutex, ops>>

LockFirst(p) ==
    /\ task[p].pc \in {"dirFirst", "fromFirst"}
    /\ Take(p, IF task[p].pc = "dirFirst" THEN task[p].dir ELSE task[p].from)
    /\ Goto(p, "second")
    /\ UNCHANGED <<Tree, renameMutex, ops>>

LockSecond(p) ==
    /\ task[p].pc = "second"
    /\ Take(p, IF imutex[task[p].dir] = p THEN task[p].from ELSE task[p].dir)
    /\ Goto(p, "lookup")
    /\ UNCHANGED <<Tree, renameMutex, ops>>

(***************************************************************************)
(* lookup_hash and the checks of the VFS, under the locks of the parents.  *)
(***************************************************************************)
\* mutant: the S_DEAD of the parent is not looked at
may_create_NoDead(d, child) == child = None

may_create(d, child) == child = None /\ ~node[d].dead

may_delete(d, child, type) ==
    child # None /\ node[child].type = type /\ ~node[d].dead

\* The source exists and is no ancestor of the new parent, the target is no
\* ancestor of the old one, they are not the same inode, and their types agree.
MayRename(t, source, child) ==
    /\ source # None
    /\ source # t.trap
    /\ child = None \/ child # t.trap
    /\ source # child
    /\ may_delete(t.from, source, node[source].type)
    /\ IF child = None THEN may_create(t.dir, child)
                       ELSE may_delete(t.dir, child, node[source].type)

Allowed(t, source, child) ==
    CASE t.op \in {"create", "mkdir"} -> may_create(t.dir, child)
      [] t.op = "link"   -> may_create(t.dir, child) /\ ~IsDir(t.ino)
      [] t.op = "unlink" -> may_delete(t.dir, child, "file")
      [] t.op = "rmdir"  -> may_delete(t.dir, child, "dir")
      [] t.op = "rename" -> MayRename(t, source, child)

\* The last components a call may have: one name, or two for a rename.
LastNames(p) == Names \X (IF task[p].op = "rename" THEN Names ELSE {None})

Source(p, m) == IF m = None THEN None ELSE entry[task[p].from][m]

Refuse(p) ==
    /\ task[p].pc = "lookup"
    /\ \E nm \in LastNames(p) :
         ~Allowed(task[p], Source(p, nm[2]), entry[task[p].dir][nm[1]])
    /\ Return(p)
    /\ UNCHANGED <<Tree, ops>>

\* The dentries found; the call goes on to lock the inode it unlinks, links
\* or replaces, if there is one.
Admit(p) ==
    /\ task[p].pc = "lookup"
    /\ \E nm \in LastNames(p) :
         LET t      == task[p]
             child  == entry[t.dir][nm[1]]
             source == Source(p, nm[2])
             tgt    == IF t.op = "link" THEN t.ino ELSE child
         IN  /\ Allowed(t, source, child)
             /\ task' = [task EXCEPT ![p] =
                  [t EXCEPT !.name = nm[1], !.fname = nm[2], !.trap = None,
                            !.ino = IF t.op = "rename" THEN source ELSE @,
                            !.tgt = tgt,
                            !.pc = IF tgt # None THEN "lockTarget" ELSE "body"]]
    /\ UNCHANGED <<Tree, locks, ops>>

LockTarget(p) ==
    /\ task[p].pc = "lockTarget"
    /\ Take(p, task[p].tgt)
    /\ Goto(p, "body")
    /\ UNCHANGED <<Tree, renameMutex, ops>>

-----------------------------------------------------------------------------
(***************************************************************************)
(* ext2_new_inode: a free bit is found and set.  It fails when there is    *)
(* none or for want of memory, with nothing changed; or once the bit is    *)
(* set (quota, ACL, security label), when the new inode is left with no    *)
(* links for iput to delete.                                               *)
(***************************************************************************)
NewNode(type, nlink) == [type |-> type, nlink |-> nlink, dead |-> FALSE]

ext2_new_inode(i, type, nlink) ==
    /\ i \notin bitmap
    /\ bitmap' = bitmap \cup {i}
    /\ node' = [node EXCEPT ![i] = NewNode(type, nlink)]

ext2_create(p) ==
    /\ task[p].pc = "body" /\ task[p].op = "create"
    /\ \/ \E i \in Inos :
            /\ ext2_new_inode(i, "file", 1)
            /\ task' = [task EXCEPT ![p].ino = i, ![p].pc = "addLink"]
            /\ UNCHANGED locks
       \/ \E i \in Inos : ext2_new_inode(i, "file", 0) /\ Return(p)
       \/ Return(p) /\ UNCHANGED <<bitmap, node>>
    /\ UNCHANGED <<entry, dotdot, dparent, ops>>

\* The parent's link count goes up before there is an inode to count.
ext2_mkdir(p) ==
    /\ task[p].pc = "body" /\ task[p].op = "mkdir"
    /\ \/ /\ node[task[p].dir].nlink < LinkMax
          /\ AddNlink(task[p].dir)
          /\ Goto(p, "new")
          /\ UNCHANGED locks
       \/ /\ node[task[p].dir].nlink >= LinkMax
          /\ Return(p)
          /\ UNCHANGED node
    /\ UNCHANGED <<bitmap, entry, dotdot, dparent, ops>>

\* The new directory, with the second link its "." is; or no inode, and the
\* parent's count is taken back.
MkdirInode(p) ==
    /\ task[p].pc = "new"
    /\ \/ \E i \in Inos :
            /\ ext2_new_inode(i, "dir", 2)
            /\ task' = [task EXCEPT ![p].ino = i, ![p].pc = "makeEmpty"]
            /\ UNCHANGED locks
       \/ \E i \in Inos \ bitmap :
            /\ bitmap' = bitmap \cup {i}
            /\ node' = [node EXCEPT ![i] = NewNode("dir", 0),
                                    ![task[p].dir].nlink = @ - 1]
            /\ Return(p)
       \/ DropNlink(task[p].dir) /\ Return(p) /\ UNCHANGED bitmap
    /\ UNCHANGED <<entry, dotdot, dparent, ops>>

\* mutant: the parent keeps the link it was given
MkdirUndo_KeepsParent(p) == node' = [node EXCEPT ![task[p].ino].nlink = @ - 2]

\* out_fail of ext2_mkdir: both links of the new inode and the parent's.
MkdirUndo(p) ==
    node' = [node EXCEPT ![task[p].ino].nlink = @ - 2,
                         ![task[p].dir].nlink = @ - 1]

ext2_make_empty(p) ==
    /\ task[p].pc = "makeEmpty"
    /\ \/ /\ dotdot' = [dotdot EXCEPT ![task[p].ino] = task[p].dir]
          /\ Goto(p, "addLink")
          /\ UNCHANGED <<node, locks>>
       \/ MkdirUndo(p) /\ Return(p) /\ UNCHANGED dotdot
    /\ UNCHANGED <<bitmap, entry, dparent, ops>>

\* mutant: the link count is not raised
ext2_link_NoInc(p) ==
    /\ task[p].pc = "body" /\ task[p].op = "link"
    /\ LET i == task[p].ino IN
       \/ /\ node[i].nlink > 0 /\ node[i].nlink < LinkMax
          /\ UNCHANGED node
          /\ Goto(p, "addLink")
          /\ UNCHANGED locks
       \/ /\ node[i].nlink = 0 \/ node[i].nlink >= LinkMax
          /\ Return(p)
          /\ UNCHANGED node
    /\ UNCHANGED <<bitmap, entry, dotdot, dparent, ops>>

\* mutant: vfs_link does not look at the link count
ext2_link_Unlinked(p) ==
    /\ task[p].pc = "body" /\ task[p].op = "link"
    /\ LET i == task[p].ino IN
       \/ /\ node[i].nlink < LinkMax
          /\ AddNlink(i)
          /\ Goto(p, "addLink")
          /\ UNCHANGED locks
       \/ /\ node[i].nlink >= LinkMax
          /\ Return(p)
          /\ UNCHANGED node
    /\ UNCHANGED <<bitmap, entry, dotdot, dparent, ops>>

\* vfs_link and ext2_link: the count goes up before the name is there.
ext2_link(p) ==
    /\ task[p].pc = "body" /\ task[p].op = "link"
    /\ LET i == task[p].ino IN
       \/ /\ node[i].nlink > 0 /\ node[i].nlink < LinkMax
          /\ AddNlink(i)
          /\ Goto(p, "addLink")
          /\ UNCHANGED locks
       \/ /\ node[i].nlink = 0 \/ node[i].nlink >= LinkMax
          /\ Return(p)
          /\ UNCHANGED node
    /\ UNCHANGED <<bitmap, entry, dotdot, dparent, ops>>

(***************************************************************************)
(* ext2_add_link: the entry is written, or there is no room for it.  In a  *)
(* synchronous directory ext2_commit_chunk may report an error for the     *)
(* entry it has just put in the page.                                      *)
(***************************************************************************)
WithName(p, i) == [entry EXCEPT ![task[p].dir][task[p].name] = i]

AddLinkOk(p) ==
    /\ entry' = WithName(p, task[p].ino)
    /\ dparent' = IF task[p].op = "mkdir"
                    THEN [dparent EXCEPT ![task[p].ino] = task[p].dir]
                    ELSE dparent

AddLinkFails(p) ==
    /\ \/ UNCHANGED entry
       \/ SyncErrors /\ entry' = WithName(p, task[p].ino)
    /\ UNCHANGED dparent

\* The last step of create, mkdir and link: ext2_add_nondir and the error
\* paths of ext2_mkdir and ext2_link.
ext2_add_link(p) ==
    /\ task[p].pc = "addLink"
    /\ \/ AddLinkOk(p) /\ UNCHANGED node
       \/ /\ AddLinkFails(p)
          /\ IF task[p].op = "mkdir" THEN MkdirUndo(p) ELSE DropNlink(task[p].ino)
    /\ Return(p)
    /\ UNCHANGED <<bitmap, dotdot, ops>>

-----------------------------------------------------------------------------
(***************************************************************************)
(* ext2_unlink and ext2_rmdir: the entry goes first, the links after it.   *)
(***************************************************************************)
ext2_empty_dir(d) == entry[d] = Empty

ext2_delete_entry(p) ==
    /\ task[p].pc = "body" /\ task[p].op \in {"unlink", "rmdir"}
    /\ \/ /\ task[p].op = "rmdir" /\ ~ext2_empty_dir(task[p].tgt)
          /\ Return(p)
          /\ UNCHANGED entry
       \/ /\ task[p].op = "unlink" \/ ext2_empty_dir(task[p].tgt)
          /\ entry' = WithName(p, None)
          /\ \/ Goto(p, "dec") /\ UNCHANGED locks
             \/ SyncErrors /\ Return(p)
    /\ UNCHANGED <<bitmap, node, dotdot, dparent, ops>>

\* inode_dec_link_count; for rmdir also the links that "." and ".." are, and
\* the S_DEAD of vfs_rmdir.
UnlinkDec(p) ==
    /\ task[p].pc = "dec" /\ task[p].op \in {"unlink", "rmdir"}
    /\ IF task[p].op = "unlink"
         THEN DropNlink(task[p].tgt)
         ELSE node' = [node EXCEPT
                ![task[p].tgt].nlink = @ - 2, ![task[p].tgt].dead = TRUE,
                ![task[p].dir].nlink = @ - 1]
    /\ Return(p)
    /\ UNCHANGED <<bitmap, entry, dotdot, dparent, ops>>

(***************************************************************************)
(* ext2_rename: the new name is made, or taken over from the target, which *)
(* then loses its links; only then does the old name go.                   *)
(***************************************************************************)
Moving(p) == IsDir(task[p].ino)

\* mutant: the new parent's link count is not looked at
HasRoom_Unchecked(p) == TRUE

\* A directory that moves needs a link in its new parent.
HasRoom(p) == ~Moving(p) \/ node[task[p].dir].nlink < LinkMax

\* The new name did not exist.
RenameAdd(p) ==
    /\ task[p].pc = "body" /\ task[p].op = "rename" /\ task[p].tgt = None
    /\ \/ /\ HasRoom(p)
          /\ entry' = WithName(p, task[p].ino)
          /\ IF Moving(p) THEN AddNlink(task[p].dir) ELSE UNCHANGED node
          /\ Goto(p, "delOld")
          /\ UNCHANGED locks
       \/ /\ IF HasRoom(p) THEN AddLinkFails(p) ELSE UNCHANGED entry
          /\ Return(p)
          /\ UNCHANGED node
    /\ UNCHANGED <<bitmap, dotdot, dparent, ops>>

\* The new name existed: ext2_set_link.
RenameOver(p) ==
    /\ task[p].pc = "body" /\ task[p].op = "rename" /\ task[p].tgt # None
    /\ \/ /\ Moving(p) /\ ~ext2_empty_dir(task[p].tgt)
          /\ Return(p)
          /\ UNCHANGED entry
       \/ /\ ~Moving(p) \/ ext2_empty_dir(task[p].tgt)
          /\ entry' = WithName(p, task[p].ino)
          /\ Goto(p, "dec")
          /\ UNCHANGED locks
    /\ UNCHANGED <<bitmap, node, dotdot, dparent, ops>>

RenameDec(p) ==
    /\ task[p].pc = "dec" /\ task[p].op = "rename"
    /\ node' = [node EXCEPT ![task[p].tgt].nlink = @ - (IF Moving(p) THEN 2 ELSE 1)]
    /\ Goto(p, "delOld")
    /\ UNCHANGED <<bitmap, entry, dotdot, dparent, locks, ops>>

\* d_move swaps the parents of the dentry that moves and of the one it
\* replaces.
d_move(t) == [i \in Inos |-> CASE i = t.ino -> t.dir
                               [] i = t.tgt -> t.from
                               [] OTHER -> dparent[i]]

\* The old name goes; a directory gets its new ".." and its old parent loses
\* a link; vfs_rename_dir marks the target dead.
RenameDelOld(p) ==
    /\ task[p].pc = "delOld"
    /\ LET t == task[p] IN
       /\ entry' = [entry EXCEPT ![t.from][t.fname] = None]
       /\ IF Moving(p)
            THEN /\ node' = [i \in Inos |->
                      [node[i] EXCEPT !.nlink = IF i = t.from THEN @ - 1 ELSE @,
                                      !.dead = @ \/ i = t.tgt]]
                 /\ dotdot' = [dotdot EXCEPT ![t.ino] = t.dir]
                 /\ dparent' = d_move(t)
            ELSE UNCHANGED <<node, dotdot, dparent>>
    /\ Return(p)
    /\ UNCHANGED <<bitmap, ops>>

-----------------------------------------------------------------------------
(***************************************************************************)
(* The last iput of an inode without links: ext2_evict_inode writes and    *)
(* truncates it, and ext2_free_inode clears its bit.  A task holds what    *)
(* its call found, and the dentry of a directory holds its parent's.       *)
(***************************************************************************)
Held(i) ==
    \/ \E p \in Procs : i \in {task[p].dir, task[p].from, task[p].ino, task[p].tgt}
    \/ \E c \in Inos \ {i} : dparent[c] = i

ext2_free_inode(i) ==
    /\ bitmap' = bitmap \ {i}
    /\ node' = [node EXCEPT ![i] = FreeNode]

ext2_evict_inode(i) ==
    /\ i \in bitmap
    /\ node[i].nlink = 0
    /\ ~Held(i)
    /\ ext2_free_inode(i)
    /\ entry' = [entry EXCEPT ![i] = Empty]
    /\ dotdot' = [dotdot EXCEPT ![i] = None]
    /\ dparent' = [dparent EXCEPT ![i] = None]
    /\ UNCHANGED <<locks, task, ops>>

Quiet == \A p \in Procs : task[p] = Idle

\* Not a step of the system: the bound on calls is used up.
Bounded == ops = MaxOps /\ Quiet /\ UNCHANGED vars

Step(p) ==
    \/ Start(p)
    \/ LockParent(p) \/ RankParents(p) \/ LockFirst(p) \/ LockSecond(p)
    \/ Refuse(p) \/ Admit(p) \/ LockTarget(p)
    \/ ext2_create(p) \/ ext2_mkdir(p) \/ MkdirInode(p) \/ ext2_make_empty(p)
    \/ ext2_link(p) \/ ext2_add_link(p)
    \/ ext2_delete_entry(p) \/ UnlinkDec(p)
    \/ RenameAdd(p) \/ RenameOver(p) \/ RenameDec(p) \/ RenameDelOld(p)

Next == (\E p \in Procs : Step(p)) \/ (\E i \in Inos : ext2_evict_inode(i)) \/ Bounded

Spec == Init /\ [][Next]_vars

-----------------------------------------------------------------------------
(***************************************************************************)
(* The inode that ext2_free_inode frees "cannot be reached through the     *)
(* filesystem because the directory entry has been deleted earlier"        *)
(* (fs/ext2/ialloc.c:92-94): no directory, at any step of any call, has an *)
(* entry for an inode whose bit is clear.  Otherwise ext2_lookup reports   *)
(* "deleted inode referenced", or the name shows the next file that gets   *)
(* the number.                                                             *)
(***************************************************************************)
FreedUnreachable ==
    \A d \in Inos, n \in Names : entry[d][n] # None => entry[d][n] \in bitmap

(***************************************************************************)
(* When no call is under way every link count is what the tree calls for:  *)
(* each error path of ext2_mkdir, ext2_link and ext2_add_nondir has taken  *)
(* back exactly what the call had added, and rmdir and rename have counted *)
(* "." and "..".  A count too high is an inode that is never freed, one    *)
(* too low an inode that is freed under its last name.                     *)
(***************************************************************************)
LinkCountsExact ==
    Quiet => LET dirs == {d \in bitmap : IsDir(d) /\ node[d].nlink > 0}
             IN  \A i \in bitmap : node[i].nlink = LinksOf(entry, dirs, i)

(***************************************************************************)
(* When no call is under way the directories form one tree: each has one   *)
(* name, in the directory its ".." and its dentry's d_parent give, and     *)
(* leads up to the root.  This is what vfs_rename_dir's comment is about   *)
(* ("two innocent renames can create a loop together", fs/namei.c:3004).   *)
(***************************************************************************)
DirectoriesFormATree ==
    Quiet => \A d \in bitmap \ {Root} :
      IsDir(d) /\ node[d].nlink > 0 =>
        /\ \E n \in Names : NamesOf(entry, d) = {<<dotdot[d], n>>}
        /\ dparent[d] = dotdot[d]
        /\ Root \in Upwards(dotdot, d)

(***************************************************************************)
(* A directory that rmdir or rename has removed stays empty, also for the  *)
(* tasks that had walked to it before: nothing they create is lost in it.  *)
(***************************************************************************)
RemovedStaysEmpty == \A d \in Inos : node[d].dead => entry[d] = Empty

(***************************************************************************)
(* An inode that has lost its last link never gets another, although a     *)
(* task in linkat may have found it while it had one ("Make sure we don't  *)
(* allow creating hardlink to an unlinked file", fs/namei.c:2919).         *)
(***************************************************************************)
UnlinkedStaysUnlinked ==
    [][\A i \in bitmap \cap bitmap' : node[i].nlink = 0 => node'[i].nlink = 0]_vars

=============================================================================
