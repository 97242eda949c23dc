-------------------------- MODULE Ext2BlocksProofs ---------------------------
(***************************************************************************)
(* Theorems about Ext2Blocks, for any number of inodes, blocks and tasks   *)
(* and for any geometry: who works on which inode; that the pointers of    *)
(* the inodes and of the indirect blocks make trees of the blocks in use;  *)
(* and, along the ways down these trees, that a lookup finds the block of  *)
(* its page, that truncate takes everything past the size and nothing      *)
(* below it, whatever other tasks do at the same time.                     *)
(***************************************************************************)
EXTENDS Ext2Blocks, TLAPS

----------------------------------------
(* Tasks as records *)

Columns == {"pc", "op", "ino", "b", "page", "walk", "chain", "err", "res",
            "goal", "got", "top", "depth", "work"}

\* A task has all its columns, whatever is in them.
Shape(r) == DOMAIN r = Columns

Walks == {"first", "regrab", "shared"}

LEMMA IdleShape ==
  /\ Shape(Idle)
  /\ Idle.pc = "idle" /\ Idle.op = "none" /\ Idle.ino = None
BY DEF Idle, Shape, Columns

\* What a task keeps of itself as it goes from r to s: the call and the inode.
Same(r, s) == Shape(s) /\ s.op = r.op /\ s.ino = r.ino

(* Where a walk leads, it is the walk of the same call on the same inode *)
(* (fs/ext2/inode.c:222-258). *)
LEMMA AfterWalkKeeps ==
  ASSUME NEW r, Shape(r), r.walk \in Walks
  PROVE  /\ Same(r, AfterWalk(r))
         /\ AfterWalk(r).pc \in {"detach", "return", "lock", "search"}
<1> DEFINE s == [r EXCEPT !.walk = "none"]
           found == r.err = "ok" /\ Partial(r).key # 0
<1>1. Same(r, s)
  BY DEF Same, Shape, Columns
<1>2. CASE r.walk = "shared"
  BY <1>1, <1>2 DEF AfterWalk, Same, Shape, Columns
<1>3. CASE r.walk # "shared" /\ found
  BY <1>1, <1>3 DEF AfterWalk, Same, Shape, Columns
<1>4. CASE r.walk = "first" /\ ~found /\ (r.op = "readpage" \/ r.err = "EIO")
  BY <1>1, <1>4 DEF AfterWalk, Same, Shape, Columns
<1>5. CASE r.walk = "first" /\ ~found /\ r.op # "readpage" /\ r.err # "EIO"
  BY <1>1, <1>5 DEF AfterWalk, Same, Shape, Columns
<1>6. CASE r.walk = "regrab" /\ ~found
  BY <1>1, <1>6 DEF AfterWalk, Same, Shape, Columns
<1> QED BY <1>2, <1>3, <1>4, <1>5, <1>6 DEF Walks

LEMMA WalkedKeeps ==
  ASSUME NEW r, NEW l, Shape(r), r.walk \in Walks
  PROVE  /\ Same(r, Walked(r, l))
         /\ Walked(r, l).pc \in {"verify", "detach", "return", "lock", "search"}
         /\ Walked(r, l).pc = "verify" => Walked(r, l).walk = r.walk
<1> DEFINE s == [r EXCEPT !.chain = Append(@, l), !.pc = "verify"]
<1>1. Same(r, s) /\ s.walk = r.walk /\ s.pc = "verify"
  BY DEF Same, Shape, Columns
<1>2. Walked(r, l) = s \/ Walked(r, l) = AfterWalk(s)
  BY DEF Walked
<1> HIDE DEF s
<1>3. Same(s, AfterWalk(s)) /\ AfterWalk(s).pc \in {"detach", "return", "lock", "search"}
  BY <1>1, AfterWalkKeeps DEF Same
<1> QED BY <1>1, <1>2, <1>3 DEF Same

LEMMA BeginWalkKeeps ==
  ASSUME NEW r, NEW walk \in Walks, Shape(r)
  PROVE  /\ Same(r, BeginWalk(r, walk))
         /\ BeginWalk(r, walk).pc \in {"verify", "detach", "return", "lock", "search"}
         /\ BeginWalk(r, walk).pc = "verify" => BeginWalk(r, walk).walk \in Walks
<1> DEFINE s == [r EXCEPT !.walk = walk, !.chain = <<>>, !.err = "ok"]
           l == LinkAt(r.ino, Path(r)[1])
<1>1. Same(r, s) /\ s.walk = walk
  BY DEF Same, Shape, Columns
<1>2. BeginWalk(r, walk) = Walked(s, l)
  BY DEF BeginWalk
<1> HIDE DEF s, l
<1> QED BY <1>1, <1>2, WalkedKeeps DEF Same

----------------------------------------
(* The invariant *)

\* The calls that must have their inode to themselves.
Exclusive(r) == r.op \in {"create", "evict"}

(* A task's inode is allocated, and nobody else has the inode that a task *)
(* creates or deletes. *)
OwnInv ==
  \A t \in Tasks : task[t].ino # None =>
    /\ task[t].ino \in live
    /\ Exclusive(task[t]) => \A u \in Tasks \ {t} : task[u].ino # task[t].ino

(* A task looking for an inode has none yet; one that initialises an inode *)
(* created it; one that frees an inode deletes it. *)
PlaceInv ==
  /\ DOMAIN task = Tasks /\ live \subseteq Inodes
  /\ \A t \in Tasks : LET r == task[t] IN
       /\ Shape(r)
       /\ r.pc = "new" => r.goal \in Inodes
       /\ r.pc = "init" => r.op = "create" /\ r.ino # None
       /\ r.pc = "free" => r.op = "evict"
       /\ r.op = "evict" => r.ino # None
       /\ r.pc \in {"verify", "add"} => r.walk \in Walks

Inv == OwnInv /\ PlaceInv

LEMMA InvInit == Init => Inv
BY IdleShape DEF Init, Inv, OwnInv, PlaceInv

\* The places that say nothing special about the task.
Plain(s) ==
  /\ s.pc \notin {"new", "init", "free"}
  /\ s.pc \in {"verify", "add"} => s.walk \in Walks

\* Task t goes on alone.
Moves(t) ==
  /\ DOMAIN task' = Tasks
  /\ \A u \in Tasks \ {t} : task'[u] = task[u]

(* A step within a call. *)
LEMMA InvGoesOn ==
  ASSUME Inv, NEW t \in Tasks, Moves(t), live' = live,
         Same(task[t], task'[t]), Plain(task'[t])
  PROVE  Inv'
<1>1. \A u \in Tasks : task'[u].ino = task[u].ino /\ task'[u].op = task[u].op
  BY DEF Moves, Same
<1>2. OwnInv'
  BY <1>1 DEF Inv, OwnInv, Exclusive
<1>3. PlaceInv'
  BY <1>1 DEF Inv, PlaceInv, Moves, Same, Plain
<1> QED BY <1>2, <1>3 DEF Inv

(* The end of a call. *)
LEMMA InvEnds ==
  ASSUME Inv, NEW t \in Tasks, Moves(t), live' = live, task'[t] = Idle
  PROVE  Inv'
<1>1. \A u \in Tasks \ {t} : task'[u] = task[u]
  BY DEF Moves
<1>2. task'[t].ino = None
  BY IdleShape
<1>3. OwnInv'
  BY <1>1, <1>2 DEF Inv, OwnInv, Exclusive
<1>4. PlaceInv'
  BY <1>1, IdleShape DEF Inv, PlaceInv, Moves
<1> QED BY <1>3, <1>4 DEF Inv

(* The beginning of a call on an inode that can be reached. *)
LEMMA InvBegins ==
  ASSUME Inv, NEW t \in Tasks, NEW i \in Inodes, Moves(t), live' = live,
         Reachable(i), Shape(task'[t]), task'[t].ino = i, ~Exclusive(task'[t]),
         Plain(task'[t])
  PROVE  Inv'
<1>1. \A u \in Tasks \ {t} : task'[u] = task[u]
  BY DEF Moves
<1>2. i \in live /\ \A u \in Tasks : task[u].ino = i => ~Exclusive(task[u])
  BY DEF Reachable, Exclusive
<1>3. OwnInv'
  BY <1>1, <1>2 DEF Inv, OwnInv, Exclusive
<1>4. PlaceInv'
  BY <1>1 DEF Inv, Exclusive, PlaceInv, Moves, Plain
<1> QED BY <1>3, <1>4 DEF Inv

(* A call on the same inode that becomes another one. *)
LEMMA InvTurns ==
  ASSUME Inv, NEW t \in Tasks, Moves(t), live' = live, task'[t].ino = task[t].ino,
         Shape(task'[t]), ~Exclusive(task'[t]), Plain(task'[t])
  PROVE  Inv'
<1>1. OwnInv'
  BY DEF Inv, OwnInv, Exclusive, Moves
<1>2. PlaceInv'
  BY DEF Inv, Exclusive, PlaceInv, Moves, Plain
<1> QED BY <1>1, <1>2 DEF Inv

(* What an assignment to one task's record does. *)
LEMMA OneTaskMoves ==
  ASSUME Inv, NEW t \in Tasks, NEW s, task' = [task EXCEPT ![t] = s]
  PROVE  Moves(t) /\ task'[t] = s
BY DEF Inv, PlaceInv, Moves

----------------------------------------
(* The walks and the callers of ext2_get_block *)

LEMMA InvWalk ==
  ASSUME Inv, NEW t \in Tasks, WalkVerify(t) \/ WalkAdd(t)
  PROVE  Inv'
<1> DEFINE r == task[t]
<1>0. Shape(r) /\ (r.pc \in {"verify", "add"} => r.walk \in Walks)
  BY DEF Inv, PlaceInv
<1>1. CASE WalkVerify(t)
  <2>1. r.walk \in Walks /\ live' = live
    BY <1>0, <1>1 DEF WalkVerify
  <2>2. CASE \E err \in {"EIO", "EAGAIN"} :
               task' = [task EXCEPT ![t] = AfterWalk([r EXCEPT !.err = err])]
    <3>1. PICK err \in {"EIO", "EAGAIN"} :
            task' = [task EXCEPT ![t] = AfterWalk([r EXCEPT !.err = err])]
      BY <2>2
    <3> DEFINE q == [r EXCEPT !.err = err]
    <3>2. Same(r, q) /\ q.walk \in Walks
      BY <1>0, <2>1 DEF Same, Shape, Columns
    <3>3. Moves(t) /\ task'[t] = AfterWalk(q)
      BY <3>1, OneTaskMoves
    <3> HIDE DEF q
    <3>4. Same(r, task'[t]) /\ Plain(task'[t])
      BY <3>2, <3>3, AfterWalkKeeps DEF Same, Plain
    <3> QED BY <2>1, <3>3, <3>4, InvGoesOn
  <2>3. CASE task' = [task EXCEPT ![t].pc = "add"]
    <3>1. Moves(t) /\ task'[t] = [r EXCEPT !.pc = "add"]
      BY <2>3, OneTaskMoves
    <3>2. Same(r, task'[t]) /\ Plain(task'[t])
      BY <1>0, <2>1, <3>1 DEF Same, Plain, Shape, Columns
    <3> QED BY <2>1, <3>1, <3>2, InvGoesOn
  <2> QED BY <1>1, <2>2, <2>3 DEF WalkVerify
<1>2. CASE WalkAdd(t)
  <2> DEFINE l == LinkAt(Partial(r).key, Path(r)[Len(r.chain) + 1])
  <2>1. r.walk \in Walks /\ live' = live /\ task' = [task EXCEPT ![t] = Walked(r, l)]
    BY <1>0, <1>2 DEF WalkAdd
  <2> HIDE DEF l
  <2>2. Moves(t) /\ task'[t] = Walked(r, l)
    BY <2>1, OneTaskMoves
  <2>3. Same(r, task'[t]) /\ Plain(task'[t])
    BY <1>0, <2>1, <2>2, WalkedKeeps DEF Plain
  <2> QED BY <2>1, <2>2, <2>3, InvGoesOn
<1> QED BY <1>1, <1>2

LEMMA InvPageStart ==
  ASSUME Inv, NEW t \in Tasks, NEW i, NEW b,
         \/ i \in Inodes /\ StartPage(t, "readpage", i, b)
         \/ i \in Inodes /\ StartPage(t, "writepage", i, b)
         \/ WriteBegin(t) /\ i = task[t].ino /\ b = task[t].b
  PROVE  Inv'
<1>1. PICK op \in {"readpage", "writepage", "write"} :
        task' = [task EXCEPT ![t] = BeginWalk(Request(op, i, b, TRUE), "first")]
  BY DEF StartPage, WriteBegin
<1> DEFINE r == Request(op, i, b, TRUE)
<1>2. Shape(r) /\ r.op = op /\ r.ino = i
  BY DEF Request, Idle, Shape, Columns
<1>3. Moves(t) /\ task'[t] = BeginWalk(r, "first")
  BY <1>1, OneTaskMoves
<1> HIDE DEF r
<1>4. Same(r, task'[t]) /\ Plain(task'[t])
  BY <1>2, <1>3, BeginWalkKeeps DEF Plain, Walks
<1>5. live' = live /\ ((i \in Inodes /\ Reachable(i)) \/ i = task[t].ino)
  BY DEF StartPage, WriteBegin
<1> QED BY <1>2, <1>3, <1>4, <1>5, InvBegins, InvTurns DEF Same, Exclusive

LEMMA InvPageEnd ==
  ASSUME Inv, NEW t \in Tasks, PageEnd(t) \/ WriteEnd(t) \/ WriteFailed(t)
  PROVE  Inv'
<1>0. live' = live
  BY DEF PageEnd, WriteEnd, WriteFailed
<1>1. CASE task' = [task EXCEPT ![t] = Idle]
  BY <1>0, <1>1, OneTaskMoves, InvEnds
<1>2. CASE WriteFailed(t) /\ task' # [task EXCEPT ![t] = Idle]
  <2> DEFINE i == task[t].ino
             q == Request("truncate", i, i_size[i], FALSE)
  <2>1. task' = [task EXCEPT ![t] = [q EXCEPT !.pc = "truncate"]]
    BY <1>2 DEF WriteFailed
  <2>2. Shape(q) /\ q.op = "truncate" /\ q.ino = i
    BY DEF Request, Idle, Shape, Columns
  <2> HIDE DEF q
  <2>3. Moves(t) /\ task'[t] = [q EXCEPT !.pc = "truncate"]
    BY <2>1, OneTaskMoves
  <2>4. /\ Shape(task'[t]) /\ Plain(task'[t])
        /\ task'[t].op = "truncate" /\ task'[t].ino = i
    BY <2>2, <2>3 DEF Shape, Columns, Plain
  <2> QED BY <1>0, <2>3, <2>4, InvTurns DEF Exclusive
<1> QED BY <1>1, <1>2 DEF PageEnd, WriteEnd

----------------------------------------
(* Allocation and truncation *)

LEMMA InvAllocate ==
  ASSUME Inv, NEW t \in Tasks,
         LockAndVerify(t) \/ Search(t) \/ NoSpace(t) \/ Claim(t) \/ Splice(t)
  PROVE  Inv'
<1> DEFINE r == task[t]
<1>0. Shape(r) /\ live' = live /\ DOMAIN task = Tasks
  BY DEF Inv, PlaceInv, LockAndVerify, Search, NoSpace, Claim, Splice
<1>1. CASE LockAndVerify(t)
  BY <1>0, <1>1, OneTaskMoves, BeginWalkKeeps, InvGoesOn DEF Plain, Walks, Same, Shape, Columns,
     LockAndVerify
<1>2. CASE Search(t)
  <2>1. PICK b \in Blocks : task' = [task EXCEPT ![t].pc = "claim", ![t].goal = b]
    BY <1>2 DEF Search
  <2>2. Moves(t) /\ Same(r, task'[t]) /\ Plain(task'[t])
    BY <1>0, <2>1 DEF Moves, Same, Plain, Shape, Columns
  <2> QED BY <1>0, <2>2, InvGoesOn
<1>3. CASE NoSpace(t)
  BY <1>0, <1>3, OneTaskMoves, InvGoesOn DEF NoSpace, Same, Plain, Shape, Columns
<1>4. CASE Claim(t)
  <2>1. CASE task' = [task EXCEPT ![t].pc = "search", ![t].goal = 0]
    BY <1>0, <2>1, InvGoesOn DEF Moves, Same, Plain, Shape, Columns
  <2>2. CASE \E got, pc : /\ pc \in {"splice", "search"}
                          /\ task' = [task EXCEPT ![t] =
                               [r EXCEPT !.got = got, !.goal = 0, !.pc = pc]]
    <3>1. PICK got, pc : /\ pc \in {"splice", "search"}
                         /\ task' = [task EXCEPT ![t] =
                              [r EXCEPT !.got = got, !.goal = 0, !.pc = pc]]
      BY <2>2
    <3>2. Moves(t) /\ task'[t] = [r EXCEPT !.got = got, !.goal = 0, !.pc = pc]
      BY <3>1, OneTaskMoves
    <3>3. Same(r, task'[t]) /\ Plain(task'[t])
      BY <1>0, <3>1, <3>2 DEF Same, Plain, Shape, Columns
    <3> QED BY <1>0, <3>2, <3>3, InvGoesOn
  <2> QED BY <1>4, <2>1, <2>2 DEF Claim
<1>5. CASE Splice(t)
  BY <1>0, <1>5, OneTaskMoves, InvGoesOn DEF Splice, Same, Plain, Shape, Columns
<1> QED BY <1>1, <1>2, <1>3, <1>4, <1>5

LEMMA InvTruncate ==
  ASSUME Inv, NEW t \in Tasks,
         TruncateLock(t) \/ Detach(t) \/ Kill(t) \/ FreeBranch(t) \/ TruncateEnd(t)
  PROVE  Inv'
<1> DEFINE r == task[t]
<1>0. Shape(r) /\ live' = live /\ (r.op = "evict" => r.ino # None)
  BY DEF Inv, PlaceInv, TruncateLock, Detach, Kill, FreeBranch, TruncateEnd
<1>1. CASE TruncateLock(t)
  <2>1. CASE task' = [task EXCEPT ![t] = BeginWalk(r, "shared")]
    <3>1. Moves(t) /\ task'[t] = BeginWalk(r, "shared")
      BY <2>1, OneTaskMoves
    <3>2. Same(r, task'[t]) /\ Plain(task'[t])
      BY <1>0, <3>1, BeginWalkKeeps DEF Plain, Walks
    <3> QED BY <1>0, <3>1, <3>2, InvGoesOn
  <2>2. CASE \E work : task' = [task EXCEPT ![t] = [r EXCEPT !.pc = "kill", !.work = work]]
    <3>1. PICK work : task' = [task EXCEPT ![t] = [r EXCEPT !.pc = "kill", !.work = work]]
      BY <2>2
    <3>2. Moves(t) /\ task'[t] = [r EXCEPT !.pc = "kill", !.work = work]
      BY <3>1, OneTaskMoves
    <3>3. Same(r, task'[t]) /\ Plain(task'[t])
      BY <1>0, <3>2 DEF Same, Plain, Shape, Columns
    <3> QED BY <1>0, <3>2, <3>3, InvGoesOn
  <2> QED BY <1>1, <2>1, <2>2 DEF TruncateLock
<1>2. CASE Detach(t)
  <2>1. PICK top, depth, work : task' = [task EXCEPT ![t] =
          [r EXCEPT !.pc = "kill", !.chain = <<>>, !.top = top, !.depth = depth, !.work = work]]
    BY <1>2 DEF Detach
  <2>2. Moves(t) /\ task'[t] =
          [r EXCEPT !.pc = "kill", !.chain = <<>>, !.top = top, !.depth = depth, !.work = work]
    BY <2>1, OneTaskMoves
  <2>3. Same(r, task'[t]) /\ Plain(task'[t])
    BY <1>0, <2>2 DEF Same, Plain, Shape, Columns
  <2> QED BY <1>0, <2>2, <2>3, InvGoesOn
<1>3. CASE Kill(t)
  <2>1. PICK top, depth, work : task' = [task EXCEPT ![t] =
          [r EXCEPT !.top = top, !.depth = depth, !.work = work]]
    BY <1>3 DEF Kill
  <2>2. Moves(t) /\ task'[t] = [r EXCEPT !.top = top, !.depth = depth, !.work = work]
    BY <2>1, OneTaskMoves
  <2>3. Same(r, task'[t]) /\ Plain(task'[t])
    BY <1>0, <1>3, <2>2 DEF Kill, Same, Plain, Shape, Columns
  <2> QED BY <1>0, <2>2, <2>3, InvGoesOn
<1>4. CASE FreeBranch(t)
  <2>1. Moves(t) /\ task'[t] = [r EXCEPT !.top = 0, !.depth = 0]
    BY <1>4, OneTaskMoves DEF FreeBranch
  <2>2. Same(r, task'[t]) /\ Plain(task'[t])
    BY <1>0, <1>4, <2>1 DEF FreeBranch, Same, Plain, Shape, Columns
  <2> QED BY <1>0, <2>1, <2>2, InvGoesOn
<1>5. CASE TruncateEnd(t)
  BY <1>0, <1>5, OneTaskMoves, InvEnds DEF TruncateEnd, Idle, Shape, Columns, Moves, Inv,
     OwnInv, Exclusive, PlaceInv
<1> QED BY <1>1, <1>2, <1>3, <1>4, <1>5

LEMMA InvStartTruncate ==
  ASSUME Inv, NEW t \in Tasks, NEW i \in Inodes, NEW b,
         StartTruncate(t, i, b) \/ StartWrite(t, i, b)
  PROVE  Inv'
<1>0. PICK op \in {"truncate", "begin"}, pc \in {"truncate", "page"} :
        task' = [task EXCEPT ![t] = [Request(op, i, b, FALSE) EXCEPT !.pc = pc]]
  BY DEF StartTruncate, StartWrite
<1> DEFINE q == Request(op, i, b, FALSE)
<1>1. live' = live /\ Reachable(i)
  BY DEF StartTruncate, StartWrite
<1>2. Shape(q) /\ q.op = op /\ q.ino = i
  BY DEF Request, Idle, Shape, Columns
<1>3. Moves(t) /\ task'[t] = [q EXCEPT !.pc = pc]
  BY <1>0, OneTaskMoves
<1> HIDE DEF q
<1>4. Shape(task'[t]) /\ Plain(task'[t]) /\ task'[t].ino = i /\ ~Exclusive(task'[t])
  BY <1>2, <1>3 DEF Shape, Columns, Plain, Exclusive
<1> QED BY <1>1, <1>3, <1>4, InvBegins

----------------------------------------
(* Inodes come and go *)

LEMMA InvLook ==
  ASSUME Inv, NEW t \in Tasks, StartCreate(t) \/ LoseInode(t)
  PROVE  Inv'
<1>0. live' = live
  BY DEF StartCreate, LoseInode
<1>1. CASE task' = [task EXCEPT ![t] = Idle]
  BY <1>0, <1>1, OneTaskMoves, InvEnds
<1>2. CASE StartCreate(t)
  <2>1. PICK i \in Inodes : task' = [task EXCEPT ![t] =
          [Idle EXCEPT !.pc = "new", !.op = "create", !.goal = i]]
    BY <1>2 DEF StartCreate
  <2>2. Moves(t) /\ task'[t] = [Idle EXCEPT !.pc = "new", !.op = "create", !.goal = i]
    BY <2>1, OneTaskMoves
  <2>3. /\ Shape(task'[t]) /\ task'[t].pc = "new" /\ task'[t].goal \in Inodes
        /\ task'[t].ino = None /\ task'[t].op = "create"
    BY <2>2 DEF Idle, Shape, Columns
  <2>4. \A u \in Tasks \ {t} : task'[u] = task[u]
    BY <2>2 DEF Moves
  <2>5. OwnInv'
    BY <1>0, <2>3, <2>4 DEF Inv, OwnInv, Exclusive
  <2>6. PlaceInv'
    BY <1>0, <2>2, <2>3, <2>4, ZenonT(60) DEF Inv, PlaceInv, Moves
  <2> QED BY <2>5, <2>6 DEF Inv
<1>3. CASE \E i \in Inodes : LoseInode(t) /\ task' = [task EXCEPT ![t].goal = i]
  BY <1>0, <1>3, OneTaskMoves DEF Inv, PlaceInv, LoseInode, Same, Shape, Columns, Moves, OwnInv,
     Exclusive
<1> QED BY <1>1, <1>2, <1>3 DEF LoseInode

(* The inode whose bit was clear is nobody's: a task's inode is allocated. *)
LEMMA InvClaimInode ==
  ASSUME Inv, NEW t \in Tasks, ClaimInode(t)
  PROVE  Inv'
<1> DEFINE i == task[t].goal
<1>1. i \notin live /\ live' = live \cup {i} /\ i \in Inodes
  BY DEF Inv, PlaceInv, ClaimInode
<1>2. Moves(t) /\ task'[t] = [Idle EXCEPT !.pc = "init", !.op = "create", !.ino = i]
  BY OneTaskMoves DEF ClaimInode
<1> HIDE DEF i
<1>3. /\ Shape(task'[t]) /\ task'[t].pc = "init"
      /\ task'[t].ino = i /\ task'[t].op = "create"
  BY <1>2 DEF Idle, Shape, Columns
<1>4. \A u \in Tasks \ {t} : task'[u] = task[u]
  BY <1>2 DEF Moves
<1>5. i # None
  BY <1>1, Ext2BlocksAssumption
<1>6. \A u \in Tasks : task[u].ino # i
  BY <1>1, <1>5 DEF Inv, OwnInv
<1>7. OwnInv'
  BY <1>1, <1>3, <1>4, <1>6 DEF Inv, OwnInv, Exclusive
<1>8. PlaceInv'
  BY <1>1, <1>2, <1>3, <1>4, <1>5 DEF Inv, PlaceInv, Moves
<1> QED BY <1>7, <1>8 DEF Inv

LEMMA InvInitInode ==
  ASSUME Inv, NEW t \in Tasks, InitInode(t)
  PROVE  Inv'
<1>0. live' = live
  BY DEF InitInode
<1>1. CASE task' = [task EXCEPT ![t] = Idle]
  BY <1>0, <1>1, OneTaskMoves, InvEnds
<1>2. CASE task' = [task EXCEPT ![t].pc = "free", ![t].op = "evict"]
  BY <1>0, <1>2 DEF Inv, PlaceInv, InitInode, Moves, Shape, Columns, Exclusive, OwnInv
<1> QED BY <1>1, <1>2 DEF InitInode

LEMMA InvStartEvict ==
  ASSUME Inv, NEW t \in Tasks, NEW i \in Inodes, StartEvict(t, i)
  PROVE  Inv'
<1> DEFINE q == Request("evict", i, 0, FALSE)
<1>1. /\ task' = [task EXCEPT ![t] = [q EXCEPT !.pc = "truncate"]]
      /\ live' = live /\ i \in live /\ \A u \in Tasks : task[u].ino # i
  BY DEF StartEvict
<1>2. Shape(q) /\ q.op = "evict" /\ q.ino = i
  BY DEF Request, Idle, Shape, Columns
<1> HIDE DEF q
<1>3. Moves(t) /\ task'[t] = [q EXCEPT !.pc = "truncate"]
  BY <1>1, OneTaskMoves
<1>4. /\ Shape(task'[t]) /\ Plain(task'[t]) /\ task'[t].pc = "truncate"
      /\ task'[t].op = "evict" /\ task'[t].ino = i
  BY <1>2, <1>3 DEF Shape, Columns, Plain
<1>5. \A u \in Tasks \ {t} : task'[u] = task[u]
  BY <1>3 DEF Moves
<1>6. OwnInv'
  BY <1>1, <1>4, <1>5 DEF Inv, OwnInv, Exclusive
<1>7. i # None
  BY Ext2BlocksAssumption
<1>8. PlaceInv'
  BY <1>1, <1>3, <1>4, <1>5, <1>7 DEF Inv, PlaceInv, Moves
<1> QED BY <1>6, <1>8 DEF Inv

(* The inode that is freed is nobody else's. *)
LEMMA InvFreeInode ==
  ASSUME Inv, NEW t \in Tasks, FreeInode(t)
  PROVE  Inv'
<1>1. task[t].op = "evict" /\ task[t].ino # None
  BY DEF Inv, PlaceInv, FreeInode
<1>2. Moves(t) /\ task'[t] = Idle
  BY OneTaskMoves DEF FreeInode
<1>3. \A u \in Tasks \ {t} : task'[u] = task[u] /\ task[u].ino # task[t].ino
  BY <1>1, <1>2 DEF Moves, Inv, OwnInv, Exclusive
<1>4. live' = live \ {task[t].ino}
  BY DEF FreeInode
<1>5. OwnInv'
  BY <1>2, <1>3, <1>4, IdleShape DEF Inv, OwnInv, Exclusive
<1>6. PlaceInv'
  BY <1>2, <1>3, <1>4, IdleShape DEF Inv, PlaceInv, Moves
<1> QED BY <1>5, <1>6 DEF Inv

LEMMA InvNext == Inv /\ [Next]_vars => Inv'
<1> SUFFICES ASSUME Inv, [Next]_vars
             PROVE  Inv'
  OBVIOUS
<1>1. CASE UNCHANGED vars
  BY <1>1 DEF Inv, OwnInv, PlaceInv, vars
<1>2. CASE Next
  BY <1>2, InvLook, InvPageStart, InvStartTruncate, InvStartEvict, InvWalk, InvAllocate,
     InvPageEnd, InvTruncate, InvClaimInode, InvInitInode, InvFreeInode DEF Next, Start, Step
<1> QED BY <1>1, <1>2

(* Whatever ext2_new_inode and ext2_evict_inode do at the same time *)
(* (fs/ext2/ialloc.c:99, 496): no two calls get the same new inode, nobody *)
(* works on one that is being created or deleted, and the bit of an inode *)
(* that somebody works on is set. *)
THEOREM InodesAreNotShared == Spec => []NoInodeShared
<1>1. Inv => NoInodeShared
  BY DEF Inv, OwnInv, Exclusive, NoInodeShared
<1> QED BY <1>1, InvInit, InvNext, PTL DEF Spec

----------------------------------------
(* Paths *)

LEMMA DivBound ==
  ASSUME NEW x \in Nat, NEW m \in Nat \ {0}, NEW k \in Nat
  PROVE  /\ x \div m \in Nat
         /\ x < m * k <=> x \div m < k
<1> DEFINE q == x \div m
           s == x % m
<1>1. q \in Nat /\ s \in Nat /\ s < m /\ x = m * q + s
  OBVIOUS
<1> HIDE DEF q, s
<1>2. ASSUME q < k
      PROVE  x < m * k
  BY <1>1, <1>2
<1>3. ASSUME k <= q
      PROVE  m * k <= x
  BY <1>1, <1>3
<1>4. m * k \in Nat
  OBVIOUS
<1> QED BY <1>1, <1>2, <1>3, <1>4 DEF q

\* The blocks a file can have.
Fits(b) == b \in Nat /\ ext2_block_to_path(b) # <<>>

\* What a path looks like: an offset in the inode, then offsets in indirect
\* blocks, as many as lie below the first one.
PathOK(path) ==
  /\ path \in Seq(Nat) /\ Len(path) \in 1 .. 4
  /\ path[1] \in 0 .. NDir + 2 /\ Depth(path[1]) = Len(path) - 1
  /\ \A n \in 2 .. Len(path) : path[n] \in 0 .. Ptrs - 1

LEMMA Geometry == NDir \in Nat /\ NDir > 0 /\ Ptrs \in Nat /\ Ptrs > 0
BY Ext2BlocksAssumption

(* ext2_block_to_path gives a path of the right length with offsets in *)
(* bounds (fs/ext2/inode.c:159-199). *)
LEMMA PathIs ==
  ASSUME NEW b, Fits(b)
  PROVE  PathOK(ext2_block_to_path(b))
<1> DEFINE ind == b - NDir
           dind == ind - Ptrs
           sq == Ptrs * Ptrs
           tind == dind - sq
<1>0. b \in Nat /\ sq \in Nat /\ sq > 0
  BY Geometry DEF Fits
<1>1. CASE b < NDir
  <2>0. ~ (b >= NDir) /\ ~ (ind >= Ptrs) /\ ~ (dind >= sq)
    BY <1>0, <1>1, Geometry
  <2>1. ext2_block_to_path(b) = <<b>>
    BY <1>1, <2>0 DEF ext2_block_to_path
  <2> QED BY <1>0, <1>1, <2>1, Geometry DEF PathOK, Depth
<1>2. CASE b >= NDir /\ ind < Ptrs
  <2>0. ~ (b < NDir) /\ ~ (ind >= Ptrs) /\ ~ (dind >= sq)
    BY <1>0, <1>2, Geometry
  <2>1. ext2_block_to_path(b) = <<NDir, ind>>
    BY <1>2, <2>0 DEF ext2_block_to_path, EXT2_IND_BLOCK
  <2> QED BY <1>0, <1>2, <2>1, Geometry DEF PathOK, Depth
<1>3. CASE ind >= Ptrs /\ dind < sq
  <2>0. ~ (b < NDir) /\ ~ (ind < Ptrs) /\ ~ (dind >= sq)
    BY <1>0, <1>3, Geometry
  <2>1. ext2_block_to_path(b) = <<NDir + 1, dind \div Ptrs, dind % Ptrs>>
    BY <1>3, <2>0 DEF ext2_block_to_path, EXT2_IND_BLOCK
  <2>2. dind \div Ptrs \in 0 .. Ptrs - 1 /\ dind % Ptrs \in 0 .. Ptrs - 1
    BY <1>0, <1>3, Geometry, DivBound
  <2> HIDE DEF dind
  <2> QED BY <2>1, <2>2, Geometry DEF PathOK, Depth
<1>4. CASE dind >= sq /\ tind \div sq < Ptrs
  BY <1>0, <1>4, Geometry, DivBound DEF ext2_block_to_path, EXT2_IND_BLOCK, PathOK, Depth
<1> QED BY <1>0, <1>1, <1>2, <1>3, <1>4, Geometry DEF ext2_block_to_path, Fits

(* Blocks before one that fits do. *)
LEMMA FitsBelow ==
  ASSUME NEW b, Fits(b), NEW c \in Nat, c <= b
  PROVE  Fits(c)
<1> DEFINE sq == Ptrs * Ptrs
           t(x) == x - NDir - Ptrs - sq
<1>0. b \in Nat /\ sq \in Nat /\ sq > 0
  BY Geometry DEF Fits
<1>1. \A x \in Nat : ext2_block_to_path(x) = <<>> <=> t(x) >= 0 /\ ~ (t(x) \div sq < Ptrs)
  <2> TAKE x \in Nat
  <2>1. CASE x < NDir
    BY <1>0, <2>1, Geometry DEF ext2_block_to_path
  <2>2. CASE x >= NDir /\ x - NDir < Ptrs
    BY <1>0, <2>2, Geometry DEF ext2_block_to_path
  <2>3. CASE x - NDir >= Ptrs /\ x - NDir - Ptrs < sq
    BY <1>0, <2>3, Geometry DEF ext2_block_to_path
  <2>4. CASE x - NDir - Ptrs >= sq /\ t(x) \div sq < Ptrs
    BY <1>0, <2>4, Geometry DEF ext2_block_to_path
  <2>5. CASE x - NDir - Ptrs >= sq /\ ~ (t(x) \div sq < Ptrs)
    BY <1>0, <2>5, Geometry DEF ext2_block_to_path
  <2> QED BY <1>0, <2>1, <2>2, <2>3, <2>4, <2>5, Geometry
<1>2. CASE t(c) < 0
  BY <1>0, <1>1, <1>2, Geometry DEF Fits
<1>3. CASE t(c) >= 0
  BY <1>0, <1>1, <1>3, Geometry, DivBound DEF Fits
<1> QED BY <1>0, <1>2, <1>3, Geometry

----------------------------------------
(* Branches *)

LEMMA LevelsAre ==
  ASSUME NEW b, NEW d \in 0 .. 3
  PROVE  /\ Levels(b, d)[0] = {b}
         /\ \A n \in 1 .. d : Levels(b, d)[n] = Children(Levels(b, d)[n - 1])
<1> DEFINE D == 0 .. d
           L1 == Children({b})
           L2 == Children(L1)
           L3 == Children(L2)
           w == [n \in D |-> IF n = 0 THEN {b} ELSE IF n = 1 THEN L1
                             ELSE IF n = 2 THEN L2 ELSE L3]
           Is(f) == f = [n \in D |-> IF n = 0 THEN {b} ELSE Children(f[n - 1])]
<1>1. Is(w)
  <2>1. \A n \in D : w[n] = IF n = 0 THEN {b} ELSE Children(w[n - 1])
    <3> TAKE n \in D
    <3>1. CASE n = 0
      BY <3>1
    <3>2. CASE n = 1
      BY <3>2
    <3>3. CASE n = 2
      BY <3>3
    <3>4. CASE n = 3
      BY <3>4
    <3> QED BY <3>1, <3>2, <3>3, <3>4
  <2> HIDE DEF L1, L2, L3
  <2> QED BY <2>1
<1>2. Levels(b, d) = CHOOSE f : Is(f)
  BY DEF Levels
<1>3. Is(Levels(b, d))
  BY <1>1, <1>2
<1>4. ASSUME NEW f, Is(f)
      PROVE  f[0] = {b} /\ \A n \in 1 .. d : f[n] = Children(f[n - 1])
  <2>1. \A n \in D : f[n] = IF n = 0 THEN {b} ELSE Children(f[n - 1])
    BY <1>4
  <2>2. 0 \in D /\ \A n \in 1 .. d : n \in D /\ n # 0
    OBVIOUS
  <2> QED BY <2>1, <2>2, Zenon
<1> HIDE DEF Is
<1> QED BY <1>3, <1>4, Zenon

\* Hosts that hold pointers, of the blocks S, and their slots; lv gives the
\* level of a block, 0 for data.
Indirect(S, lv) == {h \in Inodes \cup S : lv[h] > 0}
Slots(h) == IF h \in Inodes THEN 0 .. NDir + 2 ELSE 0 .. Ptrs - 1

\* The level of what slot o of h holds.
Below(lv, h, o) == IF h \in Inodes THEN Depth(o) ELSE lv[h] - 1

\* Every block has a level and a file.
Labels(lv, file) ==
  /\ lv \in [Hosts -> 0 .. 4] /\ file \in [Hosts -> Inodes \cup {None}]
  /\ \A i \in Inodes : lv[i] = 4 /\ file[i] = i
  /\ \A b \in Blocks : lv[b] # 4

\* With the pointers p, somebody points to x.
Points(p, S, lv, x) == \E h \in Indirect(S, lv) : \E o \in Slots(h) : p[h][o] = x

\* The pointers p make trees of the blocks S, one under each inode and one
\* under each block of R, with the levels lv in the files file.
Tree(p, S, lv, file, R) ==
  /\ \A h \in Indirect(S, lv) : \A o \in Slots(h) : p[h][o] # 0 =>
       /\ p[h][o] \in S
       /\ lv[p[h][o]] = Below(lv, h, o)
       /\ file[p[h][o]] = file[h]
  /\ \A h, g \in Indirect(S, lv) : \A o \in Slots(h), q \in Slots(g) :
       p[h][o] # 0 /\ p[h][o] = p[g][q] => h = g /\ o = q
  /\ R \subseteq S
  /\ \A x \in S : x \in R <=> ~ Points(p, S, lv, x)

\* C is the branch of S that begins at x.
IsBranch(S, lv, file, x, C) ==
  /\ x \in C /\ C \subseteq S
  /\ \A y \in C : /\ lv[y] <= lv[x] /\ file[y] = file[x]
                  /\ y # x => \E h \in C : lv[h] > 0 /\ \E o \in 0 .. Ptrs - 1 : ptr[h][o] = y
                  /\ lv[y] > 0 => \A o \in 0 .. Ptrs - 1 : ptr[y][o] # 0 => ptr[y][o] \in C

(* The blocks that Branch collects. *)
LEMMA BranchIs ==
  ASSUME NEW S, S \subseteq Blocks, NEW lv, NEW file, Labels(lv, file),
         NEW R, Tree(ptr, S, lv, file, R), NEW x \in S, NEW d, lv[x] = d
  PROVE  /\ d \in 0 .. 3
         /\ IsBranch(S, lv, file, x, Branch(x, d))
         /\ \A n \in 0 .. d : \A y \in Levels(x, d)[n] :
              y \in S /\ lv[y] = d - n /\ file[y] = file[x] /\ y \in Branch(x, d)
<1> DEFINE L(n) == Levels(x, d)[n]
<1>1. d \in 0 .. 3
  BY DEF Labels, Hosts
<1>2. \A b \in Blocks : lv[b] \in 0 .. 3 /\ b \notin Inodes
  BY Ext2BlocksAssumption DEF Labels, Hosts
<1>3. L(0) = {x} /\ \A n \in 1 .. d : L(n) = Children(L(n - 1))
  BY <1>1, LevelsAre
<1> HIDE DEF L
<1> DEFINE Ok(n) == \A y \in L(n) : y \in S /\ lv[y] = d - n /\ file[y] = file[x]
<1>4. Ok(0)
  BY <1>1, <1>3
<1>5. ASSUME NEW n \in 1 .. d, Ok(n - 1)
      PROVE  Ok(n)
  <2> TAKE y \in L(n)
  <2>1. PICK h \in L(n - 1), o \in 0 .. Ptrs - 1 : y = ptr[h][o] /\ y # 0
    BY <1>3 DEF Children
  <2>2. h \in S /\ lv[h] = d - (n - 1) /\ file[h] = file[x]
    BY <1>5
  <2>3. lv[h] > 0 /\ h \notin Inodes
    BY <1>1, <1>2, <2>2
  <2>4. h \in Indirect(S, lv) /\ o \in Slots(h) /\ Below(lv, h, o) = lv[h] - 1
    BY <2>2, <2>3 DEF Indirect, Slots, Below
  <2> QED BY <1>1, <2>1, <2>2, <2>4 DEF Tree
<1>6. \A n \in 0 .. d : Ok(n)
  BY <1>1, <1>4, <1>5
<1> DEFINE C == Branch(x, d)
<1>7. \A y : y \in C <=> \E n \in 0 .. d : y \in L(n)
  BY DEF Branch, L
<1> HIDE DEF C
<1>8. x \in C /\ C \subseteq S
  BY <1>1, <1>3, <1>6, <1>7
<1>9. ASSUME NEW y \in C
      PROVE  /\ lv[y] <= lv[x] /\ file[y] = file[x]
             /\ y # x => \E h \in C : lv[h] > 0 /\ \E o \in 0 .. Ptrs - 1 : ptr[h][o] = y
             /\ lv[y] > 0 => \A o \in 0 .. Ptrs - 1 : ptr[y][o] # 0 => ptr[y][o] \in C
  BY <1>1, <1>3, <1>6, <1>7 DEF Children
<1>10. IsBranch(S, lv, file, x, C)
  BY <1>8, <1>9 DEF IsBranch
<1> QED BY <1>1, <1>6, <1>7, <1>10 DEF C, L

----------------------------------------
(* The invariant of the blocks *)

\* The blocks that tasks have taken and not spliced yet; those that belong
\* to a file or to a branch that was taken off one; the tops of branches.
InHand == UNION {ToSet(task[t].got) : t \in Tasks}
Placed == used \ (lost \cup InHand)
Tops == {task[t].top : t \in Tasks} \ {0}

\* A chain as ext2_get_branch makes it: offsets from the path, and each link
\* in the block that the one before it pointed to.
ChainShape(r) ==
  /\ r.chain \in Seq(Link) /\ Len(r.chain) \in 1 .. Len(Path(r))
  /\ r.chain[1].host = r.ino
  /\ \A n \in 1 .. Len(r.chain) : r.chain[n].off = Path(r)[n]
  /\ \A n \in 1 .. Len(r.chain) - 1 :
       r.chain[n].key # 0 /\ r.chain[n + 1].host = r.chain[n].key

\* truncate_mutex is held.
Holding(r) == \/ r.pc \in {"search", "claim", "splice", "detach", "kill"}
              \/ r.pc \in {"verify", "add"} /\ r.walk \in {"regrab", "shared"}

WithChain == {"verify", "add", "lock", "search", "claim", "splice", "detach"}

SlotRecord == [host : Hosts, off : Nat, depth : 0 .. 3]

\* What a task keeps, by its place in the code.
Form(r) ==
  /\ r.pc \notin {"idle", "new"} => r.ino \in Inodes
  /\ r.pc \notin {"search", "claim", "splice"} => r.got = <<>>
  /\ r.pc # "kill" => r.top = 0 /\ r.work = <<>>
  /\ r.pc \in WithChain \cup {"page", "truncate", "return"} => Fits(r.b)
  /\ r.pc \in WithChain => ChainShape(r)
  /\ r.pc \in {"verify", "add"} =>
       Len(r.chain) < WalkDepth(r) /\ r.chain[Len(r.chain)].key # 0
  /\ r.pc = "add" => r.chain[Len(r.chain)].key \in Blocks
  /\ r.pc \in {"search", "claim"} => Len(r.got) < Needed(r)
  /\ r.pc = "splice" => Len(r.got) = Needed(r)
  /\ r.pc = "claim" => r.goal \in Blocks
  /\ r.pc = "init" => r.b = 0
  /\ r.op = "evict" => r.b = 0 /\ r.pc \in {"truncate", "kill", "free"}
  /\ r.work \in Seq(SlotRecord)
FormInv == \A t \in Tasks : Form(task[t])

MutexInv == \A t \in Tasks : Holding(task[t]) => truncate_mutex[task[t].ino] = t

\* Nobody else has the blocks that a task has taken.
HandInv ==
  \A t \in Tasks :
    /\ ToSet(task[t].got) \subseteq used \ lost
    /\ \A m, n \in DOMAIN task[t].got : task[t].got[m] = task[t].got[n] => m = n
    /\ \A u \in Tasks : u # t => ToSet(task[t].got) \cap ToSet(task[u].got) = {}

\* Inodes that are not allocated, or about to be freed, have no blocks.
NoBlocks(i) == \A o \in 0 .. NDir + 2 : ptr[i][o] = 0
ToDo(r) == \A o \in 0 .. NDir + 2 :
  ptr[r.ino][o] # 0 => \E n \in DOMAIN r.work : r.work[n].host = r.ino /\ r.work[n].off = o
EmptyInv ==
  /\ \A i \in Inodes \ live : NoBlocks(i)
  /\ \A t \in Tasks :
       /\ task[t].pc \in {"init", "free"} => NoBlocks(task[t].ino)
       /\ task[t].pc = "kill" /\ task[t].op = "evict" => ToDo(task[t])

\* The chain of a task that has truncate_mutex is what the pointers say.
ChainTrue(r, p) == \A n \in 1 .. Len(r.chain) :
  r.chain[n].key = p[r.chain[n].host][r.chain[n].off]

\* The slots that truncate still has to empty lie in indirect blocks of the
\* file that it is not about to free: what is freed first is less deep.
WorkTrue(r, S, lv, file) == \A n \in 1 .. Len(r.work) : LET w == r.work[n] IN
  /\ w.host \in Indirect(S, lv) /\ w.off \in Slots(w.host)
  /\ w.depth = Below(lv, w.host, w.off) /\ file[w.host] = r.ino
  /\ w.host \in Blocks => /\ r.top # 0 => r.depth <= w.depth
                         /\ \A m \in 1 .. n : r.work[m].depth <= w.depth

\* What a task has noted about the trees is true.
TaskTrue(r, p, S, lv, file) ==
  /\ r.top # 0 => lv[r.top] = r.depth /\ file[r.top] = r.ino
  /\ Holding(r) /\ r.pc # "kill" => ChainTrue(r, p)
  /\ WorkTrue(r, S, lv, file)

Trees(lv, file) ==
  /\ Labels(lv, file)
  /\ Tree(ptr, Placed, lv, file, Tops)
  /\ \A t \in Tasks : TaskTrue(task[t], ptr, Placed, lv, file)

\* The inductive invariant: what tasks keep and hold, and trees of which the
\* levels and the files are not in the state, and so are quantified.
BlockInv ==
  /\ TypeOK /\ Inv /\ FormInv /\ MutexInv /\ HandInv /\ EmptyInv
  /\ \E lv, file : Trees(lv, file)

----------------------------------------
(* What the invariant says about files *)

\* Whatever is in A but not in Q is pointed to from A.
Rises(p, S, lv, A, Q) ==
  \A x \in A : x \in Q \/
    (x \in S /\ \E h \in A \cap Indirect(S, lv) : \E o \in Slots(h) : p[h][o] = x)

(* Two sets of hosts that are closed upwards, but for their roots, are *)
(* disjoint if neither has a root of the other: pointers are unique. *)
LEMMA Apart ==
  ASSUME NEW p, NEW S, S \subseteq Blocks, NEW lv, NEW file, Labels(lv, file),
         NEW R, Tree(p, S, lv, file, R),
         NEW A, NEW B, NEW Q, NEW T, A \subseteq Inodes \cup S,
         Rises(p, S, lv, A, Q), Rises(p, S, lv, B, T),
         Q \cap B = {}, T \cap A = {}
  PROVE  A \cap B = {}
<1>1. ASSUME NEW x \in A \cap B
      PROVE  \E y \in A \cap B : lv[y] >= lv[x] + 1
  BY Ext2BlocksAssumption DEF Rises, Tree, Labels, Hosts, Indirect, Below
<1> DEFINE Has(n) == \E x \in A \cap B : lv[x] >= n
<1>2. \A x \in A \cap B : lv[x] \in 0 .. 4
  BY DEF Labels, Hosts
<1>3. ASSUME NEW n \in 0 .. 4, Has(n)
      PROVE  Has(n + 1)
  BY <1>1, <1>2, <1>3
<1>4. ASSUME A \cap B # {}
      PROVE  FALSE
  BY <1>2, <1>3, <1>4
<1> QED BY <1>4

LEMMA PlacedAre ==
  ASSUME TypeOK
  PROVE  Placed \subseteq Blocks /\ Placed \cap Inodes = {} /\ 0 \notin Placed
BY Ext2BlocksAssumption DEF TypeOK, Placed

(* What hangs off a slot of an inode. *)
LEMMA SlotHolds ==
  ASSUME TypeOK, NEW lv, NEW file, Trees(lv, file),
         NEW h \in Indirect(Placed, lv), NEW o \in Slots(h), ptr[h][o] # 0
  PROVE  /\ ptr[h][o] \in Placed /\ ptr[h][o] \in Blocks
         /\ lv[ptr[h][o]] = Below(lv, h, o) /\ file[ptr[h][o]] = file[h]
BY PlacedAre DEF Trees, Tree

LEMMA InodeHost ==
  ASSUME NEW lv, NEW file, Labels(lv, file), NEW i \in Inodes, NEW S
  PROVE  /\ i \in Indirect(S, lv) /\ file[i] = i
         /\ \A o \in 0 .. NDir + 2 : o \in Slots(i) /\ Below(lv, i, o) = Depth(o)
BY DEF Labels, Indirect, Slots, Below

LEMMA BlockHost ==
  ASSUME NEW lv, NEW S, S \subseteq Blocks, NEW h \in S, lv[h] > 0
  PROVE  /\ h \in Indirect(S, lv)
         /\ \A o \in 0 .. Ptrs - 1 : o \in Slots(h) /\ Below(lv, h, o) = lv[h] - 1
BY Ext2BlocksAssumption DEF Indirect, Slots, Below

(* The pointers of a file are slots of indirect blocks of the file. *)
LEMMA MappedIs ==
  ASSUME TypeOK, NEW lv, NEW file, Trees(lv, file), NEW p \in Mapped
  PROVE  \E h \in Indirect(Placed, lv) : \E o \in Slots(h) :
           /\ p = <<h, o>> /\ Target(p) = ptr[h][o] /\ ptr[h][o] # 0
           /\ h \in Inodes \cup InFiles
<1> DEFINE S == Placed
<1>0. S \subseteq Blocks /\ Labels(lv, file) /\ Tree(ptr, S, lv, file, Tops)
  BY PlacedAre DEF Trees
<1>1. PICK i \in live : p \in Pointers(i)
  BY DEF Mapped
<1>2. Target(p) # 0 /\ i \in Inodes
  BY DEF Mapped, TypeOK
<1>3. /\ i \in Indirect(S, lv)
        /\ \A o \in 0 .. NDir + 2 : o \in Slots(i) /\ Below(lv, i, o) = Depth(o)
  BY <1>0, <1>2, InodeHost
<1>4. CASE p \in {<<i, o>> : o \in {o \in 0 .. NDir + 2 : ptr[i][o] # 0}}
  BY <1>2, <1>3, <1>4 DEF Target
<1>5. CASE \E s \in {s \in 0 .. NDir + 2 : ptr[i][s] # 0} :
             p \in {<<h, o>> : h \in IndirectBlocks(ptr[i][s], Depth(s)), o \in 0 .. Ptrs - 1}
  <2>1. PICK s \in 0 .. NDir + 2 : ptr[i][s] # 0 /\
          p \in {<<h, o>> : h \in IndirectBlocks(ptr[i][s], Depth(s)), o \in 0 .. Ptrs - 1}
    BY <1>5
  <2> DEFINE x == ptr[i][s]
             d == Depth(s)
  <2>2. x \in S /\ lv[x] = d
    BY <1>3, <2>1, SlotHolds
  <2>3. PICK h \in IndirectBlocks(x, d), o \in 0 .. Ptrs - 1 : p = <<h, o>>
    BY <2>1
  <2>4. PICK n \in 0 .. d - 1 : h \in Levels(x, d)[n]
    BY <2>3 DEF IndirectBlocks
  <2>5. d \in 0 .. 3 /\ n \in 0 .. d
    BY <1>0, <2>2, <2>4, BranchIs
  <2> HIDE DEF x, d
  <2>11. \A m \in 0 .. d : \A y \in Levels(x, d)[m] : y \in S /\ lv[y] = d - m
    BY <1>0, <2>2, BranchIs
  <2>6. h \in S /\ lv[h] = d - n
    BY <2>4, <2>5, <2>11
  <2> USE DEF x, d
  <2>12. lv[h] > 0
    BY <2>4, <2>5, <2>6
  <2>7. h \in Indirect(S, lv) /\ o \in Slots(h)
    BY <1>0, <2>3, <2>6, <2>12, BlockHost
  <2>8. Target(p) = ptr[h][o]
    BY <2>3 DEF Target
  <2>9. h \in InFiles
    <3>1. CASE n = 0
      <4>1. h = x
        BY <2>4, <2>5, <3>1, LevelsAre
      <4>2. <<i, s>> \in Pointers(i) /\ Target(<<i, s>>) = x
        BY <2>1 DEF Pointers, Target
      <4>3. <<i, s>> \in Mapped
        BY <2>1, <4>2 DEF Mapped
      <4> QED BY <4>1, <4>2, <4>3 DEF InFiles
    <3>2. CASE n # 0
      <4>1. n \in 1 .. d /\ n - 1 \in 0 .. d - 1
        BY <2>4, <2>5, <3>2
      <4>2. PICK g \in Levels(x, d)[n - 1], q \in 0 .. Ptrs - 1 : h = ptr[g][q]
        BY <2>4, <2>5, <4>1, LevelsAre DEF Children
      <4>3. g \in IndirectBlocks(x, d)
        BY <4>1, <4>2 DEF IndirectBlocks
      <4>4. <<g, q>> \in Pointers(i) /\ Target(<<g, q>>) = h
        BY <2>1, <4>2, <4>3 DEF Pointers, Target
      <4>5. h # 0
        BY <1>0, <2>6, PlacedAre
      <4>6. <<g, q>> \in Mapped
        BY <4>4, <4>5 DEF Mapped
      <4> QED BY <4>4, <4>6 DEF InFiles
    <3> QED BY <3>1, <3>2
  <2> QED BY <1>2, <2>3, <2>7, <2>8, <2>9
<1> QED BY <1>1, <1>4, <1>5 DEF Pointers

(* What the pointers of a file point to is in the file. *)
LEMMA FilesAreClosed ==
  ASSUME TypeOK, NEW lv, NEW file, Trees(lv, file)
  PROVE  /\ \A i \in live : \A o \in 0 .. NDir + 2 : ptr[i][o] # 0 => ptr[i][o] \in InFiles
         /\ \A h \in InFiles : h \in Placed /\
              (lv[h] > 0 => \A o \in 0 .. Ptrs - 1 : ptr[h][o] # 0 => ptr[h][o] \in InFiles)
<1> DEFINE S == Placed
<1>0. S \subseteq Blocks /\ Labels(lv, file) /\ Tree(ptr, S, lv, file, Tops)
  BY PlacedAre DEF Trees
<1>1. ASSUME NEW i \in live, NEW o \in 0 .. NDir + 2, ptr[i][o] # 0
      PROVE  ptr[i][o] \in InFiles
  <2>1. <<i, o>> \in Pointers(i) /\ Target(<<i, o>>) = ptr[i][o]
    BY <1>1 DEF Pointers, Target
  <2>2. <<i, o>> \in Mapped
    BY <1>1, <2>1 DEF Mapped
  <2> QED BY <2>1, <2>2 DEF InFiles
<1>2. ASSUME NEW h \in InFiles
      PROVE  h \in S /\
             (lv[h] > 0 => \A o \in 0 .. Ptrs - 1 : ptr[h][o] # 0 => ptr[h][o] \in InFiles)
  <2>1. PICK p \in Mapped : h = Target(p)
    BY <1>2 DEF InFiles
  <2>2. h \in S
    BY <2>1, MappedIs, SlotHolds
  <2>3. ASSUME lv[h] > 0, NEW o \in 0 .. Ptrs - 1, ptr[h][o] # 0
        PROVE  ptr[h][o] \in InFiles
    <3>1. PICK i \in live : p \in Pointers(i)
      BY DEF Mapped
    <3>2. i \in Inodes /\ Target(p) # 0
      BY DEF TypeOK, Mapped
    <3>3. /\ i \in Indirect(S, lv)
        /\ \A q \in 0 .. NDir + 2 : q \in Slots(i) /\ Below(lv, i, q) = Depth(q)
      BY <1>0, <3>2, InodeHost
    <3>4. ASSUME NEW s \in 0 .. NDir + 2, ptr[i][s] # 0, h \in IndirectBlocks(ptr[i][s], Depth(s))
          PROVE  ptr[h][o] \in InFiles
      <4>1. <<h, o>> \in Pointers(i) /\ Target(<<h, o>>) = ptr[h][o]
        BY <3>4 DEF Pointers, Target
      <4>2. <<h, o>> \in Mapped
        BY <2>3, <4>1 DEF Mapped
      <4> QED BY <4>1, <4>2 DEF InFiles
    <3>5. CASE p \in {<<i, s>> : s \in {s \in 0 .. NDir + 2 : ptr[i][s] # 0}}
      BY <1>0, <2>1, <2>2, <2>3, <3>3, <3>4, <3>5, SlotHolds, BranchIs, LevelsAre, SMTT(30)
      DEF Target, IndirectBlocks
    <3>6. CASE \E s \in {s \in 0 .. NDir + 2 : ptr[i][s] # 0} :
                 p \in {<<g, q>> : g \in IndirectBlocks(ptr[i][s], Depth(s)), q \in 0 .. Ptrs - 1}
      <4>1. PICK s \in 0 .. NDir + 2 : ptr[i][s] # 0 /\
              p \in {<<g, q>> : g \in IndirectBlocks(ptr[i][s], Depth(s)), q \in 0 .. Ptrs - 1}
        BY <3>6
      <4> DEFINE x == ptr[i][s]
                 d == Depth(s)
      <4>2. x \in S /\ lv[x] = d
        BY <3>3, <4>1, SlotHolds
      <4>3. PICK g \in IndirectBlocks(x, d), q \in 0 .. Ptrs - 1 : p = <<g, q>>
        BY <4>1
      <4>4. PICK n \in 0 .. d - 1 : g \in Levels(x, d)[n]
        BY <4>3 DEF IndirectBlocks
      <4>5. d \in 0 .. 3 /\ n + 1 \in 1 .. d /\ (n + 1) - 1 = n /\ n + 1 \in 0 .. d
        BY <1>0, <4>2, <4>4, BranchIs
      <4>6. h = ptr[g][q] /\ h # 0
        BY <2>1, <3>2, <4>3 DEF Target
      <4>7. h \in Levels(x, d)[n + 1]
        BY <4>4, <4>5, <4>6, LevelsAre DEF Children
      <4> HIDE DEF x, d
      <4>11. \A m \in 0 .. d : \A y \in Levels(x, d)[m] : y \in S /\ lv[y] = d - m
        BY <1>0, <4>2, BranchIs
      <4> USE DEF x, d
      <4>8. lv[h] = d - (n + 1)
        BY <4>5, <4>7, <4>11
      <4>9. n + 1 \in 0 .. d - 1
        BY <2>3, <4>5, <4>8
      <4>10. h \in IndirectBlocks(x, d)
        BY <4>7, <4>9 DEF IndirectBlocks
      <4> QED BY <3>4, <4>1, <4>10
    <3> QED BY <3>1, <3>5, <3>6 DEF Pointers
  <2> QED BY <2>2, <2>3
<1> QED BY <1>1, <1>2

(* The branch that a task has taken off a file. *)
LEMMA TopBranch ==
  ASSUME BlockInv, NEW lv, NEW file, Trees(lv, file), NEW t \in Tasks, task[t].top # 0
  PROVE  /\ task[t].top \in Placed /\ ~ Points(ptr, Placed, lv, task[t].top)
         /\ lv[task[t].top] = task[t].depth /\ file[task[t].top] = task[t].ino
         /\ IsBranch(Placed, lv, file, task[t].top, Branch(task[t].top, task[t].depth))
         /\ task[t].pc = "kill" /\ truncate_mutex[task[t].ino] = t
<1>1. task[t].top \in Tops
  BY DEF Tops
<1>2. Placed \subseteq Blocks /\ Labels(lv, file) /\ Tree(ptr, Placed, lv, file, Tops)
  BY PlacedAre DEF BlockInv, Trees
<1>3. task[t].top \in Placed /\ ~ Points(ptr, Placed, lv, task[t].top)
  BY <1>1, <1>2 DEF Tree
<1>4. lv[task[t].top] = task[t].depth /\ file[task[t].top] = task[t].ino
  BY DEF Trees, TaskTrue
<1>5. task[t].pc = "kill" /\ truncate_mutex[task[t].ino] = t
  BY DEF BlockInv, FormInv, Form, MutexInv, Holding
<1> QED BY <1>2, <1>3, <1>4, <1>5, BranchIs

(* A branch is closed upwards, but for its top. *)
LEMMA BranchRises ==
  ASSUME NEW S, S \subseteq Blocks, NEW lv, NEW file, NEW x, NEW C, IsBranch(S, lv, file, x, C)
  PROVE  Rises(ptr, S, lv, C, {x})
<1> SUFFICES ASSUME NEW y \in C, y # x
             PROVE  y \in S /\ \E h \in C \cap Indirect(S, lv) : \E o \in Slots(h) : ptr[h][o] = y
  BY DEF Rises
<1>1. y \in S /\ C \subseteq S
  BY DEF IsBranch
<1>2. PICK h \in C : lv[h] > 0 /\ \E o \in 0 .. Ptrs - 1 : ptr[h][o] = y
  BY DEF IsBranch
<1>3. PICK o \in 0 .. Ptrs - 1 : ptr[h][o] = y
  BY <1>2
<1>4. h \in Indirect(S, lv) /\ o \in Slots(h)
  BY <1>1, <1>2, BlockHost
<1> QED BY <1>1, <1>3, <1>4

LEMMA FilesRise ==
  ASSUME TypeOK, NEW lv, NEW file, Trees(lv, file)
  PROVE  Rises(ptr, Placed, lv, Inodes \cup InFiles, Inodes)
<1> SUFFICES ASSUME NEW x \in InFiles
             PROVE  x \in Placed /\ \E h \in (Inodes \cup InFiles) \cap Indirect(Placed, lv) :
                                      \E o \in Slots(h) : ptr[h][o] = x
  BY DEF Rises
<1>1. x \in Placed
  BY FilesAreClosed
<1>2. PICK p \in Mapped : x = Target(p)
  BY DEF InFiles
<1>3. PICK h \in Indirect(Placed, lv) : \E o \in Slots(h) :
        /\ p = <<h, o>> /\ Target(p) = ptr[h][o] /\ ptr[h][o] # 0
        /\ h \in Inodes \cup InFiles
  BY MappedIs
<1> QED BY <1>1, <1>2, <1>3

LEMMA InvShared == BlockInv => NoBlockShared
<1> SUFFICES ASSUME BlockInv
             PROVE  NoBlockShared
  OBVIOUS
<1>1. PICK lv, file : Trees(lv, file)
  BY DEF BlockInv
<1> DEFINE S == Placed
<1>2. /\ S \subseteq Blocks /\ S \cap Inodes = {} /\ 0 \notin S
      /\ Labels(lv, file) /\ Tree(ptr, S, lv, file, Tops) /\ TypeOK
  BY <1>1, PlacedAre DEF BlockInv, Trees
<1>3. ASSUME NEW p \in Mapped, NEW q \in Mapped, Target(p) = Target(q)
      PROVE  p = q
  BY <1>1, <1>2, <1>3, MappedIs DEF Tree
<1>4. InFiles \subseteq S /\ S \subseteq used \ lost /\ S \cap InHand = {}
  BY <1>1, <1>2, FilesAreClosed DEF Placed
<1>5. \A t \in Tasks : ToSet(task[t].got) \subseteq InHand \cap (used \ lost)
  BY DEF BlockInv, HandInv, InHand
<1> DEFINE C(t) == IF task[t].top = 0 THEN {} ELSE Branch(task[t].top, task[t].depth)
<1>6. \A t \in Tasks : HeldBy(t) = ToSet(task[t].got) \cup C(t)
  BY DEF HeldBy
<1>7. ASSUME NEW t \in Tasks
      PROVE  C(t) \subseteq S /\ C(t) \cap InFiles = {}
  <2>1. CASE task[t].top = 0
    BY <2>1
  <2>2. CASE task[t].top # 0
    <3> DEFINE x == task[t].top
    <3>1. x \in S /\ ~ Points(ptr, S, lv, x) /\ IsBranch(S, lv, file, x, C(t))
      BY <1>1, <2>2, TopBranch
    <3> HIDE DEF C
    <3>2. C(t) \subseteq S
      BY <3>1 DEF IsBranch
    <3>3. Rises(ptr, S, lv, C(t), {x})
      BY <1>2, <3>1, BranchRises
    <3>4. Rises(ptr, S, lv, Inodes \cup InFiles, Inodes)
      BY <1>1, <1>2, FilesRise
    <3>5. x \notin Inodes \cup InFiles
      BY <1>2, <3>1, <3>4 DEF Points, Rises
    <3>6. {x} \cap (Inodes \cup InFiles) = {} /\ Inodes \cap C(t) = {}
      BY <1>2, <3>2, <3>5
    <3>7. C(t) \cap (Inodes \cup InFiles) = {}
      BY <1>2, <3>2, <3>3, <3>4, <3>6, Apart
    <3> QED BY <3>2, <3>7
  <2> QED BY <2>1, <2>2
<1>8. ASSUME NEW t \in Tasks, NEW u \in Tasks, t # u
      PROVE  C(t) \cap C(u) = {}
  <2>1. CASE task[t].top = 0 \/ task[u].top = 0
    BY <2>1
  <2>2. CASE task[t].top # 0 /\ task[u].top # 0
    <3> DEFINE x == task[t].top
               y == task[u].top
    <3>1. /\ x \in S /\ ~ Points(ptr, S, lv, x) /\ IsBranch(S, lv, file, x, C(t))
          /\ file[x] = task[t].ino /\ truncate_mutex[task[t].ino] = t
      BY <1>1, <2>2, TopBranch
    <3>2. /\ y \in S /\ ~ Points(ptr, S, lv, y) /\ IsBranch(S, lv, file, y, C(u))
          /\ file[y] = task[u].ino /\ truncate_mutex[task[u].ino] = u
      BY <1>1, <2>2, TopBranch
    <3>3. x # y
      BY <1>8, <3>1, <3>2
    <3> HIDE DEF C, x, y
    <3>4. C(t) \subseteq S
      BY <3>1 DEF IsBranch
    <3>5. Rises(ptr, S, lv, C(t), {x})
      BY <1>2, <3>1, BranchRises
    <3>6. Rises(ptr, S, lv, C(u), {y})
      BY <1>2, <3>2, BranchRises
    <3>7. {x} \cap C(u) = {} /\ {y} \cap C(t) = {}
      BY <3>1, <3>2, <3>3, <3>5, <3>6 DEF Points, Rises
    <3>8. C(t) \subseteq Inodes \cup S
      BY <3>4
    <3> HIDE DEF S
    <3> QED BY <1>2, <3>5, <3>6, <3>7, <3>8, Apart
  <2> QED BY <2>1, <2>2
<1> HIDE DEF C
<1>9. ASSUME NEW t \in Tasks
      PROVE  HeldBy(t) \subseteq used \ (lost \cup InFiles)
  BY <1>4, <1>5, <1>6, <1>7
<1>10. ASSUME NEW t \in Tasks, NEW u \in Tasks, t # u
       PROVE  HeldBy(t) \cap HeldBy(u) = {}
  BY <1>4, <1>5, <1>6, <1>7, <1>8, <1>10 DEF BlockInv, HandInv
<1> QED BY <1>3, <1>4, <1>9, <1>10 DEF NoBlockShared

LEMMA InvLeaked == BlockInv => NoBlockLeaked
<1> SUFFICES ASSUME BlockInv
             PROVE  NoBlockLeaked
  OBVIOUS
<1>1. PICK lv, file : Trees(lv, file)
  BY DEF BlockInv
<1> DEFINE S == Placed
           X == InFiles \cup UNION {HeldBy(t) : t \in Tasks}
<1>2. /\ S \subseteq Blocks /\ S \cap Inodes = {} /\ 0 \notin S
      /\ Labels(lv, file) /\ Tree(ptr, S, lv, file, Tops) /\ TypeOK
  BY <1>1, PlacedAre DEF BlockInv, Trees
<1>3. \A t \in Tasks : task[t].top # 0 =>
        /\ IsBranch(S, lv, file, task[t].top, Branch(task[t].top, task[t].depth))
        /\ Branch(task[t].top, task[t].depth) \subseteq HeldBy(t)
  BY <1>1, TopBranch DEF HeldBy
<1>4. ASSUME NEW x \in S \ X
      PROVE  \E y \in S \ X : lv[y] = lv[x] + 1
  BY <1>1, <1>2, <1>3, FilesAreClosed DEF Tops, IsBranch, Tree, Points, Slots, BlockInv,
     EmptyInv, NoBlocks, Indirect, Below, Placed, InHand, HeldBy, Labels, Hosts
<1>5. \A x \in S : lv[x] \in 0 .. 3
  BY <1>2 DEF Labels, Hosts
<1> HIDE DEF S, X
<1> DEFINE Has(n) == \E x \in S \ X : lv[x] >= n
<1>6. ASSUME NEW n \in 0 .. 3, Has(n)
      PROVE  Has(n + 1)
  BY <1>4, <1>5, <1>6
<1>7. ASSUME S \ X # {}
      PROVE  FALSE
  BY <1>5, <1>6, <1>7
<1>8. InHand \subseteq X
  BY DEF InHand, X, HeldBy
<1> QED BY <1>7, <1>8 DEF NoBlockLeaked, S, X, Placed

----------------------------------------
(* Chains *)

(* The last of up to four positions that is not in Z, or the first one. *)
LEMMA LastOne ==
  ASSUME NEW n \in 1 .. 4, NEW Z
  PROVE  \E k \in 1 .. n : (k = 1 \/ k \notin Z) /\ \A j \in k + 1 .. n : j \in Z
<1> DEFINE k == IF n >= 4 /\ 4 \notin Z THEN 4
                ELSE IF n >= 3 /\ 3 \notin Z THEN 3
                ELSE IF n >= 2 /\ 2 \notin Z THEN 2 ELSE 1
<1>1. k \in 1 .. n /\ (k = 1 \/ k \notin Z)
  OBVIOUS
<1>2. ASSUME NEW j \in k + 1 .. n
      PROVE  j \in Z
  BY <1>1
<1> QED BY <1>1, <1>2

LEMMA SharedDepthIs ==
  ASSUME NEW path, PathOK(path)
  PROVE  SharedDepth(path) \in 1 .. Len(path)
<1> DEFINE n == Len(path)
           Z == {j \in 1 .. n : path[j] = 0}
<1>1. n \in 1 .. 4 /\ DOMAIN path = 1 .. n
  BY DEF PathOK
<1>2. PICK k \in 1 .. n : (k = 1 \/ k \notin Z) /\ \A j \in k + 1 .. n : j \in Z
  BY <1>1, LastOne
<1>3. k = 1 \/ path[k] # 0
  BY <1>2
<1>4. \A j \in k + 1 .. n : path[j] = 0
  BY <1>2
<1>5. \E m \in DOMAIN path : (m = 1 \/ path[m] # 0) /\ \A j \in m + 1 .. Len(path) : path[j] = 0
  BY <1>1, <1>3, <1>4
<1>6. SharedDepth(path) \in DOMAIN path
  BY <1>5 DEF SharedDepth
<1> QED BY <1>1, <1>6

LEMMA WalkDepthIs ==
  ASSUME NEW r, Fits(r.b)
  PROVE  WalkDepth(r) \in 1 .. Len(Path(r)) /\ PathOK(Path(r))
<1>1. PathOK(Path(r))
  BY PathIs DEF Path
<1>2. SharedDepth(Path(r)) \in 1 .. Len(Path(r))
  BY <1>1, SharedDepthIs
<1>3. Len(Path(r)) \in 1 .. 4
  BY <1>1 DEF PathOK
<1> QED BY <1>1, <1>2, <1>3 DEF WalkDepth

\* The links of a chain are slots of hosts of the file, one level after the
\* other.
ChainLeads(r, S, lv, file) ==
  \A n \in 1 .. Len(r.chain) :
    /\ r.chain[n].host \in Indirect(S, lv)
    /\ r.chain[n].off \in Slots(r.chain[n].host)
    /\ Below(lv, r.chain[n].host, r.chain[n].off) = Len(Path(r)) - n
    /\ file[r.chain[n].host] = r.ino

(* A chain that agrees with the pointers leads through indirect blocks of *)
(* its file, one level after the other. *)
LEMMA ChainReal ==
  ASSUME NEW p, NEW S, S \subseteq Blocks, NEW lv, NEW file, Labels(lv, file),
         NEW R, Tree(p, S, lv, file, R),
         NEW r, r.ino \in Inodes, Fits(r.b), ChainShape(r), ChainTrue(r, p)
  PROVE  ChainLeads(r, S, lv, file)
<1> DEFINE c == r.chain
           path == Path(r)
           Real(n) == /\ c[n].host \in Indirect(S, lv)
                      /\ c[n].off \in Slots(c[n].host)
                      /\ Below(lv, c[n].host, c[n].off) = Len(path) - n
                      /\ file[c[n].host] = r.ino
<1>1. PathOK(path) /\ Len(path) \in 1 .. 4
  BY WalkDepthIs DEF PathOK
<1>6. Len(c) \in 1 .. Len(path)
  BY DEF ChainShape
<1>2. Len(c) \in 1 .. Len(path) /\ Len(c) \in 1 .. 4
  <2> DEFINE m == Len(c)
             k == Len(path)
  <2>1. m \in 1 .. k /\ k \in 1 .. 4
    BY <1>1, <1>6
  <2> HIDE DEF m, k
  <2>2. m \in 1 .. 4
    BY <2>1
  <2> QED BY <1>6, <2>2 DEF m
<1>3. Real(1)
  <2>1. c[1].host = r.ino /\ c[1].off = path[1]
    BY <1>2 DEF ChainShape
  <2>2. path[1] \in 0 .. NDir + 2 /\ Depth(path[1]) = Len(path) - 1
    BY <1>1 DEF PathOK
  <2>3. r.ino \in Indirect(S, lv) /\ file[r.ino] = r.ino
    BY InodeHost
  <2>4. path[1] \in Slots(r.ino) /\ Below(lv, r.ino, path[1]) = Depth(path[1])
    BY <2>2, InodeHost
  <2> QED BY <2>1, <2>2, <2>3, <2>4
<1>4. ASSUME NEW n \in 1 .. Len(c) - 1, Real(n)
      PROVE  Real(n + 1)
  <2> DEFINE x == c[n].key
  <2>1. x # 0 /\ c[n + 1].host = x /\ c[n + 1].off = path[n + 1] /\ n \in 1 .. Len(c)
    BY <1>1, <1>2 DEF ChainShape
  <2>2. x = p[c[n].host][c[n].off]
    BY <2>1 DEF ChainTrue
  <2>3. x \in S /\ lv[x] = Len(path) - n /\ file[x] = r.ino
    BY <1>4, <2>1, <2>2 DEF Tree
  <2>4. lv[x] > 0 /\ n + 1 \in 2 .. Len(path)
    BY <1>1, <1>2, <2>3
  <2>5. path[n + 1] \in 0 .. Ptrs - 1
    BY <1>1, <2>4 DEF PathOK
  <2> HIDE DEF x, path, c
  <2>6. x \in Indirect(S, lv) /\ path[n + 1] \in Slots(x) /\ Below(lv, x, path[n + 1]) = lv[x] - 1
    BY <2>3, <2>4, <2>5, BlockHost
  <2>7. lv[x] - 1 = Len(path) - (n + 1)
    BY <1>1, <1>2, <2>3
  <2> QED BY <2>1, <2>3, <2>6, <2>7
<1> HIDE DEF Real
<1>5. \A n \in 1 .. Len(c) : Real(n)
  <2> HIDE DEF c, path
  <2>1. Len(c) >= 2 => Real(2)
    BY <1>1, <1>2, <1>3, <1>4
  <2>2. Len(c) >= 3 => Real(3)
    BY <1>1, <1>2, <2>1, <1>4
  <2>3. Len(c) >= 4 => Real(4)
    BY <1>1, <1>2, <2>2, <1>4
  <2>5. \A m \in 1 .. 4 : \A n \in 1 .. m : n = 1 \/ n = 2 \/ n = 3 \/ n = 4
    OBVIOUS
  <2> TAKE n \in 1 .. Len(c)
  <2>4. n = 1 \/ n = 2 \/ n = 3 \/ n = 4
    BY <1>2, <2>5, Zenon
  <2> QED BY <1>1, <1>2, <1>3, <2>1, <2>2, <2>3, <2>4
<1> QED BY <1>5 DEF Real, ChainLeads

----------------------------------------
(* Changes of the trees *)

\* Only hosts of file i are changed.
Keeps(i, p, S, lv, file, q, S2, lv2, file2) ==
  \A h \in Inodes \cup S : file[h] # i =>
    /\ h \in Inodes \cup S2 /\ lv2[h] = lv[h] /\ file2[h] = file[h] /\ q[h] = p[h]

(* What is done to one file under its truncate_mutex does not matter to a *)
(* task that holds another one. *)
LEMMA OthersTrue ==
  ASSUME NEW p, NEW S, S \subseteq Blocks, NEW lv, NEW file, Labels(lv, file),
         NEW R, Tree(p, S, lv, file, R),
         NEW q, NEW S2, NEW lv2, NEW file2, NEW i,
         Keeps(i, p, S, lv, file, q, S2, lv2, file2),
         NEW r, Form(r), TaskTrue(r, p, S, lv, file), Holding(r) => r.ino # i,
         r.top # 0 => r.top \in S
  PROVE  TaskTrue(r, q, S2, lv2, file2)
<1>1. ASSUME r.top # 0
      PROVE  lv2[r.top] = r.depth /\ file2[r.top] = r.ino
  BY <1>1 DEF Form, Holding, TaskTrue, Keeps
<1>2. ASSUME Holding(r), r.pc # "kill"
      PROVE  ChainTrue(r, q)
  <2>1. r.ino \in Inodes /\ Fits(r.b) /\ ChainShape(r)
    BY <1>2 DEF Form, Holding, WithChain
  <2>2. ChainTrue(r, p)
    BY <1>2 DEF TaskTrue
  <2>3. \A n \in 1 .. Len(r.chain) :
          r.chain[n].host \in Indirect(S, lv) /\ file[r.chain[n].host] = r.ino
    <3>1. ChainLeads(r, S, lv, file)
      BY <2>1, <2>2, ChainReal
    <3> QED BY <3>1 DEF ChainLeads
  <2>4. \A n \in 1 .. Len(r.chain) : q[r.chain[n].host] = p[r.chain[n].host]
    BY <1>2, <2>3 DEF Keeps, Indirect
  <2> QED BY <2>2, <2>4 DEF ChainTrue
<1>3. WorkTrue(r, S2, lv2, file2)
  BY DEF WorkTrue, TaskTrue, Form, Holding, Keeps, Indirect, Below
<1> QED BY <1>1, <1>2, <1>3 DEF TaskTrue

(* Slots are emptied, and blocks are taken away: T is left. *)
LEMMA Prune ==
  ASSUME NEW p, NEW S, NEW lv, NEW file, NEW R, Tree(p, S, lv, file, R),
         NEW q, NEW T, T \subseteq S, NEW R2, R2 \subseteq T,
         \A h \in Indirect(T, lv) : \A o \in Slots(h) :
           q[h][o] # 0 => q[h][o] = p[h][o] /\ q[h][o] \in T,
         \A x \in T : x \in R2 <=> ~ Points(q, T, lv, x)
  PROVE  Tree(q, T, lv, file, R2)
<1>0. \A h \in Indirect(T, lv) : h \in Indirect(S, lv)
  BY DEF Indirect
<1>1. ASSUME NEW h \in Indirect(T, lv), NEW o \in Slots(h), q[h][o] # 0
      PROVE  /\ q[h][o] \in T
             /\ lv[q[h][o]] = Below(lv, h, o)
             /\ file[q[h][o]] = file[h]
  BY <1>0, <1>1 DEF Tree
<1>3. \A h \in Indirect(T, lv) : \A o \in Slots(h) : q[h][o] # 0 =>
        /\ q[h][o] \in T
        /\ lv[q[h][o]] = Below(lv, h, o)
        /\ file[q[h][o]] = file[h]
  BY <1>1
<1>4. \A h, g \in Indirect(T, lv) : \A o \in Slots(h), k \in Slots(g) :
        q[h][o] # 0 /\ q[h][o] = q[g][k] => h = g /\ o = k
  <2> TAKE h, g \in Indirect(T, lv)
  <2> TAKE o \in Slots(h), k \in Slots(g)
  <2> HAVE q[h][o] # 0 /\ q[h][o] = q[g][k]
  <2>1. h \in Indirect(S, lv) /\ g \in Indirect(S, lv)
    BY <1>0
  <2>2. p[h][o] # 0 /\ p[h][o] = p[g][k]
    OBVIOUS
  <2> QED BY <2>1, <2>2 DEF Tree
<1> QED BY <1>3, <1>4, Zenon DEF Tree

----------------------------------------
(* Where walks lead *)

\* The types of what a task keeps.
Typed(r) ==
  /\ r.ino \in Inodes \cup {None}
  /\ r.chain \in Seq(Link)
  /\ r.got \in Seq(Blocks)
  /\ r.top \in Blocks \cup {0}
  /\ r.depth \in 0 .. 3
  /\ r.res \in Blocks \cup {0, Junk}

\* s is r at another place, perhaps with another chain and result.
Agrees(r, s) ==
  /\ Shape(s)
  /\ s.op = r.op /\ s.ino = r.ino /\ s.b = r.b /\ s.got = r.got
  /\ s.top = r.top /\ s.depth = r.depth /\ s.work = r.work

\* A call of ext2_get_branch can begin, or goes on.
Bare(r) ==
  /\ Shape(r) /\ Typed(r) /\ r.walk \in Walks
  /\ r.ino \in Inodes /\ Fits(r.b) /\ r.op # "evict"
  /\ r.got = <<>> /\ r.top = 0 /\ r.work = <<>>

LEMMA AfterWalkIs ==
  ASSUME NEW r, Shape(r), r.walk \in Walks
  PROVE  LET s == AfterWalk(r) IN
         /\ Agrees(r, s)
         /\ \/ r.walk = "shared" /\ s.pc = "detach" /\ s.chain = r.chain /\ s.res = r.res
            \/ s.pc = "return" /\ s.chain = <<>> /\ s.res \in {r.res, Partial(r).key}
            \/ r.walk = "first" /\ s.pc = "lock" /\ s.chain = r.chain /\ s.res = r.res
            \/ r.walk = "regrab" /\ s.pc = "search" /\ s.chain = r.chain /\ s.res = r.res
<1> DEFINE s == [r EXCEPT !.walk = "none"]
           found == r.err = "ok" /\ Partial(r).key # 0
<1>1. Agrees(r, s) /\ s.chain = r.chain /\ s.res = r.res
  BY DEF Agrees, Shape, Columns
<1>2. CASE r.walk = "shared"
  BY <1>1, <1>2 DEF AfterWalk, Agrees, Shape, Columns
<1>3. CASE r.walk # "shared" /\ found
  BY <1>1, <1>3 DEF AfterWalk, Agrees, Shape, Columns
<1>4. CASE r.walk = "first" /\ ~found /\ (r.op = "readpage" \/ r.err = "EIO")
  BY <1>1, <1>4 DEF AfterWalk, Agrees, Shape, Columns
<1>5. CASE r.walk = "first" /\ ~found /\ r.op # "readpage" /\ r.err # "EIO"
  BY <1>1, <1>5 DEF AfterWalk, Agrees, Shape, Columns
<1>6. CASE r.walk = "regrab" /\ ~found
  BY <1>1, <1>6 DEF AfterWalk, Agrees, Shape, Columns
<1> QED BY <1>2, <1>3, <1>4, <1>5, <1>6 DEF Walks

\* What a step of ext2_get_branch makes of r.
Outcome(r, s) ==
  /\ Agrees(r, s) /\ Typed(s) /\ Form(s)
  /\ s.pc \in {"verify", "detach", "return", "lock", "search"}
  /\ Holding(s) => r.walk \in {"regrab", "shared"}
  /\ Holding(s) /\ ChainTrue(r, ptr) => ChainTrue(s, ptr)

LEMMA LinkTypes ==
  ASSUME NEW l \in Link
  PROVE  l.host \in Hosts /\ l.off \in Offsets /\ l.key \in Blocks \cup {0, Junk}
BY DEF Link

LEMMA AfterWalkOutcome ==
  ASSUME NEW r, Bare(r), ChainShape(r)
  PROVE  Outcome(r, AfterWalk(r))
<1> DEFINE s == AfterWalk(r)
<1>1. /\ Agrees(r, s)
      /\ \/ r.walk = "shared" /\ s.pc = "detach" /\ s.chain = r.chain /\ s.res = r.res
         \/ s.pc = "return" /\ s.chain = <<>> /\ s.res \in {r.res, Partial(r).key}
         \/ r.walk = "first" /\ s.pc = "lock" /\ s.chain = r.chain /\ s.res = r.res
         \/ r.walk = "regrab" /\ s.pc = "search" /\ s.chain = r.chain /\ s.res = r.res
  BY AfterWalkIs DEF Bare
<1> HIDE DEF s
<1>2. Path(s) = Path(r)
  BY <1>1 DEF Agrees, Path
<1>3. Len(Path(r)) \in 1 .. 4
  BY WalkDepthIs DEF Bare, PathOK
<1>4. Partial(r).key \in Blocks \cup {0, Junk}
  BY LinkTypes DEF ChainShape, Partial, Last
<1>5. Typed(s)
  <2>1. <<>> \in Seq(Link) /\ r.chain \in Seq(Link)
    BY DEF ChainShape
  <2>2. s.chain \in Seq(Link)
    BY <1>1, <2>1
  <2>3. r.res \in Blocks \cup {0, Junk}
    BY DEF Bare, Typed
  <2>4. s.res \in Blocks \cup {0, Junk}
    BY <1>1, <1>4, <2>3
  <2> QED BY <1>1, <2>2, <2>4 DEF Bare, Typed, Agrees
<1>6. s.pc # "return" => ChainShape(s) /\ Len(s.chain) = Len(r.chain)
  BY <1>1, <1>2 DEF ChainShape, Agrees
<1>7. s.pc = "search" => Len(s.got) < Needed(s)
  <2>1. Len(r.chain) \in 1 .. Len(Path(r))
    BY DEF ChainShape
  <2>2. Len(s.got) = 0
    BY <1>1 DEF Agrees, Bare
  <2>3. s.pc = "search" => Needed(s) = Len(Path(r)) - Len(r.chain) + 1
    BY <1>2, <1>6 DEF Needed
  <2> DEFINE m == Len(r.chain)
             k == Len(Path(r))
  <2>4. m \in 1 .. k /\ k \in 1 .. 4
    BY <1>3, <2>1
  <2> HIDE DEF m, k
  <2>5. 0 < k - m + 1
    BY <2>4
  <2> QED BY <2>2, <2>3, <2>5 DEF m, k
<1>8. Form(s)
  BY <1>1, <1>6, <1>7 DEF Agrees, Bare, Form, WithChain
<1>9. Holding(s) => r.walk \in {"regrab", "shared"} /\ s.chain = r.chain
  BY <1>1 DEF Holding
<1>10. Holding(s) /\ ChainTrue(r, ptr) => ChainTrue(s, ptr)
  BY <1>9 DEF ChainTrue
<1> QED BY <1>1, <1>5, <1>8, <1>9, <1>10 DEF Outcome, s

\* The next link of a chain.
Next1(r, host, off) ==
  \/ r.chain = <<>> /\ host = r.ino /\ off = Path(r)[1]
  \/ /\ ChainShape(r) /\ Len(r.chain) < WalkDepth(r)
     /\ host = r.chain[Len(r.chain)].key /\ host \in Blocks /\ off = Path(r)[Len(r.chain) + 1]

LEMMA WalkedOutcome ==
  ASSUME NEW r, Bare(r), NEW host, NEW off, Next1(r, host, off),
         ptr \in [Hosts -> [Offsets -> Blocks \cup {0, Junk}]]
  PROVE  Outcome(r, Walked(r, LinkAt(host, off)))
<1> DEFINE l == LinkAt(host, off)
           s == [r EXCEPT !.chain = Append(@, l), !.pc = "verify"]
<1>1. /\ PathOK(Path(r)) /\ Len(Path(r)) \in 1 .. 4 /\ WalkDepth(r) \in 1 .. Len(Path(r))
  BY WalkDepthIs DEF Bare, PathOK
<1>2. /\ Agrees(r, s) /\ s.walk = r.walk /\ s.pc = "verify" /\ s.res = r.res
      /\ s.chain = Append(r.chain, l)
  BY DEF Agrees, Shape, Columns, Bare
<1>3. r.chain \in Seq(Link) /\ Len(r.chain) \in Nat
  BY DEF Bare, Typed
<1> DEFINE n == Len(r.chain)
<1>4. /\ n + 1 \in 1 .. WalkDepth(r) /\ off = Path(r)[n + 1] /\ host \in Hosts
      /\ n = 0 => host = r.ino
      /\ n # 0 => ChainShape(r) /\ host = r.chain[n].key /\ host # 0
  BY <1>1, <1>3, Ext2BlocksAssumption DEF Bare, Hosts, ChainShape, Next1
<1>5. off \in Offsets
  <2>1. n + 1 \in 1 .. Len(Path(r))
    BY <1>1, <1>4
  <2>2. CASE n = 0
    BY <1>1, <1>4, <2>2 DEF PathOK, Offsets
  <2>3. CASE n # 0
    <3>1. n + 1 \in 2 .. Len(Path(r))
      BY <1>3, <2>1, <2>3
    <3> QED BY <1>1, <1>4, <3>1 DEF PathOK, Offsets
  <2> QED BY <2>2, <2>3
<1>6. l \in Link /\ l.host = host /\ l.off = off /\ l.key = ptr[host][off]
  BY <1>4, <1>5 DEF LinkAt, Link
<1> HIDE DEF l
<1>7. /\ s.chain \in Seq(Link) /\ Len(s.chain) = n + 1 /\ s.chain[n + 1] = l
      /\ \A k \in 1 .. n : s.chain[k] = r.chain[k]
  BY <1>2, <1>3, <1>6
<1> HIDE DEF s
<1>8. Path(s) = Path(r) /\ WalkDepth(s) = WalkDepth(r)
  BY <1>2 DEF Agrees, Path, WalkDepth
<1>9. ChainShape(s)
  <2>1. Len(s.chain) \in 1 .. Len(Path(s)) /\ s.ino = r.ino
    BY <1>1, <1>2, <1>4, <1>7, <1>8 DEF Agrees
  <2>2. s.chain[1].host = s.ino
    BY <1>3, <1>4, <1>6, <1>7, <2>1 DEF ChainShape
  <2>3. ASSUME NEW k \in 1 .. Len(s.chain)
        PROVE  s.chain[k].off = Path(s)[k]
    <3>1. CASE k = n + 1
      BY <1>4, <1>6, <1>7, <1>8, <3>1
    <3>2. CASE k # n + 1
      <4>1. n # 0 /\ k \in 1 .. n
        BY <1>3, <1>7, <3>2
      <4> QED BY <1>4, <1>7, <1>8, <4>1 DEF ChainShape
    <3> QED BY <3>1, <3>2
  <2>4. ASSUME NEW k \in 1 .. Len(s.chain) - 1
        PROVE  s.chain[k].key # 0 /\ s.chain[k + 1].host = s.chain[k].key
    <3>1. k \in 1 .. n /\ n # 0
      BY <1>3, <1>7
    <3>2. CASE k = n
      BY <1>4, <1>6, <1>7, <3>1, <3>2
    <3>3. CASE k # n
      <4>1. k \in 1 .. n - 1 /\ k + 1 \in 1 .. n
        BY <1>3, <3>1, <3>3
      <4> QED BY <1>4, <1>7, <3>1, <4>1 DEF ChainShape
    <3> QED BY <3>2, <3>3
  <2> QED BY <1>7, <2>1, <2>2, <2>3, <2>4 DEF ChainShape
<1>10. Typed(s)
  BY <1>2, <1>7 DEF Agrees, Typed, Bare
<1>11. Bare(s)
  BY <1>2, <1>10 DEF Agrees, Bare
<1>12. ChainTrue(r, ptr) => ChainTrue(s, ptr)
  <2>1. SUFFICES ASSUME ChainTrue(r, ptr), NEW k \in 1 .. Len(s.chain)
                 PROVE  s.chain[k].key = ptr[s.chain[k].host][s.chain[k].off]
    BY DEF ChainTrue
  <2>2. CASE k = n + 1
    BY <1>6, <1>7, <2>2
  <2>3. CASE k # n + 1
    <3>1. k \in 1 .. n
      BY <1>3, <1>7, <2>3
    <3> QED BY <1>7, <2>1, <3>1 DEF ChainTrue
  <2> QED BY <2>2, <2>3
<1>13. Walked(r, l) = IF l.key = 0 \/ Len(s.chain) = WalkDepth(r) THEN AfterWalk(s) ELSE s
  BY DEF Walked, s
<1>14. CASE l.key = 0 \/ Len(s.chain) = WalkDepth(r)
  BY <1>2, <1>9, <1>11, <1>12, <1>13, <1>14, AfterWalkOutcome DEF Outcome, Agrees, l
<1>15. CASE ~ (l.key = 0 \/ Len(s.chain) = WalkDepth(r))
  <2>1. Len(s.chain) < WalkDepth(s) /\ s.chain[Len(s.chain)].key # 0
    BY <1>1, <1>3, <1>4, <1>7, <1>8, <1>15
  <2>2. Form(s)
    BY <1>2, <1>9, <1>11, <2>1 DEF Bare, Form, WithChain
  <2>3. Holding(s) => r.walk \in {"regrab", "shared"}
    BY <1>2 DEF Holding
  <2> QED BY <1>2, <1>10, <1>12, <1>13, <1>15, <2>2, <2>3 DEF Outcome, l
<1> QED BY <1>14, <1>15

LEMMA BeginWalkOutcome ==
  ASSUME NEW r, NEW walk \in Walks, Bare([r EXCEPT !.walk = walk, !.chain = <<>>, !.err = "ok"]),
         Shape(r), ptr \in [Hosts -> [Offsets -> Blocks \cup {0, Junk}]]
  PROVE  /\ Outcome([r EXCEPT !.walk = walk, !.chain = <<>>, !.err = "ok"], BeginWalk(r, walk))
         /\ Holding(BeginWalk(r, walk)) => ChainTrue(BeginWalk(r, walk), ptr)
         /\ Agrees(r, BeginWalk(r, walk)) /\ BeginWalk(r, walk).ino = r.ino
<1> DEFINE s == [r EXCEPT !.walk = walk, !.chain = <<>>, !.err = "ok"]
<1>1. BeginWalk(r, walk) = Walked(s, LinkAt(r.ino, Path(r)[1]))
  BY DEF BeginWalk
<1>2. Agrees(r, s) /\ s.chain = <<>> /\ s.walk = walk
  BY DEF Agrees, Shape, Columns
<1> HIDE DEF s
<1>3. Path(s) = Path(r) /\ s.ino = r.ino
  BY <1>2 DEF Path, Agrees
<1>4. Next1(s, r.ino, Path(r)[1])
  BY <1>2, <1>3 DEF Next1
<1>5. Outcome(s, BeginWalk(r, walk))
  BY <1>1, <1>4, WalkedOutcome DEF s
<1>6. ChainTrue(s, ptr)
  BY <1>2 DEF ChainTrue
<1> QED BY <1>2, <1>5, <1>6 DEF Outcome, Agrees, s

----------------------------------------
(* Steps of one task *)

\* The types of the rest of the state.
Globals ==
  /\ live \subseteq Inodes
  /\ used \subseteq Blocks
  /\ ptr \in [Hosts -> [Offsets -> Blocks \cup {0, Junk}]]
  /\ i_size \in [Inodes -> Nat]
  /\ i_mutex \in [Inodes -> Tasks \cup {None}]
  /\ truncate_mutex \in [Inodes -> Tasks \cup {None}]
  /\ errors \in 0 .. MaxReadErrors
  /\ lost \subseteq used
  /\ cut \subseteq Inodes

LEMMA TypeOKIs == TypeOK <=> Globals /\ DOMAIN task = Tasks /\ \A t \in Tasks : Typed(task[t])
BY DEF TypeOK, Globals, Typed

\* What EmptyInv says of a task.
EmptyOK(r) ==
  /\ r.pc \in {"init", "free"} => NoBlocks(r.ino)
  /\ r.pc = "kill" /\ r.op = "evict" => ToDo(r)

\* Task t takes and gives back only truncate_mutexes that are its own.
OwnMutex(t) == \A i \in Inodes :
  truncate_mutex[i] \notin {t, None} => truncate_mutex'[i] = truncate_mutex[i]

(* What a step of task t has to respect. *)
LEMMA Combine ==
  ASSUME BlockInv, Inv', NEW t \in Tasks, Moves(t), Globals',
         Typed(task'[t]), Form(task'[t]), OwnMutex(t),
         Holding(task'[t]) => truncate_mutex'[task'[t].ino] = t,
         HandInv', EmptyInv', (\E lv, file : Trees(lv, file))'
  PROVE  BlockInv'
<1>1. \A u \in Tasks : u # t => task'[u] = task[u]
  BY DEF Moves
<1>2. TypeOK'
  BY <1>1, TypeOKIs DEF BlockInv, Moves, TypeOK, Globals, Typed
<1>3. FormInv'
  BY <1>1 DEF BlockInv, FormInv
<1>4. MutexInv'
  BY <1>1, Ext2BlocksAssumption DEF MutexInv, BlockInv, FormInv, Holding, Form, OwnMutex
<1> QED BY <1>2, <1>3, <1>4 DEF BlockInv

(* The bitmap, the pointers and what is in the tasks' hands stay. *)
LEMMA Quiet ==
  ASSUME BlockInv, NEW t \in Tasks, Moves(t), UNCHANGED <<live, used, ptr, lost>>,
         task'[t].got = task[t].got, task'[t].top = task[t].top,
         \A lv, file : Trees(lv, file) => TaskTrue(task'[t], ptr, Placed, lv, file),
         EmptyOK(task'[t])
  PROVE  HandInv' /\ EmptyInv' /\ (\E lv, file : Trees(lv, file))'
<1>1. \A u \in Tasks : task'[u].got = task[u].got /\ task'[u].top = task[u].top
  BY DEF Moves
<1>2. \A u \in Tasks : u # t => task'[u] = task[u]
  BY DEF Moves
<1>3. InHand' = InHand /\ Placed' = Placed
  BY <1>1 DEF InHand, Placed
<1>4. Tops' = Tops
  BY <1>1 DEF Tops
<1>5. HandInv'
  BY <1>1 DEF HandInv, BlockInv
<1>6. EmptyInv'
  BY <1>2 DEF BlockInv, EmptyInv, NoBlocks, EmptyOK, ToDo
<1>7. PICK lv, file : Trees(lv, file)
  BY DEF BlockInv
<1>8. Trees(lv, file)'
  BY <1>2, <1>3, <1>4, <1>7 DEF Trees
<1> QED BY <1>5, <1>6, <1>8

\* A step that changes neither the bitmap nor the trees.
Passes(t) ==
  /\ Moves(t) /\ UNCHANGED <<live, used, ptr, lost>>
  /\ Globals' /\ OwnMutex(t)
  /\ Typed(task'[t]) /\ Form(task'[t])
  /\ Holding(task'[t]) => truncate_mutex'[task'[t].ino] = t
  /\ task'[t].got = task[t].got /\ task'[t].top = task[t].top
  /\ EmptyOK(task'[t])

LEMMA QuietStep ==
  ASSUME BlockInv, Inv', NEW t \in Tasks, Passes(t),
         \A lv, file : Trees(lv, file) => TaskTrue(task'[t], ptr, Placed, lv, file)
  PROVE  BlockInv'
<1>1. Moves(t) /\ UNCHANGED <<live, used, ptr, lost>> /\ EmptyOK(task'[t])
      /\ task'[t].got = task[t].got /\ task'[t].top = task[t].top
  BY DEF Passes
<1>2. HandInv' /\ EmptyInv' /\ (\E lv, file : Trees(lv, file))'
  BY <1>1, Quiet
<1> QED BY <1>2, Combine DEF Passes

(* A task with nothing to free and nothing to check. *)
LEMMA EasyTrue ==
  ASSUME NEW s, s.top = 0, s.work = <<>>, Holding(s) /\ s.pc # "kill" => ChainTrue(s, ptr),
         NEW lv, NEW file
  PROVE  TaskTrue(s, ptr, Placed, lv, file)
<1>1. WorkTrue(s, Placed, lv, file)
  BY DEF WorkTrue
<1> QED BY <1>1 DEF TaskTrue

(* The calls that are over. *)
LEMMA IdleIs == Typed(Idle) /\ Form(Idle) /\ ~Holding(Idle) /\ EmptyOK(Idle)
                /\ Idle.top = 0 /\ Idle.work = <<>> /\ Idle.got = <<>> /\ Idle.b = 0
<1>1. /\ Idle.pc = "idle" /\ Idle.op = "none" /\ Idle.ino = None /\ Idle.chain = <<>>
      /\ Idle.got = <<>> /\ Idle.top = 0 /\ Idle.depth = 0 /\ Idle.work = <<>> /\ Idle.res = 0
      /\ Idle.b = 0
  BY DEF Idle
<1>2. Typed(Idle)
  BY <1>1 DEF Typed
<1>3. Form(Idle)
  BY <1>1 DEF Form, WithChain
<1> QED BY <1>1, <1>2, <1>3 DEF Holding, EmptyOK

LEMMA TaskIs ==
  ASSUME BlockInv, NEW t \in Tasks
  PROVE  /\ Shape(task[t]) /\ Typed(task[t]) /\ Form(task[t]) /\ EmptyOK(task[t])
         /\ Holding(task[t]) => truncate_mutex[task[t].ino] = t
         /\ Globals /\ DOMAIN task = Tasks
         /\ task[t].pc \in {"verify", "add"} => task[t].walk \in Walks
BY TypeOKIs DEF BlockInv, Inv, PlaceInv, FormInv, EmptyInv, EmptyOK, MutexInv

----------------------------------------
(* Walks *)

(* Giving up truncate_mutex once the block is known. *)
LEMMA ReleasedIs ==
  ASSUME BlockInv, NEW t \in Tasks, truncate_mutex' = Released(t)
  PROVE  /\ OwnMutex(t) /\ truncate_mutex' \in [Inodes -> Tasks \cup {None}]
         /\ task'[t].pc # "return" => truncate_mutex' = truncate_mutex
<1>1. truncate_mutex \in [Inodes -> Tasks \cup {None}]
  BY TaskIs DEF Globals
<1> QED BY <1>1 DEF Released, Unlocked, OwnMutex

(* A step of ext2_get_branch leaves the trees as they are. *)
LEMMA OutcomeStep ==
  ASSUME BlockInv, Inv', NEW t \in Tasks, NEW r, NEW s, Bare(r), Outcome(r, s),
         Holding(s) => ChainTrue(s, ptr),
         Moves(t), task'[t] = s, UNCHANGED <<live, used, ptr, lost>>,
         Globals', OwnMutex(t), Holding(s) => truncate_mutex'[s.ino] = t,
         task[t].got = <<>>, task[t].top = 0
  PROVE  BlockInv'
<1>1. /\ Typed(s) /\ Form(s) /\ s.got = <<>> /\ s.top = 0 /\ s.work = <<>>
      /\ s.pc \in {"verify", "detach", "return", "lock", "search"}
  BY DEF Outcome, Agrees, Bare
<1>2. Passes(t)
  BY <1>1 DEF Passes, EmptyOK
<1>3. \A lv, file : TaskTrue(s, ptr, Placed, lv, file)
  BY <1>1, EasyTrue
<1> QED BY <1>2, <1>3, QuietStep

\* WalkVerify changes no pointer.
LEMMA BlockWalkVerify ==
  ASSUME BlockInv, Inv', NEW t \in Tasks, WalkVerify(t)
  PROVE  BlockInv'
<1> DEFINE r == task[t]
<1>1. /\ r.pc = "verify" /\ UNCHANGED <<live, used, ptr, i_size, i_mutex, lost>>
      /\ truncate_mutex' = Released(t)
  BY DEF WalkVerify
<1>2. /\ Shape(r) /\ Typed(r) /\ Form(r) /\ Globals /\ DOMAIN task = Tasks /\ r.walk \in Walks
      /\ Holding(r) => truncate_mutex[r.ino] = t
  BY <1>1, TaskIs
<1>3. /\ r.ino \in Inodes /\ Fits(r.b) /\ r.op # "evict" /\ r.got = <<>> /\ r.top = 0
      /\ r.work = <<>> /\ ChainShape(r) /\ Len(r.chain) < WalkDepth(r)
      /\ r.chain[Len(r.chain)].key # 0
  BY <1>1, <1>2 DEF Form, WithChain
<1>4. r.walk \in {"regrab", "shared"} => truncate_mutex[r.ino] = t /\ ChainTrue(r, ptr)
  BY <1>1, <1>2 DEF Holding, BlockInv, Trees, TaskTrue
<1>5. OwnMutex(t) /\ (task'[t].pc # "return" => truncate_mutex' = truncate_mutex)
  BY <1>1, ReleasedIs
<1>6. Globals'
  BY <1>1, <1>2, <1>3, Ext2BlocksAssumption, ReleasedIs DEF WalkVerify, Globals
<1>7. ASSUME NEW e, task' = [task EXCEPT ![t] = AfterWalk([r EXCEPT !.err = e])]
      PROVE  BlockInv'
  <2> DEFINE q == [r EXCEPT !.err = e]
             s == AfterWalk(q)
  <2>1. Shape(q) /\ q.walk = r.walk /\ Agrees(r, q) /\ q.chain = r.chain /\ q.res = r.res
    BY <1>2 DEF Shape, Columns, Agrees
  <2> HIDE DEF q
  <2>2. Path(q) = Path(r)
    BY <2>1 DEF Agrees, Path
  <2>3. ChainShape(q)
    BY <1>3, <2>1, <2>2, SMTT(30) DEF ChainShape, Agrees
  <2>4. Typed(q)
    BY <1>2, <2>1 DEF Typed, Agrees
  <2>5. Bare(q)
    BY <1>2, <1>3, <2>1, <2>4 DEF Bare, Agrees
  <2>6. Outcome(q, s)
    BY <2>3, <2>5, AfterWalkOutcome
  <2>7. Moves(t) /\ task'[t] = s
    BY <1>7, OneTaskMoves DEF BlockInv, q
  <2>8. ChainTrue(r, ptr) => ChainTrue(q, ptr)
    BY <2>1 DEF ChainTrue
  <2>9. Holding(s) => ChainTrue(s, ptr) /\ truncate_mutex'[s.ino] = t
    BY <1>4, <1>5, <2>1, <2>6, <2>7, <2>8 DEF Outcome, Agrees, Holding
  <2> HIDE DEF s
  <2> QED BY <1>1, <1>3, <1>5, <1>6, <2>5, <2>6, <2>7, <2>9, OutcomeStep
<1>8. ASSUME verify_chain(r.chain), task' = [task EXCEPT ![t].pc = "add"]
      PROVE  BlockInv'
  <2> DEFINE s == [r EXCEPT !.pc = "add"]
             n == Len(r.chain)
  <2>1. Moves(t) /\ task'[t] = s
    BY <1>8, OneTaskMoves DEF BlockInv
  <2>2. Agrees(r, s) /\ s.pc = "add" /\ s.walk = r.walk /\ s.chain = r.chain /\ s.res = r.res
    BY <1>2 DEF Agrees, Shape, Columns
  <2> HIDE DEF s
  <2>3. ChainTrue(r, ptr)
    BY <1>2, <1>8 DEF Typed, ChainTrue, verify_chain
  <2>4. r.chain[n].key \in Blocks
    <3>1. PICK lv, file : Trees(lv, file)
      BY DEF BlockInv
    <3>2. TypeOK /\ Placed \subseteq Blocks /\ Labels(lv, file) /\ Tree(ptr, Placed, lv, file, Tops)
      BY <3>1, PlacedAre DEF BlockInv, Trees
    <3>3. ChainLeads(r, Placed, lv, file)
      BY <1>3, <2>3, <3>2, ChainReal
    <3>4. n \in 1 .. Len(r.chain)
      BY <1>3 DEF ChainShape
    <3>5. /\ r.chain[n].host \in Indirect(Placed, lv)
          /\ r.chain[n].off \in Slots(r.chain[n].host)
          /\ r.chain[n].key = ptr[r.chain[n].host][r.chain[n].off]
      BY <2>3, <3>3, <3>4 DEF ChainLeads, ChainTrue
    <3> QED BY <1>3, <3>1, <3>2, <3>5, SlotHolds
  <2>5. Path(s) = Path(r) /\ WalkDepth(s) = WalkDepth(r)
    BY <2>2 DEF Path, Agrees, WalkDepth
  <2>6. ChainShape(s)
    BY <1>3, <2>2, <2>5 DEF ChainShape, Agrees
  <2>7. Form(s)
    BY <1>2, <1>3, <2>2, <2>4, <2>5, <2>6 DEF Form, Agrees, WithChain
  <2>8. Typed(s)
    BY <1>2, <2>2 DEF Typed, Agrees
  <2>9. Holding(s) => truncate_mutex'[s.ino] = t
    BY <1>4, <1>5, <2>1, <2>2 DEF Holding, Agrees
  <2>10. Passes(t)
    BY <1>1, <1>3, <1>5, <1>6, <2>1, <2>2, <2>7, <2>8, <2>9 DEF Passes, EmptyOK, Agrees
  <2>11. ChainTrue(s, ptr)
    BY <2>2, <2>3 DEF ChainTrue
  <2>12. \A lv, file : TaskTrue(s, ptr, Placed, lv, file)
    BY <1>3, <2>2, <2>11, EasyTrue DEF Agrees
  <2> QED BY <2>1, <2>10, <2>12, QuietStep
<1> QED BY <1>7, <1>8 DEF WalkVerify

\* WalkAdd reads one pointer, under truncate_mutex the true one.
LEMMA BlockWalkAdd ==
  ASSUME BlockInv, Inv', NEW t \in Tasks, WalkAdd(t)
  PROVE  BlockInv'
<1> DEFINE r == task[t]
           n == Len(r.chain)
           s == Walked(r, LinkAt(Partial(r).key, Path(r)[n + 1]))
<1>1. /\ r.pc = "add" /\ UNCHANGED <<live, used, ptr, i_size, i_mutex, errorVars>>
      /\ truncate_mutex' = Released(t) /\ task' = [task EXCEPT ![t] = s]
  BY DEF WalkAdd
<1>2. /\ Shape(r) /\ Typed(r) /\ Form(r) /\ Globals /\ DOMAIN task = Tasks /\ r.walk \in Walks
      /\ Holding(r) => truncate_mutex[r.ino] = t
  BY <1>1, TaskIs
<1>3. /\ r.ino \in Inodes /\ Fits(r.b) /\ r.op # "evict" /\ r.got = <<>> /\ r.top = 0
      /\ r.work = <<>> /\ ChainShape(r) /\ Len(r.chain) < WalkDepth(r)
      /\ r.chain[n].key \in Blocks
  BY <1>1, <1>2 DEF Form, WithChain
<1>4. r.walk \in {"regrab", "shared"} => truncate_mutex[r.ino] = t /\ ChainTrue(r, ptr)
  BY <1>1, <1>2 DEF Holding, BlockInv, Trees, TaskTrue
<1>5. OwnMutex(t) /\ (task'[t].pc # "return" => truncate_mutex' = truncate_mutex)
  BY <1>1, ReleasedIs
<1>6. Globals'
  BY <1>1, <1>2, ReleasedIs DEF Globals, errorVars
<1>7. Bare(r)
  BY <1>2, <1>3 DEF Bare
<1>8. Next1(r, Partial(r).key, Path(r)[n + 1])
  BY <1>3 DEF Next1, Partial, Last
<1>9. Outcome(r, s)
  BY <1>2, <1>7, <1>8, WalkedOutcome DEF Globals
<1>10. Moves(t) /\ task'[t] = s
  BY <1>1, OneTaskMoves DEF BlockInv
<1> HIDE DEF s
<1>11. Holding(s) => ChainTrue(s, ptr) /\ truncate_mutex'[s.ino] = t
  BY <1>4, <1>5, <1>9, <1>10 DEF Outcome, Agrees, Holding
<1> QED BY <1>1, <1>3, <1>5, <1>6, <1>7, <1>9, <1>10, <1>11, OutcomeStep DEF errorVars

----------------------------------------
(* Beginnings and ends of calls *)

(* Task t goes where it holds no truncate_mutex. *)
LEMMA FreeStep ==
  ASSUME BlockInv, Inv', NEW t \in Tasks, NEW s, task' = [task EXCEPT ![t] = s],
         Typed(s), Form(s), EmptyOK(s), ~Holding(s),
         UNCHANGED <<live, used, ptr, lost>>, Globals', OwnMutex(t),
         task[t].got = <<>>, task[t].top = 0
  PROVE  BlockInv'
<1>1. Moves(t) /\ task'[t] = s
  BY OneTaskMoves DEF BlockInv
<1>2. s.pc \notin {"search", "claim", "splice", "kill"}
  BY DEF Holding
<1>3. s.got = <<>> /\ s.top = 0 /\ s.work = <<>>
  BY <1>2 DEF Form
<1>4. Passes(t)
  BY <1>1, <1>3 DEF Passes
<1>5. \A lv, file : TaskTrue(s, ptr, Placed, lv, file)
  BY <1>3, EasyTrue
<1> QED BY <1>1, <1>4, <1>5, QuietStep

LEMMA KeepsMutex ==
  ASSUME NEW t, truncate_mutex' = truncate_mutex
  PROVE  OwnMutex(t)
BY DEF OwnMutex

LEMMA FileFits ==
  ASSUME NEW i \in Inodes, NEW b \in FileBlocks[i] \cup Sizes[i]
  PROVE  Fits(b)
<1>1. b \in Nat
  BY Ext2BlocksAssumption
<1> QED BY <1>1, Ext2BlocksFit DEF Fits

\* A page lock is taken and the walk begins.
LEMMA BlockPageStart ==
  ASSUME BlockInv, Inv', NEW t \in Tasks, NEW i \in Inodes, NEW b, Fits(b),
         \/ StartPage(t, "readpage", i, b)
         \/ StartPage(t, "writepage", i, b)
         \/ WriteBegin(t) /\ i = task[t].ino /\ b = task[t].b
  PROVE  BlockInv'
<1>1. PICK op \in {"readpage", "writepage", "write"} :
        task' = [task EXCEPT ![t] = BeginWalk(Request(op, i, b, TRUE), "first")]
  BY DEF StartPage, WriteBegin
<1>2. /\ task[t].pc \in {"idle", "page"}
      /\ UNCHANGED <<live, used, ptr, i_size, i_mutex, truncate_mutex, errorVars>>
  BY DEF StartPage, WriteBegin
<1>3. /\ Form(task[t]) /\ Globals /\ DOMAIN task = Tasks
  BY TaskIs
<1>4. Globals'
  BY <1>2, <1>3 DEF Globals, errorVars
<1> DEFINE q == Request(op, i, b, TRUE)
           r == [q EXCEPT !.walk = "first", !.chain = <<>>, !.err = "ok"]
           s == BeginWalk(q, "first")
<1>5. /\ Shape(q) /\ q.op = op /\ q.ino = i /\ q.b = b
      /\ q.got = <<>> /\ q.top = 0 /\ q.depth = 0 /\ q.work = <<>> /\ q.res = 0
  BY DEF Request, Idle, Shape, Columns
<1> HIDE DEF q
<1>6. /\ Shape(r) /\ r.op = op /\ r.ino = i /\ r.b = b /\ r.walk = "first" /\ r.chain = <<>>
      /\ r.got = <<>> /\ r.top = 0 /\ r.depth = 0 /\ r.work = <<>> /\ r.res = 0
  BY <1>5 DEF Shape, Columns
<1> HIDE DEF r
<1>7. Bare(r)
  BY <1>6 DEF Typed, Bare, Walks
<1>8. Outcome(r, s)
  BY <1>3, <1>5, <1>7, BeginWalkOutcome DEF Walks, Globals, r
<1>9. Typed(s) /\ Form(s) /\ EmptyOK(s) /\ ~Holding(s)
  BY <1>6, <1>8 DEF Outcome, EmptyOK
<1>10. task[t].got = <<>> /\ task[t].top = 0
  BY <1>2, <1>3 DEF Form
<1>11. OwnMutex(t)
  BY <1>2, KeepsMutex
<1>12. task' = [task EXCEPT ![t] = s] /\ UNCHANGED <<live, used, ptr, lost>>
  BY <1>1, <1>2 DEF q, errorVars
<1> HIDE DEF s
<1> QED BY <1>4, <1>9, <1>10, <1>11, <1>12, FreeStep

\* A truncate that begins.
LEMMA TruncateRecord ==
  ASSUME NEW op \in {"truncate", "evict", "begin"}, NEW pc \in {"truncate", "page"},
         NEW i \in Inodes, NEW size, Fits(size), op = "evict" => size = 0 /\ pc = "truncate"
  PROVE  LET s == [Request(op, i, size, FALSE) EXCEPT !.pc = pc] IN
         Typed(s) /\ Form(s) /\ EmptyOK(s) /\ ~Holding(s)
<1> DEFINE q == Request(op, i, size, FALSE)
           s == [q EXCEPT !.pc = pc]
<1>1. /\ Shape(q) /\ q.op = op /\ q.ino = i /\ q.b = size /\ q.chain = <<>>
      /\ q.got = <<>> /\ q.top = 0 /\ q.depth = 0 /\ q.work = <<>> /\ q.res = 0
  BY DEF Request, Idle, Shape, Columns
<1> HIDE DEF q
<1>2. /\ s.op = op /\ s.ino = i /\ s.b = size /\ s.pc = pc /\ s.chain = <<>>
      /\ s.got = <<>> /\ s.top = 0 /\ s.depth = 0 /\ s.work = <<>> /\ s.res = 0
  BY <1>1 DEF Shape, Columns
<1> HIDE DEF s
<1>3. Typed(s)
  BY <1>2 DEF Typed
<1>4. Form(s)
  BY <1>2 DEF Form, WithChain
<1> QED BY <1>2, <1>3, <1>4 DEF EmptyOK, Holding, s, q

\* ext2_setsize sets the size and goes on to truncate; a write waits for its page.
LEMMA BlockStartTruncate ==
  ASSUME BlockInv, Inv', NEW t \in Tasks, NEW i \in Inodes, NEW b \in FileBlocks[i] \cup Sizes[i],
         StartTruncate(t, i, b) \/ StartWrite(t, i, b)
  PROVE  BlockInv'
<1>0. PICK op \in {"truncate", "begin"}, pc \in {"truncate", "page"} :
        task' = [task EXCEPT ![t] = [Request(op, i, b, FALSE) EXCEPT !.pc = pc]]
  BY DEF StartTruncate, StartWrite
<1> DEFINE s == [Request(op, i, b, FALSE) EXCEPT !.pc = pc]
<1>1. /\ task[t].pc = "idle" /\ UNCHANGED <<live, used, ptr, truncate_mutex, errorVars>>
      /\ i_mutex' = [i_mutex EXCEPT ![i] = t]
      /\ i_size' = i_size \/ i_size' = [i_size EXCEPT ![i] = b]
  BY DEF StartTruncate, StartWrite
<1>2. Fits(b) /\ task' = [task EXCEPT ![t] = s]
  BY <1>0, FileFits
<1>3. Typed(s) /\ Form(s) /\ EmptyOK(s) /\ ~Holding(s)
  BY <1>2, TruncateRecord
<1> HIDE DEF s
<1>4. Form(task[t]) /\ Globals
  BY TaskIs
<1>5. Globals'
  BY <1>1, <1>2, <1>4 DEF Globals, errorVars, Fits
<1>6. task[t].got = <<>> /\ task[t].top = 0
  BY <1>1, <1>4 DEF Form
<1>7. OwnMutex(t) /\ UNCHANGED <<live, used, ptr, lost>>
  BY <1>1, KeepsMutex DEF errorVars
<1> QED BY <1>1, <1>2, <1>3, <1>5, <1>6, <1>7, FreeStep

\* ext2_evict_inode takes the inode for itself.
LEMMA BlockStartEvict ==
  ASSUME BlockInv, Inv', NEW t \in Tasks, NEW i \in Inodes, StartEvict(t, i)
  PROVE  BlockInv'
<1> DEFINE s == [Request("evict", i, 0, FALSE) EXCEPT !.pc = "truncate"]
<1>1. /\ task[t].pc = "idle" /\ task' = [task EXCEPT ![t] = s]
      /\ UNCHANGED <<live, used, ptr, i_mutex, truncate_mutex, errorVars>>
      /\ i_size' = [i_size EXCEPT ![i] = 0]
  BY DEF StartEvict
<1>2. Fits(0)
  BY Geometry DEF Fits, ext2_block_to_path
<1>3. Typed(s) /\ Form(s) /\ EmptyOK(s) /\ ~Holding(s)
  BY <1>2, TruncateRecord
<1> HIDE DEF s
<1>4. Form(task[t]) /\ Globals
  BY TaskIs
<1>5. Globals'
  BY <1>1, <1>4 DEF Globals, errorVars
<1>6. task[t].got = <<>> /\ task[t].top = 0
  BY <1>1, <1>4 DEF Form
<1>7. OwnMutex(t) /\ UNCHANGED <<live, used, ptr, lost>>
  BY <1>1, KeepsMutex DEF errorVars
<1> QED BY <1>1, <1>3, <1>5, <1>6, <1>7, FreeStep

\* The page lock is given back.
LEMMA BlockPageEnd ==
  ASSUME BlockInv, Inv', NEW t \in Tasks, PageEnd(t) \/ WriteEnd(t) \/ WriteFailed(t)
  PROVE  BlockInv'
<1> DEFINE r == task[t]
           i == r.ino
<1>1. /\ r.pc \in {"page", "return"}
      /\ UNCHANGED <<live, used, ptr, truncate_mutex, errorVars>>
      /\ i_mutex' = i_mutex \/ i_mutex' = [i_mutex EXCEPT ![i] = None]
      /\ i_size' = i_size \/ i_size' = [i_size EXCEPT ![i] = IF r.b + 1 > @ THEN r.b + 1 ELSE @]
  <2>1. CASE PageEnd(t)
    BY <2>1 DEF PageEnd
  <2>2. CASE WriteEnd(t)
    BY <2>2 DEF WriteEnd
  <2>3. CASE WriteFailed(t)
    BY <2>3 DEF WriteFailed
  <2> QED BY <2>1, <2>2, <2>3
<1>2. Form(r) /\ Globals
  BY TaskIs
<1>3. i \in Inodes /\ Fits(r.b) /\ r.b \in Nat /\ r.got = <<>> /\ r.top = 0
  BY <1>1, <1>2 DEF Form, Fits
<1>4. Globals'
  <2>1. i_size' \in [Inodes -> Nat]
    BY <1>1, <1>2, <1>3 DEF Globals
  <2>2. i_mutex' \in [Inodes -> Tasks \cup {None}]
    BY <1>1, <1>2, <1>3 DEF Globals
  <2> QED BY <1>1, <1>2, <2>1, <2>2 DEF Globals, errorVars
<1>5. OwnMutex(t) /\ UNCHANGED <<live, used, ptr, lost>>
  BY <1>1, KeepsMutex DEF errorVars
<1>6. CASE task' = [task EXCEPT ![t] = Idle]
  BY <1>3, <1>4, <1>5, <1>6, IdleIs, FreeStep
<1>7. CASE WriteFailed(t) /\ r.b + 1 > i_size[i] /\ i \notin AppendOnly
  <2> DEFINE s == [Request("truncate", i, i_size[i], FALSE) EXCEPT !.pc = "truncate"]
  <2>1. task' = [task EXCEPT ![t] = s]
    BY <1>7 DEF WriteFailed
  <2>2. i_size[i] \in Nat
    BY <1>2, <1>3 DEF Globals
  <2>3. i_size[i] <= r.b
    BY <1>3, <1>7, <2>2
  <2>4. Fits(i_size[i])
    BY <1>3, <2>2, <2>3, FitsBelow
  <2>5. Typed(s) /\ Form(s) /\ EmptyOK(s) /\ ~Holding(s)
    BY <1>3, <2>4, TruncateRecord
  <2> HIDE DEF s
  <2> QED BY <1>3, <1>4, <1>5, <2>1, <2>5, FreeStep
<1> QED BY <1>6, <1>7 DEF PageEnd, WriteEnd, WriteFailed

----------------------------------------
(* Inodes that come and go *)

\* A task that looks for an inode.
LEMMA NewRecord ==
  ASSUME NEW r, Shape(r), Typed(r), Form(r), r.pc = "idle" \/ r.pc = "new", r.op # "evict",
         NEW s, Shape(s), s.pc = "new", s.op \in {"create", r.op}, s.ino = r.ino, s.b = r.b,
         s.chain = r.chain, s.got = r.got, s.top = r.top, s.depth = r.depth,
         s.work = r.work, s.res = r.res
  PROVE  Typed(s) /\ Form(s) /\ EmptyOK(s) /\ ~Holding(s)
<1>1. Typed(s)
  BY DEF Typed
<1>2. s.got = <<>> /\ s.top = 0 /\ s.work = <<>> /\ s.work \in Seq(SlotRecord)
  BY DEF Form
<1>3. Form(s)
  BY <1>2 DEF Form, WithChain
<1> QED BY <1>1, <1>3 DEF EmptyOK, Holding

\* The search for a free inode takes nothing.
LEMMA BlockLook ==
  ASSUME BlockInv, Inv', NEW t \in Tasks, StartCreate(t) \/ LoseInode(t)
  PROVE  BlockInv'
<1> DEFINE r == task[t]
<1>1. /\ r.pc \in {"idle", "new"}
      /\ UNCHANGED <<live, used, ptr, i_size, i_mutex, truncate_mutex, errorVars>>
  BY DEF StartCreate, LoseInode
<1>2. Form(r) /\ Globals /\ Shape(r) /\ Typed(r) /\ DOMAIN task = Tasks
  BY TaskIs
<1>3. Globals'
  BY <1>1, <1>2 DEF Globals, errorVars
<1>4. OwnMutex(t) /\ UNCHANGED <<live, used, ptr, lost>>
  BY <1>1, KeepsMutex DEF errorVars
<1>5. r.got = <<>> /\ r.top = 0 /\ r.op # "evict"
  BY <1>1, <1>2 DEF Form
<1>6. CASE task' = [task EXCEPT ![t] = Idle]
  BY <1>3, <1>4, <1>5, <1>6, IdleIs, FreeStep
<1>7. CASE StartCreate(t)
  <2>1. PICK i : task' = [task EXCEPT ![t] =
          [Idle EXCEPT !.pc = "new", !.op = "create", !.goal = i]]
    BY <1>7 DEF StartCreate
  <2> DEFINE s == [Idle EXCEPT !.pc = "new", !.op = "create", !.goal = i]
  <2>2. /\ Shape(s) /\ s.pc = "new" /\ s.op = "create" /\ s.ino = Idle.ino /\ s.b = Idle.b
        /\ s.chain = Idle.chain /\ s.got = Idle.got /\ s.top = Idle.top /\ s.depth = Idle.depth
        /\ s.work = Idle.work /\ s.res = Idle.res
    BY IdleShape DEF Shape, Columns
  <2> HIDE DEF s
  <2>3. Typed(s) /\ Form(s) /\ EmptyOK(s) /\ ~Holding(s)
    BY <2>2, IdleShape, IdleIs, NewRecord
  <2> QED BY <1>3, <1>4, <1>5, <2>1, <2>3, FreeStep DEF s
<1>8. CASE LoseInode(t) /\ \E i \in Inodes \ live : task' = [task EXCEPT ![t].goal = i]
  <2>1. PICK i : task' = [task EXCEPT ![t].goal = i]
    BY <1>8
  <2> DEFINE s == [r EXCEPT !.goal = i]
  <2>2. r.pc = "new"
    BY <1>8 DEF LoseInode
  <2>3. /\ Shape(s) /\ s.pc = "new" /\ s.op = r.op /\ s.ino = r.ino /\ s.b = r.b
        /\ s.chain = r.chain /\ s.got = r.got /\ s.top = r.top /\ s.depth = r.depth
        /\ s.work = r.work /\ s.res = r.res
    BY <1>2, <2>2 DEF Shape, Columns
  <2>4. task' = [task EXCEPT ![t] = s]
    BY <2>1
  <2> HIDE DEF s
  <2>5. Typed(s) /\ Form(s) /\ EmptyOK(s) /\ ~Holding(s)
    BY <1>2, <1>5, <2>2, <2>3, NewRecord
  <2> QED BY <1>3, <1>4, <1>5, <2>4, <2>5, FreeStep
<1> QED BY <1>6, <1>7, <1>8 DEF LoseInode

\* A task that is about to free its inode.
LEMMA FreeRecord ==
  ASSUME NEW r, Typed(r), r.pc = "free", r.op = "evict", r.ino \in Inodes, r.b = 0,
         r.got = <<>>, r.top = 0, r.work = <<>>, NoBlocks(r.ino)
  PROVE  Form(r) /\ EmptyOK(r) /\ ~Holding(r)
<1>1. Form(r)
  BY DEF Form, WithChain
<1> QED BY <1>1 DEF EmptyOK, Holding

\* ext2_new_inode fills in an inode without blocks.
LEMMA BlockInitInode ==
  ASSUME BlockInv, Inv', NEW t \in Tasks, InitInode(t)
  PROVE  BlockInv'
<1> DEFINE r == task[t]
<1>1. r.pc = "init" /\ UNCHANGED <<live, used, ptr, i_size, i_mutex, truncate_mutex, errorVars>>
  BY DEF InitInode
<1>2. Form(r) /\ Globals /\ Shape(r) /\ Typed(r) /\ DOMAIN task = Tasks /\ EmptyOK(r)
  BY TaskIs
<1>3. Globals'
  BY <1>1, <1>2 DEF Globals, errorVars
<1>4. OwnMutex(t) /\ UNCHANGED <<live, used, ptr, lost>>
  BY <1>1, KeepsMutex DEF errorVars
<1>5. r.got = <<>> /\ r.top = 0 /\ r.work = <<>> /\ r.ino \in Inodes /\ r.b = 0
  BY <1>1, <1>2 DEF Form
<1>6. CASE task' = [task EXCEPT ![t] = Idle]
  BY <1>3, <1>4, <1>5, <1>6, IdleIs, FreeStep
<1>7. CASE task' = [task EXCEPT ![t].pc = "free", ![t].op = "evict"]
  BY <1>1, <1>2, <1>3, <1>4, <1>5, <1>7, FreeRecord, FreeStep DEF Shape, Columns, Typed, EmptyOK
<1> QED BY <1>6, <1>7 DEF InitInode

\* Nothing is left to empty and no branch to free.
LEMMA BlockTruncateEnd ==
  ASSUME BlockInv, Inv', NEW t \in Tasks, TruncateEnd(t)
  PROVE  BlockInv'
<1> DEFINE r == task[t]
<1>1. /\ r.pc = "kill" /\ r.top = 0 /\ r.work = <<>>
      /\ UNCHANGED <<live, used, ptr, i_size, errorVars>>
      /\ truncate_mutex' = [truncate_mutex EXCEPT ![r.ino] = None]
      /\ i_mutex' = Unlocked(i_mutex, t, r.ino)
  BY DEF TruncateEnd
<1>2. /\ Form(r) /\ Globals /\ Shape(r) /\ Typed(r) /\ DOMAIN task = Tasks /\ EmptyOK(r)
      /\ Holding(r) => truncate_mutex[r.ino] = t
  BY TaskIs
<1>3. r.ino \in Inodes /\ truncate_mutex[r.ino] = t /\ r.got = <<>>
  BY <1>1, <1>2 DEF Form, Holding
<1>4. Globals'
  BY <1>1, <1>2 DEF Globals, Unlocked, errorVars
<1>5. OwnMutex(t) /\ UNCHANGED <<live, used, ptr, lost>>
  BY <1>1, <1>2, <1>3 DEF OwnMutex, Globals, errorVars
<1>6. CASE task' = [task EXCEPT ![t] = Idle]
  BY <1>1, <1>3, <1>4, <1>5, <1>6, IdleIs, FreeStep
<1>7. CASE r.op = "evict" /\
           task' = [task EXCEPT ![t] = [Idle EXCEPT !.pc = "free", !.op = "evict", !.ino = r.ino]]
  <2> DEFINE i == r.ino
             s == [Idle EXCEPT !.pc = "free", !.op = "evict", !.ino = i]
  <2>1. /\ s.pc = "free" /\ s.op = "evict" /\ s.ino = i /\ s.b = Idle.b
        /\ s.chain = Idle.chain /\ s.got = Idle.got /\ s.top = Idle.top
        /\ s.depth = Idle.depth /\ s.work = Idle.work /\ s.res = Idle.res
    BY IdleShape DEF Shape, Columns
  <2>2. task' = [task EXCEPT ![t] = s]
    BY <1>7
  <2> HIDE DEF s
  <2>3. Typed(s)
    BY <1>3, <2>1, IdleIs DEF Typed
  <2>4. NoBlocks(i)
    BY <1>1, <1>2, <1>7 DEF EmptyOK, ToDo, NoBlocks
  <2>5. Form(s) /\ EmptyOK(s) /\ ~Holding(s)
    BY <1>3, <2>1, <2>3, <2>4, IdleIs, FreeRecord
  <2> QED BY <1>1, <1>3, <1>4, <1>5, <2>2, <2>3, <2>5, FreeStep
<1> QED BY <1>6, <1>7 DEF TruncateEnd

----------------------------------------
(* Steps that change the trees *)

(* Blocks come and go in one file, under its truncate_mutex. *)
LEMMA TreeStep ==
  ASSUME BlockInv, NEW t \in Tasks, Moves(t), NEW lv, NEW file, Trees(lv, file),
         NEW lv2, NEW file2, Labels(lv2, file2), Tree(ptr', Placed', lv2, file2, Tops'),
         NEW i, Keeps(i, ptr, Placed, lv, file, ptr', Placed', lv2, file2),
         \A u \in Tasks : u # t /\ Holding(task[u]) => task[u].ino # i,
         TaskTrue(task'[t], ptr', Placed', lv2, file2)
  PROVE  (\E l, f : Trees(l, f))'
<1>1. Labels(lv, file) /\ Tree(ptr, Placed, lv, file, Tops) /\ Placed \subseteq Blocks
  BY PlacedAre DEF Trees, BlockInv
<1>2. ASSUME NEW u \in Tasks
      PROVE  TaskTrue(task'[u], ptr', Placed', lv2, file2)
  <2>1. CASE u = t
    BY <2>1
  <2>2. CASE u # t
    <3>1. task'[u] = task[u]
      BY <2>2 DEF Moves
    <3>2. Form(task[u]) /\ TaskTrue(task[u], ptr, Placed, lv, file)
      BY TaskIs DEF Trees
    <3>3. task[u].top # 0 => task[u].top \in Placed
      BY <1>1 DEF Tree, Tops
    <3>4. Holding(task[u]) => task[u].ino # i
      BY <2>2
    <3>5. TaskTrue(task[u], ptr', Placed', lv2, file2)
      BY <1>1, <3>2, <3>3, <3>4, OthersTrue
    <3> QED BY <3>1, <3>5
  <2> QED BY <2>1, <2>2
<1>3. Trees(lv2, file2)'
  BY <1>2 DEF Trees
<1> QED BY <1>3

(* The trees stay. *)
LEMMA SameTrees ==
  ASSUME BlockInv, NEW t \in Tasks, Moves(t), ptr' = ptr, Placed' = Placed, Tops' = Tops,
         \A lv, file : Trees(lv, file) => TaskTrue(task'[t], ptr, Placed, lv, file)
  PROVE  (\E l, f : Trees(l, f))'
<1>1. PICK lv, file : Trees(lv, file)
  BY DEF BlockInv
<1>2. \A u \in Tasks : TaskTrue(task'[u], ptr', Placed', lv, file)
  BY <1>1 DEF Trees, Moves
<1>3. Trees(lv, file)'
  BY <1>1, <1>2 DEF Trees
<1> QED BY <1>3

(* Blocks come and go in inode i only. *)
LEMMA EmptyStep ==
  ASSUME BlockInv, NEW t \in Tasks, Moves(t), NEW i,
         \A j \in Inodes : j # i => ptr'[j] = ptr[j],
         \A j \in Inodes \ live' : NoBlocks(j)',
         \A u \in Tasks : u # t /\ Exclusive(task[u]) => task[u].ino # i,
         EmptyOK(task[t])'
  PROVE  EmptyInv'
<1>1. ASSUME NEW u \in Tasks
      PROVE  EmptyOK(task[u])'
  BY TaskIs DEF Moves, BlockInv, Inv, PlaceInv, Exclusive, Form, EmptyOK, NoBlocks, ToDo
<1> QED BY <1>1 DEF EmptyInv, EmptyOK

(* Who has a truncate_mutex, or creates or deletes an inode, is alone. *)
LEMMA Alone ==
  ASSUME BlockInv, NEW t \in Tasks, Holding(task[t]), NEW i, i = task[t].ino
  PROVE  /\ i \in live /\ i \in Inodes /\ truncate_mutex[i] = t
         /\ \A u \in Tasks : u # t /\ Holding(task[u]) => task[u].ino # i
         /\ \A u \in Tasks : u # t /\ Exclusive(task[u]) => task[u].ino # i
<1>1. i \in Inodes /\ i # None /\ truncate_mutex[i] = t
  BY TaskIs, Ext2BlocksAssumption DEF Form, Holding
<1>2. i \in live
  BY <1>1 DEF BlockInv, Inv, OwnInv
<1>3. ASSUME NEW u \in Tasks, u # t, Holding(task[u])
      PROVE  task[u].ino # i
  BY <1>1, <1>3, TaskIs
<1>4. ASSUME NEW u \in Tasks, u # t, Exclusive(task[u]), task[u].ino = i
      PROVE  FALSE
  BY <1>1, <1>4 DEF BlockInv, Inv, OwnInv
<1> QED BY <1>1, <1>2, <1>3, <1>4

(* What a task has in its hands. *)
LEMMA HandsAre ==
  ASSUME BlockInv, NEW t \in Tasks
  PROVE  /\ task[t].got \in Seq(Blocks) /\ ToSet(task[t].got) \subseteq used \ lost
         /\ ToSet(task[t].got) \cap Placed = {}
         /\ DOMAIN task[t].got = 1 .. Len(task[t].got)
<1>1. task[t].got \in Seq(Blocks)
  BY TaskIs DEF Typed
<1>2. ToSet(task[t].got) \subseteq used \ lost
  BY DEF BlockInv, HandInv
<1>3. ToSet(task[t].got) \subseteq InHand
  BY DEF InHand
<1> QED BY <1>1, <1>2, <1>3 DEF Placed

----------------------------------------
(* Allocation *)

\* truncate_mutex is taken and the chain compared with the pointers.
LEMMA BlockLockAndVerify ==
  ASSUME BlockInv, Inv', NEW t \in Tasks, LockAndVerify(t)
  PROVE  BlockInv'
<1> DEFINE r == task[t]
<1>1. /\ r.pc = "lock" /\ UNCHANGED <<live, used, ptr, i_size, i_mutex, errorVars>>
      /\ truncate_mutex[r.ino] = None
      /\ truncate_mutex' = IF task'[t].pc = "return" THEN truncate_mutex
                           ELSE [truncate_mutex EXCEPT ![r.ino] = t]
  BY DEF LockAndVerify
<1>2. Shape(r) /\ Typed(r) /\ Form(r) /\ Globals /\ DOMAIN task = Tasks
  BY TaskIs
<1>3. /\ r.ino \in Inodes /\ Fits(r.b) /\ r.op # "evict" /\ r.got = <<>> /\ r.top = 0
      /\ r.work = <<>> /\ ChainShape(r)
  BY <1>1, <1>2 DEF Form, WithChain
<1>4. OwnMutex(t) /\ (task'[t].pc # "return" => truncate_mutex'[r.ino] = t)
  BY <1>1, <1>2, <1>3 DEF OwnMutex, Globals
<1>5. Globals'
  BY <1>1, <1>2 DEF Globals, errorVars
<1>6. CASE task' = [task EXCEPT ![t] = BeginWalk(r, "regrab")]
  <2> DEFINE q == [r EXCEPT !.walk = "regrab", !.chain = <<>>, !.err = "ok"]
             s == BeginWalk(r, "regrab")
  <2>1. Agrees(r, q) /\ q.walk = "regrab" /\ q.chain = <<>> /\ q.res = r.res
    BY <1>2 DEF Agrees, Shape, Columns
  <2> HIDE DEF q
  <2>2. <<>> \in Seq(Link)
    OBVIOUS
  <2>3. Typed(q)
    BY <1>2, <2>1, <2>2 DEF Typed, Agrees
  <2>4. Bare(q)
    BY <1>3, <2>1, <2>3 DEF Bare, Agrees, Walks
  <2>5. Outcome(q, s) /\ (Holding(s) => ChainTrue(s, ptr)) /\ s.ino = r.ino
    BY <1>2, <2>4, BeginWalkOutcome DEF Walks, Globals, q
  <2>6. Moves(t) /\ task'[t] = s
    BY <1>6, OneTaskMoves DEF BlockInv
  <2> HIDE DEF s
  <2>7. Holding(s) => truncate_mutex'[s.ino] = t
    BY <1>4, <2>5, <2>6 DEF Holding
  <2> QED BY <1>1, <1>3, <1>4, <1>5, <2>4, <2>5, <2>6, <2>7, OutcomeStep DEF errorVars
<1>7. CASE verify_chain(r.chain) /\ task' = [task EXCEPT ![t] = [r EXCEPT !.pc = "search"]]
  <2> DEFINE s == [r EXCEPT !.pc = "search"]
  <2>1. Moves(t) /\ task'[t] = s
    BY <1>7, OneTaskMoves DEF BlockInv
  <2>2. Agrees(r, s) /\ s.pc = "search" /\ s.chain = r.chain /\ s.res = r.res
    BY <1>2 DEF Agrees, Shape, Columns
  <2> HIDE DEF s
  <2>3. Path(s) = Path(r) /\ Typed(s)
    BY <1>2, <2>2 DEF Path, Agrees, Typed
  <2>4. ChainShape(s)
    BY <1>3, <2>2, <2>3 DEF ChainShape, Agrees
  <2>5. Len(s.got) < Needed(s)
    <3> DEFINE m == Len(s.chain)
               k == Len(Path(s))
    <3>1. m \in 1 .. k
      BY <2>4 DEF ChainShape
    <3>2. k \in 1 .. 4
      BY <1>3, <2>3, WalkDepthIs DEF PathOK
    <3> HIDE DEF m, k
    <3>3. 0 < k - m + 1
      BY <3>1, <3>2
    <3>4. Len(s.got) = 0
      BY <1>3, <2>2 DEF Agrees
    <3> QED BY <3>3, <3>4 DEF Needed, m, k
  <2>6. Form(s)
    BY <1>3, <2>2, <2>4, <2>5 DEF Form, Agrees, WithChain
  <2>7. ChainTrue(s, ptr)
    BY <1>2, <1>7, <2>2 DEF Typed, ChainTrue, verify_chain
  <2>8. Passes(t)
    BY <1>1, <1>3, <1>4, <1>5, <2>1, <2>2, <2>3, <2>6 DEF Passes, EmptyOK, Agrees, errorVars
  <2>9. \A lv, file : TaskTrue(s, ptr, Placed, lv, file)
    BY <1>3, <2>2, <2>7, EasyTrue DEF Agrees
  <2> QED BY <2>1, <2>8, <2>9, QuietStep
<1> QED BY <1>6, <1>7 DEF LockAndVerify

\* s is r in the middle of ext2_alloc_branch, with the same chain.
OnChain(r, s) ==
  /\ Shape(s) /\ s.op = r.op /\ s.ino = r.ino /\ s.b = r.b /\ s.chain = r.chain
  /\ s.top = r.top /\ s.depth = r.depth /\ s.work = r.work /\ s.res = r.res

LEMMA OnChainKeeps ==
  ASSUME NEW r, NEW s, OnChain(r, s), Typed(r), Form(r), s.got \in Seq(Blocks),
         r.pc \in {"search", "claim"}, s.pc \in {"search", "claim", "splice"},
         s.pc \in {"search", "claim"} => Len(s.got) < Needed(r),
         s.pc = "splice" => Len(s.got) = Needed(r),
         s.pc = "claim" => s.goal \in Blocks
  PROVE  /\ Typed(s) /\ Form(s) /\ EmptyOK(s) /\ Holding(s) /\ Holding(r)
         /\ \A lv, file : TaskTrue(r, ptr, Placed, lv, file) => TaskTrue(s, ptr, Placed, lv, file)
<1>1. Path(s) = Path(r) /\ Needed(s) = Needed(r)
  BY DEF OnChain, Path, Needed
<1>2. ChainShape(s)
  BY <1>1 DEF Form, WithChain, ChainShape, OnChain
<1>3. Typed(s)
  BY DEF Typed, OnChain
<1>4. /\ s.ino \in Inodes /\ s.top = 0 /\ s.work = <<>> /\ Fits(s.b) /\ s.op # "evict"
      /\ s.work \in Seq(SlotRecord)
  BY DEF Form, OnChain, WithChain
<1>5. Form(s)
  BY <1>1, <1>2, <1>4 DEF Form, WithChain
<1>6. Holding(s) /\ Holding(r) /\ EmptyOK(s)
  BY DEF Holding, EmptyOK
<1>7. ASSUME NEW lv, NEW file, TaskTrue(r, ptr, Placed, lv, file)
      PROVE  TaskTrue(s, ptr, Placed, lv, file)
  BY <1>4, <1>6, <1>7, EasyTrue DEF TaskTrue, ChainTrue, OnChain
<1> QED BY <1>3, <1>5, <1>6, <1>7

\* The search for a free block takes nothing.
LEMMA BlockSearch ==
  ASSUME BlockInv, Inv', NEW t \in Tasks,
         Search(t) \/ (Claim(t) /\ task[t].goal \in used)
  PROVE  BlockInv'
<1> DEFINE r == task[t]
<1>1. /\ r.pc \in {"search", "claim"}
      /\ UNCHANGED <<live, used, ptr, i_size, i_mutex, truncate_mutex, errorVars>>
  BY DEF Search, Claim
<1>2. /\ Shape(r) /\ Typed(r) /\ Form(r) /\ Globals /\ DOMAIN task = Tasks
      /\ Holding(r) => truncate_mutex[r.ino] = t
  BY TaskIs
<1>3. PICK pc, b : /\ task' = [task EXCEPT ![t].pc = pc, ![t].goal = b]
                   /\ pc \in {"search", "claim"} /\ (pc = "claim" => b \in Blocks)
  BY DEF Search, Claim
<1> DEFINE s == [r EXCEPT !.pc = pc, !.goal = b]
<1>4. OnChain(r, s) /\ s.got = r.got /\ s.pc = pc /\ s.goal = b
  BY <1>2 DEF OnChain, Shape, Columns
<1>5. Moves(t) /\ task'[t] = s
  <2>1. task' = [task EXCEPT ![t] = s]
    BY <1>2, <1>3
  <2> QED BY <2>1, OneTaskMoves DEF BlockInv
<1> HIDE DEF s
<1>6. Len(r.got) < Needed(r) /\ r.got \in Seq(Blocks)
  BY <1>1, <1>2 DEF Form, Typed
<1>7. /\ Typed(s) /\ Form(s) /\ EmptyOK(s) /\ Holding(s) /\ Holding(r)
      /\ \A lv, file : TaskTrue(r, ptr, Placed, lv, file) => TaskTrue(s, ptr, Placed, lv, file)
  BY <1>1, <1>2, <1>3, <1>4, <1>6, OnChainKeeps
<1>8. Globals' /\ OwnMutex(t)
  BY <1>1, <1>2, KeepsMutex DEF Globals, errorVars
<1>9. truncate_mutex'[s.ino] = t
  BY <1>1, <1>2, <1>4, <1>7 DEF OnChain
<1>10. Passes(t)
  BY <1>1, <1>4, <1>5, <1>7, <1>8, <1>9 DEF Passes, OnChain, errorVars
<1>11. \A lv, file : Trees(lv, file) => TaskTrue(s, ptr, Placed, lv, file)
  BY <1>7 DEF Trees
<1> QED BY <1>5, <1>10, <1>11, QuietStep

(* A sequence with one more element. *)
LEMMA ToSetAppend ==
  ASSUME NEW s \in Seq(Blocks), NEW b \in Blocks
  PROVE  /\ ToSet(Append(s, b)) = ToSet(s) \cup {b}
         /\ Append(s, b) \in Seq(Blocks) /\ Len(Append(s, b)) = Len(s) + 1
         /\ DOMAIN Append(s, b) = 1 .. Len(s) + 1
         /\ Append(s, b)[Len(s) + 1] = b
         /\ \A n \in 1 .. Len(s) : Append(s, b)[n] = s[n]
<1> DEFINE n == Len(s)
           a == Append(s, b)
<1>1. n \in Nat /\ DOMAIN s = 1 .. n
  OBVIOUS
<1>2. /\ a \in Seq(Blocks) /\ Len(a) = n + 1 /\ a[n + 1] = b
      /\ \A k \in 1 .. n : a[k] = s[k]
  OBVIOUS
<1>3. DOMAIN a = 1 .. n + 1
  BY <1>2
<1> HIDE DEF a, n
<1>4. ASSUME NEW x \in ToSet(a)
      PROVE  x \in ToSet(s) \cup {b}
  BY <1>1, <1>2, <1>3 DEF ToSet
<1>5. ASSUME NEW x \in ToSet(s) \cup {b}
      PROVE  x \in ToSet(a)
  BY <1>1, <1>2, <1>3 DEF ToSet
<1> QED BY <1>2, <1>3, <1>4, <1>5 DEF a, n

\* A bit that was clear is set: the block was nobody's.
LEMMA BlockClaim ==
  ASSUME BlockInv, Inv', NEW t \in Tasks, Claim(t), task[t].goal \notin used
  PROVE  BlockInv'
<1> DEFINE r == task[t]
           g == r.goal
           s == [r EXCEPT !.got = Append(@, g), !.goal = 0,
                          !.pc = IF Len(r.got) + 1 = Needed(r) THEN "splice" ELSE "search"]
<1>1. /\ r.pc = "claim" /\ used' = used \cup {g} /\ task' = [task EXCEPT ![t] = s]
      /\ UNCHANGED <<live, ptr, i_size, i_mutex, truncate_mutex, errorVars>>
  BY DEF Claim
<1>2. /\ Shape(r) /\ Typed(r) /\ Form(r) /\ Globals /\ DOMAIN task = Tasks
      /\ Holding(r) => truncate_mutex[r.ino] = t
  BY TaskIs
<1>3. /\ OnChain(r, s) /\ s.got = Append(r.got, g)
      /\ s.pc = IF Len(r.got) + 1 = Needed(r) THEN "splice" ELSE "search"
  BY <1>2 DEF OnChain, Shape, Columns
<1>4. Moves(t) /\ task'[t] = s
  BY <1>1, OneTaskMoves DEF BlockInv
<1> HIDE DEF s
<1>5. Len(r.got) < Needed(r) /\ r.got \in Seq(Blocks) /\ g \in Blocks /\ g \notin used
  BY <1>1, <1>2 DEF Form, Typed
<1> HIDE DEF g
<1>6. /\ ToSet(s.got) = ToSet(r.got) \cup {g} /\ s.got \in Seq(Blocks)
      /\ Len(s.got) = Len(r.got) + 1 /\ DOMAIN s.got = 1 .. Len(r.got) + 1
      /\ s.got[Len(r.got) + 1] = g /\ \A n \in 1 .. Len(r.got) : s.got[n] = r.got[n]
  BY <1>3, <1>5, ToSetAppend
<1>7. /\ s.pc \in {"search", "claim"} => Len(s.got) < Needed(r)
      /\ s.pc = "splice" => Len(s.got) = Needed(r)
  <2> DEFINE m == Len(r.got)
             k == Needed(r)
  <2>1. m \in Nat /\ k \in Int
    BY <1>1, <1>2, <1>5, WalkDepthIs DEF Form, WithChain, PathOK, Typed, Needed
  <2>2. m < k
    BY <1>5
  <2> HIDE DEF m, k
  <2>3. m + 1 = k \/ m + 1 < k
    BY <2>1, <2>2
  <2> QED BY <1>3, <1>6, <2>3 DEF m, k
<1>8. /\ Typed(s) /\ Form(s) /\ EmptyOK(s) /\ Holding(s) /\ Holding(r)
      /\ \A lv, file : TaskTrue(r, ptr, Placed, lv, file) => TaskTrue(s, ptr, Placed, lv, file)
  BY <1>1, <1>2, <1>3, <1>6, <1>7, OnChainKeeps
<1>9. \A u \in Tasks : u # t => task'[u] = task[u]
  BY <1>4 DEF Moves
<1>10. \A u \in Tasks : g \notin ToSet(task[u].got)
  BY <1>5, HandsAre
<1>11. Placed' = Placed
  <2>1. InHand' = InHand \cup {g}
    <3>1. \A u \in Tasks : ToSet(task'[u].got) \subseteq ToSet(task[u].got) \cup {g}
      BY <1>4, <1>6, <1>9
    <3>2. \A u \in Tasks : ToSet(task[u].got) \subseteq ToSet(task'[u].got)
      BY <1>4, <1>6, <1>9
    <3>3. g \in ToSet(task'[t].got)
      BY <1>4, <1>6
    <3> QED BY <3>1, <3>2, <3>3 DEF InHand
  <2> QED BY <1>1, <1>5, <2>1 DEF Placed, errorVars
<1>12. Tops' = Tops
  BY <1>3, <1>4, <1>9 DEF OnChain, Tops
<1>13. HandInv'
  <2>1. \A u \in Tasks : ToSet(task'[u].got) \subseteq used' \ lost'
    BY <1>1, <1>2, <1>4, <1>5, <1>6, <1>9, HandsAre DEF Globals, errorVars
  <2>2. \A u \in Tasks : \A m, n \in DOMAIN task'[u].got :
          task'[u].got[m] = task'[u].got[n] => m = n
    <3>1. ASSUME NEW m \in DOMAIN s.got, NEW n \in DOMAIN s.got, s.got[m] = s.got[n]
          PROVE  m = n
      <4>1. DOMAIN r.got = 1 .. Len(r.got) /\ Len(r.got) \in Nat
        BY <1>5
      <4>2. \A k \in DOMAIN s.got : k \in 1 .. Len(r.got) \/ k = Len(r.got) + 1
        BY <1>6, <4>1
      <4>3. \A k \in 1 .. Len(r.got) : s.got[k] = r.got[k] /\ s.got[k] # g
        BY <1>6, <1>10, <4>1 DEF ToSet
      <4>4. \A j, k \in DOMAIN r.got : r.got[j] = r.got[k] => j = k
        BY DEF BlockInv, HandInv
      <4> QED BY <1>6, <3>1, <4>1, <4>2, <4>3, <4>4
    <3> QED BY <1>4, <1>9, <3>1 DEF BlockInv, HandInv
  <2>3. \A u, v \in Tasks : v # u => ToSet(task'[u].got) \cap ToSet(task'[v].got) = {}
    <3>1. \A u, v \in Tasks : v # u => ToSet(task[u].got) \cap ToSet(task[v].got) = {}
      BY DEF BlockInv, HandInv
    <3>2. \A u \in Tasks : u # t => ToSet(task'[u].got) = ToSet(task[u].got)
      BY <1>9
    <3>3. ToSet(task'[t].got) = ToSet(task[t].got) \cup {g}
      BY <1>4, <1>6
    <3> TAKE u, v \in Tasks
    <3> HAVE v # u
    <3>4. CASE u = t
      BY <1>10, <3>1, <3>2, <3>3, <3>4
    <3>5. CASE v = t
      BY <1>10, <3>1, <3>2, <3>3, <3>5
    <3> QED BY <3>1, <3>2, <3>4, <3>5
  <2> QED BY <2>1, <2>2, <2>3 DEF HandInv
<1>14. Globals' /\ OwnMutex(t)
  BY <1>1, <1>2, <1>5, KeepsMutex DEF Globals, errorVars
<1>15. EmptyInv'
  <2>1. \A j \in Inodes \ live' : NoBlocks(j)'
    BY <1>1 DEF BlockInv, EmptyInv, NoBlocks
  <2>2. EmptyOK(task[t])'
    BY <1>4, <1>3 DEF EmptyOK
  <2>3. Holding(r)
    BY <1>8
  <2> QED BY <1>1, <1>4, <2>1, <2>2, <2>3, Alone, EmptyStep, ZenonT(30)
<1>16. (\E l, f : Trees(l, f))'
  BY <1>1, <1>4, <1>8, <1>11, <1>12, SameTrees DEF Trees
<1>17. truncate_mutex'[task'[t].ino] = t
  BY <1>1, <1>2, <1>3, <1>4, <1>8 DEF OnChain
<1>18. Typed(task'[t]) /\ Form(task'[t])
  BY <1>4, <1>8
<1> QED BY <1>4, <1>13, <1>14, <1>15, <1>16, <1>17, <1>18, Combine

\* The blocks taken go back to the bitmap.
LEMMA BlockNoSpace ==
  ASSUME BlockInv, Inv', NEW t \in Tasks, NoSpace(t)
  PROVE  BlockInv'
<1> DEFINE r == task[t]
           s == [r EXCEPT !.pc = "return", !.err = "ENOSPC", !.got = <<>>, !.chain = <<>>]
<1>1. /\ r.pc = "search" /\ used' = used \ ToSet(r.got) /\ task' = [task EXCEPT ![t] = s]
      /\ truncate_mutex' = Released(t) /\ UNCHANGED <<live, ptr, i_size, i_mutex, errorVars>>
  BY DEF NoSpace
<1>2. /\ Shape(r) /\ Typed(r) /\ Form(r) /\ Globals /\ DOMAIN task = Tasks
      /\ Holding(r) => truncate_mutex[r.ino] = t
  BY TaskIs
<1>3. Moves(t) /\ task'[t] = s
  BY <1>1, OneTaskMoves DEF BlockInv
<1>4. /\ s.pc = "return" /\ s.got = <<>> /\ s.chain = <<>> /\ s.op = r.op /\ s.ino = r.ino
      /\ s.b = r.b /\ s.top = r.top /\ s.depth = r.depth /\ s.work = r.work /\ s.res = r.res
  BY <1>2 DEF Shape, Columns
<1> HIDE DEF s
<1>5. /\ r.ino \in Inodes /\ r.top = 0 /\ r.work = <<>> /\ Fits(r.b) /\ r.op # "evict"
  BY <1>1, <1>2 DEF Form, WithChain
<1>6. Typed(s)
  BY <1>2, <1>4 DEF Typed
<1>7. Form(s) /\ ~Holding(s)
  BY <1>4, <1>5 DEF Form, WithChain, Holding
<1>8. \A u \in Tasks : u # t => task'[u] = task[u]
  BY <1>3 DEF Moves
<1>9. ToSet(r.got) \cap lost = {} /\ ToSet(s.got) = {}
  BY <1>4, HandsAre DEF ToSet
<1>10. \A u \in Tasks : u # t => ToSet(task[u].got) \cap ToSet(r.got) = {}
  BY DEF BlockInv, HandInv
<1>11. Placed' = Placed
  BY <1>1, <1>3, <1>8, <1>9, <1>10 DEF InHand, Placed, errorVars
<1>12. Tops' = Tops
  BY <1>3, <1>4, <1>8 DEF Tops
<1>13. HandInv'
  <2>1. \A u \in Tasks : u # t => ToSet(task'[u].got) = ToSet(task[u].got) /\ task'[u].got = task[u].got
    BY <1>8
  <2>2. ToSet(task'[t].got) = {} /\ task'[t].got = <<>>
    BY <1>3, <1>4, <1>9
  <2>3. \A u \in Tasks : ToSet(task'[u].got) \subseteq used' \ lost'
    BY <1>1, <1>10, <2>1, <2>2, HandsAre DEF errorVars
  <2>4. \A u \in Tasks : \A m, n \in DOMAIN task'[u].got :
          task'[u].got[m] = task'[u].got[n] => m = n
    BY <2>1, <2>2 DEF BlockInv, HandInv
  <2>5. \A u, v \in Tasks : v # u => ToSet(task'[u].got) \cap ToSet(task'[v].got) = {}
    BY <2>1, <2>2 DEF BlockInv, HandInv
  <2> QED BY <2>3, <2>4, <2>5 DEF HandInv
<1>14. Globals' /\ OwnMutex(t)
  BY <1>1, <1>2, <1>9, ReleasedIs DEF Globals, errorVars
<1>15. EmptyInv'
  <2>1. \A j \in Inodes \ live' : NoBlocks(j)'
    BY <1>1 DEF BlockInv, EmptyInv, NoBlocks
  <2>2. EmptyOK(task[t])'
    BY <1>3, <1>4 DEF EmptyOK
  <2>3. Holding(r)
    BY <1>1 DEF Holding
  <2> QED BY <1>1, <1>3, <2>1, <2>2, <2>3, Alone, EmptyStep, ZenonT(30)
<1>16. (\E l, f : Trees(l, f))'
  BY <1>1, <1>3, <1>4, <1>5, <1>7, <1>11, <1>12, EasyTrue, SameTrees
<1> QED BY <1>3, <1>6, <1>7, <1>13, <1>14, <1>15, <1>16, Combine

(* Nothing is taken or given back. *)
LEMMA SameHands ==
  ASSUME BlockInv, NEW t \in Tasks, Moves(t), UNCHANGED <<used, lost>>,
         task'[t].got = task[t].got, task'[t].top = task[t].top
  PROVE  HandInv' /\ Placed' = Placed /\ Tops' = Tops
<1>1. \A u \in Tasks : task'[u].got = task[u].got /\ task'[u].top = task[u].top
  BY DEF Moves
<1>2. InHand' = InHand
  BY <1>1 DEF InHand
<1>3. Placed' = Placed
  BY <1>2 DEF Placed
<1>4. Tops' = Tops
  BY <1>1 DEF Tops
<1>5. HandInv'
  BY <1>1 DEF HandInv, BlockInv
<1> QED BY <1>3, <1>4, <1>5

\* An inode without blocks is freed.
LEMMA BlockFreeInode ==
  ASSUME BlockInv, Inv', NEW t \in Tasks, FreeInode(t)
  PROVE  BlockInv'
<1> DEFINE r == task[t]
<1>1. /\ r.pc = "free" /\ live' = live \ {r.ino} /\ task' = [task EXCEPT ![t] = Idle]
      /\ UNCHANGED <<used, ptr, i_size, i_mutex, truncate_mutex, errorVars>>
  BY DEF FreeInode
<1>2. Form(r) /\ Globals /\ EmptyOK(r)
  BY TaskIs
<1>3. Moves(t) /\ task'[t] = Idle
  BY <1>1, OneTaskMoves DEF BlockInv
<1>4. r.got = <<>> /\ r.top = 0 /\ NoBlocks(r.ino) /\ r.ino \in Inodes
  BY <1>1, <1>2 DEF Form, EmptyOK
<1>5. HandInv' /\ Placed' = Placed /\ Tops' = Tops
  BY <1>1, <1>3, <1>4, IdleIs, SameHands DEF errorVars
<1>6. Globals' /\ OwnMutex(t)
  BY <1>1, <1>2, KeepsMutex DEF Globals, errorVars
<1>7. EmptyInv'
  <2>1. \A j \in Inodes \ live' : NoBlocks(j)'
    BY <1>1, <1>4 DEF BlockInv, EmptyInv, NoBlocks
  <2>2. EmptyOK(task[t])'
    BY <1>3, IdleIs DEF EmptyOK, Idle
  <2>3. \A u \in Tasks : u # t => task[u].ino # r.ino
    BY <1>1, <1>4, Ext2BlocksAssumption DEF BlockInv, Inv, PlaceInv, OwnInv, Exclusive
  <2>4. \A j \in Inodes : j # r.ino => ptr'[j] = ptr[j]
    BY <1>1
  <2>5. \A u \in Tasks : u # t /\ Exclusive(task[u]) => task[u].ino # r.ino
    BY <2>3
  <2> HIDE DEF r
  <2> QED BY <1>3, <2>1, <2>2, <2>4, <2>5, EmptyStep
<1>8. (\E l, f : Trees(l, f))'
  BY <1>1, <1>3, <1>5, IdleIs, EasyTrue, SameTrees
<1> QED BY <1>3, <1>5, <1>6, <1>7, <1>8, IdleIs, Combine

(* Only slots matter. *)
LEMMA SameSlots ==
  ASSUME NEW p, NEW q, NEW S, NEW lv, NEW file, NEW R, Tree(p, S, lv, file, R),
         \A h \in Indirect(S, lv) : \A o \in Slots(h) : q[h][o] = p[h][o]
  PROVE  Tree(q, S, lv, file, R)
<1>1. \A x : Points(q, S, lv, x) <=> Points(p, S, lv, x)
  BY DEF Points
<1> QED BY <1>1 DEF Tree

\* A free inode has no blocks, and its bit goes to one task.
LEMMA BlockClaimInode ==
  ASSUME BlockInv, Inv', NEW t \in Tasks, ClaimInode(t)
  PROVE  BlockInv'
<1> DEFINE r == task[t]
           i == r.goal
           s == [Idle EXCEPT !.pc = "init", !.op = "create", !.ino = i]
<1>1. /\ r.pc = "new" /\ i \notin live /\ live' = live \cup {i}
      /\ ptr' = [ptr EXCEPT ![i] = NoPointers] /\ i_size' = [i_size EXCEPT ![i] = 0]
      /\ task' = [task EXCEPT ![t] = s]
      /\ UNCHANGED <<used, i_mutex, truncate_mutex, errorVars>>
  BY DEF ClaimInode
<1>2. Form(r) /\ Globals
  BY TaskIs
<1>3. Moves(t) /\ task'[t] = s
  BY <1>1, OneTaskMoves DEF BlockInv
<1>4. /\ s.pc = "init" /\ s.op = "create" /\ s.ino = i /\ s.b = Idle.b
      /\ s.chain = Idle.chain /\ s.got = Idle.got /\ s.top = Idle.top /\ s.depth = Idle.depth
      /\ s.work = Idle.work /\ s.res = Idle.res
  BY IdleShape DEF Shape, Columns
<1>5. i \in Inodes /\ r.got = <<>> /\ r.top = 0
  BY <1>1, <1>2 DEF BlockInv, Inv, PlaceInv, Form
<1> HIDE DEF s, i
<1>6. Typed(s)
  BY <1>4, <1>5, IdleIs DEF Typed
<1>7. Form(s) /\ ~Holding(s)
  BY <1>4, <1>5, IdleIs DEF Form, WithChain, Holding
<1>8. HandInv' /\ Placed' = Placed /\ Tops' = Tops
  BY <1>1, <1>3, <1>4, <1>5, IdleIs, SameHands DEF errorVars
<1>9. /\ ptr'[i] = NoPointers /\ \A h \in Hosts : h # i => ptr'[h] = ptr[h]
      /\ \A o \in 0 .. NDir + 2 : ptr'[i][o] = 0
  BY <1>1, <1>2, <1>5 DEF Hosts, Globals, NoPointers, Offsets
<1>10. Globals' /\ OwnMutex(t)
  BY <1>1, <1>2, <1>5, KeepsMutex DEF NoPointers, Globals, errorVars
<1>11. \A u \in Tasks : task[u].ino # i
  BY <1>1, <1>5, Ext2BlocksAssumption DEF BlockInv, Inv, OwnInv
<1>12. EmptyInv'
  <2>1. \A j \in Inodes \ live' : NoBlocks(j)'
    BY <1>1, <1>9 DEF BlockInv, EmptyInv, NoBlocks, Hosts
  <2>2. EmptyOK(task[t])'
    BY <1>3, <1>4, <1>9 DEF EmptyOK, NoBlocks
  <2> QED BY <1>3, <1>9, <1>11, <2>1, <2>2, EmptyStep DEF Hosts
<1>13. (\E l, f : Trees(l, f))'
  <2>1. PICK lv, file : Trees(lv, file)
    BY DEF BlockInv
  <2>2. Labels(lv, file) /\ Tree(ptr, Placed, lv, file, Tops) /\ Placed \subseteq Blocks
    BY <2>1, PlacedAre DEF Trees, BlockInv
  <2>3. NoBlocks(i)
    BY <1>1, <1>5 DEF BlockInv, EmptyInv
  <2>4. \A h \in Indirect(Placed, lv) : \A o \in Slots(h) : ptr'[h][o] = ptr[h][o]
    BY <1>5, <1>9, <2>2, <2>3 DEF NoBlocks, Slots, Indirect, Hosts
  <2>5. Tree(ptr', Placed, lv, file, Tops)
    BY <2>2, <2>4, SameSlots
  <2>6. Keeps(i, ptr, Placed, lv, file, ptr', Placed', lv, file)
    BY <1>5, <1>8, <1>9, <2>2 DEF Keeps, Labels, Hosts
  <2>7. TaskTrue(s, ptr', Placed', lv, file)
    BY <1>4, <1>7, IdleIs DEF TaskTrue, WorkTrue
  <2> QED BY <1>3, <1>8, <1>11, <2>1, <2>2, <2>5, <2>6, <2>7, TreeStep
<1> QED BY <1>3, <1>6, <1>7, <1>8, <1>10, <1>12, <1>13, Combine

----------------------------------------
(* Truncation *)

(* A slot is emptied: what it held is the top of a branch now. *)
LEMMA CutSlot ==
  ASSUME NEW p, NEW S, S \subseteq Blocks, 0 \notin S, NEW lv, NEW file,
         NEW R, Tree(p, S, lv, file, R),
         NEW h0 \in Indirect(S, lv), NEW o0 \in Slots(h0), NEW q, q[h0][o0] = 0,
         \A h \in Indirect(S, lv) : \A o \in Slots(h) :
           h # h0 \/ o # o0 => q[h][o] = p[h][o],
         NEW R2, R2 = R \cup ({p[h0][o0]} \ {0})
  PROVE  Tree(q, S, lv, file, R2)
<1> DEFINE x0 == p[h0][o0]
<1>2. x0 # 0 => x0 \in S
  BY DEF Tree
<1>3. R2 \subseteq S
  BY <1>2 DEF Tree
<1>4. ASSUME NEW x \in S
      PROVE  x \in R2 <=> ~ Points(q, S, lv, x)
  BY DEF Tree, Points
<1>5. \A h \in Indirect(S, lv) : \A o \in Slots(h) : q[h][o] # 0 => q[h][o] = p[h][o]
  OBVIOUS
<1>6. \A h \in Indirect(S, lv) : \A o \in Slots(h) :
        q[h][o] # 0 => q[h][o] = p[h][o] /\ q[h][o] \in S
  BY <1>5 DEF Tree
<1> QED BY <1>3, <1>4, <1>6, Prune

LEMMA SlotOffsets ==
  ASSUME NEW h
  PROVE  Slots(h) \subseteq Offsets
BY DEF Slots, Offsets

(* Task t takes the branch off a slot of its file. *)
LEMMA TakeOff ==
  ASSUME BlockInv, Inv', NEW t \in Tasks, Holding(task[t]), task[t].top = 0,
         task[t].got = <<>>, NEW lv, NEW file, Trees(lv, file),
         NEW h0 \in Indirect(Placed, lv), file[h0] = task[t].ino, NEW o0 \in Slots(h0),
         ptr' = [ptr EXCEPT ![h0][o0] = 0],
         UNCHANGED <<live, used, i_size, i_mutex, truncate_mutex, errorVars>>,
         NEW s, task' = [task EXCEPT ![t] = s],
         s.ino = task[t].ino, s.got = <<>>, s.top = ptr[h0][o0],
         s.depth = Below(lv, h0, o0), Typed(s), Form(s), s.pc = "kill",
         WorkTrue(s, Placed, lv, file), EmptyOK(task[t])'
  PROVE  BlockInv'
<1> DEFINE i == task[t].ino
<1>1. Labels(lv, file) /\ Tree(ptr, Placed, lv, file, Tops) /\ Placed \subseteq Blocks
      /\ 0 \notin Placed
  BY PlacedAre DEF Trees, BlockInv
<1>2. Globals
  BY TaskIs
<1>3. Moves(t) /\ task'[t] = s
  BY OneTaskMoves DEF BlockInv
<1>4. h0 \in Hosts /\ o0 \in Offsets /\ \A h \in Indirect(Placed, lv) : h \in Hosts
  BY <1>1, SlotOffsets DEF Indirect, Hosts
<1>5. /\ ptr' \in [Hosts -> [Offsets -> Blocks \cup {0, Junk}]]
      /\ \A h \in Hosts : h # h0 => ptr'[h] = ptr[h]
      /\ \A h \in Hosts : \A o \in Offsets :
           ptr'[h][o] = IF h = h0 /\ o = o0 THEN 0 ELSE ptr[h][o]
  BY <1>2, <1>4 DEF Globals
<1>6. Globals' /\ OwnMutex(t)
  BY <1>2, <1>5, KeepsMutex DEF Globals, errorVars
<1>7. \A u \in Tasks : u # t => task'[u] = task[u]
  BY <1>3 DEF Moves
<1>8. \A u \in Tasks : task'[u].got = task[u].got
  BY <1>3, <1>7
<1>9. Placed' = Placed
  BY <1>8 DEF InHand, Placed, errorVars
<1>10. HandInv'
  BY <1>8, SMTT(30) DEF HandInv, BlockInv, errorVars
<1>11. Tops' = Tops \cup ({ptr[h0][o0]} \ {0})
  BY <1>3, <1>7 DEF Tops
<1>12. Tree(ptr', Placed', lv, file, Tops')
  <2>1. \A h \in Indirect(Placed, lv) : \A o \in Slots(h) :
          h # h0 \/ o # o0 => ptr'[h][o] = ptr[h][o]
    BY <1>4, <1>5, SlotOffsets
  <2>3. ptr'[h0][o0] = 0
    BY <1>4, <1>5
  <2>2. ASSUME NEW q, q = ptr'
        PROVE  Tree(q, Placed, lv, file, Tops')
    <3>1. /\ q[h0][o0] = 0
          /\ \A h \in Indirect(Placed, lv) : \A o \in Slots(h) :
               h # h0 \/ o # o0 => q[h][o] = ptr[h][o]
      BY <2>1, <2>2, <2>3
    <3> QED BY <1>1, <1>11, <3>1, CutSlot
  <2> QED BY <1>9, <2>2
<1>13. Keeps(i, ptr, Placed, lv, file, ptr', Placed', lv, file)
  BY <1>1, <1>5, <1>9 DEF Keeps, Hosts
<1>14. /\ i \in live /\ i \in Inodes /\ truncate_mutex[i] = t
       /\ \A u \in Tasks : u # t /\ Holding(task[u]) => task[u].ino # i
       /\ \A u \in Tasks : u # t /\ Exclusive(task[u]) => task[u].ino # i
  BY Alone
<1> HIDE DEF i
<1>15. TaskTrue(s, ptr', Placed', lv, file)
  BY <1>1, <1>9 DEF Tree, TaskTrue
<1>19. TaskTrue(task'[t], ptr', Placed', lv, file) /\ Labels(lv, file)
  BY <1>1, <1>3, <1>15
<1>16. (\E l, f : Trees(l, f))'
  BY <1>3, <1>12, <1>13, <1>14, <1>19, TreeStep
<1>17. EmptyInv'
  <2>1. \A j \in Inodes \ live' : NoBlocks(j)'
    BY <1>5 DEF BlockInv, EmptyInv, NoBlocks, Hosts, Offsets
  <2>2. \A j \in Inodes : j # i => ptr'[j] = ptr[j]
    BY <1>1, <1>5 DEF Labels, Hosts, i
  <2> QED BY <1>3, <1>14, <2>1, <2>2, EmptyStep
<1>18. truncate_mutex'[task'[t].ino] = t
  BY <1>3, <1>14 DEF i
<1> QED BY <1>3, <1>6, <1>10, <1>16, <1>17, <1>18, Combine

\* The branch below a slot leaves the file and becomes the task's.
LEMMA BlockKill ==
  ASSUME BlockInv, Inv', NEW t \in Tasks, Kill(t)
  PROVE  BlockInv'
<1> DEFINE r == task[t]
           w == Head(r.work)
           x == ptr[w.host][w.off]
           s == [r EXCEPT !.top = x, !.depth = w.depth, !.work = Tail(@)]
<1>1. /\ r.pc = "kill" /\ r.top = 0 /\ r.work # <<>>
      /\ ptr' = [ptr EXCEPT ![w.host][w.off] = 0] /\ task' = [task EXCEPT ![t] = s]
      /\ UNCHANGED <<live, used, i_size, i_mutex, truncate_mutex, errorVars>>
  BY DEF Kill
<1>2. Shape(r) /\ Typed(r) /\ Form(r) /\ Globals /\ EmptyOK(r)
  BY TaskIs
<1>3. /\ s.pc = "kill" /\ s.top = x /\ s.depth = w.depth /\ s.work = Tail(r.work)
      /\ s.op = r.op /\ s.ino = r.ino /\ s.b = r.b /\ s.chain = r.chain /\ s.got = r.got
      /\ s.res = r.res
  BY <1>1, <1>2 DEF Shape, Columns
<1> HIDE DEF s
<1>4. r.work \in Seq(SlotRecord) /\ r.got = <<>> /\ r.ino \in Inodes /\ Holding(r)
  BY <1>1, <1>2 DEF Form, Holding
<1> DEFINE n == Len(r.work)
<1>5. /\ n \in Nat /\ n >= 1 /\ w = r.work[1] /\ s.work \in Seq(SlotRecord)
      /\ Len(s.work) = n - 1 /\ \A k \in 1 .. n - 1 : s.work[k] = r.work[k + 1]
      /\ DOMAIN r.work = 1 .. n /\ DOMAIN s.work = 1 .. n - 1
  BY <1>1, <1>3, <1>4
<1> HIDE DEF n, w
<1>6. PICK lv, file : Trees(lv, file)
  BY DEF BlockInv
<1>7. Labels(lv, file) /\ Tree(ptr, Placed, lv, file, Tops) /\ Placed \subseteq Blocks
  BY <1>6, PlacedAre DEF Trees, BlockInv
<1>8. WorkTrue(r, Placed, lv, file)
  BY <1>6 DEF Trees, TaskTrue
<1>9. \A k \in 1 .. n :
        /\ r.work[k].host \in Indirect(Placed, lv) /\ r.work[k].off \in Slots(r.work[k].host)
        /\ r.work[k].depth = Below(lv, r.work[k].host, r.work[k].off)
        /\ file[r.work[k].host] = r.ino
        /\ r.work[k].host \in Blocks => \A m \in 1 .. k : r.work[m].depth <= r.work[k].depth
  BY <1>8 DEF WorkTrue, n
<1>10. /\ w.host \in Indirect(Placed, lv) /\ w.off \in Slots(w.host)
       /\ w.depth = Below(lv, w.host, w.off) /\ file[w.host] = r.ino
  BY <1>5, <1>9
<1>11. x \in Blocks \cup {0}
  BY <1>7, <1>10 DEF Tree
<1>12. w.depth \in 0 .. 3
  <2>1. 1 \in 1 .. n
    BY <1>5
  <2>2. r.work[1] \in SlotRecord
    BY <1>4, <2>1 DEF n
  <2> QED BY <1>5, <2>2 DEF SlotRecord
<1>13. Typed(s)
  BY <1>2, <1>3, <1>11, <1>12 DEF Typed
<1>14. Form(s)
  BY <1>1, <1>2, <1>3, <1>4, <1>5 DEF Form, WithChain
<1>15. WorkTrue(s, Placed, lv, file)
  <2>1. SUFFICES ASSUME NEW k \in 1 .. n - 1
                 PROVE  LET v == s.work[k] IN
                        /\ v.host \in Indirect(Placed, lv) /\ v.off \in Slots(v.host)
                        /\ v.depth = Below(lv, v.host, v.off) /\ file[v.host] = s.ino
                        /\ v.host \in Blocks => /\ s.top # 0 => s.depth <= v.depth
                                               /\ \A m \in 1 .. k : s.work[m].depth <= v.depth
    BY <1>5 DEF WorkTrue
  <2>2. s.work[k] = r.work[k + 1] /\ k + 1 \in 1 .. n /\ 1 \in 1 .. k + 1
    BY <1>5
  <2>3. ASSUME NEW m \in 1 .. k
        PROVE  s.work[m] = r.work[m + 1] /\ m + 1 \in 1 .. k + 1
    BY <1>5
  <2> QED BY <1>3, <1>5, <1>9, <2>2, <2>3
<1>16. EmptyOK(task[t])'
  <2>0. task'[t] = s
    BY <1>1, OneTaskMoves DEF BlockInv
  <2>1. ASSUME r.op = "evict", NEW o \in 0 .. NDir + 2, ptr'[r.ino][o] # 0
        PROVE  \E k \in DOMAIN s.work : s.work[k].host = r.ino /\ s.work[k].off = o
    <3>1. ptr \in [Hosts -> [Offsets -> Blocks \cup {0, Junk}]]
      BY <1>2 DEF Globals
    <3>2. r.ino \in Hosts /\ o \in Offsets /\ w.host \in Hosts /\ w.off \in Offsets
      BY <1>4, <1>7, <1>10, SlotOffsets DEF Hosts, Offsets, Indirect
    <3>3. ptr[r.ino][o] # 0 /\ ~ (w.host = r.ino /\ w.off = o)
      BY <1>1, <2>1, <3>1, <3>2
    <3>4. ToDo(r)
      BY <1>1, <1>2, <2>1 DEF EmptyOK
    <3>5. PICK k \in 1 .. n : r.work[k].host = r.ino /\ r.work[k].off = o
      BY <1>5, <3>3, <3>4 DEF ToDo
    <3>6. k # 1 /\ k - 1 \in 1 .. n - 1 /\ (k - 1) + 1 = k
      BY <1>5, <3>3, <3>5
    <3>7. s.work[k - 1] = r.work[k]
      BY <1>5, <3>6
    <3> QED BY <1>5, <3>5, <3>6, <3>7
  <2>3. r.op = "evict" => \A o \in 0 .. NDir + 2 : ptr'[s.ino][o] # 0 =>
          \E k \in DOMAIN s.work : s.work[k].host = s.ino /\ s.work[k].off = o
    BY <1>3, <2>1
  <2>2. r.op = "evict" => ToDo(task[t])'
    BY <2>0, <2>3 DEF ToDo
  <2> QED BY <1>3, <2>0, <2>2 DEF EmptyOK
<1>17. s.top = ptr[w.host][w.off]
  BY <1>3
<1> HIDE DEF x
<1> QED BY <1>1, <1>3, <1>4, <1>6, <1>10, <1>13, <1>14, <1>15, <1>16, <1>17, TakeOff

(* The branch that begins at a block of a branch is part of it. *)
LEMMA BranchWithin ==
  ASSUME NEW S, S \subseteq Blocks, NEW lv, NEW file, Labels(lv, file),
         NEW R, Tree(ptr, S, lv, file, R), NEW x, NEW C, IsBranch(S, lv, file, x, C),
         NEW y \in C, NEW d, lv[y] = d
  PROVE  Branch(y, d) \subseteq C
<1> DEFINE L(n) == Levels(y, d)[n]
<1>1. y \in S
  BY DEF IsBranch
<1>2. d \in 0 .. 3 /\ \A n \in 0 .. d : \A z \in L(n) : lv[z] = d - n
  <2>1. /\ d \in 0 .. 3
        /\ IsBranch(S, lv, file, y, Branch(y, d))
        /\ \A n \in 0 .. d : \A z \in Levels(y, d)[n] :
             z \in S /\ lv[z] = d - n /\ file[z] = file[y] /\ z \in Branch(y, d)
    BY <1>1, BranchIs
  <2> QED BY <2>1
<1>3. L(0) = {y} /\ \A n \in 1 .. d : L(n) = Children(L(n - 1))
  BY <1>2, LevelsAre
<1>4. \A z : z \in Branch(y, d) <=> \E n \in 0 .. d : z \in L(n)
  BY DEF Branch
<1> HIDE DEF L
<1>5. L(0) \subseteq C
  BY <1>3
<1>6. ASSUME NEW n \in 1 .. d, L(n - 1) \subseteq C
      PROVE  L(n) \subseteq C
  BY <1>2, <1>3, <1>6 DEF Children, IsBranch
<1>7. d >= 1 => L(1) \subseteq C
  BY <1>2, <1>5, <1>6
<1>8. d >= 2 => L(2) \subseteq C
  BY <1>2, <1>7, <1>6
<1>9. d >= 3 => L(3) \subseteq C
  BY <1>2, <1>8, <1>6
<1>10. ASSUME NEW n \in 0 .. d
       PROVE  L(n) \subseteq C
  BY <1>2, <1>5, <1>7, <1>8, <1>9
<1> QED BY <1>4, <1>10

(* A branch that hangs off nothing is taken away. *)
LEMMA FreeTree ==
  ASSUME NEW S, S \subseteq Blocks, 0 \notin S, NEW lv, NEW file, Labels(lv, file),
         NEW R, Tree(ptr, S, lv, file, R), NEW x \in R, NEW C, IsBranch(S, lv, file, x, C),
         NEW q, \A h \in Inodes \cup (S \ C) : q[h] = ptr[h],
         NEW R2, R2 = R \ {x}, R2 \cap C = {}
  PROVE  Tree(q, S \ C, lv, file, R2)
<1> DEFINE T == S \ C
<1>0. \A h \in Indirect(T, lv) : h \in Indirect(S, lv) /\ h \in Inodes \cup T
  BY DEF Indirect
<1>1. \A h \in C : lv[h] > 0 => h \in Indirect(S, lv) /\ \A o \in 0 .. Ptrs - 1 : o \in Slots(h)
  BY BlockHost DEF IsBranch
<1>2. ASSUME NEW h \in Indirect(S, lv), NEW o \in Slots(h), ptr[h][o] \in C
      PROVE  h \in C
  BY <1>1, <1>2 DEF Points, IsBranch, Tree
<1>3. \A h \in Indirect(T, lv) : \A o \in Slots(h) :
        q[h][o] # 0 => q[h][o] = ptr[h][o] /\ q[h][o] \in T
  <2> SUFFICES ASSUME NEW h \in Indirect(T, lv), NEW o \in Slots(h), q[h][o] # 0
               PROVE  q[h][o] = ptr[h][o] /\ q[h][o] \in T
    OBVIOUS
  <2>1. q[h][o] = ptr[h][o] /\ h \in Indirect(S, lv)
    BY <1>0
  <2>2. ptr[h][o] \in S
    BY <2>1 DEF Tree
  <2>3. h \notin C
    <3>1. C \subseteq S /\ h \in Inodes \cup (S \ C)
      BY <1>0 DEF IsBranch
    <3> QED BY <3>1, Ext2BlocksAssumption
  <2> QED BY <1>2, <2>1, <2>2, <2>3
<1>4. R2 \subseteq T
  BY DEF Tree
<1>5. ASSUME NEW z \in T
      PROVE  z \in R2 <=> ~ Points(q, T, lv, z)
  BY <1>0, Ext2BlocksAssumption DEF IsBranch, Points, Indirect, Slots, Tree
<1>6. T \subseteq S
  OBVIOUS
<1> HIDE DEF T
<1>7. Tree(q, T, lv, file, R2)
  BY <1>3, <1>4, <1>5, <1>6, Prune
<1> QED BY <1>7 DEF T

(* The tops of two branches differ. *)
LEMMA TopsDiffer ==
  ASSUME BlockInv, NEW lv, NEW file, Trees(lv, file), NEW t \in Tasks, NEW u \in Tasks,
         u # t, task[t].top # 0, task[u].top # 0
  PROVE  file[task[u].top] # file[task[t].top]
<1>1. \A v \in Tasks : task[v].top # 0 => file[task[v].top] = task[v].ino
  BY DEF Trees, TaskTrue
<1>2. Holding(task[t]) /\ Holding(task[u])
  BY TaskIs DEF Form, Holding
<1>3. task[u].ino # task[t].ino
  BY <1>2, Alone
<1> QED BY <1>1, <1>3

\* A branch without a parent is freed, or given up where it cannot be read.
LEMMA BlockFreeBranch ==
  ASSUME BlockInv, Inv', NEW t \in Tasks, FreeBranch(t)
  PROVE  BlockInv'
<1> DEFINE r == task[t]
           x == r.top
           d == r.depth
           C == Branch(x, d)
           i == r.ino
           s == [r EXCEPT !.top = 0, !.depth = 0]
<1>1. /\ r.pc = "kill" /\ x # 0 /\ task' = [task EXCEPT ![t] = s]
      /\ ptr' = [h \in Hosts |-> IF h \in C THEN Unknown ELSE ptr[h]]
      /\ UNCHANGED <<live, i_size, i_mutex, truncate_mutex, cut>>
  BY DEF FreeBranch
<1>2. Shape(r) /\ Typed(r) /\ Form(r) /\ Globals /\ EmptyOK(r)
  BY TaskIs
<1>3. Moves(t) /\ task'[t] = s
  BY <1>1, OneTaskMoves DEF BlockInv
<1>4. /\ s.pc = "kill" /\ s.top = 0 /\ s.depth = 0 /\ s.work = r.work /\ s.op = r.op
      /\ s.ino = i /\ s.b = r.b /\ s.chain = r.chain /\ s.got = r.got /\ s.res = r.res
  BY <1>1, <1>2 DEF Shape, Columns
<1> HIDE DEF s
<1>5. PICK lv, file : Trees(lv, file)
  BY DEF BlockInv
<1>6. /\ Labels(lv, file) /\ Tree(ptr, Placed, lv, file, Tops) /\ Placed \subseteq Blocks
      /\ 0 \notin Placed
  BY <1>5, PlacedAre DEF Trees, BlockInv
<1>7. x \in Tops /\ x \in Placed /\ lv[x] = d /\ file[x] = i
  BY <1>1, <1>5, <1>6 DEF Tops, Tree, Trees, TaskTrue
<1> HIDE DEF x, d
<1>8. /\ d \in 0 .. 3 /\ IsBranch(Placed, lv, file, x, C)
      /\ \A n \in 0 .. d : \A y \in Levels(x, d)[n] :
           y \in Placed /\ lv[y] = d - n /\ file[y] = file[x] /\ y \in C
  <2>1. /\ x \in Placed /\ Placed \subseteq Blocks /\ lv[x] = d
        /\ Labels(lv, file) /\ Tree(ptr, Placed, lv, file, Tops)
    BY <1>6, <1>7
  <2> HIDE DEF r, i, C
  <2>2. \A y \in Placed : \A e : lv[y] = e =>
          /\ e \in 0 .. 3 /\ IsBranch(Placed, lv, file, y, Branch(y, e))
          /\ \A n \in 0 .. e : \A z \in Levels(y, e)[n] :
               z \in Placed /\ lv[z] = e - n /\ file[z] = file[y] /\ z \in Branch(y, e)
    <3> SUFFICES ASSUME NEW y \in Placed, NEW e, lv[y] = e
                 PROVE  /\ e \in 0 .. 3 /\ IsBranch(Placed, lv, file, y, Branch(y, e))
                        /\ \A n \in 0 .. e : \A z \in Levels(y, e)[n] :
                             z \in Placed /\ lv[z] = e - n /\ file[z] = file[y] /\ z \in Branch(y, e)
      OBVIOUS
    <3> QED BY <2>1, BranchIs
  <2> QED BY <2>1, <2>2 DEF C
<1>9. PICK gone : /\ gone \subseteq C /\ used' = used \ (C \ gone) /\ lost' = lost \cup gone
                  /\ errors' \in 0 .. MaxReadErrors
  <2>1. CASE used' = used \ C /\ UNCHANGED <<errors, lost>>
    <3>1. {} \subseteq C /\ used' = used \ (C \ {}) /\ lost' = lost \cup {}
          /\ errors' \in 0 .. MaxReadErrors
      BY <1>2, <2>1 DEF Globals
    <3> QED BY <3>1
  <2>2. CASE /\ errors < MaxReadErrors /\ errors' = errors + 1
             /\ \E n \in 0 .. d - 1 : \E bad \in Levels(x, d)[n] :
                  LET gone == Branch(bad, d - n) IN
                  /\ used' = used \ (C \ gone) /\ lost' = lost \cup gone
    <3>1. PICK n \in 0 .. d - 1 : \E bad \in Levels(x, d)[n] :
                  LET gone == Branch(bad, d - n) IN
                  /\ used' = used \ (C \ gone) /\ lost' = lost \cup gone
      BY <2>2
    <3>2. PICK bad \in Levels(x, d)[n] :
                  LET gone == Branch(bad, d - n) IN
                  /\ used' = used \ (C \ gone) /\ lost' = lost \cup gone
      BY <3>1
    <3>3. n \in 0 .. d
      BY <1>8
    <3>4. bad \in C /\ lv[bad] = d - n
      BY <1>8, <3>2, <3>3
    <3> HIDE DEF C
    <3>5. Branch(bad, d - n) \subseteq C
      BY <1>6, <1>8, <3>4, BranchWithin
    <3>6. errors' \in 0 .. MaxReadErrors
      BY <1>2, <2>2, Ext2BlocksAssumption DEF Globals
    <3> QED BY <3>2, <3>5, <3>6
  <2> QED BY <2>1, <2>2 DEF FreeBranch, x, d
<1> HIDE DEF C, i
<1>10. C \subseteq Placed /\ C \subseteq used /\ C \cap lost = {} /\ C \cap InHand = {}
  BY <1>8 DEF IsBranch, Placed
<1>11. \A u \in Tasks : u # t => task'[u] = task[u]
  BY <1>3 DEF Moves
<1>12. \A u \in Tasks : task'[u].got = task[u].got
  BY <1>3, <1>4, <1>11
<1>13. InHand' = InHand
  BY <1>12 DEF InHand
<1>14. Placed' = Placed \ C
  BY <1>9, <1>10, <1>13 DEF Placed
<1>15. HandInv'
  BY <1>9, <1>10, <1>12, HandsAre DEF InHand, HandInv, BlockInv
<1>16. Globals' /\ OwnMutex(t)
  BY <1>1, <1>2, <1>9, <1>10, KeepsMutex DEF Globals, Unknown
<1>17. Tops' = Tops \ {x} /\ \A y \in Tops' : file[y] # file[x]
  BY <1>1, <1>3, <1>4, <1>5, <1>11, TopsDiffer DEF x, Tops
<1>18. \A y \in C : file[y] = i /\ lv[y] <= d /\ y \in Blocks
  BY <1>6, <1>7, <1>8 DEF IsBranch
<1>19. \A h \in Hosts : h \notin C => ptr'[h] = ptr[h]
  BY <1>1
<1>20. Inodes \cap C = {}
  BY <1>18, Ext2BlocksAssumption
<1>21. Tree(ptr', Placed', lv, file, Tops')
  BY <1>6, <1>7, <1>8, <1>14, <1>17, <1>18, <1>19, <1>20, FreeTree DEF Hosts
<1>22. Keeps(i, ptr, Placed, lv, file, ptr', Placed', lv, file)
  BY <1>6, <1>14, <1>18, <1>19 DEF Keeps, Hosts
<1>23. WorkTrue(s, Placed', lv, file)
  <2>1. WorkTrue(r, Placed, lv, file)
    BY <1>5 DEF Trees, TaskTrue
  <2>2. SUFFICES ASSUME NEW n \in 1 .. Len(r.work)
                 PROVE  LET w == r.work[n] IN
                          /\ w.host \in Indirect(Placed', lv) /\ w.off \in Slots(w.host)
                          /\ w.depth = Below(lv, w.host, w.off) /\ file[w.host] = s.ino
                          /\ w.host \in Blocks => \A m \in 1 .. n : r.work[m].depth <= w.depth
    BY <1>4 DEF WorkTrue
  <2> DEFINE w == r.work[n]
  <2>3. /\ w.host \in Indirect(Placed, lv) /\ w.off \in Slots(w.host)
        /\ w.depth = Below(lv, w.host, w.off) /\ file[w.host] = r.ino
        /\ w.host \in Blocks => /\ r.top # 0 => r.depth <= w.depth
                               /\ \A m \in 1 .. n : r.work[m].depth <= w.depth
    BY <2>1 DEF WorkTrue
  <2> HIDE DEF w
  <2>4. w.host \notin C
    <3>1. SUFFICES ASSUME w.host \in C
                   PROVE  FALSE
      OBVIOUS
    <3>2. w.host \in Blocks /\ w.host \notin Inodes /\ lv[w.host] <= d
      BY <1>18, <1>20, <3>1
    <3>3. w.depth = lv[w.host] - 1 /\ d <= w.depth
      BY <1>1, <2>3, <3>2 DEF Below, x, d
    <3>4. lv[w.host] \in Int
      BY <1>6, <3>2 DEF Labels, Hosts
    <3> QED BY <1>8, <3>2, <3>3, <3>4
  <2>5. w.host \in Indirect(Placed', lv)
    BY <1>14, <2>3, <2>4 DEF Indirect
  <2> QED BY <1>4, <2>3, <2>5 DEF w, i
<1>24. TaskTrue(task'[t], ptr', Placed', lv, file)
  BY <1>3, <1>4, <1>23 DEF TaskTrue
<1>25. Holding(r)
  BY <1>1 DEF Holding
<1>26. /\ i \in live /\ i \in Inodes /\ truncate_mutex[i] = t
       /\ \A u \in Tasks : u # t /\ Holding(task[u]) => task[u].ino # i
       /\ \A u \in Tasks : u # t /\ Exclusive(task[u]) => task[u].ino # i
  BY <1>25, Alone DEF i
<1>27. (\E l, f : Trees(l, f))'
  BY <1>3, <1>5, <1>6, <1>21, <1>22, <1>24, <1>26, TreeStep
<1>28. \A j \in Inodes : ptr'[j] = ptr[j]
  BY <1>19, <1>20 DEF Hosts
<1>29. EmptyInv'
  <2>1. \A j \in Inodes \ live' : NoBlocks(j)'
    BY <1>1, <1>28 DEF BlockInv, EmptyInv, NoBlocks
  <2>2. r.op = "evict" => ToDo(r)
    BY <1>1, <1>2 DEF EmptyOK
  <2>3. r.op = "evict" => ToDo(task[t])'
    BY <1>3, <1>4, <1>26, <1>28, <2>2 DEF ToDo, i
  <2>4. EmptyOK(task[t])'
    BY <1>3, <1>4, <2>3 DEF EmptyOK
  <2> QED BY <1>3, <1>26, <1>28, <2>1, <2>4, EmptyStep
<1>30. Typed(s)
  BY <1>2, <1>4 DEF Typed, i
<1>31. Form(s)
  BY <1>1, <1>2, <1>4 DEF Form, WithChain, i
<1>32. truncate_mutex'[task'[t].ino] = t
  BY <1>1, <1>3, <1>4, <1>26
<1> QED BY <1>3, <1>15, <1>16, <1>27, <1>29, <1>30, <1>31, <1>32, Combine

----------------------------------------
(* A new branch takes the place of what is in a slot *)

\* C is what slot o of h holds, with everything below it.
Hangs(S, lv, file, h, o, C) ==
  IF ptr[h][o] = 0 THEN C = {} ELSE IsBranch(S, lv, file, ptr[h][o], C)

(* A slot is emptied, and what it held is taken away. *)
LEMMA CutTree ==
  ASSUME NEW S, S \subseteq Blocks, 0 \notin S, NEW lv, NEW file,
         NEW R, Tree(ptr, S, lv, file, R),
         NEW h0 \in Indirect(S, lv), NEW o0 \in Slots(h0), NEW C,
         Hangs(S, lv, file, h0, o0, C), NEW q, q[h0][o0] = 0,
         \A h \in Indirect(S, lv) : \A o \in Slots(h) :
           h # h0 \/ o # o0 => q[h][o] = ptr[h][o]
  PROVE  Tree(q, S \ C, lv, file, R)
<1> DEFINE T == S \ C
           y0 == ptr[h0][o0]
<1>0. \A h \in Indirect(T, lv) : h \in Indirect(S, lv) /\ h \in Inodes \cup T
  BY DEF Indirect
<1>1. C \subseteq S /\ (y0 # 0 => y0 \in C) /\ (y0 = 0 => C = {})
  BY DEF Hangs, IsBranch
<1>2. ASSUME NEW y \in C, y # y0
      PROVE  \E g \in C : lv[g] > 0 /\ \E k \in 0 .. Ptrs - 1 : ptr[g][k] = y
  BY <1>1, <1>2 DEF Hangs, IsBranch
<1>3. ASSUME NEW h \in C, lv[h] > 0, NEW o \in 0 .. Ptrs - 1, ptr[h][o] # 0
      PROVE  ptr[h][o] \in C
  BY <1>1, <1>3 DEF Hangs, IsBranch
<1>4. \A g \in C : lv[g] > 0 =>
        /\ g \in Indirect(S, lv)
        /\ \A k : k \in Slots(g) <=> k \in 0 .. Ptrs - 1
  BY <1>1, Ext2BlocksAssumption DEF Indirect, Slots
<1>5. ASSUME NEW h \in Indirect(S, lv), NEW o \in Slots(h), ptr[h][o] \in C, h # h0 \/ o # o0
      PROVE  h \in C
  BY <1>1, <1>2, <1>4, <1>5 DEF Tree
<1>6. \A h \in Indirect(T, lv) : \A o \in Slots(h) :
        q[h][o] # 0 => q[h][o] = ptr[h][o] /\ q[h][o] \in T
  BY <1>0, <1>1, <1>5, Ext2BlocksAssumption DEF Tree
<1>7. R \subseteq T
  BY <1>2, <1>4 DEF Tree, Points
<1>8. ASSUME NEW x \in T
      PROVE  x \in R <=> ~ Points(q, T, lv, x)
  BY <1>0, <1>1, <1>3, <1>4, <1>6 DEF Points, Indirect, Tree
<1>9. T \subseteq S
  OBVIOUS
<1> HIDE DEF T
<1>10. Tree(q, T, lv, file, R)
  BY <1>6, <1>7, <1>8, <1>9, Prune
<1> QED BY <1>10 DEF T

\* The new blocks g[1], ..., g[n] are linked to each other and put into an
\* empty slot.
Attaches(p, T, lv, file, R, h0, o0, n, g, a, q, lv2, file2, U) ==
  /\ T \subseteq Blocks /\ 0 \notin T /\ Tree(p, T, lv, file, R)
  /\ h0 \in Indirect(T, lv) /\ o0 \in Slots(h0) /\ p[h0][o0] = 0
  /\ n \in 1 .. 4 /\ Below(lv, h0, o0) = n - 1
  /\ \A j \in 1 .. n : g[j] \in Blocks /\ g[j] \notin T
  /\ \A j, m \in 1 .. n : g[j] = g[m] => j = m
  /\ q[h0][o0] = g[1]
  /\ \A h \in Indirect(T, lv) : \A o \in Slots(h) :
       h # h0 \/ o # o0 => q[h][o] = p[h][o]
  /\ \A j \in 1 .. n - 1 : a[j] \in 0 .. Ptrs - 1 /\ q[g[j]][a[j]] = g[j + 1]
  /\ \A j \in 1 .. n - 1 : \A o \in 0 .. Ptrs - 1 : o # a[j] => q[g[j]][o] = 0
  /\ \A h \in Inodes \cup T : lv2[h] = lv[h] /\ file2[h] = file[h]
  /\ \A j \in 1 .. n : lv2[g[j]] = n - j /\ file2[g[j]] = file[h0]
  /\ U = T \cup {g[j] : j \in 1 .. n}

LEMMA Attach ==
  ASSUME NEW p, NEW T, NEW lv, NEW file, NEW R, NEW h0, NEW o0, NEW n, NEW g, NEW a,
         NEW q, NEW lv2, NEW file2, NEW U,
         Attaches(p, T, lv, file, R, h0, o0, n, g, a, q, lv2, file2, U)
  PROVE  Tree(q, U, lv2, file2, R)
<1> SUFFICES ASSUME
         T \subseteq Blocks, 0 \notin T, Tree(p, T, lv, file, R),
         h0 \in Indirect(T, lv), o0 \in Slots(h0), p[h0][o0] = 0,
         n \in 1 .. 4, Below(lv, h0, o0) = n - 1,
         \A j \in 1 .. n : g[j] \in Blocks /\ g[j] \notin T,
         \A j, m \in 1 .. n : g[j] = g[m] => j = m,
         q[h0][o0] = g[1],
         \A h \in Indirect(T, lv) : \A o \in Slots(h) :
           h # h0 \/ o # o0 => q[h][o] = p[h][o],
         \A j \in 1 .. n - 1 : a[j] \in 0 .. Ptrs - 1 /\ q[g[j]][a[j]] = g[j + 1],
         \A j \in 1 .. n - 1 : \A o \in 0 .. Ptrs - 1 : o # a[j] => q[g[j]][o] = 0,
         \A h \in Inodes \cup T : lv2[h] = lv[h] /\ file2[h] = file[h],
         \A j \in 1 .. n : lv2[g[j]] = n - j /\ file2[g[j]] = file[h0],
         U = T \cup {g[j] : j \in 1 .. n}
       PROVE  Tree(q, U, lv2, file2, R)
  BY DEF Attaches
<1>1. \A j \in 1 .. n : g[j] # 0 /\ g[j] \notin Inodes /\ g[j] \notin T /\ g[j] \in U
  BY Ext2BlocksAssumption
<1>2. \A j \in 1 .. n - 1 : j \in 1 .. n /\ j + 1 \in 1 .. n /\ lv2[g[j]] > 0
        /\ lv2[g[j + 1]] = lv2[g[j]] - 1
  OBVIOUS
\* The hosts, old and new.
<1>3. \A h \in Indirect(T, lv) : h \in Inodes \cup T /\ h \in Indirect(U, lv2) /\
        \A o : Below(lv2, h, o) = Below(lv, h, o)
  BY DEF Indirect, Below
<1>4. \A j \in 1 .. n - 1 : g[j] \in Indirect(U, lv2)
        /\ (\A o : o \in Slots(g[j]) <=> o \in 0 .. Ptrs - 1)
        /\ \A o : Below(lv2, g[j], o) = lv2[g[j]] - 1
  BY <1>1, <1>2 DEF Indirect, Slots, Below
<1>5. ASSUME NEW h \in Indirect(U, lv2)
      PROVE  h \in Indirect(T, lv) \/ \E j \in 1 .. n - 1 : h = g[j]
  BY DEF Indirect
\* What they hold.
<1>6. ASSUME NEW h \in Indirect(T, lv), NEW o \in Slots(h), q[h][o] # 0
      PROVE  \/ h = h0 /\ o = o0 /\ q[h][o] = g[1]
             \/ (h # h0 \/ o # o0) /\ q[h][o] = p[h][o] /\ q[h][o] \in T
                  /\ lv[q[h][o]] = Below(lv, h, o) /\ file[q[h][o]] = file[h]
  BY <1>6 DEF Tree
<1>7. ASSUME NEW j \in 1 .. n - 1, NEW o \in Slots(g[j]), q[g[j]][o] # 0
      PROVE  o = a[j] /\ q[g[j]][o] = g[j + 1]
  <2>1. o \in 0 .. Ptrs - 1
    BY <1>4
  <2>2. o # a[j] => q[g[j]][o] = 0
    BY <2>1
  <2> QED BY <1>7, <2>2
<1>8. ASSUME NEW h \in Indirect(U, lv2), NEW o \in Slots(h), q[h][o] # 0
      PROVE  q[h][o] \in U /\ lv2[q[h][o]] = Below(lv2, h, o) /\ file2[q[h][o]] = file2[h]
  <2>1. CASE h \in Indirect(T, lv)
    BY <1>1, <1>3, <1>6, <1>8, <2>1
  <2>2. CASE \E j \in 1 .. n - 1 : h = g[j]
    <3>1. PICK j \in 1 .. n - 1 : h = g[j]
      BY <2>2
    <3>2. q[h][o] = g[j + 1] /\ j \in 1 .. n /\ j + 1 \in 1 .. n
      BY <1>2, <1>7, <1>8, <3>1
    <3>3. lv2[g[j + 1]] = lv2[g[j]] - 1 /\ Below(lv2, g[j], o) = lv2[g[j]] - 1
      BY <1>2, <1>4
    <3>4. file2[g[j + 1]] = file2[g[j]] /\ g[j + 1] \in U
      BY <1>1, <3>2
    <3> QED BY <3>1, <3>2, <3>3, <3>4
  <2> QED BY <1>5, <2>1, <2>2
<1>9. ASSUME NEW h \in Indirect(U, lv2), NEW k \in Indirect(U, lv2),
             NEW o \in Slots(h), NEW m \in Slots(k), q[h][o] # 0, q[h][o] = q[k][m]
      PROVE  h = k /\ o = m
  <2>1. CASE h \in Indirect(T, lv) /\ k \in Indirect(T, lv)
    <3>1. CASE (h # h0 \/ o # o0) /\ (k # h0 \/ m # o0)
      BY <1>9, <2>1, <3>1 DEF Tree
    <3>2. CASE h = h0 /\ o = o0
      <4>1. q[h][o] \notin T
        BY <1>1, <3>2
      <4> QED BY <1>6, <1>9, <2>1, <3>2, <4>1
    <3>3. CASE k = h0 /\ m = o0
      BY <1>1, <1>6, <1>9, <2>1, <3>3
    <3> QED BY <3>1, <3>2, <3>3
  <2>2. ASSUME NEW x \in Indirect(T, lv), NEW y \in Slots(x), NEW j \in 1 .. n - 1,
               NEW z \in Slots(g[j]), q[x][y] # 0, q[x][y] = q[g[j]][z]
        PROVE  FALSE
    <3>1. q[x][y] = g[j + 1] /\ j + 1 \in 1 .. n /\ j + 1 # 1
      BY <1>2, <1>7, <2>2
    <3>2. q[x][y] \notin T
      BY <1>1, <3>1
    <3>3. q[x][y] = g[1] /\ 1 \in 1 .. n
      BY <1>6, <2>2, <3>2
    <3>5. g[1] = g[j + 1]
      BY <3>1, <3>3
    <3>4. 1 = j + 1
      BY <3>1, <3>3, <3>5, Zenon
    <3> QED BY <3>1, <3>4
  <2>3. CASE \E i, j \in 1 .. n - 1 : h = g[i] /\ k = g[j]
    <3>1. PICK i, j \in 1 .. n - 1 : h = g[i] /\ k = g[j]
      BY <2>3
    <3>2. o = a[i] /\ q[h][o] = g[i + 1] /\ m = a[j] /\ q[k][m] = g[j + 1]
      BY <1>7, <1>9, <3>1, SMTT(30)
    <3>3. i + 1 = j + 1
      BY <1>2, <1>9, <3>2
    <3> QED BY <3>1, <3>2, <3>3
  <2>4. CASE h \in Indirect(T, lv) /\ \E j \in 1 .. n - 1 : k = g[j]
    BY <1>9, <2>2, <2>4
  <2>5. CASE k \in Indirect(T, lv) /\ \E j \in 1 .. n - 1 : h = g[j]
    BY <1>9, <2>2, <2>5
  <2>6. /\ h \in Indirect(T, lv) \/ \E j \in 1 .. n - 1 : h = g[j]
        /\ k \in Indirect(T, lv) \/ \E j \in 1 .. n - 1 : k = g[j]
    BY <1>5
  <2> QED BY <2>1, <2>3, <2>4, <2>5, <2>6
<1>10. R \subseteq U /\ R \subseteq T
  BY DEF Tree
<1>11. ASSUME NEW x \in U
       PROVE  x \in R <=> ~ Points(q, U, lv2, x)
  <2>1. CASE x \in T
    <3>1. x # 0 /\ \A j \in 1 .. n : g[j] # x
      BY <2>1
    <3>2. Points(p, T, lv, x) => Points(q, U, lv2, x)
      BY <1>3, <3>1 DEF Points
    <3>3. Points(q, U, lv2, x) => Points(p, T, lv, x)
      <4>1. SUFFICES ASSUME NEW h \in Indirect(U, lv2), NEW o \in Slots(h), q[h][o] = x
                     PROVE  Points(p, T, lv, x)
        BY DEF Points
      <4>2. h \in Indirect(T, lv)
        <5>1. SUFFICES ASSUME NEW j \in 1 .. n - 1, h = g[j]
                       PROVE  FALSE
          BY <1>5
        <5>2. x = g[j + 1] /\ j + 1 \in 1 .. n
          BY <1>2, <1>7, <3>1, <4>1, <5>1
        <5> QED BY <3>1, <5>2
      <4>3. p[h][o] = x
        BY <1>6, <3>1, <4>1, <4>2
      <4> QED BY <4>2, <4>3 DEF Points
    <3>4. x \in R <=> ~ Points(p, T, lv, x)
      BY <2>1 DEF Tree
    <3> QED BY <3>2, <3>3, <3>4
  <2>2. CASE x \notin T
    <3>1. PICK j \in 1 .. n : x = g[j]
      BY <2>2
    <3>2. CASE j = 1
      BY <1>3, <1>10, <2>2, <3>1, <3>2 DEF Points
    <3>3. CASE j # 1
      <4>1. j - 1 \in 1 .. n - 1 /\ (j - 1) + 1 = j
        BY <3>3
      <4>2. g[j - 1] \in Indirect(U, lv2) /\ a[j - 1] \in Slots(g[j - 1])
            /\ q[g[j - 1]][a[j - 1]] = x
        BY <1>4, <3>1, <4>1, ZenonT(60)
      <4> QED BY <1>10, <2>2, <4>2 DEF Points
    <3> QED BY <3>2, <3>3
  <2> QED BY <2>1, <2>2
<1>12. \A h \in Indirect(U, lv2) : \A o \in Slots(h) : q[h][o] # 0 =>
         /\ q[h][o] \in U
         /\ lv2[q[h][o]] = Below(lv2, h, o)
         /\ file2[q[h][o]] = file2[h]
  BY <1>8
<1>13. \A h, k \in Indirect(U, lv2) : \A o \in Slots(h), m \in Slots(k) :
         q[h][o] # 0 /\ q[h][o] = q[k][m] => h = k /\ o = m
  BY <1>9
<1> QED BY <1>10, <1>11, <1>12, <1>13, Zenon DEF Tree

(* All but the last element of a sequence. *)
LEMMA FrontIs ==
  ASSUME NEW s \in Seq(Blocks), NEW n, n = Len(s), n >= 1
  PROVE  \A h : h \in ToSet(Front(s)) <=> \E j \in 1 .. n - 1 : s[j] = h
<1> DEFINE f == Front(s)
<1>1. n \in Nat
  OBVIOUS
<1>2. DOMAIN f = 1 .. n - 1 /\ \A j \in 1 .. n - 1 : f[j] = s[j]
  BY <1>1 DEF Front
<1> HIDE DEF f
<1>3. \A h : h \in ToSet(f) <=> \E j \in 1 .. n - 1 : f[j] = h
  BY <1>2 DEF ToSet
<1> QED BY <1>2, <1>3 DEF f

\* The labels of the new blocks g[1], ..., g[n].
NewLevel(lv, g, n) == [h \in Hosts |->
  IF \E j \in 1 .. n : g[j] = h THEN n - (CHOOSE j \in 1 .. n : g[j] = h) ELSE lv[h]]
NewFile(file, g, n, i) == [h \in Hosts |-> IF \E j \in 1 .. n : g[j] = h THEN i ELSE file[h]]

Distinct(g, n) ==
  /\ n \in 1 .. 4
  /\ \A j \in 1 .. n : g[j] \in Blocks
  /\ \A j, m \in 1 .. n : g[j] = g[m] => j = m

Relabels(lv, file, lv2, file2, g, n, i) ==
  /\ Labels(lv2, file2)
  /\ \A h \in Hosts : (\A j \in 1 .. n : g[j] # h) => lv2[h] = lv[h] /\ file2[h] = file[h]
  /\ \A j \in 1 .. n : lv2[g[j]] = n - j /\ file2[g[j]] = i

LEMMA NewLabels ==
  ASSUME NEW lv, NEW file, Labels(lv, file), NEW i \in Inodes, NEW n, NEW g, Distinct(g, n)
  PROVE  Relabels(lv, file, NewLevel(lv, g, n), NewFile(file, g, n, i), g, n, i)
<1>0. /\ n \in 1 .. 4
      /\ \A j \in 1 .. n : g[j] \in Blocks
      /\ \A j, m \in 1 .. n : g[j] = g[m] => j = m
  BY DEF Distinct
<1> USE <1>0
<1> DEFINE l == NewLevel(lv, g, n)
           f == NewFile(file, g, n, i)
<1>1. ASSUME NEW j \in 1 .. n
      PROVE  l[g[j]] = n - j /\ f[g[j]] = i
  BY DEF Hosts, NewLevel, NewFile
<1>2. ASSUME NEW h \in Hosts, \A j \in 1 .. n : g[j] # h
      PROVE  l[h] = lv[h] /\ f[h] = file[h]
  BY <1>2 DEF NewLevel, NewFile
<1>3. DOMAIN l = Hosts /\ DOMAIN f = Hosts /\ l = [h \in Hosts |-> l[h]] /\ f = [h \in Hosts |-> f[h]]
  BY DEF NewLevel, NewFile
<1> HIDE DEF l, f
<1>4. ASSUME NEW h \in Hosts
      PROVE  l[h] \in 0 .. 4 /\ f[h] \in Inodes \cup {None}
  BY <1>1, <1>2 DEF Labels
<1>5. l \in [Hosts -> 0 .. 4] /\ f \in [Hosts -> Inodes \cup {None}]
  BY <1>3, <1>4
<1>6. ASSUME NEW j \in Inodes
      PROVE  l[j] = 4 /\ f[j] = j
  BY <1>2, Ext2BlocksAssumption DEF Hosts, Labels
<1>7. ASSUME NEW b \in Blocks
      PROVE  l[b] # 4
  BY <1>1, <1>2 DEF Labels, Hosts
<1>8. Labels(l, f)
  BY <1>5, <1>6, <1>7 DEF Labels
<1> QED BY <1>1, <1>2, <1>8 DEF Relabels, l, f

\* What Splice does to the pointers: the new blocks are linked along the path
\* and put into slot o of h.
Spliced(q, h, o, g, n, a) ==
  /\ q \in [Hosts -> [Offsets -> Blocks \cup {0, Junk}]]
  /\ q[h][o] = g[1]
  /\ \A k \in Offsets : k # o => q[h][k] = ptr[h][k]
  /\ \A x \in Hosts : x # h /\ (\A j \in 1 .. n - 1 : g[j] # x) => q[x] = ptr[x]
  /\ \A j \in 1 .. n - 1 :
       /\ a[j] \in 0 .. Ptrs - 1 /\ q[g[j]][a[j]] = g[j + 1]
       /\ \A k \in 0 .. Ptrs - 1 : k # a[j] => q[g[j]][k] = 0

\* The three cases of Splice.
SplicePtr(q, h, o, g, n, path, d) ==
  n = Len(g) /\ q = Attached(h, o, g, path, d)

SplicedBy(q, h, o, g, n, path, d) ==
  /\ q = [x \in Hosts |-> q[x]]
  /\ q[h] = [ptr[h] EXCEPT ![o] = g[1]]
  /\ \A j \in 1 .. n - 1 : q[g[j]] = [NoPointers EXCEPT ![path[d + j]] = g[j + 1]]
  /\ \A x \in Hosts : x # h /\ (\A j \in 1 .. n - 1 : g[j] # x) => q[x] = ptr[x]

LEMMA SpliceCases ==
  ASSUME NEW g \in Seq(Blocks), NEW n, n = Len(g), Distinct(g, n),
         NEW h \in Hosts, \A j \in 1 .. n : g[j] # h, NEW o, NEW path, NEW d,
         NEW q, SplicePtr(q, h, o, g, n, path, d)
  PROVE  SplicedBy(q, h, o, g, n, path, d)
<1> USE DEF Distinct
<1> DEFINE A(x) == [ptr[x] EXCEPT ![o] = g[1]]
           k(x) == CHOOSE j \in 1 .. n - 1 : g[j] = x
           B(x) == [NoPointers EXCEPT ![path[d + k(x)]] = g[k(x) + 1]]
           F == ToSet(Front(g))
           D(x) == CASE x = h -> A(x) [] x \in F -> B(x) [] OTHER -> ptr[x]
<1>1. q = [x \in Hosts |-> D(x)]
  BY DEF SplicePtr, Attached
<1>2. \A x : x \in F <=> \E j \in 1 .. n - 1 : g[j] = x
  BY FrontIs
<1>3. \A j \in 1 .. n - 1 : j \in 1 .. n /\ g[j] \in Hosts
  BY DEF Hosts
<1>4. h \notin F
  BY <1>2, <1>3
<1> HIDE DEF A, B, F
<1>5. D(h) = A(h)
  BY <1>4
<1>6. \A x \in F : D(x) = B(x)
  BY <1>4
<1>7. \A x : x # h /\ x \notin F => D(x) = ptr[x]
  OBVIOUS
<1> HIDE DEF D
<1>8. \A x \in Hosts : q[x] = D(x)
  BY <1>1
<1>9. ASSUME NEW j \in 1 .. n - 1
      PROVE  q[g[j]] = [NoPointers EXCEPT ![path[d + j]] = g[j + 1]]
  <2>1. g[j] \in F /\ g[j] \in Hosts
    BY <1>2, <1>3
  <2>2. k(g[j]) = j
    BY <1>3
  <2> HIDE DEF k
  <2>3. B(g[j]) = [NoPointers EXCEPT ![path[d + j]] = g[j + 1]]
    BY <2>2 DEF B
  <2> QED BY <1>6, <1>8, <2>1, <2>3
<1>10. q[h] = [ptr[h] EXCEPT ![o] = g[1]]
  BY <1>5, <1>8 DEF A
<1>11. \A x \in Hosts : x # h /\ (\A j \in 1 .. n - 1 : g[j] # x) => q[x] = ptr[x]
  BY <1>2, <1>7, <1>8
<1>12. q = [x \in Hosts |-> q[x]]
  BY <1>1
<1> QED BY <1>9, <1>10, <1>11, <1>12 DEF SplicedBy

LEMMA SplicedIs ==
  ASSUME ptr \in [Hosts -> [Offsets -> Blocks \cup {0, Junk}]],
         NEW g \in Seq(Blocks), NEW n \in 1 .. 4, n = Len(g),
         NEW h \in Hosts, NEW o \in Offsets,
         NEW a, \A j \in 1 .. n - 1 : a[j] \in 0 .. Ptrs - 1,
         NEW q, q = [x \in Hosts |-> q[x]],
         q[h] = [ptr[h] EXCEPT ![o] = g[1]],
         \A j \in 1 .. n - 1 : q[g[j]] = [NoPointers EXCEPT ![a[j]] = g[j + 1]],
         \A x \in Hosts : x # h /\ (\A j \in 1 .. n - 1 : g[j] # x) => q[x] = ptr[x]
  PROVE  Spliced(q, h, o, g, n, a)
<1> DEFINE P == Blocks \cup {0, Junk}
<1>1. /\ \A j \in 1 .. n : g[j] \in Blocks
      /\ 1 \in 1 .. n /\ \A j \in 1 .. n - 1 : j + 1 \in 1 .. n
  OBVIOUS
<1>7. q[h] \in [Offsets -> P] /\ q[h][o] = g[1] /\ \A k \in Offsets : k # o => q[h][k] = ptr[h][k]
  BY <1>1
<1>8. ASSUME NEW j \in 1 .. n - 1
      PROVE  /\ q[g[j]] \in [Offsets -> P] /\ q[g[j]][a[j]] = g[j + 1]
             /\ \A k \in 0 .. Ptrs - 1 : k # a[j] => q[g[j]][k] = 0
  <2>1. a[j] \in Offsets /\ \A k \in 0 .. Ptrs - 1 : k \in Offsets
    BY DEF Offsets
  <2>2. g[j + 1] \in P /\ 0 \in P
    BY <1>1
  <2>3. q[g[j]] = [NoPointers EXCEPT ![a[j]] = g[j + 1]]
    OBVIOUS
  <2> HIDE DEF P
  <2>4. NoPointers \in [Offsets -> P] /\ \A k \in Offsets : NoPointers[k] = 0
    BY <2>2 DEF NoPointers
  <2> QED BY <2>1, <2>2, <2>3, <2>4
<1>9. ASSUME NEW x \in Hosts
      PROVE  q[x] \in [Offsets -> P]
  BY <1>7, <1>8
<1> HIDE DEF P
<1>10. q \in [Hosts -> [Offsets -> P]]
  BY <1>9
<1> QED BY <1>7, <1>8, <1>10 DEF Spliced, P

\* The branch is put into its slot, and what the slot held is given up.
Grafts(S, lv, file, R, h0, o0, C, n, g, a, q, U) ==
  /\ S \subseteq Blocks /\ 0 \notin S /\ Labels(lv, file) /\ Tree(ptr, S, lv, file, R)
  /\ h0 \in Indirect(S, lv) /\ o0 \in Slots(h0) /\ Hangs(S, lv, file, h0, o0, C)
  /\ n \in 1 .. 4 /\ Below(lv, h0, o0) = n - 1 /\ file[h0] \in Inodes
  /\ \A j \in 1 .. n : g[j] \in Blocks /\ g[j] \notin S
  /\ \A j, m \in 1 .. n : g[j] = g[m] => j = m
  /\ Spliced(q, h0, o0, g, n, a)
  /\ U = (S \ C) \cup {g[j] : j \in 1 .. n}

LEMMA Graft ==
  ASSUME ptr \in [Hosts -> [Offsets -> Blocks \cup {0, Junk}]],
         NEW S, NEW lv, NEW file, NEW R, NEW h0, NEW o0, NEW C, NEW n, NEW g, NEW a, NEW q,
         NEW U, Grafts(S, lv, file, R, h0, o0, C, n, g, a, q, U)
  PROVE  /\ Labels(NewLevel(lv, g, n), NewFile(file, g, n, file[h0]))
         /\ Tree(q, U, NewLevel(lv, g, n), NewFile(file, g, n, file[h0]), R)
         /\ C \subseteq S /\ \A y \in C : file[y] = file[h0]
<1> SUFFICES ASSUME
         S \subseteq Blocks, 0 \notin S, Labels(lv, file), Tree(ptr, S, lv, file, R),
         h0 \in Indirect(S, lv), o0 \in Slots(h0), Hangs(S, lv, file, h0, o0, C),
         n \in 1 .. 4, Below(lv, h0, o0) = n - 1, file[h0] \in Inodes,
         \A j \in 1 .. n : g[j] \in Blocks /\ g[j] \notin S,
         \A j, m \in 1 .. n : g[j] = g[m] => j = m,
         Spliced(q, h0, o0, g, n, a),
         U = (S \ C) \cup {g[j] : j \in 1 .. n}
       PROVE  /\ Labels(NewLevel(lv, g, n), NewFile(file, g, n, file[h0]))
              /\ Tree(q, U, NewLevel(lv, g, n), NewFile(file, g, n, file[h0]), R)
              /\ C \subseteq S /\ \A y \in C : file[y] = file[h0]
  BY DEF Grafts
<1> DEFINE y0 == ptr[h0][o0]
           p == [ptr EXCEPT ![h0][o0] = 0]
           T == S \ C
           lv2 == NewLevel(lv, g, n)
           file2 == NewFile(file, g, n, file[h0])
<1>1. h0 \in Hosts /\ h0 \in Inodes \cup S /\ o0 \in Offsets
  BY SlotOffsets DEF Indirect, Hosts
<1>2. /\ p[h0][o0] = 0
      /\ \A h \in Hosts : \A o \in Offsets : h # h0 \/ o # o0 => p[h][o] = ptr[h][o]
  BY <1>1
<1> HIDE DEF p
<1>3. \A h \in Indirect(S, lv) : h \in Hosts /\ Slots(h) \subseteq Offsets
  BY SlotOffsets DEF Indirect, Hosts
<1>4. Tree(p, T, lv, file, R)
  BY <1>2, <1>3, CutTree
<1>5. y0 # 0 => y0 \in S /\ lv[y0] = n - 1 /\ file[y0] = file[h0]
  BY DEF Tree
<1>6. C \subseteq S /\ \A y \in C : file[y] = file[h0] /\ lv[y] <= n - 1
  BY <1>5 DEF Hangs, IsBranch
<1>7. h0 \notin C
  BY <1>1, <1>6, Ext2BlocksAssumption DEF Below, Labels
<1>8. h0 \in Indirect(T, lv) /\ T \subseteq Blocks /\ 0 \notin T
  BY <1>7 DEF Indirect
<1>9. file[h0] \in Inodes
  OBVIOUS
<1>10. /\ Labels(lv2, file2)
       /\ \A h \in Hosts : (\A j \in 1 .. n : g[j] # h) => lv2[h] = lv[h] /\ file2[h] = file[h]
       /\ \A j \in 1 .. n : lv2[g[j]] = n - j /\ file2[g[j]] = file[h0]
  BY <1>9, NewLabels DEF Distinct, Relabels
<1> HIDE DEF lv2, file2
<1>11. \A h \in Inodes \cup T : h \in Hosts /\ \A j \in 1 .. n : g[j] # h
  BY Ext2BlocksAssumption DEF Hosts
<1>12. \A h \in Inodes \cup T : lv2[h] = lv[h] /\ file2[h] = file[h]
  BY <1>10, <1>11
<1>13. \A h \in Indirect(T, lv) : \A o \in Slots(h) : h # h0 \/ o # o0 => q[h][o] = p[h][o]
  BY <1>2, <1>11, SlotOffsets DEF Indirect, Spliced
<1>14. /\ q[h0][o0] = g[1]
       /\ \A j \in 1 .. n - 1 : a[j] \in 0 .. Ptrs - 1 /\ q[g[j]][a[j]] = g[j + 1]
       /\ \A j \in 1 .. n - 1 : \A o \in 0 .. Ptrs - 1 : o # a[j] => q[g[j]][o] = 0
  BY DEF Spliced
<1>15. \A j \in 1 .. n : g[j] \in Blocks /\ g[j] \notin T
  OBVIOUS
<1> HIDE DEF T
<1>17. U = T \cup {g[j] : j \in 1 .. n}
  BY DEF T
<1>16. Tree(q, U, lv2, file2, R)
  <2>1. Attaches(p, T, lv, file, R, h0, o0, n, g, a, q, lv2, file2, U)
    BY <1>2, <1>4, <1>8, <1>10, <1>12, <1>13, <1>14, <1>15, <1>17 DEF Attaches
  <2> QED BY <2>1, Attach
<1> QED BY <1>6, <1>10, <1>16 DEF lv2, file2

\* The new blocks become a branch of the file, in a slot that was empty or
\* whose branch is given up.
LEMMA BlockSplice ==
  ASSUME BlockInv, Inv', NEW t \in Tasks, Splice(t)
  PROVE  BlockInv'
<1> DEFINE r == task[t]
           path == Path(r)
           k == Len(r.chain)
           g == r.got
           n == Len(g)
           h0 == r.chain[k].host
           o0 == r.chain[k].off
           i == r.ino
           old == ptr[h0][o0]
           C == IF old = 0 THEN {} ELSE Branch(old, n - 1)
           a == [j \in 1 .. n - 1 |-> path[k + j]]
           s == [r EXCEPT !.pc = "return", !.err = "ok", !.res = g[n], !.got = <<>>, !.chain = <<>>]
\* The task.
<1>1. /\ r.pc = "splice" /\ task' = [task EXCEPT ![t] = s] /\ truncate_mutex' = Released(t)
      /\ UNCHANGED <<live, used, i_size, i_mutex, errors, cut>>
  BY DEF Splice
<1>2. /\ Shape(r) /\ Typed(r) /\ Form(r) /\ Globals /\ DOMAIN task = Tasks /\ Holding(r)
      /\ Holding(r) => truncate_mutex[r.ino] = t
  BY <1>1, TaskIs DEF Holding
<1>3. Moves(t) /\ task'[t] = s
  BY <1>1, OneTaskMoves DEF BlockInv
<1>4. /\ s.pc = "return" /\ s.got = <<>> /\ s.chain = <<>> /\ s.op = r.op /\ s.ino = r.ino
      /\ s.b = r.b /\ s.top = r.top /\ s.depth = r.depth /\ s.work = r.work /\ s.res = g[n]
  BY <1>2 DEF Shape, Columns
<1>5. /\ r.ino \in Inodes /\ r.top = 0 /\ r.work = <<>> /\ Fits(r.b) /\ r.op # "evict"
      /\ ChainShape(r) /\ n = Needed(r)
  BY <1>1, <1>2 DEF Form, WithChain
<1>6. PathOK(path) /\ Len(path) \in 1 .. 4 /\ k \in 1 .. Len(path)
  BY <1>5, WalkDepthIs DEF PathOK, ChainShape
<1>7. n \in 1 .. 4 /\ n = Len(path) - k + 1 /\ k \in 1 .. 4
  <2> DEFINE l == Len(path)
  <2>1. n = l - k + 1 /\ l \in 1 .. 4 /\ k \in 1 .. l
    BY <1>5, <1>6 DEF Needed
  <2> HIDE DEF l, n, k
  <2>2. n \in 1 .. 4 /\ k \in 1 .. 4
    BY <2>1
  <2> QED BY <2>1, <2>2 DEF l
<1>8. /\ g \in Seq(Blocks) /\ ToSet(g) \subseteq used \ lost /\ ToSet(g) \cap Placed = {}
      /\ DOMAIN g = 1 .. n /\ ToSet(g) = {g[j] : j \in 1 .. n}
  BY HandsAre DEF ToSet
<1>9. /\ \A j \in 1 .. n : g[j] \in Blocks /\ g[j] \notin Placed
      /\ \A j, m \in 1 .. n : g[j] = g[m] => j = m
      /\ g[n] \in Blocks
  <2>1. \A j \in 1 .. n : g[j] \in Blocks /\ g[j] \in ToSet(g)
    BY <1>8
  <2>2. \A j, m \in DOMAIN g : g[j] = g[m] => j = m
    BY DEF BlockInv, HandInv
  <2>3. n \in 1 .. n
    BY <1>7
  <2> QED BY <1>8, <2>1, <2>2, <2>3
<1> HIDE DEF s
\* The slot that is filled.
<1>10. PICK lv, file : Trees(lv, file)
  BY DEF BlockInv
<1>11. /\ Labels(lv, file) /\ Tree(ptr, Placed, lv, file, Tops) /\ Placed \subseteq Blocks
       /\ 0 \notin Placed
  BY <1>10, PlacedAre DEF Trees, BlockInv
<1>12. ChainTrue(r, ptr)
  BY <1>1, <1>2, <1>10 DEF Trees, TaskTrue
<1>13. ChainLeads(r, Placed, lv, file)
  BY <1>5, <1>11, <1>12, ChainReal
<1>14. /\ h0 \in Indirect(Placed, lv) /\ o0 \in Slots(h0) /\ file[h0] = i
       /\ Below(lv, h0, o0) = n - 1
  <2>1. k \in 1 .. k
    <3>1. k \in 1 .. 4
      BY <1>7
    <3> HIDE DEF k
    <3> QED BY <3>1
  <2>2. /\ h0 \in Indirect(Placed, lv) /\ o0 \in Slots(h0) /\ file[h0] = i
        /\ Below(lv, h0, o0) = Len(path) - k
    BY <1>13, <2>1 DEF ChainLeads
  <2>3. Len(path) - k = n - 1
    BY <1>6, <1>7
  <2> QED BY <2>2, <2>3
<1>15. h0 \in Hosts /\ o0 \in Offsets /\ \A j \in 1 .. n : g[j] # h0
  BY <1>9, <1>11, <1>14, SlotOffsets, Ext2BlocksAssumption DEF Indirect, Hosts
<1>16. Partial(r) = r.chain[k]
  BY DEF Partial, Last
<1>17. lost' = lost \cup C
  <2>1. lost' = IF old = 0 THEN lost ELSE lost \cup Branch(old, Len(path) - k)
    BY <1>16 DEF Splice
  <2>2. Len(path) - k = n - 1
    BY <1>6, <1>7
  <2> QED BY <2>1, <2>2
<1>18. Hangs(Placed, lv, file, h0, o0, C)
  <2>1. CASE old = 0
    BY <2>1 DEF Hangs
  <2>2. CASE old # 0
    <3>1. old \in Placed /\ lv[old] = n - 1
      BY <1>11, <1>14, <2>2 DEF Tree
    <3> HIDE DEF old, n
    <3>2. IsBranch(Placed, lv, file, old, Branch(old, n - 1))
      BY <1>11, <3>1, BranchIs
    <3> QED BY <2>2, <3>2 DEF Hangs, old
  <2> QED BY <2>1, <2>2
<1>19. \A j \in 1 .. n - 1 : a[j] \in 0 .. Ptrs - 1 /\ a[j] = path[k + j]
  <2> SUFFICES ASSUME NEW j \in 1 .. n - 1
               PROVE  path[k + j] \in 0 .. Ptrs - 1
    OBVIOUS
  <2>1. k + j \in 2 .. Len(path)
    <3> DEFINE l == Len(path)
    <3>1. n = l - k + 1 /\ l \in 1 .. 4 /\ k \in 1 .. 4
      BY <1>6, <1>7
    <3>3. j \in 1 .. n - 1
      OBVIOUS
    <3> HIDE DEF l, n, k
    <3>2. k + j \in 2 .. l
      BY <3>1, <3>3
    <3> QED BY <3>2 DEF l
  <2> QED BY <1>6, <2>1 DEF PathOK
<1>20. SplicePtr(ptr', h0, o0, g, n, path, k)
  BY <1>16 DEF Splice, SplicePtr
<1> HIDE DEF a, C, h0, o0, old, path, k
<1>21. Spliced(ptr', h0, o0, g, n, a)
  <2>1. ASSUME NEW q, q = ptr'
        PROVE  Spliced(q, h0, o0, g, n, a)
    <3>1. SplicePtr(q, h0, o0, g, n, path, k) /\ Distinct(g, n)
      BY <1>7, <1>9, <1>20, <2>1 DEF Distinct
    <3>2. /\ q = [x \in Hosts |-> q[x]]
          /\ q[h0] = [ptr[h0] EXCEPT ![o0] = g[1]]
          /\ \A j \in 1 .. n - 1 : q[g[j]] = [NoPointers EXCEPT ![path[k + j]] = g[j + 1]]
          /\ \A x \in Hosts : x # h0 /\ (\A j \in 1 .. n - 1 : g[j] # x) => q[x] = ptr[x]
      <4> DEFINE G == g
                 N == n
      <4>1. SplicePtr(q, h0, o0, G, N, path, k) /\ Distinct(G, N)
        BY <3>1
      <4>2. G \in Seq(Blocks) /\ N = Len(G) /\ h0 \in Hosts /\ \A j \in 1 .. N : G[j] # h0
        BY <1>8, <1>15
      <4> HIDE DEF G, N
      <4>3. SplicedBy(q, h0, o0, G, N, path, k)
        BY <4>1, <4>2, SpliceCases
      <4> QED BY <4>3 DEF SplicedBy, G, N
    <3>3. \A j \in 1 .. n - 1 : q[g[j]] = [NoPointers EXCEPT ![a[j]] = g[j + 1]]
      BY <1>19, <3>2
    <3>4. \A j \in 1 .. n - 1 : a[j] \in 0 .. Ptrs - 1
      BY <1>19
    <3>5. ptr \in [Hosts -> [Offsets -> Blocks \cup {0, Junk}]]
      BY <1>2 DEF Globals
    <3> QED BY <1>7, <1>8, <1>15, <3>2, <3>3, <3>4, <3>5, SplicedIs
  <2> QED BY <2>1
\* The blocks.
<1>22. C \subseteq Placed
  BY <1>18 DEF Hangs, IsBranch
<1>23. \A u \in Tasks : u # t => task'[u] = task[u]
  BY <1>3 DEF Moves
<1>24. ToSet(s.got) = {}
  BY <1>4 DEF ToSet
<1>25. \A u \in Tasks : u # t => ToSet(task[u].got) \cap ToSet(g) = {}
  BY DEF BlockInv, HandInv
<1>26. Placed' = (Placed \ C) \cup ToSet(g)
  <2>1. InHand' = InHand \ ToSet(g)
    BY <1>3, <1>23, <1>24, <1>25 DEF InHand
  <2> HIDE DEF g
  <2> QED BY <1>1, <1>8, <1>17, <1>22, <2>1 DEF Placed
<1>27. Tops' = Tops
  BY <1>3, <1>4, <1>23 DEF Tops
<1>28. HandInv'
  <2>1. \A u \in Tasks : u # t => ToSet(task'[u].got) = ToSet(task[u].got) /\ task'[u].got = task[u].got
    BY <1>23
  <2>2. ToSet(task'[t].got) = {} /\ task'[t].got = <<>>
    BY <1>3, <1>4, <1>24
  <2>3. \A u \in Tasks : ToSet(task'[u].got) \subseteq used' \ lost'
    BY <1>1, <1>17, <1>22, <2>1, <2>2, HandsAre
  <2>4. \A u \in Tasks : \A m, j \in DOMAIN task'[u].got :
          task'[u].got[m] = task'[u].got[j] => m = j
    BY <2>1, <2>2 DEF BlockInv, HandInv
  <2>5. \A u, v \in Tasks : v # u => ToSet(task'[u].got) \cap ToSet(task'[v].got) = {}
    BY <2>1, <2>2 DEF BlockInv, HandInv
  <2> QED BY <2>3, <2>4, <2>5 DEF HandInv
\* The trees.
<1> DEFINE lv2 == NewLevel(lv, g, n)
           file2 == NewFile(file, g, n, file[h0])
<1>29. ptr \in [Hosts -> [Offsets -> Blocks \cup {0, Junk}]]
  BY <1>2 DEF Globals
<1>30. /\ Labels(lv2, file2) /\ Tree(ptr', Placed', lv2, file2, Tops')
       /\ \A y \in C : file[y] = i
  <2>1. ASSUME NEW q, q = ptr', NEW U, U = Placed'
        PROVE  /\ Labels(lv2, file2) /\ Tree(q, U, lv2, file2, Tops)
               /\ \A y \in C : file[y] = file[h0]
    <3>1. Spliced(q, h0, o0, g, n, a) /\ U = (Placed \ C) \cup {g[j] : j \in 1 .. n}
      BY <1>8, <1>21, <1>26, <2>1
    <3>2. Grafts(Placed, lv, file, Tops, h0, o0, C, n, g, a, q, U)
      BY <1>5, <1>7, <1>9, <1>11, <1>14, <1>18, <3>1 DEF Grafts
    <3> QED BY <1>29, <3>2, Graft
  <2> QED BY <1>14, <1>27, <2>1
<1>31. Keeps(i, ptr, Placed, lv, file, ptr', Placed', lv2, file2)
  <2>1. SUFFICES ASSUME NEW h \in Inodes \cup Placed, file[h] # i
                 PROVE  /\ h \in Inodes \cup Placed' /\ lv2[h] = lv[h] /\ file2[h] = file[h]
                        /\ ptr'[h] = ptr[h]
    BY DEF Keeps
  <2>2. h \in Hosts /\ h # h0 /\ \A j \in 1 .. n : g[j] # h
    BY <1>9, <1>11, <1>14, <2>1, Ext2BlocksAssumption DEF Hosts
  <2>3. lv2[h] = lv[h] /\ file2[h] = file[h]
    BY <2>2 DEF NewLevel, NewFile
  <2>4. ptr'[h] = ptr[h]
    BY <1>21, <2>2 DEF Spliced
  <2>5. h \notin C
    BY <1>30, <2>1
  <2> QED BY <1>26, <2>3, <2>4, <2>5
<1> HIDE DEF lv2, file2, i
<1>32. TaskTrue(task'[t], ptr', Placed', lv2, file2)
  BY <1>3, <1>4, <1>5 DEF Holding, WorkTrue, TaskTrue
<1>33. /\ i \in live /\ i \in Inodes /\ truncate_mutex[i] = t
       /\ \A u \in Tasks : u # t /\ Holding(task[u]) => task[u].ino # i
       /\ \A u \in Tasks : u # t /\ Exclusive(task[u]) => task[u].ino # i
  BY <1>2, Alone DEF i
<1>34. (\E l, f : Trees(l, f))'
  BY <1>3, <1>10, <1>30, <1>31, <1>32, <1>33, TreeStep
<1>35. EmptyInv'
  <2>1. \A j \in Inodes : j # i => ptr'[j] = ptr[j]
    BY <1>11, <1>31 DEF Keeps, Labels
  <2>2. \A j \in Inodes \ live' : NoBlocks(j)'
    BY <1>1, <1>33, <2>1 DEF BlockInv, EmptyInv, NoBlocks
  <2>3. EmptyOK(task[t])'
    BY <1>3, <1>4 DEF EmptyOK
  <2> QED BY <1>3, <1>33, <2>1, <2>2, <2>3, EmptyStep
\* The rest.
<1>36. Globals' /\ OwnMutex(t)
  BY <1>1, <1>2, <1>17, <1>21, <1>22, ReleasedIs DEF Globals, Placed, Spliced
<1>37. Typed(s)
  BY <1>2, <1>4, <1>9 DEF Typed
<1>38. Form(s) /\ ~Holding(s)
  BY <1>4, <1>5 DEF Form, WithChain, Holding
<1>39. Typed(task'[t]) /\ Form(task'[t]) /\ ~Holding(task'[t])
  BY <1>3, <1>37, <1>38
<1> QED BY <1>3, <1>28, <1>34, <1>35, <1>36, <1>39, Combine

----------------------------------------
(* The slots that truncate empties *)

\* w is a slot of file i, with the level of what it holds.
Fine(w, i, S, lv, file) ==
  /\ w.host \in Indirect(S, lv) /\ w.off \in Slots(w.host)
  /\ w.depth = Below(lv, w.host, w.off) /\ file[w.host] = i

LEMMA SlotIs ==
  ASSUME NEW h, NEW o, NEW d
  PROVE  Slot(h, o, d).host = h /\ Slot(h, o, d).off = o /\ Slot(h, o, d).depth = d
BY DEF Slot

SlotRange(A, h, off, end, d) ==
  /\ A \in Seq(SlotRecord)
  /\ \A n \in 1 .. Len(A) : /\ A[n].host = h /\ A[n].depth = d
                           /\ A[n].off \in Nat /\ off <= A[n].off /\ A[n].off < end
  /\ \A o \in Nat : off <= o /\ o < end => \E n \in 1 .. Len(A) : A[n].off = o

LEMMA SlotsFromIs ==
  ASSUME NEW h \in Hosts, NEW off \in Nat, NEW end \in Nat, NEW d \in 0 .. 3
  PROVE  SlotRange(SlotsFrom(h, off, end, d), h, off, end, d)
<1> DEFINE A == SlotsFrom(h, off, end, d)
           k == IF off < end THEN end - off ELSE 0
<1>1. k \in Nat /\ \A n \in 1 .. k : off + n - 1 \in Nat /\ off <= off + n - 1 /\ off + n - 1 < end
  OBVIOUS
<1>2. \A o \in Nat : off <= o /\ o < end => o - off + 1 \in 1 .. k /\ off + (o - off + 1) - 1 = o
  OBVIOUS
<1>3. A = [n \in 1 .. k |-> Slot(h, off + n - 1, d)]
  BY DEF SlotsFrom
<1> HIDE DEF A, k
<1>4. \A n \in 1 .. k : Slot(h, off + n - 1, d) \in SlotRecord
  BY <1>1 DEF Slot, SlotRecord
<1>5. A \in Seq(SlotRecord) /\ Len(A) = k /\ \A n \in 1 .. k : A[n] = Slot(h, off + n - 1, d)
  BY <1>1, <1>3, <1>4
<1>6. \A n \in 1 .. k : A[n].host = h /\ A[n].depth = d /\ A[n].off = off + n - 1
  BY <1>5, SlotIs
<1> QED BY <1>1, <1>2, <1>5, <1>6, ZenonT(60) DEF A, SlotRange

LEMMA IndirectsAre ==
  ASSUME NEW i \in Inodes, NEW off \in 0 .. NDir + 2
  PROVE  LET A == do_indirects(i, off) IN
         /\ A \in Seq(SlotRecord)
         /\ \A n \in 1 .. Len(A) : /\ A[n].host = i /\ A[n].depth = Depth(A[n].off)
                                  /\ A[n].off \in 0 .. NDir + 2
         /\ off < NDir => \A o \in NDir .. NDir + 2 : \E n \in 1 .. Len(A) : A[n].off = o
<1> DEFINE A == do_indirects(i, off)
           from == IF off < NDir THEN NDir ELSE off + 1
           k == NDir + 3 - from
           e(n) == Slot(i, from + n - 1, Depth(from + n - 1))
<1>1. /\ k \in Nat /\ from \in Nat /\ from >= NDir
      /\ \A n \in 1 .. k : from + n - 1 \in 0 .. NDir + 2 /\ from + n - 1 >= NDir
  BY Geometry
<1>2. off < NDir => \A o \in NDir .. NDir + 2 : o - NDir + 1 \in 1 .. k /\ from + (o - NDir + 1) - 1 = o
  BY Geometry
<1>3. A = [n \in 1 .. k |-> e(n)]
  BY DEF do_indirects
<1> HIDE DEF A, k, from
<1>4. \A n \in 1 .. k : Slot(i, from + n - 1, Depth(from + n - 1)) \in SlotRecord
  <2> TAKE n \in 1 .. k
  <2>1. from + n - 1 \in Nat /\ Depth(from + n - 1) \in 0 .. 3
    BY <1>1, Geometry DEF Depth
  <2> QED BY <2>1 DEF Slot, SlotRecord, Hosts
<1>7. \A n \in 1 .. k : e(n) \in SlotRecord
  BY <1>4
<1> HIDE DEF e
<1>5. A \in Seq(SlotRecord) /\ Len(A) = k /\ \A n \in 1 .. k : A[n] = e(n)
  BY <1>1, <1>3, <1>7
<1>6. \A n \in 1 .. k : A[n].host = i /\ A[n].off = from + n - 1 /\ A[n].depth = Depth(A[n].off)
  BY <1>5, SlotIs DEF e
<1> QED BY <1>1, <1>2, <1>5, <1>6 DEF A

(* Slots of the inode are as they should be. *)
LEMMA InodeFine ==
  ASSUME NEW i \in Inodes, NEW w, w.host = i, w.off \in 0 .. NDir + 2, w.depth = Depth(w.off),
         NEW S, NEW lv, NEW file, Labels(lv, file)
  PROVE  Fine(w, i, S, lv, file) /\ w.host \notin Blocks
BY InodeHost, Ext2BlocksAssumption DEF Fine

(* First slots of indirect blocks, deep ones last, then slots of the inode.*)
LEMMA WorkJoin ==
  ASSUME NEW s, NEW A \in Seq(SlotRecord), NEW B \in Seq(SlotRecord), s.work = A \o B,
         NEW S, NEW lv, NEW file,
         \A n \in 1 .. Len(A) :
           /\ Fine(A[n], s.ino, S, lv, file)
           /\ A[n].host \in Blocks => /\ s.top # 0 => s.depth <= A[n].depth
                                     /\ \A m \in 1 .. n : A[m].depth <= A[n].depth,
         \A n \in 1 .. Len(B) : Fine(B[n], s.ino, S, lv, file) /\ B[n].host \notin Blocks
  PROVE  WorkTrue(s, S, lv, file) /\ s.work \in Seq(SlotRecord)
<1> DEFINE W == s.work
           k == Len(A)
           l == Len(B)
<1>1. /\ W \in Seq(SlotRecord) /\ k \in Nat /\ l \in Nat /\ Len(W) = k + l
      /\ \A n \in 1 .. k : W[n] = A[n]
      /\ \A n \in k + 1 .. k + l : W[n] = B[n - k]
  OBVIOUS
<1>2. /\ \A n \in 1 .. k :
           /\ Fine(A[n], s.ino, S, lv, file)
           /\ A[n].host \in Blocks => /\ s.top # 0 => s.depth <= A[n].depth
                                     /\ \A m \in 1 .. n : A[m].depth <= A[n].depth
      /\ \A n \in 1 .. l : Fine(B[n], s.ino, S, lv, file) /\ B[n].host \notin Blocks
  OBVIOUS
<1> HIDE DEF W, k, l
<1>3. ASSUME NEW n \in 1 .. Len(W)
      PROVE  /\ Fine(W[n], s.ino, S, lv, file)
             /\ W[n].host \in Blocks => /\ s.top # 0 => s.depth <= W[n].depth
                                       /\ \A m \in 1 .. n : W[m].depth <= W[n].depth
  <2>1. CASE n \in 1 .. k
    <3>1. \A m \in 1 .. n : m \in 1 .. k
      BY <1>1, <2>1
    <3> QED BY <1>1, <1>2, <2>1, <3>1
  <2>2. CASE n \notin 1 .. k
    <3>1. n \in k + 1 .. k + l /\ n - k \in 1 .. l
      BY <1>1, <2>2
    <3>2. W[n] = B[n - k]
      BY <1>1, <3>1
    <3> QED BY <1>2, <3>1, <3>2
  <2> QED BY <2>1, <2>2
<1> QED BY <1>1, <1>3 DEF WorkTrue, Fine, W

LEMMA PathZero == ext2_block_to_path(0) = <<0>>
<1>1. 0 < NDir /\ ~ (0 >= NDir) /\ ~ (0 - NDir >= Ptrs) /\ ~ (0 - NDir - Ptrs >= Ptrs * Ptrs)
  BY Geometry
<1> QED BY <1>1 DEF ext2_block_to_path

\* Truncate takes truncate_mutex and lists what to empty.
LEMMA BlockTruncateLock ==
  ASSUME BlockInv, Inv', NEW t \in Tasks, TruncateLock(t)
  PROVE  BlockInv'
<1> DEFINE r == task[t]
           path == Path(r)
           off == path[1]
<1>1. /\ r.pc = "truncate" /\ UNCHANGED <<live, used, ptr, i_size, i_mutex, errorVars>>
      /\ truncate_mutex[r.ino] = None /\ truncate_mutex' = [truncate_mutex EXCEPT ![r.ino] = t]
  BY DEF TruncateLock
<1>2. Shape(r) /\ Typed(r) /\ Form(r) /\ Globals /\ DOMAIN task = Tasks
  BY TaskIs
<1>3. /\ r.ino \in Inodes /\ Fits(r.b) /\ r.got = <<>> /\ r.top = 0 /\ r.work = <<>>
      /\ r.op = "evict" => r.b = 0
  BY <1>1, <1>2 DEF Form
<1>4. OwnMutex(t) /\ truncate_mutex'[r.ino] = t
  BY <1>1, <1>2, <1>3 DEF OwnMutex, Globals
<1>5. Globals'
  BY <1>1, <1>2 DEF Globals, errorVars
<1>6. PathOK(path)
  BY <1>3, WalkDepthIs
<1>7. r.b = 0 => path = <<0>>
  BY PathZero DEF Path
<1>8. CASE Len(path) # 1 /\ task' = [task EXCEPT ![t] = BeginWalk(r, "shared")]
  <2> DEFINE q == [r EXCEPT !.walk = "shared", !.chain = <<>>, !.err = "ok"]
             s == BeginWalk(r, "shared")
  <2>1. Agrees(r, q) /\ q.walk = "shared" /\ q.chain = <<>> /\ q.res = r.res
    BY <1>2 DEF Agrees, Shape, Columns
  <2> HIDE DEF q
  <2>2. <<>> \in Seq(Link)
    OBVIOUS
  <2>3. Typed(q)
    BY <1>2, <2>1, <2>2 DEF Typed, Agrees
  <2>8. r.op # "evict"
    BY <1>3, <1>7, <1>8
  <2>4. Bare(q)
    BY <1>3, <2>1, <2>3, <2>8 DEF Bare, Agrees, Walks
  <2>5. Outcome(q, s) /\ (Holding(s) => ChainTrue(s, ptr)) /\ s.ino = r.ino
    BY <1>2, <2>4, BeginWalkOutcome DEF Walks, Globals, q
  <2>6. Moves(t) /\ task'[t] = s
    BY <1>8, OneTaskMoves DEF BlockInv
  <2> HIDE DEF s
  <2>7. Holding(s) => truncate_mutex'[s.ino] = t
    BY <1>4, <2>5
  <2> QED BY <1>1, <1>3, <1>4, <1>5, <2>4, <2>5, <2>6, <2>7, OutcomeStep DEF errorVars
<1>9. CASE Len(path) = 1 /\ task' = [task EXCEPT ![t] =
             [r EXCEPT !.pc = "kill", !.work =
                SlotsFrom(r.ino, off, NDir, 0) \o do_indirects(r.ino, off)]]
  <2> DEFINE A == SlotsFrom(r.ino, off, NDir, 0)
             B == do_indirects(r.ino, off)
             s == [r EXCEPT !.pc = "kill", !.work = A \o B]
  <2>1. off \in 0 .. NDir + 2 /\ off < NDir
    BY <1>6, <1>9, Geometry DEF PathOK, Depth
  <2>2. r.ino \in Hosts /\ NDir \in Nat /\ off \in Nat /\ 0 \in 0 .. 3
    BY <1>3, <2>1, Geometry DEF Hosts
  <2>3. Moves(t) /\ task'[t] = s
    BY <1>9, OneTaskMoves DEF BlockInv
  <2>4. /\ s.pc = "kill" /\ s.work = A \o B /\ s.op = r.op /\ s.ino = r.ino /\ s.b = r.b
        /\ s.chain = r.chain /\ s.got = r.got /\ s.top = r.top /\ s.depth = r.depth
        /\ s.res = r.res
    BY <1>2 DEF Shape, Columns
  <2> HIDE DEF s
  <2> HIDE DEF off
  <2>5. /\ A \in Seq(SlotRecord)
        /\ \A n \in 1 .. Len(A) : /\ A[n].host = r.ino /\ A[n].depth = 0
                                 /\ A[n].off \in Nat /\ off <= A[n].off /\ A[n].off < NDir
        /\ \A o \in Nat : off <= o /\ o < NDir => \E n \in 1 .. Len(A) : A[n].off = o
    <3>1. SlotRange(A, r.ino, off, NDir, 0)
      BY <2>2, SlotsFromIs
    <3> HIDE DEF A
    <3> QED BY <3>1 DEF SlotRange
  <2>6. /\ B \in Seq(SlotRecord)
        /\ \A n \in 1 .. Len(B) : /\ B[n].host = r.ino /\ B[n].depth = Depth(B[n].off)
                                 /\ B[n].off \in 0 .. NDir + 2
        /\ \A o \in NDir .. NDir + 2 : \E n \in 1 .. Len(B) : B[n].off = o
    BY <1>3, <2>1, IndirectsAre
  <2> HIDE DEF A, B
  <2>7. \A n \in 1 .. Len(A) : A[n].off \in 0 .. NDir + 2 /\ A[n].depth = Depth(A[n].off)
    BY <2>5, Geometry DEF Depth
  <2>8. ASSUME NEW lv, NEW file, Labels(lv, file)
        PROVE  WorkTrue(s, Placed, lv, file) /\ s.work \in Seq(SlotRecord)
    <3>1. \A n \in 1 .. Len(A) : Fine(A[n], s.ino, Placed, lv, file) /\ A[n].host \notin Blocks
      BY <1>3, <2>4, <2>5, <2>7, <2>8, InodeFine
    <3>2. \A n \in 1 .. Len(B) : Fine(B[n], s.ino, Placed, lv, file) /\ B[n].host \notin Blocks
      BY <1>3, <2>4, <2>6, <2>8, InodeFine
    <3> QED BY <2>4, <2>5, <2>6, <3>1, <3>2, WorkJoin
  <2>9. \A lv, file : Trees(lv, file) => TaskTrue(s, ptr, Placed, lv, file)
    BY <1>3, <2>4, <2>8 DEF Trees, TaskTrue
  <2>10. s.work \in Seq(SlotRecord)
    BY <2>4, <2>5, <2>6
  <2>11. Form(s) /\ Typed(s)
    BY <1>2, <1>3, <2>4, <2>10 DEF Form, Typed, WithChain
  <2>12. ASSUME r.op = "evict", NEW o \in 0 .. NDir + 2
         PROVE  \E n \in DOMAIN s.work : s.work[n].host = s.ino /\ s.work[n].off = o
    <3> DEFINE k == Len(A)
               l == Len(B)
               W == s.work
    <3>1. off = 0 /\ o \in Nat
      BY <1>3, <1>7, <2>12 DEF off
    <3>2. /\ k \in Nat /\ l \in Nat /\ DOMAIN W = 1 .. k + l
          /\ \A n \in 1 .. k : W[n] = A[n]
          /\ \A n \in k + 1 .. k + l : W[n] = B[n - k]
      BY <2>4, <2>5, <2>6
    <3>3. /\ \A n \in 1 .. k : A[n].host = s.ino
          /\ \A n \in 1 .. l : B[n].host = s.ino
      BY <2>4, <2>5, <2>6
    <3>4. CASE o < NDir
      <4>1. PICK n \in 1 .. k : A[n].off = o
        BY <2>5, <3>1, <3>4
      <4> HIDE DEF k, l, W
      <4>2. n \in 1 .. k + l
        BY <3>2
      <4>3. W[n].host = s.ino /\ W[n].off = o
        BY <3>2, <3>3, <4>1
      <4> QED BY <3>2, <4>2, <4>3 DEF W
    <3>5. CASE ~ (o < NDir)
      <4>0. o \in NDir .. NDir + 2
        BY <3>5, Geometry
      <4>1. PICK n \in 1 .. l : B[n].off = o
        BY <2>6, <4>0
      <4> HIDE DEF k, l, W
      <4>2. k + n \in 1 .. k + l /\ k + n \in k + 1 .. k + l /\ (k + n) - k = n
        BY <3>2
      <4>3. W[k + n].host = s.ino /\ W[k + n].off = o
        BY <3>2, <3>3, <4>1, <4>2
      <4> QED BY <3>2, <4>2, <4>3 DEF W
    <3> QED BY <3>4, <3>5
  <2>13. EmptyOK(s)
    BY <2>4, <2>12 DEF ToDo, EmptyOK
  <2>14. Passes(t)
    BY <1>1, <1>3, <1>4, <1>5, <2>3, <2>4, <2>11, <2>13 DEF Passes, errorVars
  <2> QED BY <2>3, <2>9, <2>14, QuietStep
<1> QED BY <1>8, <1>9 DEF TruncateLock

(* Up to three sequences, one after the other. *)
LEMMA FlattenIs ==
  ASSUME NEW X, NEW f \in Seq(Seq(X)), Len(f) \in 0 .. 3
  PROVE  /\ Len(f) = 0 => FlattenSeq(f) = <<>>
         /\ Len(f) = 1 => FlattenSeq(f) = f[1]
         /\ Len(f) = 2 => FlattenSeq(f) = f[1] \o f[2]
         /\ Len(f) = 3 => FlattenSeq(f) = (f[1] \o f[2]) \o f[3]
<1> DEFINE Cat(x, y) == x \o y
           k == Len(f)
           D == 1 .. k
           F1 == f[1]
           F2 == Cat(F1, f[2])
           F3 == Cat(F2, f[3])
           w == [i \in D |-> IF i = 1 THEN F1 ELSE IF i = 2 THEN F2 ELSE F3]
           Is(g) == g = [i \in D |-> IF i = 1 THEN f[i] ELSE Cat(g[i - 1], f[i])]
           fl == CHOOSE g : Is(g)
<1>1. k = 0 => FlattenSeq(f) = <<>>
  BY DEF FlattenSeq
<1>2. k # 0 => FlattenSeq(f) = fl[k]
  BY DEF FlattenSeq
<1>3. k \in 0 .. 3
  OBVIOUS
<1> HIDE DEF k, Cat
<1>4. Is(w)
  <2>1. \A i \in D : w[i] = IF i = 1 THEN f[i] ELSE Cat(w[i - 1], f[i])
    <3> TAKE i \in D
    <3>1. CASE i = 1
      BY <3>1
    <3>2. CASE i = 2
      BY <1>3, <3>2
    <3>3. CASE i = 3
      BY <1>3, <3>3
    <3> QED BY <1>3, <3>1, <3>2, <3>3
  <2>2. w = [i \in D |-> w[i]]
    OBVIOUS
  <2> HIDE DEF w
  <2> QED BY <2>1, <2>2
<1>5. Is(fl)
  BY <1>4
<1>6. ASSUME NEW g, Is(g)
      PROVE  \A i \in D : g[i] = IF i = 1 THEN f[i] ELSE Cat(g[i - 1], f[i])
  BY <1>6
<1> HIDE DEF Is
<1>7. \A i \in D : fl[i] = IF i = 1 THEN f[i] ELSE Cat(fl[i - 1], f[i])
  BY <1>5, <1>6, Zenon
<1> HIDE DEF fl
<1>8. k >= 1 => fl[1] = f[1]
  BY <1>3, <1>7
<1>9. k >= 2 => fl[2] = Cat(fl[1], f[2])
  BY <1>3, <1>7
<1>10. k >= 3 => fl[3] = Cat(fl[2], f[3])
  BY <1>3, <1>7
<1>11. k = 1 => FlattenSeq(f) = f[1]
  BY <1>2, <1>8
<1>12. k = 2 => FlattenSeq(f) = Cat(f[1], f[2])
  BY <1>2, <1>8, <1>9
<1>13. k = 3 => FlattenSeq(f) = Cat(Cat(f[1], f[2]), f[3])
  BY <1>2, <1>8, <1>9, <1>10
<1> QED BY <1>1, <1>11, <1>12, <1>13, Zenon DEF k, Cat

\* Slots of file i, ordered by their depths, which are between d and e.
Ends(A, i, S, lv, file, d, e) ==
  /\ A \in Seq(SlotRecord)
  /\ \A n \in 1 .. Len(A) :
       /\ Fine(A[n], i, S, lv, file) /\ A[n].depth \in d .. e
       /\ \A m \in 1 .. n : A[m].depth <= A[n].depth

LEMMA EndsJoin ==
  ASSUME NEW A, NEW B, NEW i, NEW S, NEW lv, NEW file,
         NEW c \in Int, NEW d \in Int, NEW e \in Int, c <= d, d <= e,
         Ends(A, i, S, lv, file, c, d), Ends(B, i, S, lv, file, e, e)
  PROVE  Ends(A \o B, i, S, lv, file, c, e)
<1> DEFINE W == A \o B
           k == Len(A)
           l == Len(B)
<1>1. /\ \A n \in 1 .. k : /\ Fine(A[n], i, S, lv, file) /\ A[n].depth \in c .. d
                           /\ \A m \in 1 .. n : A[m].depth <= A[n].depth
      /\ \A n \in 1 .. l : Fine(B[n], i, S, lv, file) /\ B[n].depth = e
  BY DEF Ends
<1>2. A \in Seq(SlotRecord) /\ B \in Seq(SlotRecord)
  BY DEF Ends
<1>3. /\ W \in Seq(SlotRecord) /\ k \in Nat /\ l \in Nat /\ Len(W) = k + l
      /\ \A n \in 1 .. k : W[n] = A[n]
      /\ \A n \in k + 1 .. k + l : W[n] = B[n - k]
  BY <1>2
<1> HIDE DEF W, k, l
<1>4. ASSUME NEW n \in 1 .. Len(W)
      PROVE  /\ Fine(W[n], i, S, lv, file) /\ W[n].depth \in c .. e
             /\ \A m \in 1 .. n : W[m].depth <= W[n].depth
  <2>1. CASE n \in 1 .. k
    BY <1>1, <1>3, <2>1
  <2>2. CASE n \notin 1 .. k
    <3>1. n \in k + 1 .. k + l /\ n - k \in 1 .. l
      BY <1>3, <2>2
    <3>2. W[n] = B[n - k] /\ W[n].depth = e /\ Fine(W[n], i, S, lv, file)
      BY <1>1, <1>3, <3>1
    <3>3. ASSUME NEW m \in 1 .. n
          PROVE  W[m].depth <= e
      <4>1. CASE m \in 1 .. k
        BY <1>1, <1>3, <4>1
      <4>2. CASE m \notin 1 .. k
        BY <1>1, <1>3, <4>2
      <4> QED BY <4>1, <4>2
    <3> QED BY <3>2, <3>3
  <2> QED BY <2>1, <2>2
<1> QED BY <1>3, <1>4 DEF Ends, W

(* The end of an indirect block. *)
LEMMA EndsOne ==
  ASSUME NEW h, h \notin Inodes, h \in Hosts, NEW off \in Nat, NEW d \in 0 .. 3,
         NEW S, NEW lv, NEW file, h \in Indirect(S, lv), lv[h] - 1 = d
  PROVE  Ends(SlotsFrom(h, off, Ptrs, d), file[h], S, lv, file, d, d)
<1> DEFINE A == SlotsFrom(h, off, Ptrs, d)
<1>1. SlotRange(A, h, off, Ptrs, d)
  BY SlotsFromIs, Geometry
<1> HIDE DEF A
<1>2. A \in Seq(SlotRecord) /\ \A n \in 1 .. Len(A) :
        A[n].host = h /\ A[n].depth = d /\ A[n].off \in 0 .. Ptrs - 1
  BY <1>1, Geometry DEF SlotRange
<1>3. \A o \in 0 .. Ptrs - 1 : o \in Slots(h) /\ Below(lv, h, o) = d
  BY DEF Slots, Below
<1>4. \A n \in 1 .. Len(A) : Fine(A[n], file[h], S, lv, file)
  BY <1>2, <1>3 DEF Fine
<1>5. ASSUME NEW n \in 1 .. Len(A)
      PROVE  A[n].depth \in d .. d /\ \A m \in 1 .. n : A[m].depth <= A[n].depth
  BY <1>2
<1> QED BY <1>2, <1>4, <1>5 DEF Ends, A

LEMMA EndsWiden ==
  ASSUME NEW A, NEW i, NEW S, NEW lv, NEW file, NEW c \in Int, NEW d \in Int, NEW e \in Int,
         d <= e, Ends(A, i, S, lv, file, c, d)
  PROVE  Ends(A, i, S, lv, file, c, e)
<1>1. \A x \in c .. d : x \in c .. e
  OBVIOUS
<1> QED BY <1>1 DEF Ends

(* What truncate empties on the branch that it shares with what stays. *)
LEMMA EndsOfSharedAre ==
  ASSUME NEW r, r.ino \in Inodes, Fits(r.b), ChainShape(r), ChainTrue(r, ptr),
         NEW S, S \subseteq Blocks, NEW lv, NEW file, Labels(lv, file),
         NEW R, Tree(ptr, S, lv, file, R), NEW k, k \in 1 .. Len(r.chain), NEW from \in Nat
  PROVE  Ends(EndsOfShared(r, k, from), r.ino, S, lv, file, Len(Path(r)) - k, 3)
<1> DEFINE c == r.chain
           path == Path(r)
           n == Len(path)
           at(j) == IF j = k THEN from ELSE c[j].off + 1
           End(j) == SlotsFrom(c[j].host, at(j), Ptrs, n - j)
           f == [m \in 1 .. k - 1 |-> End(k - m + 1)]
           Good(A, d, e) == Ends(A, r.ino, S, lv, file, d, e)
<1>1. PathOK(path) /\ n \in 1 .. 4
  BY WalkDepthIs DEF PathOK
<1>2. Len(c) \in 1 .. n
  BY DEF ChainShape
<1>3. k \in 1 .. n /\ k \in 1 .. 4
  <2> DEFINE l == Len(c)
  <2>1. l \in 1 .. n /\ k \in 1 .. l
    BY <1>2
  <2> HIDE DEF l, n
  <2> QED BY <1>1, <2>1
<1>4. ChainLeads(r, S, lv, file)
  BY ChainReal
<1>5. ASSUME NEW j \in 2 .. k
      PROVE  Good(End(j), n - j, n - j)
  <2>1. j \in 1 .. Len(c) /\ j - 1 \in 1 .. Len(c) /\ j - 1 \in 1 .. Len(c) - 1 /\ (j - 1) + 1 = j
    BY <1>1, <1>2
  <2>2. c[j - 1].key # 0 /\ c[j].host = c[j - 1].key
    BY <2>1 DEF ChainShape
  <2>3. /\ c[j - 1].key = ptr[c[j - 1].host][c[j - 1].off]
        /\ c[j - 1].host \in Indirect(S, lv) /\ c[j - 1].off \in Slots(c[j - 1].host)
    BY <1>4, <2>1 DEF ChainLeads, ChainTrue
  <2>4. c[j].host \in S
    BY <2>2, <2>3 DEF Tree
  <2>5. c[j].host \notin Inodes /\ c[j].host \in Hosts
    BY <2>4, Ext2BlocksAssumption DEF Hosts
  <2>6. /\ c[j].host \in Indirect(S, lv) /\ file[c[j].host] = r.ino
        /\ Below(lv, c[j].host, c[j].off) = n - j
    BY <1>4, <2>1 DEF ChainLeads
  <2>7. lv[c[j].host] - 1 = n - j
    BY <2>5, <2>6 DEF Below
  <2>8. n - j \in 0 .. 3
    <3> HIDE DEF n
    <3> QED BY <1>1, <1>3
  <2>9. c[j].off \in Nat
    <3>1. c[j].off = path[j]
      BY <2>1 DEF ChainShape
    <3>2. j \in 1 .. n
      BY <1>1, <1>3
    <3> QED BY <1>1, <3>1, <3>2 DEF PathOK
  <2>10. at(j) \in Nat
    BY <2>9
  <2> DEFINE h == c[j].host
             o == at(j)
             d == n - j
  <2>11. h \notin Inodes /\ h \in Hosts /\ o \in Nat /\ d \in 0 .. 3 /\ h \in Indirect(S, lv)
         /\ lv[h] - 1 = d /\ file[h] = r.ino
    BY <2>5, <2>6, <2>7, <2>8, <2>10
  <2>12. End(j) = SlotsFrom(h, o, Ptrs, d)
    OBVIOUS
  <2> HIDE DEF h, o, d, at
  <2>13. Ends(SlotsFrom(h, o, Ptrs, d), file[h], S, lv, file, d, d)
    BY <2>11, EndsOne
  <2> QED BY <2>11, <2>12, <2>13 DEF d
<1>6. EndsOfShared(r, k, from) = FlattenSeq(f)
  BY DEF EndsOfShared
<1>7. \A j \in 2 .. k : End(j) \in Seq(SlotRecord)
  BY <1>5 DEF Ends
<1> HIDE DEF End, n, Good
<1>8. /\ f \in Seq(Seq(SlotRecord)) /\ Len(f) = k - 1
      /\ \A m \in 1 .. k - 1 : f[m] = End(k - m + 1)
  BY <1>3, <1>7
<1> HIDE DEF f
<1>9. /\ k = 1 => FlattenSeq(f) = <<>>
      /\ k = 2 => FlattenSeq(f) = f[1]
      /\ k = 3 => FlattenSeq(f) = f[1] \o f[2]
      /\ k = 4 => FlattenSeq(f) = (f[1] \o f[2]) \o f[3]
  <2>1. Len(f) \in 0 .. 3
    BY <1>3, <1>8
  <2>2. /\ k = 1 => Len(f) = 0
        /\ k = 2 => Len(f) = 1
        /\ k = 3 => Len(f) = 2
        /\ k = 4 => Len(f) = 3
    BY <1>8
  <2>3. f \in Seq(Seq(SlotRecord))
    BY <1>8
  <2>4. /\ Len(f) = 0 => FlattenSeq(f) = <<>>
        /\ Len(f) = 1 => FlattenSeq(f) = f[1]
        /\ Len(f) = 2 => FlattenSeq(f) = f[1] \o f[2]
        /\ Len(f) = 3 => FlattenSeq(f) = (f[1] \o f[2]) \o f[3]
    BY <2>1, <2>3, FlattenIs
  <2> QED BY <2>2, <2>4, Zenon
<1>10. Good(FlattenSeq(f), n - k, 3)
  <2>1. CASE k = 1
    BY <1>9, <2>1 DEF Ends, Good
  <2>2. CASE k = 2
    BY <1>1, <1>5, <1>8, <1>9, <2>2, EndsWiden DEF Good
  <2>3. CASE k = 3
    <3>1. /\ f[1] = End(3) /\ Good(End(3), n - 3, n - 3)
          /\ f[2] = End(2) /\ Good(End(2), n - 2, n - 2)
      BY <1>1, <1>5, <1>8, <2>3
    <3>2. n - 2 \in Int /\ n - 3 \in Int /\ n - 3 <= n - 3 /\ n - 3 <= n - 2 /\ n - 2 <= 3
      BY <1>1
    <3>3. Good(End(3) \o End(2), n - 3, n - 2)
      BY <3>1, <3>2, EndsJoin DEF Good
    <3>4. Good(End(3) \o End(2), n - 3, 3)
      BY <3>2, <3>3, EndsWiden DEF Good
    <3>5. FlattenSeq(f) = End(3) \o End(2)
      BY <1>9, <2>3, <3>1
    <3> QED BY <2>3, <3>4, <3>5
  <2>4. CASE k = 4
    <3>1. /\ f[1] = End(4) /\ Good(End(4), n - 4, n - 4)
          /\ f[2] = End(3) /\ Good(End(3), n - 3, n - 3)
          /\ f[3] = End(2) /\ Good(End(2), n - 2, n - 2)
      BY <1>1, <1>5, <1>8, <2>4
    <3>2. /\ n - 2 \in Int /\ n - 3 \in Int /\ n - 4 \in Int /\ n - 4 <= n - 4
          /\ n - 4 <= n - 3 /\ n - 3 <= n - 2 /\ n - 2 <= 3
      BY <1>1
    <3>3. Good(End(4) \o End(3), n - 4, n - 3)
      BY <3>1, <3>2, EndsJoin DEF Good
    <3>4. Good((End(4) \o End(3)) \o End(2), n - 4, n - 2)
      BY <3>1, <3>2, <3>3, EndsJoin DEF Good
    <3>5. Good((End(4) \o End(3)) \o End(2), n - 4, 3)
      BY <3>2, <3>4, EndsWiden DEF Good
    <3>6. FlattenSeq(f) = (End(4) \o End(3)) \o End(2)
      BY <1>9, <2>4, <3>1
    <3> QED BY <2>4, <3>5, <3>6
  <2> QED BY <1>3, <2>1, <2>2, <2>3, <2>4
<1> QED BY <1>6, <1>10 DEF Good, n

LEMMA SurvivorIs ==
  ASSUME NEW chain, Len(chain) \in 1 .. 4, DOMAIN chain = 1 .. Len(chain)
  PROVE  Survivor(chain) \in 1 .. Len(chain)
<1> DEFINE n == Len(chain)
           Z == {j \in 1 .. n : all_zeroes(chain[j].host, chain[j].off)}
<1>1. n \in 1 .. 4
  OBVIOUS
<1>2. PICK k \in 1 .. n : (k = 1 \/ k \notin Z) /\ \A j \in k + 1 .. n : j \in Z
  BY <1>1, LastOne
<1>3. k = 1 \/ ~all_zeroes(chain[k].host, chain[k].off)
  BY <1>2
<1>4. \A j \in k + 1 .. n : all_zeroes(chain[j].host, chain[j].off)
  BY <1>2
<1>5. \E m \in DOMAIN chain :
        /\ m = 1 \/ ~all_zeroes(chain[m].host, chain[m].off)
        /\ \A j \in m + 1 .. Len(chain) : all_zeroes(chain[j].host, chain[j].off)
  BY <1>3, <1>4
<1> QED BY <1>5 DEF Survivor

\* ext2_find_shared takes a branch off above the first block to keep.
LEMMA BlockDetach ==
  ASSUME BlockInv, Inv', NEW t \in Tasks, Detach(t)
  PROVE  BlockInv'
<1> DEFINE r == task[t]
           path == Path(r)
           n == Len(path)
           k == Survivor(r.chain)
           link == r.chain[k]
           h0 == link.host
           o0 == link.off
           i == r.ino
           ours == k = Len(r.chain) /\ k = SharedDepth(path) /\ k > 1
           from == IF ours THEN o0 ELSE o0 + 1
           A == EndsOfShared(r, k, from)
           B == do_indirects(i, path[1])
           s == [r EXCEPT !.pc = "kill", !.chain = <<>>,
                          !.top = IF ours THEN 0 ELSE ptr[h0][o0],
                          !.depth = IF ours THEN 0 ELSE n - k,
                          !.work = A \o B]
<1>1. /\ r.pc = "detach"
      /\ UNCHANGED <<live, used, i_size, i_mutex, truncate_mutex, errorVars>>
  BY DEF Detach
<1>2. /\ Shape(r) /\ Typed(r) /\ Form(r) /\ Globals /\ DOMAIN task = Tasks /\ Holding(r)
      /\ Holding(r) => truncate_mutex[r.ino] = t
  BY <1>1, TaskIs DEF Holding
<1>3. /\ r.ino \in Inodes /\ r.got = <<>> /\ r.top = 0 /\ r.work = <<>> /\ Fits(r.b)
      /\ r.op # "evict" /\ ChainShape(r)
  BY <1>1, <1>2 DEF Form, WithChain
<1>4. PICK lv, file : Trees(lv, file)
  BY DEF BlockInv
<1>5. /\ Labels(lv, file) /\ Tree(ptr, Placed, lv, file, Tops) /\ Placed \subseteq Blocks
  BY <1>4, PlacedAre DEF Trees, BlockInv
<1>6. ChainTrue(r, ptr)
  BY <1>1, <1>2, <1>4 DEF Trees, TaskTrue
<1>7. PathOK(path) /\ n \in 1 .. 4 /\ Len(r.chain) \in 1 .. n
  BY <1>3, WalkDepthIs DEF PathOK, ChainShape
<1>8. Len(r.chain) \in 1 .. 4
  <2> DEFINE l == Len(r.chain)
  <2>1. l \in 1 .. n
    BY <1>7
  <2> HIDE DEF l, n
  <2>2. l \in 1 .. 4
    BY <1>7, <2>1
  <2> QED BY <2>2 DEF l
<1>9. DOMAIN r.chain = 1 .. Len(r.chain)
  BY <1>2 DEF Typed
<1>10. k \in 1 .. Len(r.chain)
  BY <1>8, <1>9, SurvivorIs
<1>11. ~ (Partial(r).key = 0 /\ ptr[Partial(r).host][Partial(r).off] # 0)
  <2>1. Partial(r) = r.chain[Len(r.chain)]
    BY DEF Partial, Last
  <2>2. Len(r.chain) \in 1 .. Len(r.chain)
    <3> DEFINE l == Len(r.chain)
    <3>1. l \in 1 .. 4
      BY <1>8
    <3> HIDE DEF l
    <3>2. l \in 1 .. l
      BY <3>1
    <3> QED BY <3>2 DEF l
  <2> QED BY <1>6, <2>1, <2>2 DEF ChainTrue
<1>12. task' = [task EXCEPT ![t] = s] /\ (ptr' = IF ours THEN ptr ELSE [ptr EXCEPT ![h0][o0] = 0])
  BY <1>11, Zenon DEF Detach
<1>13. ChainLeads(r, Placed, lv, file)
  BY <1>3, <1>5, <1>6, ChainReal
<1> HIDE DEF k
<1>14. /\ h0 \in Indirect(Placed, lv) /\ o0 \in Slots(h0) /\ file[h0] = i
       /\ Below(lv, h0, o0) = n - k
  BY <1>10, <1>13 DEF ChainLeads
<1>15. n - k \in 0 .. 3
  <2> DEFINE l == Len(r.chain)
  <2>1. l \in 1 .. n /\ k \in 1 .. l
    BY <1>7, <1>10
  <2> HIDE DEF l, n
  <2> QED BY <1>7, <2>1
<1>16. o0 \in Nat
  BY <1>14, Geometry DEF Slots
<1>17. from \in Nat
  BY <1>16
<1> HIDE DEF from
<1>18. Ends(A, i, Placed, lv, file, n - k, 3)
  BY <1>3, <1>5, <1>6, <1>10, <1>17, EndsOfSharedAre
<1>19. /\ B \in Seq(SlotRecord)
       /\ \A m \in 1 .. Len(B) : /\ B[m].host = i /\ B[m].depth = Depth(B[m].off)
                                /\ B[m].off \in 0 .. NDir + 2
  <2>1. path[1] \in 0 .. NDir + 2
    BY <1>7 DEF PathOK
  <2> QED BY <1>3, <2>1, IndirectsAre
<1>20. /\ s.pc = "kill" /\ s.chain = <<>> /\ s.top = (IF ours THEN 0 ELSE ptr[h0][o0])
       /\ s.depth = (IF ours THEN 0 ELSE n - k) /\ s.work = A \o B /\ s.op = r.op
       /\ s.ino = i /\ s.b = r.b /\ s.got = r.got /\ s.res = r.res
  BY <1>2 DEF Shape, Columns
<1>21. Moves(t) /\ task'[t] = s
  BY <1>12, OneTaskMoves DEF BlockInv
<1> HIDE DEF s, A, B, ours, h0, o0, n
<1>22. WorkTrue(s, Placed, lv, file) /\ s.work \in Seq(SlotRecord)
  <2>1. ASSUME NEW m \in 1 .. Len(A)
        PROVE  /\ Fine(A[m], s.ino, Placed, lv, file)
               /\ A[m].host \in Blocks => /\ s.top # 0 => s.depth <= A[m].depth
                                         /\ \A l \in 1 .. m : A[l].depth <= A[m].depth
    BY <1>15, <1>18, <1>20 DEF Ends
  <2>2. ASSUME NEW m \in 1 .. Len(B)
        PROVE  Fine(B[m], s.ino, Placed, lv, file) /\ B[m].host \notin Blocks
    BY <1>3, <1>5, <1>19, <1>20, InodeFine
  <2>3. A \in Seq(SlotRecord) /\ B \in Seq(SlotRecord) /\ s.work = A \o B
    BY <1>18, <1>19, <1>20 DEF Ends
  <2> QED BY <2>1, <2>2, <2>3, WorkJoin
<1>23. ptr[h0][o0] \in Blocks \cup {0}
  BY <1>5, <1>14 DEF Tree
<1>24. Typed(s)
  BY <1>2, <1>15, <1>20, <1>23 DEF Typed
<1>25. Form(s)
  BY <1>3, <1>20, <1>22 DEF Form, WithChain
<1>26. EmptyOK(s) /\ EmptyOK(task[t])'
  BY <1>3, <1>20, <1>21 DEF EmptyOK
<1>27. CASE ours
  <2>1. ptr' = ptr /\ s.top = 0
    BY <1>12, <1>20, <1>27
  <2>2. Globals' /\ OwnMutex(t)
    BY <1>1, <1>2, <2>1, KeepsMutex DEF Globals, errorVars
  <2>3. truncate_mutex'[s.ino] = t
    BY <1>1, <1>2, <1>20
  <2>5. HandInv' /\ EmptyInv' /\ (\E l, f : Trees(l, f))'
    <3>1. Placed' = Placed /\ Tops' = Tops
      BY <1>1, <1>3, <1>20, <1>21, <2>1 DEF Moves, Placed, InHand, Tops, errorVars
    <3>2. TaskTrue(s, ptr, Placed, lv, file)
      BY <1>20, <1>22, <2>1 DEF TaskTrue
    <3>3. \A u \in Tasks : TaskTrue(task'[u], ptr', Placed', lv, file)
      BY <1>4, <1>21, <2>1, <3>1, <3>2 DEF Trees, Moves
    <3>4. Trees(lv, file)'
      BY <1>5, <2>1, <3>1, <3>3 DEF Trees
    <3>5. \A u \in Tasks : task'[u].got = task[u].got
      BY <1>3, <1>20, <1>21 DEF Moves
    <3>6. HandInv'
      BY <1>1, <3>5 DEF HandInv, BlockInv, errorVars
    <3>7. EmptyInv'
      <4>1. \A j \in Inodes \ live' : NoBlocks(j)'
        BY <1>1, <2>1 DEF BlockInv, EmptyInv, NoBlocks
      <4> QED BY <1>2, <1>21, <1>26, <2>1, <4>1, Alone, EmptyStep, ZenonT(30)
    <3> QED BY <3>4, <3>6, <3>7
  <2> QED BY <1>21, <1>24, <1>25, <2>2, <2>3, <2>5, Combine
<1>28. CASE ~ours
  <2>1. /\ ptr' = [ptr EXCEPT ![h0][o0] = 0]
        /\ s.top = ptr[h0][o0] /\ s.depth = Below(lv, h0, o0)
    BY <1>12, <1>14, <1>20, <1>28
  <2> QED
    BY <1>1, <1>2, <1>3, <1>4, <1>12, <1>14, <1>20, <1>22, <1>24, <1>25, <1>26, <2>1, TakeOff, ZenonT(30)
<1> QED BY <1>27, <1>28

----------------------------------------
(* The theorems *)

\* At first no file has blocks.
LEMMA BlockInit == Init => BlockInv
<1> SUFFICES ASSUME Init
             PROVE  BlockInv
  OBVIOUS
<1>1. /\ live = Inodes /\ used = {} /\ lost = {} /\ DOMAIN task = Tasks
      /\ \A t \in Tasks : task[t] = Idle
  BY DEF Init
<1>2. Typed(Idle) /\ Form(Idle) /\ ~Holding(Idle) /\ EmptyOK(Idle)
      /\ Idle.top = 0 /\ Idle.work = <<>> /\ Idle.got = <<>>
  BY IdleIs
<1>3. Globals
  BY Ext2BlocksAssumption DEF NoPointers, Unknown, Init, Globals
<1>4. TypeOK
  BY <1>1, <1>2, <1>3, TypeOKIs
<1>5. FormInv /\ MutexInv
  BY <1>1, <1>2 DEF FormInv, MutexInv
<1>6. ToSet(Idle.got) = {}
  BY <1>2 DEF ToSet
<1>7. HandInv
  BY <1>1, <1>2, <1>6 DEF HandInv
<1>8. EmptyInv
  BY <1>1, <1>2 DEF EmptyInv, EmptyOK
<1>9. Placed = {} /\ Tops = {}
  BY <1>1, <1>2 DEF Placed, Tops
<1> DEFINE lv == [h \in Hosts |-> IF h \in Inodes THEN 4 ELSE 0]
           file == [h \in Hosts |-> IF h \in Inodes THEN h ELSE None]
<1>10. Labels(lv, file)
  BY Ext2BlocksAssumption DEF Labels, Hosts
<1>11. \A h \in Inodes : \A o \in Slots(h) : ptr[h][o] = 0
  BY SlotOffsets DEF Init, Hosts, NoPointers
<1> HIDE DEF lv, file
<1>12. Indirect({}, lv) \subseteq Inodes
  BY DEF Indirect
<1>13. Tree(ptr, {}, lv, file, {})
  BY <1>11, <1>12 DEF Tree
<1>14. \A t \in Tasks : TaskTrue(task[t], ptr, Placed, lv, file)
  BY <1>1, <1>2, EasyTrue
<1>15. Trees(lv, file)
  BY <1>9, <1>10, <1>13, <1>14 DEF Trees
<1>16. Inv
  BY InvInit
<1> QED BY <1>4, <1>5, <1>7, <1>8, <1>15, <1>16 DEF BlockInv

LEMMA BlockStep ==
  ASSUME BlockInv, Inv', NEW t \in Tasks, Step(t)
  PROVE  BlockInv'
<1>1. CASE WalkVerify(t)
  BY <1>1, BlockWalkVerify
<1>2. CASE WalkAdd(t)
  BY <1>2, BlockWalkAdd
<1>3. CASE LockAndVerify(t)
  BY <1>3, BlockLockAndVerify
<1>4. CASE Search(t)
  BY <1>4, BlockSearch
<1>5. CASE NoSpace(t)
  BY <1>5, BlockNoSpace
<1>6. CASE Claim(t)
  BY <1>6, BlockSearch, BlockClaim
<1>7. CASE Splice(t)
  BY <1>7, BlockSplice
<1>8. CASE PageEnd(t) \/ WriteEnd(t) \/ WriteFailed(t)
  BY <1>8, BlockPageEnd
<1>9. CASE TruncateLock(t)
  BY <1>9, BlockTruncateLock
<1>18. CASE WriteBegin(t)
  BY <1>18, BlockPageStart, TaskIs DEF WriteBegin, Form
<1>10. CASE Detach(t)
  BY <1>10, BlockDetach
<1>11. CASE Kill(t)
  BY <1>11, BlockKill
<1>12. CASE FreeBranch(t)
  BY <1>12, BlockFreeBranch
<1>13. CASE TruncateEnd(t)
  BY <1>13, BlockTruncateEnd
<1>14. CASE ClaimInode(t)
  BY <1>14, BlockClaimInode
<1>15. CASE LoseInode(t)
  BY <1>15, BlockLook
<1>16. CASE InitInode(t)
  BY <1>16, BlockInitInode
<1>17. CASE FreeInode(t)
  BY <1>17, BlockFreeInode
<1> QED
  BY <1>1, <1>2, <1>3, <1>4, <1>5, <1>6, <1>7, <1>8, <1>9, <1>10, <1>11, <1>12, <1>13,
     <1>14, <1>15, <1>16, <1>17, <1>18 DEF Step

LEMMA BlockStart ==
  ASSUME BlockInv, Inv', NEW t \in Tasks, Start(t)
  PROVE  BlockInv'
<1>1. PICK i \in Inodes :
        \/ \E b \in FileBlocks[i] : \/ StartPage(t, "readpage", i, b)
                                    \/ StartPage(t, "writepage", i, b)
                                    \/ StartWrite(t, i, b)
        \/ \E size \in Sizes[i] : StartTruncate(t, i, size)
        \/ StartEvict(t, i)
  BY DEF Start
<1>2. ASSUME NEW b \in FileBlocks[i],
             StartPage(t, "readpage", i, b) \/ StartPage(t, "writepage", i, b)
      PROVE  BlockInv'
  BY <1>2, BlockPageStart, FileFits
<1>3. ASSUME NEW b \in FileBlocks[i] \cup Sizes[i], StartTruncate(t, i, b) \/ StartWrite(t, i, b)
      PROVE  BlockInv'
  BY <1>3, BlockStartTruncate
<1>4. CASE StartEvict(t, i)
  BY <1>4, BlockStartEvict
<1> QED BY <1>1, <1>2, <1>3, <1>4

LEMMA BlockStutter ==
  ASSUME BlockInv, Inv', UNCHANGED vars
  PROVE  BlockInv'
<1>1. UNCHANGED <<live, used, ptr, i_size, i_mutex, truncate_mutex, task, errors, lost, cut>>
  BY DEF vars, errorVars
<1>2. TypeOK'
  BY <1>1 DEF BlockInv, TypeOK
<1>3. FormInv' /\ MutexInv'
  BY <1>1 DEF BlockInv, FormInv, MutexInv
<1>4. HandInv'
  BY <1>1 DEF BlockInv, HandInv
<1>5. EmptyInv'
  BY <1>1 DEF BlockInv, EmptyInv, NoBlocks, ToDo
<1>6. PICK lv, file : Trees(lv, file)
  BY DEF BlockInv
<1>7. Placed' = Placed /\ Tops' = Tops
  BY <1>1 DEF Placed, InHand, Tops
<1>8. Trees(lv, file)'
  BY <1>1, <1>6, <1>7 DEF Trees
<1> QED BY <1>2, <1>3, <1>4, <1>5, <1>8 DEF BlockInv

\* Every step keeps the invariant.
LEMMA BlockNext == BlockInv /\ [Next]_vars => BlockInv'
<1> SUFFICES ASSUME BlockInv, [Next]_vars
             PROVE  BlockInv'
  OBVIOUS
<1>1. Inv'
  BY InvNext DEF BlockInv
<1>2. CASE UNCHANGED vars
  BY <1>1, <1>2, BlockStutter
<1>3. CASE Next
  BY <1>1, <1>3, BlockLook, BlockStart, BlockStep DEF Next
<1> QED BY <1>2, <1>3

(* The pointers make trees of the blocks, whatever the tasks do at the *)
(* same time (fs/ext2/inode.c). *)
THEOREM BlocksInv == Spec => []BlockInv
<1>1. Init => BlockInv
  BY BlockInit
<1>2. BlockInv /\ [Next]_vars => BlockInv'
  BY BlockNext
<1> QED BY <1>1, <1>2, PTL DEF Spec

(* Types: whatever is allocated or detached in order to be freed is a *)
(* block of the file system, and blocks given up after a read error stay *)
(* allocated (fs/ext2/inode.c). *)
THEOREM TypeCorrect == Spec => []TypeOK
<1>1. BlockInv => TypeOK
  BY DEF BlockInv
<1> QED BY <1>1, BlocksInv, PTL

(* No block belongs to two files, or twice to one, and none that is free, *)
(* or that a task is adding or freeing, is in a file (fs/ext2/inode.c, *)
(* fs/ext2/balloc.c:724). *)
THEOREM BlocksNotShared == Spec => []NoBlockShared
<1>1. BlockInv => NoBlockShared
  BY InvShared
<1> QED BY <1>1, BlocksInv, PTL

(* No block is lost: every bit that is set is in a file, in some task's *)
(* hands, or given up after a read error (fs/ext2/inode.c:439, 1099-1123). *)
THEOREM BlocksNotLeaked == Spec => []NoBlockLeaked
<1>1. BlockInv => NoBlockLeaked
  BY InvLeaked
<1> QED BY <1>1, BlocksInv, PTL

----------------------------------------
(* Paths in the order of the blocks they lead to *)

LEMMA DivIs ==
  ASSUME NEW x \in Nat, NEW m \in Nat \ {0}
  PROVE  /\ x \div m \in Nat /\ x % m \in Nat /\ x % m < m
         /\ x = m * (x \div m) + (x % m)
<1> DEFINE q == x \div m
           s == x % m
<1>1. q \in Nat /\ s \in Nat /\ s < m /\ x = m * q + s
  OBVIOUS
<1> QED BY <1>1

\* Quotient and remainder are unique.
LEMMA DivUnique ==
  ASSUME NEW m \in Nat \ {0}, NEW q \in Nat, NEW s \in Nat, s < m,
         NEW x \in Nat, x = m * q + s
  PROVE  x \div m = q
<1> DEFINE d == x \div m
           e == x % m
<1>1. d \in Nat /\ e \in Nat /\ e < m /\ x = m * d + e
  BY DivIs
<1> HIDE DEF d, e
<1>2. m * q \in Nat /\ m * d \in Nat
  BY <1>1
<1>3. ASSUME d < q
      PROVE  FALSE
  BY <1>1, <1>2, <1>3
<1>4. ASSUME q < d
      PROVE  FALSE
  BY <1>1, <1>2, <1>4
<1> QED BY <1>1, <1>3, <1>4 DEF d

\* Numbers of two digits are ordered by the first one, then by the second.
LEMMA DivLess ==
  ASSUME NEW m \in Nat \ {0}, NEW x \in Nat, NEW y \in Nat, x < y
  PROVE  \/ x \div m < y \div m
         \/ x \div m = y \div m /\ x % m < y % m
<1> DEFINE d == x \div m
           e == x % m
           f == y \div m
           g == y % m
<1>1. d \in Nat /\ e \in Nat /\ e < m /\ x = m * d + e
  BY DivIs
<1>2. f \in Nat /\ g \in Nat /\ g < m /\ y = m * f + g
  BY DivIs
<1> HIDE DEF d, e, f, g
<1>3. m * d \in Nat /\ m * f \in Nat
  BY <1>1, <1>2
<1>4. ASSUME f < d
      PROVE  FALSE
  BY <1>1, <1>2, <1>3, <1>4
<1>5. ASSUME d = f
      PROVE  e < g
  BY <1>1, <1>2, <1>3, <1>5
<1> QED BY <1>1, <1>2, <1>4, <1>5 DEF d, e, f, g

LEMMA DivDiv ==
  ASSUME NEW m \in Nat \ {0}, NEW x \in Nat
  PROVE  x \div (m * m) = (x \div m) \div m
<1> DEFINE u == x \div m
           s == x % m
           v == u \div m
           w == u % m
<1>1. u \in Nat /\ s \in Nat /\ s < m /\ x = m * u + s
  BY DivIs
<1> HIDE DEF u, s
<1>2. v \in Nat /\ w \in Nat /\ w < m /\ u = m * v + w
  BY <1>1, DivIs
<1> HIDE DEF v, w
<1>3. m * m \in Nat \ {0} /\ m * w \in Nat
  BY <1>2
<1>4. m * (w + 1) <= m * m /\ m * (w + 1) = m * w + m
  BY <1>2
<1>5. m * w + s \in Nat /\ m * w + s < m * m
  BY <1>1, <1>3, <1>4
<1>6. m * u = m * (m * v) + m * w
  BY <1>1, <1>2
<1>7. m * (m * v) = (m * m) * v
  BY <1>2
<1>8. x = (m * m) * v + (m * w + s)
  BY <1>1, <1>2, <1>3, <1>6, <1>7
<1> HIDE DEF u
<1>9. x \div (m * m) = v
  BY <1>2, <1>3, <1>5, <1>8, DivUnique
<1> QED BY <1>9 DEF v, u

(* The four forms of a path. *)
LEMMA PathForms ==
  ASSUME NEW b, Fits(b), NEW path, path = ext2_block_to_path(b)
  PROVE  LET x == b - NDir - Ptrs
             y == x - Ptrs * Ptrs
         IN \/ b < NDir /\ path = <<b>>
            \/ b >= NDir /\ b < NDir + Ptrs /\ path = <<NDir, b - NDir>>
            \/ x >= 0 /\ x < Ptrs * Ptrs /\ path = <<NDir + 1, x \div Ptrs, x % Ptrs>>
            \/ y >= 0 /\ path = <<NDir + 2, (y \div Ptrs) \div Ptrs,
                                  (y \div Ptrs) % Ptrs, y % Ptrs>>
<1> DEFINE ind == b - NDir
           dind == ind - Ptrs
           sq == Ptrs * Ptrs
           tind == dind - sq
<1>0. b \in Nat /\ sq \in Nat /\ sq > 0
  BY Geometry DEF Fits
<1>1. CASE b < NDir
  <2>0. ~ (b >= NDir) /\ ~ (ind >= Ptrs) /\ ~ (dind >= sq)
    BY <1>0, <1>1, Geometry
  <2>1. ext2_block_to_path(b) = <<b>>
    BY <1>1, <2>0 DEF ext2_block_to_path
  <2> QED BY <1>1, <2>1
<1>2. CASE b >= NDir /\ ind < Ptrs
  <2>0. ~ (b < NDir) /\ ~ (ind >= Ptrs) /\ ~ (dind >= sq)
    BY <1>0, <1>2, Geometry
  <2>1. ext2_block_to_path(b) = <<NDir, ind>>
    BY <1>2, <2>0 DEF ext2_block_to_path, EXT2_IND_BLOCK
  <2>2. b < NDir + Ptrs
    BY <1>0, <1>2, Geometry
  <2> QED BY <1>2, <2>1, <2>2
<1>3. CASE ind >= Ptrs /\ dind < sq
  <2>0. ~ (b < NDir) /\ ~ (ind < Ptrs) /\ ~ (dind >= sq)
    BY <1>0, <1>3, Geometry
  <2>1. ext2_block_to_path(b) = <<NDir + 1, dind \div Ptrs, dind % Ptrs>>
    BY <1>3, <2>0 DEF ext2_block_to_path, EXT2_IND_BLOCK
  <2>2. dind >= 0
    BY <1>0, <1>3, Geometry
  <2> QED BY <1>3, <2>1, <2>2
<1>4. CASE dind >= sq /\ tind \div sq < Ptrs
  BY <1>0, <1>4, Geometry, DivDiv DEF ext2_block_to_path, EXT2_IND_BLOCK
<1> QED BY <1>0, <1>1, <1>2, <1>3, <1>4, Geometry DEF ext2_block_to_path, Fits

\* Up to j, a and b take the same way.
Parts(a, b, j) ==
  LET p == ext2_block_to_path(a)
      q == ext2_block_to_path(b)
  IN /\ j \in 1 .. Len(p) /\ j \in 1 .. Len(q)
     /\ \A m \in 1 .. j - 1 : p[m] = q[m]

(* The paths of two blocks part at an offset that is smaller for the *)
(* smaller block. *)
LEMMA PathLess ==
  ASSUME NEW a, Fits(a), NEW b, Fits(b), a < b
  PROVE  \E j \in 1 .. 4 : /\ Parts(a, b, j)
                           /\ ext2_block_to_path(a)[j] < ext2_block_to_path(b)[j]
<1> DEFINE p == ext2_block_to_path(a)
           q == ext2_block_to_path(b)
           sq == Ptrs * Ptrs
           xa == a - NDir - Ptrs
           xb == b - NDir - Ptrs
           ya == xa - sq
           yb == xb - sq
<1>0. a \in Nat /\ b \in Nat /\ sq \in Nat
  BY Geometry DEF Fits
<1>1. \/ a < NDir /\ p = <<a>>
      \/ a >= NDir /\ a < NDir + Ptrs /\ p = <<NDir, a - NDir>>
      \/ xa >= 0 /\ xa < sq /\ p = <<NDir + 1, xa \div Ptrs, xa % Ptrs>>
      \/ ya >= 0 /\ p = <<NDir + 2, (ya \div Ptrs) \div Ptrs, (ya \div Ptrs) % Ptrs, ya % Ptrs>>
  BY PathForms
<1>2. \/ b < NDir /\ q = <<b>>
      \/ b >= NDir /\ b < NDir + Ptrs /\ q = <<NDir, b - NDir>>
      \/ xb >= 0 /\ xb < sq /\ q = <<NDir + 1, xb \div Ptrs, xb % Ptrs>>
      \/ yb >= 0 /\ q = <<NDir + 2, (yb \div Ptrs) \div Ptrs, (yb \div Ptrs) % Ptrs, yb % Ptrs>>
  BY PathForms
<1>3. PathOK(p) /\ PathOK(q)
  BY PathIs
<1>4. CASE p[1] # q[1]
  <2>1. p[1] < q[1]
    BY <1>0, <1>1, <1>2, <1>4, Geometry
  <2> QED BY <1>3, <2>1, SMTT(30) DEF PathOK, Parts
<1>5. CASE p[1] = q[1]
  <2>1. CASE a < NDir /\ p = <<a>>
    BY <1>0, <1>2, <1>5, <2>1, Geometry
  <2>2. CASE a >= NDir /\ a < NDir + Ptrs /\ p = <<NDir, a - NDir>>
    BY <1>0, <1>2, <1>5, <2>2, Geometry DEF Parts
  <2>3. CASE xa >= 0 /\ xa < sq /\ p = <<NDir + 1, xa \div Ptrs, xa % Ptrs>>
    <3>1. q = <<NDir + 1, xb \div Ptrs, xb % Ptrs>>
      BY <1>0, <1>2, <1>5, <2>3, Geometry
    <3>2. xa \in Nat /\ xb \in Nat /\ xa < xb
      BY <1>0, <2>3, Geometry
    <3>3. xa \div Ptrs < xb \div Ptrs \/ (xa \div Ptrs = xb \div Ptrs /\ xa % Ptrs < xb % Ptrs)
      BY <3>2, DivLess, Geometry
    <3> HIDE DEF xa, xb
    <3>4. CASE xa \div Ptrs < xb \div Ptrs
      BY <2>3, <3>1, <3>4 DEF Parts
    <3>5. CASE xa \div Ptrs = xb \div Ptrs /\ xa % Ptrs < xb % Ptrs
      BY <2>3, <3>1, <3>5 DEF Parts
    <3> QED BY <3>3, <3>4, <3>5
  <2>4. CASE ya >= 0 /\ p = <<NDir + 2, (ya \div Ptrs) \div Ptrs, (ya \div Ptrs) % Ptrs, ya % Ptrs>>
    <3>1. q = <<NDir + 2, (yb \div Ptrs) \div Ptrs, (yb \div Ptrs) % Ptrs, yb % Ptrs>>
      BY <1>0, <1>2, <1>5, <2>4, Geometry
    <3>2. ya \in Nat /\ yb \in Nat /\ ya < yb
      BY <1>0, <2>4, Geometry
    <3> HIDE DEF ya, yb
    <3> DEFINE ua == ya \div Ptrs
               ub == yb \div Ptrs
    <3>3. ua < ub \/ (ua = ub /\ ya % Ptrs < yb % Ptrs)
      BY <3>2, DivLess, Geometry
    <3>4. ua \in Nat /\ ub \in Nat
      BY <3>2, DivIs, Geometry
    <3> HIDE DEF ua, ub
    <3>5. p = <<NDir + 2, ua \div Ptrs, ua % Ptrs, ya % Ptrs>>
          /\ q = <<NDir + 2, ub \div Ptrs, ub % Ptrs, yb % Ptrs>>
      BY <2>4, <3>1 DEF ua, ub
    <3> HIDE DEF p, q
    <3>6. CASE ua < ub
      <4>1. ua \div Ptrs < ub \div Ptrs \/ (ua \div Ptrs = ub \div Ptrs /\ ua % Ptrs < ub % Ptrs)
        BY <3>4, <3>6, DivLess, Geometry
      <4>2. CASE ua \div Ptrs < ub \div Ptrs
        BY <3>5, <4>2 DEF Parts, p, q
      <4>3. CASE ua \div Ptrs = ub \div Ptrs /\ ua % Ptrs < ub % Ptrs
        BY <3>5, <4>3 DEF Parts, p, q
      <4> QED BY <4>1, <4>2, <4>3
    <3>7. CASE ua = ub /\ ya % Ptrs < yb % Ptrs
      BY <3>5, <3>7 DEF Parts, p, q
    <3> QED BY <3>3, <3>6, <3>7
  <2> QED BY <1>1, <2>1, <2>2, <2>3, <2>4
<1> QED BY <1>4, <1>5

----------------------------------------
(* Ways: the pointers that lead to a block of a file *)

\* From inode i to block b: the inode, what its pointer leads to, and so on.
Way(p, i, b) ==
  LET path == ext2_block_to_path(b)
      x == p[i][path[1]]
      y == p[x][path[2]]
      z == p[y][path[3]]
  IN [n \in 0 .. 4 |-> IF n = 0 THEN i ELSE IF n = 1 THEN x ELSE IF n = 2 THEN y
                       ELSE IF n = 3 THEN z ELSE p[z][path[4]]]

\* The first n pointers are there.
Goes(p, i, b, n) == \A m \in 1 .. n : Way(p, i, b)[m] # 0

\* The block at its end, if none is missing.
Found(p, i, b) ==
  LET n == Len(ext2_block_to_path(b))
  IN IF Goes(p, i, b, n) THEN Way(p, i, b)[n] ELSE 0

\* The way to block b leads to slot o of h.
Uses(p, i, b, h, o) ==
  \E n \in 1 .. Len(ext2_block_to_path(b)) :
    /\ Goes(p, i, b, n - 1)
    /\ Way(p, i, b)[n - 1] = h /\ ext2_block_to_path(b)[n] = o

LEMMA WayIs ==
  ASSUME NEW p, NEW i, NEW b
  PROVE  /\ Way(p, i, b)[0] = i
         /\ \A n \in 1 .. 4 : Way(p, i, b)[n] = p[Way(p, i, b)[n - 1]][ext2_block_to_path(b)[n]]
<1> DEFINE path == ext2_block_to_path(b)
           x == p[i][path[1]]
           y == p[x][path[2]]
           z == p[y][path[3]]
           w == Way(p, i, b)
           u == p[z][path[4]]
<1>0. w = [n \in 0 .. 4 |-> IF n = 0 THEN i ELSE IF n = 1 THEN x ELSE IF n = 2 THEN y
                           ELSE IF n = 3 THEN z ELSE u]
  BY Zenon DEF Way
<1>2. /\ x = p[i][path[1]] /\ y = p[x][path[2]] /\ z = p[y][path[3]] /\ u = p[z][path[4]]
  OBVIOUS
<1> HIDE DEF w, path, x, y, z, u
<1>1. w[0] = i /\ w[1] = x /\ w[2] = y /\ w[3] = z /\ w[4] = u
  BY <1>0
<1>3. \A n \in 1 .. 4 : w[n] = p[w[n - 1]][path[n]]
  <2> TAKE n \in 1 .. 4
  <2>1. n = 1 \/ n = 2 \/ n = 3 \/ n = 4
    OBVIOUS
  <2>2. /\ w[1] = p[w[0]][path[1]] /\ w[2] = p[w[1]][path[2]]
        /\ w[3] = p[w[2]][path[3]] /\ w[4] = p[w[3]][path[4]]
    BY <1>1, <1>2, Zenon
  <2>3. 1 - 1 = 0 /\ 2 - 1 = 1 /\ 3 - 1 = 2 /\ 4 - 1 = 3
    OBVIOUS
  <2> QED BY <2>1, <2>2, <2>3, Zenon
<1> QED BY <1>1, <1>3 DEF w, path

(* BlockOf follows the way. *)
LEMMA BlockOfIs ==
  ASSUME NEW i, NEW b, Fits(b)
  PROVE  BlockOf(i, b) = Found(ptr, i, b) /\ BlockOf(i, b)' = Found(ptr', i, b)
<1> DEFINE path == ext2_block_to_path(b)
           L == Len(path)
           Is(p, f) == f = [n \in 1 .. L |->
                         IF n = 1 THEN p[i][path[1]]
                         ELSE IF f[n - 1] = 0 THEN 0 ELSE p[f[n - 1]][path[n]]]
<1>1. L \in 1 .. 4
  BY PathIs DEF PathOK
<1>2. ASSUME NEW p
      PROVE  (CHOOSE f : Is(p, f))[L] = Found(p, i, b)
  <2> DEFINE w == Way(p, i, b)
             v == [n \in 1 .. L |-> IF Goes(p, i, b, n) THEN w[n] ELSE 0]
  <2>1. w[0] = i /\ \A n \in 1 .. 4 : w[n] = p[w[n - 1]][path[n]]
    BY WayIs
  <2>2. \A n \in 1 .. 4 : Goes(p, i, b, n) <=> Goes(p, i, b, n - 1) /\ w[n] # 0
    <3> TAKE n \in 1 .. 4
    <3>1. \A m \in 1 .. n : m \in 1 .. n - 1 \/ m = n
      OBVIOUS
    <3>2. \A m \in 1 .. n - 1 : m \in 1 .. n
      OBVIOUS
    <3> QED BY <3>1, <3>2 DEF Goes
  <2>3. Goes(p, i, b, 0)
    BY DEF Goes
  <2> HIDE DEF w, path, L
  <2>4. Is(p, v)
    <3>1. \A n \in 1 .. L : v[n] = IF n = 1 THEN p[i][path[1]]
                         ELSE IF v[n - 1] = 0 THEN 0 ELSE p[v[n - 1]][path[n]]
      <4> TAKE n \in 1 .. L
      <4>1. CASE n = 1
        BY <1>1, <2>1, <2>2, <2>3, <4>1
      <4>2. CASE n # 1
        BY <1>1, <2>1, <2>2, <4>2
      <4> QED BY <4>1, <4>2
    <3> QED BY <3>1
  <2>5. Is(p, CHOOSE f : Is(p, f))
    BY <2>4, ZenonT(30)
  <2>6. ASSUME NEW f, Is(p, f)
        PROVE  f[L] = v[L]
    <3>1. \A n \in 1 .. L : f[n] = IF n = 1 THEN p[i][path[1]]
                         ELSE IF f[n - 1] = 0 THEN 0 ELSE p[f[n - 1]][path[n]]
      BY <2>6
    <3>2. \A n \in 1 .. L : v[n] = IF n = 1 THEN p[i][path[1]]
                         ELSE IF v[n - 1] = 0 THEN 0 ELSE p[v[n - 1]][path[n]]
      BY <2>4
    <3> HIDE DEF v
    <3>3. f[1] = v[1]
      BY <1>1, <3>1, <3>2
    <3>4. 2 \in 1 .. L => f[2] = v[2]
      BY <1>1, <3>1, <3>2, <3>3
    <3>5. 3 \in 1 .. L => f[3] = v[3]
      BY <1>1, <3>1, <3>2, <3>4
    <3>6. 4 \in 1 .. L => f[4] = v[4]
      BY <1>1, <3>1, <3>2, <3>5
    <3> QED BY <1>1, <3>3, <3>4, <3>5, <3>6
  <2>7. v[L] = Found(p, i, b)
    BY <1>1 DEF Found, w, L, path
  <2> HIDE DEF Is, v
  <2> QED BY <2>5, <2>6, <2>7
<1> HIDE DEF Is
<1>3. BlockOf(i, b) = (CHOOSE f : Is(ptr, f))[L]
  BY DEF BlockOf, Is
<1>4. BlockOf(i, b)' = (CHOOSE f : Is(ptr', f))[L]
  BY DEF BlockOf, Is
<1> QED BY <1>2, <1>3, <1>4

(* A fact about the first n of at most four steps, one step at a time. *)
LEMMA GoesLess ==
  ASSUME NEW p, NEW i, NEW b, NEW n \in 0 .. 4, Goes(p, i, b, n), NEW m \in 0 .. n
  PROVE  Goes(p, i, b, m)
<1>1. \A k \in 1 .. m : k \in 1 .. n
  OBVIOUS
<1> QED BY <1>1 DEF Goes

LEMMA GoesOn ==
  ASSUME NEW p, NEW i, NEW b, NEW n \in 0 .. 3, Goes(p, i, b, n), Way(p, i, b)[n + 1] # 0
  PROVE  Goes(p, i, b, n + 1)
<1>1. \A k \in 1 .. n + 1 : k \in 1 .. n \/ k = n + 1
  OBVIOUS
<1> QED BY <1>1 DEF Goes

LEMMA GoesZero ==
  ASSUME NEW p, NEW i, NEW b
  PROVE  Goes(p, i, b, 0)
BY DEF Goes

\* Step n of the way to b is at the level and in the file that it should be.
Leads(p, i, b, n, S, lv, file) ==
  LET w == Way(p, i, b)[n]
      path == ext2_block_to_path(b)
  IN /\ file[w] = i
     /\ n > 0 => w \in S /\ lv[w] = Len(path) - n
     /\ n < Len(path) => /\ w \in Indirect(S, lv) /\ path[n + 1] \in Slots(w)
                         /\ Below(lv, w, path[n + 1]) = Len(path) - n - 1

(* The way to a block leads down the tree of its file. *)
LEMMA WayLeads ==
  ASSUME NEW p, NEW S, S \subseteq Blocks, NEW lv, NEW file, Labels(lv, file),
         NEW R, Tree(p, S, lv, file, R), NEW i \in Inodes, NEW b, Fits(b),
         NEW n \in 0 .. Len(ext2_block_to_path(b)), Goes(p, i, b, n)
  PROVE  \A m \in 0 .. n : Leads(p, i, b, m, S, lv, file)
<1> DEFINE path == ext2_block_to_path(b)
           w == Way(p, i, b)
           L == Len(path)
<1>1. PathOK(path)
  BY PathIs
<1>2. w[0] = i /\ \A m \in 1 .. 4 : w[m] = p[w[m - 1]][path[m]]
  BY WayIs
<1>3. L \in 1 .. 4 /\ n \in 0 .. 4
  BY <1>1, SMTT(30) DEF PathOK
<1>4. \A m \in 1 .. n : w[m] # 0
  BY DEF Goes
<1> HIDE DEF w, path, L
<1>5. Leads(p, i, b, 0, S, lv, file)
  <2>1. i \in Indirect(S, lv) /\ file[i] = i
        /\ \A o \in 0 .. NDir + 2 : o \in Slots(i) /\ Below(lv, i, o) = Depth(o)
    BY InodeHost
  <2>2. path[1] \in 0 .. NDir + 2 /\ Depth(path[1]) = L - 1
    BY <1>1 DEF PathOK, L
  <2> QED BY <1>2, <1>3, <2>1, <2>2 DEF Leads, w, path, L
<1>6. ASSUME NEW m \in 0 .. 3, m < n, Leads(p, i, b, m, S, lv, file)
      PROVE  Leads(p, i, b, m + 1, S, lv, file)
  <2>0. m < L /\ m + 1 \in 1 .. 4 /\ m + 1 \in 1 .. n /\ (m + 1) - 1 = m
    BY <1>3, <1>6 DEF L, path
  <2>1. /\ w[m] \in Indirect(S, lv) /\ path[m + 1] \in Slots(w[m]) /\ file[w[m]] = i
        /\ Below(lv, w[m], path[m + 1]) = L - m - 1
    BY <1>6, <2>0 DEF Leads, w, path, L
  <2>2. w[m + 1] = p[w[m]][path[m + 1]] /\ w[m + 1] # 0
    BY <1>2, <1>4, <2>0
  <2>3. w[m + 1] \in S /\ lv[w[m + 1]] = L - m - 1 /\ file[w[m + 1]] = i
    BY <2>1, <2>2 DEF Tree
  <2>4. ASSUME m + 1 < L
        PROVE  /\ w[m + 1] \in Indirect(S, lv) /\ path[m + 2] \in Slots(w[m + 1])
               /\ Below(lv, w[m + 1], path[m + 2]) = L - m - 2
    <3>1. lv[w[m + 1]] > 0
      BY <1>3, <2>3, <2>4
    <3>2. w[m + 1] \in Indirect(S, lv)
          /\ \A o \in 0 .. Ptrs - 1 : o \in Slots(w[m + 1])
                                      /\ Below(lv, w[m + 1], o) = lv[w[m + 1]] - 1
      BY <2>3, <3>1, BlockHost
    <3>3. m + 2 \in 2 .. L
      BY <1>3, <2>4
    <3>4. path[m + 2] \in 0 .. Ptrs - 1
      BY <1>1, <3>3 DEF PathOK, L
    <3>5. (L - m - 1) - 1 = L - m - 2
      BY <1>3
    <3> QED BY <2>3, <3>2, <3>4, <3>5
  <2>5. /\ L - (m + 1) = L - m - 1 /\ L - (m + 1) - 1 = L - m - 2
        /\ (m + 1) + 1 = m + 2
    BY <1>3
  <2> QED BY <2>3, <2>4, <2>5 DEF Leads, w, path, L
<1>7. ASSUME NEW m \in 0 .. n
      PROVE  Leads(p, i, b, m, S, lv, file)
  BY <1>3, <1>5, <1>6
<1> QED BY <1>7

(* Two ways of a file that meet are the same up to there. *)
LEMMA WaysMeet ==
  ASSUME NEW p, NEW S, S \subseteq Blocks, 0 \notin S, NEW lv, NEW file, Labels(lv, file),
         NEW R, Tree(p, S, lv, file, R), NEW i \in Inodes, NEW a, Fits(a), NEW b, Fits(b),
         NEW m \in 0 .. Len(ext2_block_to_path(a)), Goes(p, i, a, m),
         NEW n \in 0 .. Len(ext2_block_to_path(b)), Goes(p, i, b, n),
         Way(p, i, a)[m] = Way(p, i, b)[n]
  PROVE  /\ m = n
         /\ \A k \in 1 .. n : ext2_block_to_path(a)[k] = ext2_block_to_path(b)[k]
<1> DEFINE v == Way(p, i, a)
           w == Way(p, i, b)
           pa == ext2_block_to_path(a)
           pb == ext2_block_to_path(b)
<1>1. /\ v[0] = i /\ \A k \in 1 .. 4 : v[k] = p[v[k - 1]][pa[k]]
      /\ w[0] = i /\ \A k \in 1 .. 4 : w[k] = p[w[k - 1]][pb[k]]
  BY WayIs
<1>2. Len(pa) \in 1 .. 4 /\ Len(pb) \in 1 .. 4
  BY PathIs DEF PathOK
<1>3. (\A k \in 1 .. m : v[k] # 0) /\ (\A k \in 1 .. n : w[k] # 0)
  BY DEF Goes
<1>4. /\ \A k \in 0 .. m : Leads(p, i, a, k, S, lv, file)
      /\ \A k \in 0 .. n : Leads(p, i, b, k, S, lv, file)
  BY WayLeads
<1>5. /\ \A k \in 1 .. m : v[k] # i
      /\ \A k \in 1 .. n : w[k] # i
  BY <1>2, <1>4, Ext2BlocksAssumption DEF Leads
<1>6. /\ \A k \in 0 .. m - 1 : v[k] \in Indirect(S, lv) /\ pa[k + 1] \in Slots(v[k])
      /\ \A k \in 0 .. n - 1 : w[k] \in Indirect(S, lv) /\ pb[k + 1] \in Slots(w[k])
  BY <1>2, <1>4 DEF Leads
<1>8. v[m] = w[n] /\ m \in 0 .. Len(pa) /\ n \in 0 .. Len(pb)
  OBVIOUS
<1> HIDE DEF v, w, pa, pb
<1>7. m \in 0 .. 4 /\ n \in 0 .. 4
  <2> DEFINE A == Len(pa)
             B == Len(pb)
  <2>1. A \in 1 .. 4 /\ B \in 1 .. 4 /\ m \in 0 .. A /\ n \in 0 .. B
    BY <1>2, <1>8
  <2> HIDE DEF A, B
  <2> QED BY <2>1
<1>9. ASSUME NEW k \in 1 .. m, NEW l \in 1 .. n, v[k] = w[l]
      PROVE  v[k - 1] = w[l - 1] /\ pa[k] = pb[l]
  <2>1. k \in 1 .. 4 /\ l \in 1 .. 4 /\ k - 1 \in 0 .. m - 1 /\ l - 1 \in 0 .. n - 1
        /\ (k - 1) + 1 = k /\ (l - 1) + 1 = l
    BY <1>7
  <2>2. p[v[k - 1]][pa[k]] = p[w[l - 1]][pb[l]] /\ p[v[k - 1]][pa[k]] # 0
    BY <1>1, <1>3, <1>9, <2>1
  <2>3. /\ v[k - 1] \in Indirect(S, lv) /\ pa[k] \in Slots(v[k - 1])
        /\ w[l - 1] \in Indirect(S, lv) /\ pb[l] \in Slots(w[l - 1])
    BY <1>6, <2>1
  <2> QED BY <2>2, <2>3 DEF Tree
<1> DEFINE E(j) == v[m - j] = w[n - j] /\ (j > 0 => pa[m - j + 1] = pb[n - j + 1])
<1>10. E(0)
  BY <1>7, <1>8
<1>11. ASSUME NEW j \in 0 .. 3, j < m, j < n, E(j)
       PROVE  E(j + 1)
  <2>1. m - j \in 1 .. m /\ n - j \in 1 .. n
    BY <1>7, <1>11
  <2>2. v[(m - j) - 1] = w[(n - j) - 1] /\ pa[m - j] = pb[n - j]
    BY <1>9, <1>11, <2>1
  <2>3. /\ (m - j) - 1 = m - (j + 1) /\ (n - j) - 1 = n - (j + 1)
        /\ m - (j + 1) + 1 = m - j /\ n - (j + 1) + 1 = n - j
    BY <1>7
  <2> QED BY <2>2, <2>3
<1> HIDE DEF E
<1>12. ASSUME NEW j \in 0 .. 4, j <= m, j <= n
       PROVE  E(j)
  BY <1>7, <1>10, <1>11, <1>12
<1>13. m = n
  <2>1. ASSUME m < n
        PROVE  FALSE
    <3>1. E(m)
      BY <1>7, <1>12, <2>1
    <3>2. v[0] = w[n - m] /\ n - m \in 1 .. n
      BY <1>7, <2>1, <3>1 DEF E
    <3> QED BY <1>1, <1>5, <3>2
  <2>2. ASSUME n < m
        PROVE  FALSE
    <3>1. E(n)
      BY <1>7, <1>12, <2>2
    <3>2. w[0] = v[m - n] /\ m - n \in 1 .. m
      BY <1>7, <2>2, <3>1 DEF E
    <3> QED BY <1>1, <1>5, <3>2
  <2> QED BY <1>7, <2>1, <2>2
<1>14. ASSUME NEW k \in 1 .. n
       PROVE  pa[k] = pb[k]
  <2> DEFINE j == n - k + 1
  <2>1. j \in 0 .. 4 /\ j <= m /\ j <= n /\ j > 0 /\ m - j + 1 = k /\ n - j + 1 = k
    BY <1>7, <1>13
  <2> HIDE DEF j
  <2>2. E(j)
    BY <1>12, <2>1
  <2> QED BY <2>1, <2>2 DEF E
<1> QED BY <1>13, <1>14 DEF pa, pb

(* If the pointers along a way are in q what they are in p, the way is. *)
LEMMA WayKept ==
  ASSUME NEW p, NEW q, NEW i, NEW b, NEW n \in 0 .. 4, Goes(p, i, b, n),
         \A m \in 1 .. n : q[Way(p, i, b)[m - 1]][ext2_block_to_path(b)[m]] = Way(p, i, b)[m]
  PROVE  Goes(q, i, b, n) /\ \A m \in 0 .. n : Way(q, i, b)[m] = Way(p, i, b)[m]
<1> DEFINE v == Way(p, i, b)
           w == Way(q, i, b)
           path == ext2_block_to_path(b)
<1>1. v[0] = i /\ w[0] = i /\ \A m \in 1 .. 4 : w[m] = q[w[m - 1]][path[m]]
  BY WayIs
<1>2. \A m \in 1 .. n : q[v[m - 1]][path[m]] = v[m] /\ v[m] # 0
  BY DEF Goes
<1> HIDE DEF v, w, path
<1>3. ASSUME NEW m \in 1 .. n, v[m - 1] = w[m - 1]
      PROVE  v[m] = w[m]
  BY <1>1, <1>2, <1>3
<1>4. 1 \in 1 .. n => v[1] = w[1]
  BY <1>1, <1>3
<1>5. 2 \in 1 .. n => v[2] = w[2]
  BY <1>3, <1>4
<1>6. 3 \in 1 .. n => v[3] = w[3]
  BY <1>3, <1>5
<1>7. 4 \in 1 .. n => v[4] = w[4]
  BY <1>3, <1>6
<1>8. \A m \in 0 .. n : w[m] = v[m]
  <2> TAKE m \in 0 .. n
  <2>1. m = 0 \/ (m = 1 /\ 1 \in 1 .. n) \/ (m = 2 /\ 2 \in 1 .. n)
        \/ (m = 3 /\ 3 \in 1 .. n) \/ (m = 4 /\ 4 \in 1 .. n)
    OBVIOUS
  <2> QED BY <1>1, <1>4, <1>5, <1>6, <1>7, <2>1
<1>9. \A m \in 1 .. n : w[m] # 0
  BY <1>2, <1>8
<1> QED BY <1>8, <1>9 DEF Goes, v, w

(* A way in q was there in p, if pointers were only emptied. *)
LEMMA WayWas ==
  ASSUME NEW p, NEW q, NEW i, NEW b, NEW n \in 0 .. 4, Goes(q, i, b, n),
         \A m \in 1 .. n : Goes(p, i, b, m - 1) =>
           q[Way(p, i, b)[m - 1]][ext2_block_to_path(b)[m]] \in {0, Way(p, i, b)[m]}
  PROVE  Goes(p, i, b, n) /\ \A m \in 0 .. n : Way(q, i, b)[m] = Way(p, i, b)[m]
<1> DEFINE v == Way(p, i, b)
           w == Way(q, i, b)
           path == ext2_block_to_path(b)
           E(m) == Goes(p, i, b, m) /\ \A k \in 0 .. m : w[k] = v[k]
<1>1. v[0] = i /\ w[0] = i /\ \A m \in 1 .. 4 : w[m] = q[w[m - 1]][path[m]]
  BY WayIs
<1>2. \A m \in 1 .. n : w[m] # 0 /\ (Goes(p, i, b, m - 1) => q[v[m - 1]][path[m]] \in {0, v[m]})
  BY DEF Goes
<1>3. E(0)
  BY <1>1, GoesZero
<1>4. ASSUME NEW m \in 0 .. 3, m < n, E(m)
      PROVE  E(m + 1)
  BY <1>1, <1>2, <1>4, GoesOn DEF v
<1> HIDE DEF E
<1>5. 1 <= n => E(1)
  BY <1>3, <1>4
<1>6. 2 <= n => E(2)
  BY <1>4, <1>5
<1>7. 3 <= n => E(3)
  BY <1>4, <1>6
<1>8. 4 <= n => E(4)
  BY <1>4, <1>7
<1>9. E(n)
  BY <1>3, <1>5, <1>6, <1>7, <1>8
<1> QED BY <1>9 DEF E

\* The way to block b of file i is the same with q.
Unmoved(p, q, i, b) ==
  /\ Found(q, i, b) = Found(p, i, b)
  /\ \A n \in 0 .. Len(ext2_block_to_path(b)) :
       /\ Goes(q, i, b, n) <=> Goes(p, i, b, n)
       /\ Goes(p, i, b, n) => \A m \in 0 .. n : Way(q, i, b)[m] = Way(p, i, b)[m]

\* Nothing on the ways of file i has changed.
Untouched(p, q, i) == \A b : Fits(b) => Unmoved(p, q, i, b)

LEMMA WayUnmoved ==
  ASSUME NEW p, NEW q, NEW i, NEW b, Fits(b),
         \A n \in 1 .. Len(ext2_block_to_path(b)) : Goes(p, i, b, n - 1) =>
           q[Way(p, i, b)[n - 1]][ext2_block_to_path(b)[n]] =
             p[Way(p, i, b)[n - 1]][ext2_block_to_path(b)[n]]
  PROVE  Unmoved(p, q, i, b)
<1> SUFFICES /\ Found(q, i, b) = Found(p, i, b)
             /\ \A n \in 0 .. Len(ext2_block_to_path(b)) :
                  /\ Goes(q, i, b, n) <=> Goes(p, i, b, n)
                  /\ Goes(p, i, b, n) =>
                       \A m \in 0 .. n : Way(q, i, b)[m] = Way(p, i, b)[m]
  BY DEF Unmoved
<1> DEFINE v == Way(p, i, b)
           w == Way(q, i, b)
           path == ext2_block_to_path(b)
           L == Len(path)
<1>1. L \in 1 .. 4
  BY PathIs DEF PathOK
<1>2. v[0] = i /\ \A m \in 1 .. 4 : v[m] = p[v[m - 1]][path[m]]
  BY WayIs
<1>3. \A m \in 1 .. L : Goes(p, i, b, m - 1) => q[v[m - 1]][path[m]] = v[m]
  <2>1. \A m \in 1 .. L : Goes(p, i, b, m - 1) => q[v[m - 1]][path[m]] = p[v[m - 1]][path[m]]
    OBVIOUS
  <2> HIDE DEF v, w, path, L
  <2>2. \A m \in 1 .. L : m \in 1 .. 4
    BY <1>1
  <2> QED BY <1>2, <2>1, <2>2
<1> HIDE DEF v, w, path, L
<1>4. ASSUME NEW n \in 0 .. L
      PROVE  /\ Goes(q, i, b, n) <=> Goes(p, i, b, n)
             /\ Goes(p, i, b, n) => \A m \in 0 .. n : w[m] = v[m]
  <2>0. n \in 0 .. 4 /\ \A m \in 1 .. n : m \in 1 .. L /\ m - 1 \in 0 .. n
    BY <1>1
  <2>1. ASSUME Goes(p, i, b, n)
        PROVE  Goes(q, i, b, n) /\ \A m \in 0 .. n : w[m] = v[m]
    <3>1. \A m \in 1 .. n : Goes(p, i, b, m - 1)
      BY <2>0, <2>1, GoesLess
    <3>2. \A m \in 1 .. n : q[v[m - 1]][path[m]] = v[m]
      BY <1>3, <2>0, <3>1
    <3> QED BY <2>0, <2>1, <3>2, WayKept DEF v, w, path
  <2>2. ASSUME Goes(q, i, b, n)
        PROVE  Goes(p, i, b, n)
    BY <1>3, <2>0, <2>2, WayWas DEF v, w, path
  <2> QED BY <2>1, <2>2
<1>5. Found(q, i, b) = Found(p, i, b)
  BY <1>1, <1>4 DEF Found, v, w, path, L
<1> QED BY <1>4, <1>5 DEF v, w, path, L

(* Slots at or after the way to block a are on the way to later blocks. *)
LEMMA LaterSlot ==
  ASSUME NEW p, NEW S, S \subseteq Blocks, 0 \notin S, NEW lv, NEW file, Labels(lv, file),
         NEW R, Tree(p, S, lv, file, R), NEW i \in Inodes, NEW a, Fits(a), NEW b, Fits(b),
         NEW n \in 1 .. Len(ext2_block_to_path(a)), Goes(p, i, a, n - 1),
         NEW o, Uses(p, i, b, Way(p, i, a)[n - 1], o),
         \/ ext2_block_to_path(a)[n] < o
         \/ /\ o = ext2_block_to_path(a)[n]
            /\ \A k \in n + 1 .. Len(ext2_block_to_path(a)) : ext2_block_to_path(a)[k] = 0
  PROVE  b >= a
<1> DEFINE pa == ext2_block_to_path(a)
           pb == ext2_block_to_path(b)
           A == Len(pa)
           B == Len(pb)
<1>1. /\ pa \in Seq(Nat) /\ A \in 1 .. 4 /\ pb \in Seq(Nat) /\ B \in 1 .. 4
      /\ a \in Nat /\ b \in Nat
  BY PathIs DEF PathOK, Fits
<1>2. PICK m \in 1 .. B : /\ Goes(p, i, b, m - 1) /\ pb[m] = o
                         /\ Way(p, i, b)[m - 1] = Way(p, i, a)[n - 1]
  BY DEF Uses
<1>3. n \in 1 .. A /\ (pa[n] < o \/ (o = pa[n] /\ \A k \in n + 1 .. A : pa[k] = 0))
  OBVIOUS
<1>4. n - 1 \in 0 .. A /\ m - 1 \in 0 .. B
  BY <1>1, <1>2, <1>3
<1>5. n - 1 = m - 1 /\ \A k \in 1 .. m - 1 : pa[k] = pb[k]
  BY <1>2, <1>4, WaysMeet
<1>6. ASSUME b < a
      PROVE  FALSE
  <2>1. PICK j \in 1 .. 4 : Parts(b, a, j) /\ pb[j] < pa[j]
    BY <1>6, PathLess
  <2>2. j \in 1 .. A /\ j \in 1 .. B /\ \A k \in 1 .. j - 1 : pb[k] = pa[k]
    BY <2>1 DEF Parts
  <2>3. pa[j] \in Nat /\ pb[j] \in Nat /\ pa[n] \in Nat /\ pb[m] \in Nat
    <3>1. \A k \in 1 .. A : pa[k] \in Nat
      BY <1>1, SMTT(30)
    <3>2. \A k \in 1 .. B : pb[k] \in Nat
      BY <1>1, SMTT(30)
    <3> HIDE DEF pa, pb, A, B
    <3> QED BY <1>2, <1>3, <2>2, <3>1, <3>2
  <2> HIDE DEF pa, pb, A, B
  <2>4. m = n
    BY <1>1, <1>2, <1>3, <1>5
  <2>5. CASE j < n
    BY <1>1, <1>3, <1>5, <2>1, <2>2, <2>3, <2>4, <2>5, SMTT(30)
  <2>6. CASE j = n
    BY <1>2, <1>3, <2>1, <2>3, <2>4, <2>6
  <2>7. CASE j > n
    <3>1. pb[n] = pa[n]
      BY <1>1, <1>3, <2>2, <2>7
    <3>2. pa[j] = 0
      BY <1>1, <1>2, <1>3, <2>2, <2>3, <2>4, <2>7, <3>1, SMTT(30)
    <3> QED BY <2>1, <2>3, <3>2
  <2> QED BY <1>1, <1>3, <2>2, <2>5, <2>6, <2>7
<1> QED BY <1>1, <1>6

(* A chain that agrees with the pointers is the beginning of a way. *)
LEMMA ChainWay ==
  ASSUME NEW p, NEW r, Fits(r.b), ChainShape(r), ChainTrue(r, p)
  PROVE  LET w == Way(p, r.ino, r.b)
             n == Len(r.chain)
         IN /\ n \in 1 .. Len(Path(r)) /\ Goes(p, r.ino, r.b, n - 1)
            /\ \A m \in 1 .. n : /\ r.chain[m].host = w[m - 1] /\ r.chain[m].key = w[m]
                                /\ r.chain[m].off = Path(r)[m]
            /\ r.chain[n].key # 0 => Goes(p, r.ino, r.b, n)
<1> DEFINE path == Path(r)
           w == Way(p, r.ino, r.b)
           n == Len(r.chain)
           L == Len(path)
           H(m) == r.chain[m].host
           K(m) == r.chain[m].key
<1>0. w[0] = r.ino /\ \A m \in 1 .. 4 : w[m] = p[w[m - 1]][path[m]]
  BY WayIs DEF Path
<1>1. L \in 1 .. 4
  BY PathIs DEF PathOK, Path
<1>2. n \in 1 .. L
  BY DEF ChainShape
<1>3. /\ H(1) = r.ino
      /\ \A m \in 1 .. n : r.chain[m].off = path[m]
      /\ \A m \in 1 .. n - 1 : K(m) # 0 /\ H(m + 1) = K(m)
  BY DEF ChainShape
<1>4. \A m \in 1 .. n : K(m) = p[H(m)][path[m]]
  BY <1>3 DEF ChainTrue
<1> HIDE DEF path, w, n, L, H, K
<1>5. \A m \in 1 .. n : m \in 1 .. 4
  BY <1>1, <1>2
<1> DEFINE E(m) == H(m) = w[m - 1] /\ K(m) = w[m]
<1>6. E(1)
  BY <1>0, <1>1, <1>2, <1>3, <1>4
<1>7. ASSUME NEW m \in 1 .. n, m + 1 \in 1 .. n, E(m)
      PROVE  E(m + 1)
  BY <1>0, <1>1, <1>2, <1>3, <1>4, <1>7
<1> HIDE DEF E
<1>8. 2 \in 1 .. n => E(2)
  BY <1>1, <1>2, <1>6, <1>7
<1>9. 3 \in 1 .. n => E(3)
  BY <1>1, <1>2, <1>7, <1>8
<1>10. 4 \in 1 .. n => E(4)
  BY <1>1, <1>2, <1>7, <1>9
<1>11. \A m \in 1 .. n : E(m)
  <2> TAKE m \in 1 .. n
  <2>1. m = 1 \/ (m = 2 /\ 2 \in 1 .. n) \/ (m = 3 /\ 3 \in 1 .. n) \/ (m = 4 /\ 4 \in 1 .. n)
    BY <1>5
  <2> QED BY <1>6, <1>8, <1>9, <1>10, <2>1
<1>12. \A m \in 1 .. n - 1 : w[m] # 0
  BY <1>1, <1>2, <1>3, <1>11 DEF E
<1>13. K(n) # 0 => \A m \in 1 .. n : w[m] # 0
  BY <1>1, <1>2, <1>11, <1>12 DEF E
<1> QED BY <1>2, <1>3, <1>11, <1>12, <1>13 DEF path, w, n, L, H, K, E, Goes

(* A chain that agrees with p agrees with q, if its way is the same. *)
LEMMA ChainKept ==
  ASSUME NEW p, NEW q, NEW r, Fits(r.b), ChainShape(r), ChainTrue(r, p),
         \A m \in 0 .. Len(r.chain) : Way(q, r.ino, r.b)[m] = Way(p, r.ino, r.b)[m]
  PROVE  ChainTrue(r, q)
<1> DEFINE path == Path(r)
           w == Way(p, r.ino, r.b)
           v == Way(q, r.ino, r.b)
           n == Len(r.chain)
           L == Len(path)
<1>1. n \in 1 .. L
      /\ \A m \in 1 .. n : /\ r.chain[m].host = w[m - 1] /\ r.chain[m].key = w[m]
                           /\ r.chain[m].off = path[m]
  BY ChainWay, ZenonT(30)
<1>2. \A m \in 1 .. 4 : v[m] = q[v[m - 1]][path[m]]
  BY WayIs DEF Path
<1>3. L \in 1 .. 4
  BY PathIs DEF PathOK, Path
<1>4. \A m \in 0 .. n : v[m] = w[m]
  OBVIOUS
<1> HIDE DEF path, w, v, n, L
<1>5. \A m \in 1 .. n : m \in 1 .. 4 /\ m \in 0 .. n /\ m - 1 \in 0 .. n
  BY <1>1, <1>3
<1>6. ASSUME NEW m \in 1 .. n
      PROVE  r.chain[m].key = q[r.chain[m].host][r.chain[m].off]
  <2>1. v[m] = q[v[m - 1]][path[m]] /\ v[m] = w[m] /\ v[m - 1] = w[m - 1]
    BY <1>2, <1>4, <1>5
  <2>2. r.chain[m].host = w[m - 1] /\ r.chain[m].key = w[m] /\ r.chain[m].off = path[m]
    BY <1>1
  <2> QED BY <2>1, <2>2
<1> QED BY <1>6 DEF ChainTrue, n

----------------------------------------
(* What calls are where, and what sizes and pages they have *)

PageOps == {"readpage", "writepage", "write"}

\* ext2_find_shared is looking for the branch; truncate has truncate_mutex.
Sharing(r) == r.pc = "detach" \/ (r.pc \in {"verify", "add"} /\ r.walk = "shared")
Truncating(r) == r.pc = "kill" \/ Sharing(r)
ToTruncate(r) == r.pc = "truncate" \/ Truncating(r)

\* The places of each call.
Kind(r) ==
  /\ r.op \in PageOps <=> r.page
  /\ r.op \in PageOps =>
       r.pc \in {"verify", "add", "lock", "search", "claim", "splice", "return"}
  /\ r.pc \in {"lock", "search", "claim", "splice", "return"} => r.op \in PageOps
  /\ r.pc \in {"verify", "add"} => r.err = "ok" /\ (r.op \in PageOps <=> r.walk # "shared")
  /\ ToTruncate(r) => r.op \in {"truncate", "evict"}
  /\ r.op = "truncate" => ToTruncate(r)
  /\ r.pc = "idle" => r.op = "none"
  /\ r.pc = "new" => r.op = "create"
  /\ r.pc = "page" <=> r.op = "begin"
  /\ r.op \in PageOps /\ r.pc # "return" => r.res = 0

\* Walks end at a missing link, or as deep as they should; but not if a block
\* could not be read, in the files of c.
Miss(r, c) ==
  /\ r.pc \in {"search", "claim", "splice"} => Partial(r).key = 0 \/ r.ino \in c
  /\ r.pc = "lock" /\ r.err # "EAGAIN" => Partial(r).key = 0
  /\ r.pc = "detach" /\ Len(r.chain) # SharedDepth(Path(r)) => Partial(r).key = 0 \/ r.ino \in c

KindInv == \A t \in Tasks : Kind(task[t]) /\ Miss(task[t], cut)

\* A file that is being truncated has its size already; i_mutex is held.
Writers == {"truncate", "begin", "write"}
SizeInv == \A t \in Tasks :
  /\ ToTruncate(task[t]) => i_size[task[t].ino] = task[t].b
  /\ task[t].op \in Writers => i_mutex[task[t].ino] = t

\* A page is locked by one task, and not while what is past the size is freed.
PageInv == \A t, u \in Tasks :
  t # u /\ task[t].page /\ task[t].ino = task[u].ino =>
    /\ task[u].page => task[t].b # task[u].b
    /\ Truncating(task[u]) => task[t].b < task[u].b

\* Pages that are read or written back lie in the file, unless it was made
\* shorter and truncate waits for them.
InFile(r) == r.b < i_size[r.ino]
             \/ \E u \in Tasks : task[u].ino = r.ino /\ task[u].pc = "truncate"
PagesInv == \A t \in Tasks : task[t].page /\ task[t].op # "write" => InFile(task[t])

CallInv == KindInv /\ SizeInv /\ PageInv /\ PagesInv

----------------------------------------
LEMMA WalkEnd ==
  ASSUME NEW r, Shape(r), r.walk \in Walks
  PROVE  LET s == AfterWalk(r)
             found == r.err = "ok" /\ Partial(r).key # 0
         IN
         /\ Agrees(r, s) /\ s.page = r.page /\ s.walk = "none"
         /\ \/ r.walk = "shared" /\ s.pc = "detach" /\ s.chain = r.chain
            \/ /\ r.walk # "shared" /\ s.pc = "return" /\ s.err = r.err
               /\ found /\ s.res = Partial(r).key
            \/ r.walk = "first" /\ s.pc = "return" /\ s.err = r.err /\ ~found /\ s.res = r.res
            \/ /\ r.walk = "first" /\ s.pc = "lock" /\ s.err = r.err /\ ~found /\ r.err # "EIO"
               /\ s.res = r.res /\ s.chain = r.chain
            \/ /\ r.walk = "regrab" /\ s.pc = "search" /\ ~found
               /\ s.res = r.res /\ s.chain = r.chain
<1> DEFINE s == [r EXCEPT !.walk = "none"]
           found == r.err = "ok" /\ Partial(r).key # 0
<1>1. /\ Agrees(r, s) /\ s.chain = r.chain /\ s.res = r.res /\ s.err = r.err
      /\ s.page = r.page /\ s.walk = "none"
  BY DEF Agrees, Shape, Columns
<1>2. CASE r.walk = "shared"
  BY <1>1, <1>2 DEF AfterWalk, Agrees, Shape, Columns
<1>3. CASE r.walk # "shared" /\ found
  BY <1>1, <1>3 DEF AfterWalk, Agrees, Shape, Columns
<1>4. CASE r.walk = "first" /\ ~found /\ (r.op = "readpage" \/ r.err = "EIO")
  BY <1>1, <1>4 DEF AfterWalk, Agrees, Shape, Columns
<1>5. CASE r.walk = "first" /\ ~found /\ r.op # "readpage" /\ r.err # "EIO"
  BY <1>1, <1>5 DEF AfterWalk, Agrees, Shape, Columns
<1>6. CASE r.walk = "regrab" /\ ~found
  BY <1>1, <1>6 DEF AfterWalk, Agrees, Shape, Columns
<1> QED BY <1>2, <1>3, <1>4, <1>5, <1>6 DEF Walks

\* The call to which a walk belongs.
Call(r) ==
  /\ Shape(r) /\ r.walk \in Walks /\ (r.op \in PageOps <=> r.page)
  /\ r.op \in PageOps => r.walk # "shared" /\ r.res = 0
  /\ r.op \notin PageOps => r.walk = "shared" /\ r.op = "truncate"

\* The walk has come to its end, or could not go on.
Ended(r, c) ==
  /\ r.err = "ok" => Partial(r).key = 0 \/ Len(r.chain) = WalkDepth(r)
  /\ r.err # "ok" => r.ino \in c \/ r.walk = "first"

\* If the call returns a block, that is what its last link was.
Answers(r, s) == s.pc = "return" /\ s.err = "ok" => r.err = "ok" /\ s.res = Partial(r).key

LEMMA AfterWalkPlaces ==
  ASSUME NEW r, Call(r), NEW c, Ended(r, c), r.err # "ok" => r.err \in {"EIO", "EAGAIN"}
  PROVE  LET s == AfterWalk(r) IN
         /\ Kind(s) /\ Miss(s, c) /\ Answers(r, s) /\ Agrees(r, s) /\ s.page = r.page
         /\ s.pc \in {"detach", "return", "lock", "search"}
         /\ Sharing(s) <=> r.walk = "shared"
<1> DEFINE s == AfterWalk(r)
           found == r.err = "ok" /\ Partial(r).key # 0
<1>1. /\ Agrees(r, s) /\ s.page = r.page /\ s.walk = "none"
      /\ \/ r.walk = "shared" /\ s.pc = "detach" /\ s.chain = r.chain
         \/ /\ r.walk # "shared" /\ s.pc = "return" /\ s.err = r.err
            /\ found /\ s.res = Partial(r).key
         \/ r.walk = "first" /\ s.pc = "return" /\ s.err = r.err /\ ~found /\ s.res = r.res
         \/ /\ r.walk = "first" /\ s.pc = "lock" /\ s.err = r.err /\ ~found /\ r.err # "EIO"
            /\ s.res = r.res /\ s.chain = r.chain
         \/ /\ r.walk = "regrab" /\ s.pc = "search" /\ ~found
            /\ s.res = r.res /\ s.chain = r.chain
  BY WalkEnd DEF Call
<1> HIDE DEF s
<1>2. s.op = r.op /\ s.ino = r.ino /\ Path(s) = Path(r)
  BY <1>1 DEF Agrees, Path
<1>3. s.chain = r.chain => Partial(s) = Partial(r)
  BY DEF Partial
<1>4. Kind(s)
  BY <1>1, <1>2 DEF Kind, Call, ToTruncate, Truncating, Sharing, PageOps
<1>5. Miss(s, c)
  BY <1>1, <1>2, <1>3 DEF Miss, Ended, WalkDepth
<1>6. Answers(r, s)
  BY <1>1, <1>2 DEF Answers, Call, PageOps
<1>7. /\ s.pc \in {"detach", "return", "lock", "search"}
      /\ Sharing(s) <=> r.walk = "shared"
  BY <1>1 DEF Sharing
<1> QED BY <1>1, <1>4, <1>5, <1>6, <1>7 DEF s

\* The task once it has read link l.
LEMMA WalkedPlaces ==
  ASSUME NEW r, Call(r), r.err = "ok", NEW l, NEW c
  PROVE  LET s == Walked(r, l)
             q == [r EXCEPT !.chain = Append(@, l), !.pc = "verify"]
         IN
         /\ Kind(s) /\ Miss(s, c) /\ Answers(q, s) /\ Agrees(r, s) /\ s.page = r.page
         /\ s.pc \in {"verify", "detach", "return", "lock", "search"}
         /\ Sharing(s) <=> r.walk = "shared"
         /\ s.pc = "return" => Partial(q).key = 0 \/ Len(q.chain) = WalkDepth(r)
<1> DEFINE q == [r EXCEPT !.chain = Append(@, l), !.pc = "verify"]
           s == Walked(r, l)
<1>1. /\ Agrees(r, q) /\ q.chain = Append(r.chain, l) /\ q.pc = "verify" /\ q.walk = r.walk
      /\ q.page = r.page /\ q.err = "ok" /\ q.res = r.res
  BY DEF Agrees, Shape, Columns, Call
<1>2. s = IF l.key = 0 \/ Len(q.chain) = WalkDepth(r) THEN AfterWalk(q) ELSE q
  BY DEF Walked
<1> HIDE DEF q, s
<1>3. Call(q) /\ WalkDepth(q) = WalkDepth(r)
  BY <1>1 DEF Call, Agrees, WalkDepth, Path
<1>4. Partial(q) = l
  BY <1>1 DEF Partial, Last
<1>5. CASE l.key = 0 \/ Len(q.chain) = WalkDepth(r)
  <2>1. Ended(q, c)
    BY <1>1, <1>3, <1>4, <1>5 DEF Ended
  <2>2. /\ Kind(s) /\ Miss(s, c) /\ Answers(q, s) /\ Agrees(q, s) /\ s.page = q.page
        /\ s.pc \in {"detach", "return", "lock", "search"}
        /\ Sharing(s) <=> q.walk = "shared"
    BY <1>1, <1>2, <1>3, <1>5, <2>1, AfterWalkPlaces
  <2>3. Agrees(r, s)
    BY <1>1, <2>2 DEF Agrees
  <2> QED BY <1>1, <1>4, <1>5, <2>2, <2>3 DEF q, s
<1>6. CASE ~(l.key = 0 \/ Len(q.chain) = WalkDepth(r))
  BY <1>1, <1>2, <1>3, <1>6 DEF Kind, Miss, Answers, Call, ToTruncate, Truncating, Sharing,
     PageOps, Agrees, q, s
<1> QED BY <1>5, <1>6

LEMMA BeginWalkPlaces ==
  ASSUME NEW r, Shape(r), NEW walk \in Walks, NEW c, r.op \in PageOps <=> r.page,
         r.op \in PageOps => walk # "shared" /\ r.res = 0,
         r.op \notin PageOps => walk = "shared" /\ r.op = "truncate"
  PROVE  LET s == BeginWalk(r, walk) IN
         /\ Kind(s) /\ Miss(s, c) /\ Agrees(r, s) /\ s.page = r.page
         /\ s.pc \in {"verify", "detach", "return", "lock", "search"}
         /\ Sharing(s) <=> walk = "shared"
<1> DEFINE q == [r EXCEPT !.walk = walk, !.chain = <<>>, !.err = "ok"]
           s == BeginWalk(r, walk)
<1>1. /\ Agrees(r, q) /\ q.walk = walk /\ q.page = r.page /\ q.err = "ok" /\ q.res = r.res
  BY DEF Agrees, Shape, Columns
<1>2. s = Walked(q, LinkAt(r.ino, Path(r)[1]))
  BY DEF BeginWalk
<1> HIDE DEF q, s
<1>3. Call(q)
  BY <1>1 DEF Call, Agrees
<1>4. /\ Kind(s) /\ Miss(s, c) /\ Agrees(q, s) /\ s.page = q.page
      /\ s.pc \in {"verify", "detach", "return", "lock", "search"}
      /\ Sharing(s) <=> q.walk = "shared"
  BY <1>1, <1>2, <1>3, WalkedPlaces
<1>5. Agrees(r, s)
  BY <1>1, <1>4 DEF Agrees
<1> QED BY <1>1, <1>4, <1>5 DEF s

----------------------------------------
(* Steps of a task among the others *)

\* Task t takes and gives back only i_mutexes that are its own.
OwnIMutex(t) == \A i \in Inodes :
  i_mutex[i] \notin {t, None} => i_mutex'[i] = i_mutex[i]

\* What the step of task t to s owes to the tasks that truncate or have pages.
Respects(t, s) ==
  /\ OwnIMutex(t) /\ cut \subseteq cut'
  /\ ToTruncate(s) => i_size'[s.ino] = s.b
  /\ s.op \in Writers => i_mutex'[s.ino] = t
  /\ \A u \in Tasks \ {t} :
       /\ ToTruncate(task[u]) => i_size'[task[u].ino] = i_size[task[u].ino]
       /\ s.page /\ s.ino = task[u].ino => /\ task[u].page => s.b # task[u].b
                                           /\ Truncating(task[u]) => s.b < task[u].b
       /\ Truncating(s) /\ s.ino = task[u].ino /\ task[u].page => task[u].b < s.b
       /\ task[u].page /\ task[u].op # "write" /\ InFile(task[u]) => InFile(task[u])'
  /\ s.page /\ s.op # "write" => InFile(task[t])'

LEMMA CallStep ==
  ASSUME BlockInv, CallInv, NEW t \in Tasks, NEW s, Moves(t), task'[t] = s,
         Kind(s), Miss(s, cut'), Respects(t, s)
  PROVE  CallInv'
<1>1. \A u \in Tasks : u # t => task'[u] = task[u]
  BY DEF Moves
<1>2. KindInv'
  BY <1>1 DEF CallInv, KindInv, Miss, Respects
<1>3. SizeInv'
  BY <1>1, Ext2BlocksAssumption DEF SizeInv, ToTruncate, Truncating, Sharing, Respects, CallInv,
     KindInv, BlockInv, FormInv, Kind, Form, OwnIMutex, Writers, PageOps
<1>4. PageInv'
  BY <1>1 DEF PageInv, Truncating, Sharing, Respects, CallInv
<1>5. PagesInv'
  BY <1>1 DEF PagesInv, Respects, CallInv
<1> QED BY <1>2, <1>3, <1>4, <1>5 DEF CallInv

(* A step within a call. *)
LEMMA CallGoesOn ==
  ASSUME BlockInv, CallInv, NEW t \in Tasks, NEW s, Moves(t), task'[t] = s,
         Kind(s), Miss(s, cut'), cut \subseteq cut', UNCHANGED <<i_size, i_mutex>>,
         s.op = task[t].op, s.ino = task[t].ino, s.b = task[t].b, s.page = task[t].page,
         task[t].pc # "truncate", s.pc # "truncate", Truncating(s) => Truncating(task[t])
  PROVE  CallInv'
<1> DEFINE r == task[t]
<1>1. \A u \in Tasks : u # t => task'[u] = task[u]
  BY DEF Moves
<1>2. OwnIMutex(t)
  BY DEF OwnIMutex
<1>3. \A u \in Tasks : InFile(task[u]) => InFile(task[u])'
  BY <1>1 DEF InFile
<1>4. ToTruncate(s) => ToTruncate(r)
  BY DEF ToTruncate
<1>5. Respects(t, s)
  BY <1>2, <1>3, <1>4 DEF CallInv, SizeInv, PageInv, PagesInv, Respects
<1> QED BY <1>5, CallStep

(* A call that neither has a page nor truncates. *)
LEMMA CallEnds ==
  ASSUME BlockInv, CallInv, NEW t \in Tasks, NEW s, Moves(t), task'[t] = s,
         Kind(s), s.op \in {"none", "create", "evict", "begin"}, ~ToTruncate(s),
         s.op = "begin" => i_mutex'[s.ino] = t,
         UNCHANGED cut, OwnIMutex(t), task[t].pc # "truncate",
         \A u \in Tasks \ {t} : task[u].ino # None =>
            \/ i_size'[task[u].ino] = i_size[task[u].ino]
            \/ ~ToTruncate(task[u]) /\ (task[u].page /\ InFile(task[u]) => InFile(task[u])')
  PROVE  CallInv'
<1>1. \A u \in Tasks : u # t => task'[u] = task[u]
  BY DEF Moves
<1>2. ~s.page /\ s.pc \notin {"lock", "search", "claim", "splice", "detach"}
  BY DEF Kind, PageOps, ToTruncate, Truncating, Sharing
<1>3. Miss(s, cut')
  BY <1>2 DEF Miss
<1>4. ASSUME NEW u \in Tasks \ {t}, task[u].page, InFile(task[u])
      PROVE  InFile(task[u])'
  BY <1>1, <1>4, Ext2BlocksAssumption DEF CallInv, KindInv, BlockInv, FormInv, Kind, Form,
     InFile
<1>5. ASSUME NEW u \in Tasks \ {t}, ToTruncate(task[u])
      PROVE  i_size'[task[u].ino] = i_size[task[u].ino]
  BY <1>5, Ext2BlocksAssumption DEF BlockInv, FormInv, ToTruncate, Truncating, Sharing, Form
<1>6. Respects(t, s)
  BY <1>2, <1>4, <1>5 DEF Respects, ToTruncate, Writers
<1> QED BY <1>3, <1>6, CallStep

(* While a task writes or truncates, nobody else truncates. *)
LEMMA OneTruncates ==
  ASSUME BlockInv, CallInv, NEW t \in Tasks, task[t].op \in Writers,
         NEW u \in Tasks, u # t, task[u].ino = task[t].ino
  PROVE  ~ToTruncate(task[u])
<1>1. SUFFICES ASSUME ToTruncate(task[u])
               PROVE  FALSE
  OBVIOUS
<1>2. task[u].op \in {"truncate", "evict"} /\ i_mutex[task[t].ino] = t
  BY <1>1 DEF CallInv, KindInv, Kind, SizeInv
<1>3. task[u].op # "truncate"
  BY <1>2 DEF CallInv, SizeInv, Writers
<1>4. task[u].ino # None
  BY <1>1, Ext2BlocksAssumption DEF BlockInv, FormInv, ToTruncate, Truncating, Sharing, Form
<1> QED BY <1>2, <1>3, <1>4 DEF BlockInv, Inv, OwnInv, Exclusive

(* Nobody truncates a file that can be reached and whose i_mutex is free. *)
LEMMA NobodyTruncates ==
  ASSUME BlockInv, CallInv, NEW i \in Inodes, Reachable(i), i_mutex[i] = None,
         NEW u \in Tasks, task[u].ino = i
  PROVE  ~ToTruncate(task[u]) /\ task[u].op # "write"
<1>1. task[u].op \notin {"create", "evict"}
  BY DEF Reachable
<1>2. u # None
  BY Ext2BlocksAssumption
<1>3. task[u].op \notin Writers
  BY <1>2 DEF CallInv, SizeInv
<1>4. ToTruncate(task[u]) => task[u].op \in {"truncate", "evict"}
  BY DEF CallInv, KindInv, Kind
<1> QED BY <1>1, <1>3, <1>4 DEF Writers

LEMMA CallIs ==
  ASSUME BlockInv, CallInv, NEW t \in Tasks, task[t].pc \in {"verify", "add"}
  PROVE  /\ Call(task[t]) /\ task[t].err = "ok" /\ Kind(task[t])
         /\ task[t].walk # "first" => ChainTrue(task[t], ptr)
<1> DEFINE r == task[t]
<1>1. Shape(r) /\ Form(r) /\ r.walk \in Walks /\ Kind(r)
  BY TaskIs DEF CallInv, KindInv
<1>2. r.op # "evict"
  BY <1>1 DEF Form
<1>3. ASSUME r.walk # "first"
      PROVE  ChainTrue(r, ptr)
  BY <1>1, <1>3 DEF Holding, Walks, BlockInv, Trees, TaskTrue
<1> QED BY <1>1, <1>2, <1>3 DEF Call, Kind, ToTruncate, Truncating, Sharing, PageOps

LEMMA CallWalkVerify ==
  ASSUME BlockInv, CallInv, NEW t \in Tasks, WalkVerify(t)
  PROVE  CallInv'
<1> DEFINE r == task[t]
<1>1. r.pc = "verify" /\ UNCHANGED <<i_size, i_mutex>> /\ cut \subseteq cut'
  BY DEF WalkVerify
<1>2. /\ Call(r) /\ r.err = "ok" /\ Kind(r) /\ Shape(r)
      /\ r.walk # "first" => ChainTrue(r, ptr)
  BY <1>1, CallIs DEF Call
<1>3. DOMAIN r.chain = 1 .. Len(r.chain)
  BY TaskIs DEF Typed
<1>4. ASSUME NEW e \in {"EIO", "EAGAIN"}, r.ino \in cut' \/ r.walk = "first",
             task' = [task EXCEPT ![t] = AfterWalk([r EXCEPT !.err = e])]
      PROVE  CallInv'
  <2> DEFINE q == [r EXCEPT !.err = e]
             s == AfterWalk(q)
  <2>1. /\ Agrees(r, q) /\ q.walk = r.walk /\ q.page = r.page /\ q.err = e /\ q.res = r.res
    BY <1>2 DEF Shape, Columns, Agrees
  <2>2. Moves(t) /\ task'[t] = s
    BY <1>4, OneTaskMoves DEF BlockInv
  <2> HIDE DEF q, s
  <2>3. Call(q) /\ Ended(q, cut')
    BY <1>2, <1>4, <2>1 DEF Call, Agrees, Ended
  <2>4. /\ Kind(s) /\ Miss(s, cut') /\ Agrees(q, s) /\ s.page = q.page
        /\ s.pc \in {"detach", "return", "lock", "search"}
        /\ Sharing(s) <=> q.walk = "shared"
    BY <1>4, <2>1, <2>3, AfterWalkPlaces DEF s
  <2>5. Truncating(s) => Truncating(r)
    BY <1>1, <2>1, <2>4 DEF Truncating, Sharing
  <2> QED BY <1>1, <2>1, <2>2, <2>4, <2>5, CallGoesOn DEF Agrees
<1>5. CASE cut' = (IF r.walk = "first" THEN cut ELSE cut \cup {r.ino})
           /\ task' = [task EXCEPT ![t] = AfterWalk([r EXCEPT !.err = "EIO"])]
  BY <1>4, <1>5
<1>6. CASE ~verify_chain(r.chain)
           /\ task' = [task EXCEPT ![t] = AfterWalk([r EXCEPT !.err = "EAGAIN"])]
  BY <1>2, <1>3, <1>4, <1>6 DEF verify_chain, ChainTrue
<1>7. CASE task' = [task EXCEPT ![t].pc = "add"]
  <2> DEFINE s == [r EXCEPT !.pc = "add"]
  <2>1. Moves(t) /\ task'[t] = s
    BY <1>7, OneTaskMoves DEF BlockInv
  <2>2. /\ Agrees(r, s) /\ s.pc = "add" /\ s.walk = r.walk /\ s.page = r.page /\ s.res = r.res
        /\ s.err = r.err
    BY <1>2 DEF Agrees, Shape, Columns
  <2> HIDE DEF s
  <2>3. Truncating(s) <=> Truncating(r)
    BY <1>1, <2>2 DEF Truncating, Sharing
  <2>4. Kind(s) /\ Miss(s, cut')
    BY <1>1, <1>2, <2>2, <2>3 DEF Kind, Miss, ToTruncate, Agrees
  <2> QED BY <1>1, <2>1, <2>2, <2>3, <2>4, CallGoesOn DEF Agrees
<1> QED BY <1>5, <1>6, <1>7 DEF WalkVerify

LEMMA CallWalkAdd ==
  ASSUME BlockInv, CallInv, NEW t \in Tasks, WalkAdd(t)
  PROVE  CallInv'
<1> DEFINE r == task[t]
           l == LinkAt(Partial(r).key, Path(r)[Len(r.chain) + 1])
           s == Walked(r, l)
<1>1. /\ r.pc = "add" /\ UNCHANGED <<i_size, i_mutex, cut>> /\ task' = [task EXCEPT ![t] = s]
  BY DEF WalkAdd, errorVars
<1>2. Call(r) /\ r.err = "ok"
  BY <1>1, CallIs
<1>3. Moves(t) /\ task'[t] = s
  BY <1>1, OneTaskMoves DEF BlockInv
<1>4. /\ Kind(s) /\ Miss(s, cut') /\ Agrees(r, s) /\ s.page = r.page
      /\ s.pc \in {"verify", "detach", "return", "lock", "search"}
      /\ Sharing(s) <=> r.walk = "shared"
  BY <1>2, WalkedPlaces
<1> HIDE DEF s
<1>5. Truncating(s) => Truncating(r)
  BY <1>1, <1>4 DEF Truncating, Sharing
<1> QED BY <1>1, <1>3, <1>4, <1>5, CallGoesOn DEF Agrees

LEMMA CallLockAndVerify ==
  ASSUME BlockInv, CallInv, NEW t \in Tasks, LockAndVerify(t)
  PROVE  CallInv'
<1> DEFINE r == task[t]
<1>1. r.pc = "lock" /\ UNCHANGED <<i_size, i_mutex, cut>>
  BY DEF LockAndVerify, errorVars
<1>2. Shape(r) /\ Kind(r) /\ Miss(r, cut)
  BY TaskIs DEF CallInv, KindInv
<1>3. r.op \in PageOps /\ r.res = 0 /\ r.page
  BY <1>1, <1>2 DEF Kind
<1>4. CASE task' = [task EXCEPT ![t] = BeginWalk(r, "regrab")]
  <2> DEFINE s == BeginWalk(r, "regrab")
  <2>1. Moves(t) /\ task'[t] = s
    BY <1>4, OneTaskMoves DEF BlockInv
  <2>2. /\ Kind(s) /\ Miss(s, cut') /\ Agrees(r, s) /\ s.page = r.page
        /\ s.pc \in {"verify", "detach", "return", "lock", "search"}
        /\ ~Sharing(s)
    BY <1>2, <1>3, BeginWalkPlaces DEF Walks
  <2> HIDE DEF s
  <2>3. ~Truncating(s)
    BY <2>2 DEF Truncating
  <2> QED BY <1>1, <2>1, <2>2, <2>3, CallGoesOn DEF Agrees
<1>5. CASE r.err # "EAGAIN" /\ task' = [task EXCEPT ![t] = [r EXCEPT !.pc = "search"]]
  <2> DEFINE s == [r EXCEPT !.pc = "search"]
  <2>1. Moves(t) /\ task'[t] = s
    BY <1>5, OneTaskMoves DEF BlockInv
  <2>2. /\ Agrees(r, s) /\ s.pc = "search" /\ s.chain = r.chain /\ s.page = r.page /\ s.res = r.res
    BY <1>2 DEF Agrees, Shape, Columns
  <2> HIDE DEF s
  <2>3. Partial(s) = Partial(r) /\ Partial(r).key = 0
    BY <1>1, <1>2, <1>5, <2>2 DEF Partial, Miss
  <2>4. Kind(s) /\ Miss(s, cut') /\ ~Truncating(s)
    BY <1>3, <2>2, <2>3 DEF Kind, Miss, ToTruncate, Truncating, Sharing, Agrees, PageOps
  <2> QED BY <1>1, <2>1, <2>2, <2>4, CallGoesOn DEF Agrees
<1> QED BY <1>4, <1>5 DEF LockAndVerify

\* Allocation goes on, or the call returns.
LEMMA CallAllocates ==
  ASSUME BlockInv, CallInv, NEW t \in Tasks, NEW s, task' = [task EXCEPT ![t] = s],
         UNCHANGED <<i_size, i_mutex, cut>>, task[t].pc \in {"search", "claim", "splice"},
         s.op = task[t].op, s.ino = task[t].ino, s.b = task[t].b, s.page = task[t].page,
         \/ /\ s.pc \in {"search", "claim", "splice"} /\ s.chain = task[t].chain
            /\ s.res = task[t].res
         \/ s.pc = "return"
  PROVE  CallInv'
<1> DEFINE r == task[t]
<1>1. Kind(r) /\ Miss(r, cut)
  BY DEF CallInv, KindInv
<1>2. r.op \in PageOps /\ r.res = 0 /\ r.page
  BY <1>1 DEF Kind
<1>3. Moves(t) /\ task'[t] = s
  BY OneTaskMoves DEF BlockInv
<1>4. s.chain = r.chain => Partial(s) = Partial(r)
  BY DEF Partial
<1>5. Kind(s) /\ ~Truncating(s) /\ s.pc # "truncate"
  BY <1>2 DEF Kind, ToTruncate, Truncating, Sharing, PageOps
<1>6. Miss(s, cut')
  BY <1>1, <1>4 DEF Miss
<1> QED BY <1>3, <1>5, <1>6, CallGoesOn

LEMMA CallAllocate ==
  ASSUME BlockInv, CallInv, NEW t \in Tasks,
         Search(t) \/ NoSpace(t) \/ Claim(t) \/ Splice(t)
  PROVE  CallInv'
<1> DEFINE r == task[t]
<1>1. Shape(r)
  BY TaskIs, SMTT(30)
<1>2. /\ UNCHANGED <<i_size, i_mutex, cut>> /\ r.pc \in {"search", "claim", "splice"}
  BY DEF Search, NoSpace, Claim, Splice, errorVars
<1>3. CASE Search(t)
  <2>1. PICK b : task' = [task EXCEPT ![t].pc = "claim", ![t].goal = b]
    BY <1>3 DEF Search
  <2> DEFINE s == [r EXCEPT !.pc = "claim", !.goal = b]
  <2>2. task' = [task EXCEPT ![t] = s]
    BY <2>1
  <2>3. /\ s.op = r.op /\ s.ino = r.ino /\ s.b = r.b /\ s.page = r.page /\ s.pc = "claim"
        /\ s.chain = r.chain /\ s.res = r.res
    BY <1>1 DEF Shape, Columns
  <2> HIDE DEF s
  <2> QED BY <1>2, <2>2, <2>3, CallAllocates
<1>4. CASE NoSpace(t)
  BY <1>1, <1>2, <1>4, CallAllocates DEF NoSpace, Shape, Columns
<1>5. CASE Claim(t) /\ r.goal \in used
  BY <1>1, <1>2, <1>5, CallAllocates DEF Claim, Shape, Columns
<1>6. CASE Claim(t) /\ r.goal \notin used
  BY <1>1, <1>2, <1>6, CallAllocates DEF Claim, Shape, Columns
<1>7. CASE Splice(t)
  BY <1>1, <1>2, <1>7, CallAllocates DEF Splice, Shape, Columns
<1> QED BY <1>3, <1>4, <1>5, <1>6, <1>7

LEMMA IdleKind ==
  /\ Kind(Idle) /\ ~ToTruncate(Idle) /\ Idle.op = "none" /\ Idle.ino = None /\ Idle.pc = "idle"
  /\ ~Idle.page
<1>1. /\ Idle.op = "none" /\ Idle.ino = None /\ Idle.pc = "idle" /\ Idle.page = FALSE
      /\ Idle.walk = "none"
  BY DEF Idle
<1> QED BY <1>1 DEF Kind, ToTruncate, Truncating, Sharing, PageOps

LEMMA CallPageEnd ==
  ASSUME BlockInv, CallInv, NEW t \in Tasks, PageEnd(t)
  PROVE  CallInv'
<1>1. /\ task[t].pc = "return" /\ UNCHANGED <<i_size, i_mutex, cut>>
      /\ task' = [task EXCEPT ![t] = Idle]
  BY DEF PageEnd, errorVars
<1>2. Moves(t) /\ task'[t] = Idle
  BY <1>1, OneTaskMoves DEF BlockInv
<1>3. OwnIMutex(t)
  BY <1>1 DEF OwnIMutex
<1> QED BY <1>1, <1>2, <1>3, IdleKind, CallEnds

LEMMA CallWriteEnd ==
  ASSUME BlockInv, CallInv, NEW t \in Tasks, WriteEnd(t)
  PROVE  CallInv'
<1> DEFINE r == task[t]
           i == r.ino
<1>1. /\ r.pc = "return" /\ r.op = "write" /\ UNCHANGED cut
      /\ i_size' = [i_size EXCEPT ![i] = IF r.b + 1 > @ THEN r.b + 1 ELSE @]
      /\ i_mutex' = [i_mutex EXCEPT ![i] = None]
      /\ task' = [task EXCEPT ![t] = Idle]
  BY DEF WriteEnd, errorVars
<1>2. Moves(t) /\ task'[t] = Idle
  BY <1>1, OneTaskMoves DEF BlockInv
<1>3. Globals /\ Form(r) /\ i \in Inodes /\ Fits(r.b)
  BY <1>1, TaskIs DEF Form
<1>4. i_mutex[i] = t
  BY <1>1 DEF CallInv, SizeInv, Writers
<1>5. OwnIMutex(t)
  BY <1>1, <1>3, <1>4 DEF OwnIMutex, Globals
<1>6. ASSUME NEW u \in Tasks \ {t}, task[u].ino # None
      PROVE  \/ i_size'[task[u].ino] = i_size[task[u].ino]
             \/ ~ToTruncate(task[u]) /\ (task[u].page /\ InFile(task[u]) => InFile(task[u])')
  <2>1. CASE task[u].ino # i
    BY <1>1, <1>3, <1>6, <2>1, TaskIs DEF Typed, Globals
  <2>2. CASE task[u].ino = i
    BY <1>1, <1>2, <1>3, <1>6, <2>2, OneTruncates, TaskIs DEF ToTruncate, InFile, Globals, Fits,
       Moves, CallInv, KindInv, Kind, WithChain, Form, Writers
  <2> QED BY <2>1, <2>2
<1> QED BY <1>1, <1>2, <1>5, <1>6, IdleKind, CallEnds

(* A truncate begins. *)
LEMMA CallToTruncate ==
  ASSUME BlockInv, CallInv, NEW t \in Tasks, NEW op \in {"truncate", "evict"},
         NEW i \in Inodes, NEW size,
         task' = [task EXCEPT ![t] = [Request(op, i, size, FALSE) EXCEPT !.pc = "truncate"]],
         i_size' = [i_size EXCEPT ![i] = size], UNCHANGED cut, OwnIMutex(t),
         op = "truncate" => i_mutex'[i] = t, task[t].pc # "truncate",
         \A u \in Tasks \ {t} : task[u].ino = i => ~ToTruncate(task[u])
  PROVE  CallInv'
<1> DEFINE q == Request(op, i, size, FALSE)
           s == [q EXCEPT !.pc = "truncate"]
<1>1. Shape(q) /\ q.op = op /\ q.ino = i /\ q.b = size /\ q.page = FALSE
  BY DEF Request, Idle, Shape, Columns
<1>2. Moves(t) /\ task'[t] = s
  BY OneTaskMoves DEF BlockInv
<1> HIDE DEF q
<1>3. s.op = op /\ s.ino = i /\ s.b = size /\ s.page = FALSE /\ s.pc = "truncate"
  BY <1>1 DEF Shape, Columns
<1> HIDE DEF s
<1>4. Kind(s) /\ Miss(s, cut') /\ ~Truncating(s) /\ ToTruncate(s)
  BY <1>3 DEF Kind, Miss, ToTruncate, Truncating, Sharing, PageOps
<1>5. Globals
  BY TaskIs
<1>6. \A u \in Tasks : u # t => task'[u] = task[u]
  BY <1>2 DEF Moves
<1>7. ASSUME NEW u \in Tasks \ {t}, InFile(task[u])
      PROVE  InFile(task[u])'
  <2>1. \A x \in Tasks : task[x].pc = "truncate" => task'[x] = task[x]
    BY <1>6
  <2>2. CASE task[u].ino = i
    BY <1>2, <1>3, <1>6, <2>2 DEF InFile
  <2>3. CASE task[u].ino # i
    <3>1. i_size'[task[u].ino] = i_size[task[u].ino]
      BY <1>5, <2>3 DEF Globals
    <3> QED BY <1>6, <1>7, <2>1, <3>1 DEF InFile
  <2> QED BY <2>2, <2>3
<1>8. \A u \in Tasks \ {t} : ToTruncate(task[u]) => i_size'[task[u].ino] = i_size[task[u].ino]
  BY <1>5 DEF Globals
<1>9. i_size'[i] = size
  BY <1>5 DEF Globals
<1>10. Respects(t, s)
  BY <1>3, <1>4, <1>7, <1>8, <1>9 DEF Respects, Writers
<1> QED BY <1>2, <1>4, <1>10, CallStep

LEMMA CallWriteFailed ==
  ASSUME BlockInv, CallInv, NEW t \in Tasks, WriteFailed(t)
  PROVE  CallInv'
<1> DEFINE r == task[t]
           i == r.ino
<1>1. /\ r.pc \in {"page", "return"} /\ r.op \in {"begin", "write"}
      /\ UNCHANGED <<i_size, cut>>
  BY DEF WriteFailed, errorVars, CallInv, KindInv, Kind
<1>2. Globals /\ Form(r) /\ i \in Inodes
  BY <1>1, TaskIs DEF Form
<1>3. i_mutex[i] = t
  BY <1>1 DEF CallInv, SizeInv, Writers
<1>4. CASE /\ task' = [task EXCEPT ![t] =
                [Request("truncate", i, i_size[i], FALSE) EXCEPT !.pc = "truncate"]]
           /\ UNCHANGED i_mutex
  <2>1. OwnIMutex(t) /\ i_mutex'[i] = t
    BY <1>3, <1>4 DEF OwnIMutex
  <2>2. \A u \in Tasks \ {t} : task[u].ino = i => ~ToTruncate(task[u])
    BY <1>1, OneTruncates DEF Writers
  <2>3. i_size' = [i_size EXCEPT ![i] = i_size[i]]
    BY <1>1, <1>2 DEF Globals
  <2> QED BY <1>1, <1>2, <1>4, <2>1, <2>2, <2>3, CallToTruncate
<1>5. CASE /\ task' = [task EXCEPT ![t] = Idle]
           /\ i_mutex' = [i_mutex EXCEPT ![i] = None]
  BY <1>1, <1>2, <1>3, <1>5, OneTaskMoves, IdleKind, CallEnds DEF BlockInv, OwnIMutex, Globals
<1> QED BY <1>4, <1>5 DEF WriteFailed

LEMMA CallStartTruncate ==
  ASSUME BlockInv, CallInv, NEW t \in Tasks, NEW i \in Inodes, NEW size \in Sizes[i],
         StartTruncate(t, i, size)
  PROVE  CallInv'
<1>1. /\ task[t].pc = "idle" /\ Reachable(i) /\ i_mutex[i] = None /\ UNCHANGED cut
      /\ i_mutex' = [i_mutex EXCEPT ![i] = t] /\ i_size' = [i_size EXCEPT ![i] = size]
      /\ task' = [task EXCEPT ![t] =
           [Request("truncate", i, size, FALSE) EXCEPT !.pc = "truncate"]]
  BY DEF StartTruncate, errorVars
<1>2. Globals
  BY TaskIs
<1>3. OwnIMutex(t) /\ i_mutex'[i] = t
  BY <1>1, <1>2 DEF OwnIMutex, Globals
<1>4. \A u \in Tasks \ {t} : task[u].ino = i => ~ToTruncate(task[u])
  BY <1>1, NobodyTruncates
<1> QED BY <1>1, <1>3, <1>4, CallToTruncate

LEMMA CallStartEvict ==
  ASSUME BlockInv, CallInv, NEW t \in Tasks, NEW i \in Inodes, StartEvict(t, i)
  PROVE  CallInv'
<1>1. /\ task[t].pc = "idle" /\ UNCHANGED <<cut, i_mutex>>
      /\ i_size' = [i_size EXCEPT ![i] = 0] /\ \A u \in Tasks : task[u].ino # i
      /\ task' = [task EXCEPT ![t] =
           [Request("evict", i, 0, FALSE) EXCEPT !.pc = "truncate"]]
  BY DEF StartEvict, errorVars
<1>2. OwnIMutex(t)
  BY <1>1 DEF OwnIMutex
<1>3. task[t].pc # "truncate" /\ \A u \in Tasks \ {t} : task[u].ino = i => ~ToTruncate(task[u])
  BY <1>1
<1> QED BY <1>1, <1>2, <1>3, CallToTruncate

\* A write takes i_mutex.
LEMMA CallStartWrite ==
  ASSUME BlockInv, CallInv, NEW t \in Tasks, NEW i \in Inodes, NEW b, StartWrite(t, i, b)
  PROVE  CallInv'
<1> DEFINE s == [Request("begin", i, b, FALSE) EXCEPT !.pc = "page"]
<1>1. /\ task[t].pc = "idle" /\ UNCHANGED <<i_size, cut>> /\ task' = [task EXCEPT ![t] = s]
      /\ i_mutex[i] = None /\ i_mutex' = [i_mutex EXCEPT ![i] = t]
  BY DEF StartWrite, errorVars
<1>2. s.op = "begin" /\ s.ino = i /\ s.page = FALSE /\ s.pc = "page"
  BY DEF Request, Idle
<1>3. Moves(t) /\ task'[t] = s
  BY <1>1, OneTaskMoves DEF BlockInv
<1> HIDE DEF s
<1>4. Kind(s) /\ ~ToTruncate(s)
  BY <1>2 DEF Kind, ToTruncate, Truncating, Sharing, PageOps
<1>5. OwnIMutex(t) /\ i_mutex'[i] = t
  BY <1>1, TaskIs DEF OwnIMutex, Globals
<1> QED BY <1>1, <1>2, <1>3, <1>4, <1>5, CallEnds

\* Where a walk begins the call has its page alone.
LEMMA CallPageStart ==
  ASSUME BlockInv, CallInv, NEW t \in Tasks, NEW i \in Inodes, NEW b,
         \/ StartPage(t, "readpage", i, b)
         \/ StartPage(t, "writepage", i, b)
         \/ WriteBegin(t) /\ i = task[t].ino /\ b = task[t].b
  PROVE  CallInv'
<1>1. PICK op \in PageOps :
        /\ task' = [task EXCEPT ![t] = BeginWalk(Request(op, i, b, TRUE), "first")]
        /\ op # "write" => b < i_size[i]
        /\ op = "write" => task[t].pc = "page" /\ i = task[t].ino
  BY DEF StartPage, WriteBegin, PageOps
<1>2. /\ task[t].pc \in {"idle", "page"} /\ ~PageLocked(i, b)
      /\ UNCHANGED <<i_size, i_mutex, cut>>
  BY DEF StartPage, WriteBegin, errorVars
<1>0. op = "write" => task[t].op \in Writers /\ i_mutex[i] = t
  BY <1>1 DEF CallInv, KindInv, Kind, SizeInv, Writers
<1>3. Globals
  BY TaskIs
<1> DEFINE q == Request(op, i, b, TRUE)
           s == BeginWalk(q, "first")
<1>4. Shape(q) /\ q.op = op /\ q.ino = i /\ q.b = b /\ q.page = TRUE /\ q.res = 0
  BY DEF Request, Idle, Shape, Columns
<1>5. Moves(t) /\ task'[t] = s
  BY <1>1, OneTaskMoves DEF BlockInv
<1> HIDE DEF q
<1>6. /\ Kind(s) /\ Miss(s, cut') /\ Agrees(q, s) /\ s.page = q.page
      /\ s.pc \in {"verify", "detach", "return", "lock", "search"} /\ ~Sharing(s)
  BY <1>4, BeginWalkPlaces DEF Walks
<1> HIDE DEF s
<1>7. s.op = op /\ s.ino = i /\ s.b = b /\ s.page
  BY <1>4, <1>6 DEF Agrees
<1>8. ~ToTruncate(s) /\ ~Truncating(s)
  BY <1>6 DEF ToTruncate, Truncating
<1>9. \A u \in Tasks : u # t => task'[u] = task[u]
  BY <1>5 DEF Moves
<1>10. OwnIMutex(t) /\ (s.op = "write" => i_mutex'[i] = t)
  BY <1>0, <1>2, <1>7 DEF OwnIMutex
<1>11. ASSUME NEW u \in Tasks \ {t}, task[u].ino = i, Truncating(task[u])
       PROVE  b < task[u].b
  BY <1>0, <1>1, <1>11, OneTruncates DEF ToTruncate, CallInv, SizeInv
<1>12. \A u \in Tasks \ {t} : task[u].ino = i /\ task[u].page => task[u].b # b
  BY <1>2 DEF PageLocked
<1>13. ASSUME NEW u \in Tasks \ {t}, InFile(task[u])
       PROVE  InFile(task[u])'
  BY <1>2, <1>9, <1>13 DEF InFile
<1>14. s.op # "write" => InFile(task[t])'
  BY <1>1, <1>2, <1>5, <1>7 DEF InFile
<1>15. s.op \in Writers => s.op = "write"
  BY <1>7 DEF PageOps, Writers
<1>16. Respects(t, s)
  BY <1>2, <1>7, <1>8, <1>10, <1>11, <1>12, <1>13, <1>14, <1>15 DEF Respects
<1> QED BY <1>5, <1>6, <1>16, CallStep

LEMMA CallWriteBegin ==
  ASSUME BlockInv, CallInv, NEW t \in Tasks, WriteBegin(t)
  PROVE  CallInv'
BY CallPageStart, TaskIs DEF WriteBegin, Form

LEMMA PageFits ==
  ASSUME BlockInv, CallInv, NEW t \in Tasks, task[t].page
  PROVE  Fits(task[t].b) /\ task[t].b \in Nat /\ task[t].ino \in Inodes
<1>1. Kind(task[t]) /\ Form(task[t])
  BY TaskIs DEF CallInv, KindInv
<1>2. task[t].pc \in WithChain \cup {"return"}
  BY <1>1 DEF Kind, WithChain
<1> QED BY <1>1, <1>2 DEF Form, Fits, WithChain

LEMMA CallTruncateLock ==
  ASSUME BlockInv, CallInv, NEW t \in Tasks, TruncateLock(t)
  PROVE  CallInv'
<1> DEFINE r == task[t]
           off == Path(r)[1]
           work == SlotsFrom(r.ino, off, NDir, 0) \o do_indirects(r.ino, off)
           s == task'[t]
<1>1. /\ r.pc = "truncate" /\ UNCHANGED <<i_size, i_mutex, cut>>
      /\ ~\E u \in Tasks : task[u].page /\ task[u].ino = r.ino /\ task[u].b >= r.b
      /\ task' = [task EXCEPT ![t] = IF Len(Path(r)) = 1
                                     THEN [r EXCEPT !.pc = "kill", !.work = work]
                                     ELSE BeginWalk(r, "shared")]
  BY DEF TruncateLock, errorVars
<1>2. Shape(r) /\ Form(r) /\ Kind(r) /\ r.ino \in Inodes /\ Fits(r.b) /\ r.op \in {"truncate", "evict"}
  BY <1>1, TaskIs DEF CallInv, KindInv, Form, Kind, ToTruncate
<1>3. ~r.page
  BY <1>2 DEF Kind, PageOps
<1>4. r.op = "evict" => Len(Path(r)) = 1
  BY <1>2, PathZero DEF Form, Path
<1>5. /\ Moves(t) /\ Kind(s) /\ Miss(s, cut') /\ s.op = r.op /\ s.ino = r.ino /\ s.b = r.b
      /\ s.page = r.page /\ s.pc # "truncate" /\ Truncating(s)
  <2>1. CASE Len(Path(r)) = 1
    <3> DEFINE q == [r EXCEPT !.pc = "kill", !.work = work]
    <3>1. task' = [task EXCEPT ![t] = q]
      BY <1>1, <2>1
    <3> HIDE DEF work
    <3>2. q.pc = "kill" /\ q.op = r.op /\ q.ino = r.ino /\ q.b = r.b /\ q.page = r.page
      BY <1>2 DEF Shape, Columns
    <3>3. Moves(t) /\ s = q
      BY <3>1, OneTaskMoves DEF BlockInv
    <3> HIDE DEF q
    <3>4. Kind(q) /\ Miss(q, cut') /\ Truncating(q)
      BY <1>2, <1>3, <3>2 DEF Kind, Miss, ToTruncate, Truncating, Sharing, PageOps
    <3> QED BY <3>2, <3>3, <3>4
  <2>2. CASE Len(Path(r)) # 1
    <3> DEFINE q == BeginWalk(r, "shared")
    <3>1. task' = [task EXCEPT ![t] = q]
      BY <1>1, <2>2
    <3>2. r.op = "truncate" /\ r.op \notin PageOps
      BY <1>2, <1>4, <2>2 DEF PageOps
    <3>3. /\ Kind(q) /\ Miss(q, cut') /\ Agrees(r, q) /\ q.page = r.page
          /\ q.pc \in {"verify", "detach", "return", "lock", "search"} /\ Sharing(q)
      BY <1>2, <1>3, <3>2, BeginWalkPlaces DEF Walks
    <3>4. Moves(t) /\ s = q
      BY <3>1, OneTaskMoves DEF BlockInv
    <3> HIDE DEF q
    <3> QED BY <3>3, <3>4 DEF Agrees, Truncating
  <2> QED BY <2>1, <2>2
<1> HIDE DEF s
<1>6. \A u \in Tasks : u # t => task'[u] = task[u]
  BY <1>5 DEF Moves
<1>7. i_size[r.ino] = r.b /\ (r.op = "truncate" => i_mutex[r.ino] = t)
  BY <1>1 DEF CallInv, SizeInv, ToTruncate, Writers
<1>8. ASSUME NEW u \in Tasks \ {t}, task[u].page, task[u].ino = r.ino
      PROVE  task[u].b < r.b
  BY <1>1, <1>2, <1>8, PageFits DEF Fits
<1>9. ASSUME NEW u \in Tasks \ {t}, task[u].page, InFile(task[u])
      PROVE  InFile(task[u])'
  BY <1>1, <1>6, <1>7, <1>8, <1>9 DEF InFile
<1>10. OwnIMutex(t)
  BY <1>1 DEF OwnIMutex
<1>11. Respects(t, s)
  BY <1>1, <1>2, <1>3, <1>5, <1>7, <1>8, <1>9, <1>10 DEF Respects, Writers
<1> QED BY <1>5, <1>11, CallStep DEF s

\* Truncate goes on to empty slots and to free branches.
LEMMA CallKills ==
  ASSUME BlockInv, CallInv, NEW t \in Tasks, NEW s, task' = [task EXCEPT ![t] = s],
         UNCHANGED <<i_size, i_mutex, cut>>, task[t].pc \in {"detach", "kill"}, s.pc = "kill",
         s.op = task[t].op, s.ino = task[t].ino, s.b = task[t].b, s.page = task[t].page
  PROVE  CallInv'
<1>1. Kind(task[t]) /\ Truncating(task[t]) /\ task[t].op \in {"truncate", "evict"}
  BY DEF CallInv, KindInv, Kind, ToTruncate, Truncating, Sharing
<1>2. Moves(t) /\ task'[t] = s
  BY OneTaskMoves, ZenonT(30) DEF BlockInv
<1>3. Kind(s) /\ Miss(s, cut') /\ Truncating(s)
  BY <1>1 DEF Kind, Miss, ToTruncate, Truncating, Sharing, PageOps
<1> QED BY <1>1, <1>2, <1>3, CallGoesOn

LEMMA CallTruncate ==
  ASSUME BlockInv, CallInv, NEW t \in Tasks, Detach(t) \/ Kill(t) \/ FreeBranch(t)
  PROVE  CallInv'
<1> DEFINE r == task[t]
<1>1. Shape(r)
  BY TaskIs
<1>2. /\ UNCHANGED <<i_size, i_mutex, cut>> /\ r.pc \in {"detach", "kill"}
  BY ZenonT(30) DEF Detach, Kill, FreeBranch, errorVars
<1>3. CASE Detach(t)
  <2>1. PICK top, depth, work : task' = [task EXCEPT ![t] =
          [r EXCEPT !.pc = "kill", !.chain = <<>>, !.top = top, !.depth = depth, !.work = work]]
    BY <1>3, Zenon DEF Detach
  <2> DEFINE s == [r EXCEPT !.pc = "kill", !.chain = <<>>, !.top = top, !.depth = depth, !.work = work]
  <2>2. s.pc = "kill" /\ s.op = r.op /\ s.ino = r.ino /\ s.b = r.b /\ s.page = r.page
    BY <1>1 DEF Shape, Columns
  <2>3. task' = [task EXCEPT ![t] = s]
    BY <2>1
  <2> HIDE DEF s
  <2> QED BY <1>2, <2>2, <2>3, CallKills
<1>4. CASE Kill(t)
  BY <1>1, <1>2, <1>4, CallKills DEF Kill, Shape, Columns
<1>5. CASE FreeBranch(t)
  BY <1>1, <1>2, <1>5, CallKills DEF FreeBranch, Shape, Columns
<1> QED BY <1>3, <1>4, <1>5

LEMMA FreeKind ==
  ASSUME NEW i
  PROVE  LET s == [Idle EXCEPT !.pc = "free", !.op = "evict", !.ino = i] IN
         Kind(s) /\ ~ToTruncate(s) /\ s.op = "evict" /\ s.ino = i /\ s.pc = "free"
<1> DEFINE s == [Idle EXCEPT !.pc = "free", !.op = "evict", !.ino = i]
<1>1. s.pc = "free" /\ s.op = "evict" /\ s.ino = i /\ s.page = FALSE /\ s.walk = "none"
  BY DEF Idle
<1> HIDE DEF s
<1> QED BY <1>1 DEF Kind, ToTruncate, Truncating, Sharing, PageOps, s

LEMMA CallTruncateEnd ==
  ASSUME BlockInv, CallInv, NEW t \in Tasks, TruncateEnd(t)
  PROVE  CallInv'
<1> DEFINE r == task[t]
           free == [Idle EXCEPT !.pc = "free", !.op = "evict", !.ino = r.ino]
           s == IF r.op = "evict" THEN free ELSE Idle
<1>1. /\ r.pc = "kill" /\ UNCHANGED <<i_size, cut>> /\ i_mutex' = Unlocked(i_mutex, t, r.ino)
      /\ task' = [task EXCEPT ![t] = s]
  BY DEF TruncateEnd, errorVars
<1>2. Moves(t) /\ task'[t] = s
  BY <1>1, OneTaskMoves DEF BlockInv
<1>3. Globals /\ Form(r) /\ r.ino \in Inodes
  BY <1>1, TaskIs DEF Form
<1>4. OwnIMutex(t)
  BY <1>1, <1>3 DEF OwnIMutex, Unlocked, Globals
<1>5. Kind(s) /\ ~ToTruncate(s) /\ s.op \in {"none", "evict"}
  BY IdleKind, FreeKind
<1> HIDE DEF s
<1> QED BY <1>1, <1>2, <1>4, <1>5, CallEnds

LEMMA CreateKind ==
  ASSUME NEW s, s.op = "create", s.pc \in {"new", "init"}, ~s.page
  PROVE  Kind(s) /\ ~ToTruncate(s)
BY DEF Kind, ToTruncate, Truncating, Sharing, PageOps

LEMMA CallLook ==
  ASSUME BlockInv, CallInv, NEW t \in Tasks, StartCreate(t) \/ LoseInode(t)
  PROVE  CallInv'
<1>1. /\ UNCHANGED <<i_size, i_mutex, cut>> /\ task[t].pc \in {"idle", "new"}
  BY DEF StartCreate, LoseInode, errorVars
<1>2. OwnIMutex(t)
  BY <1>1 DEF OwnIMutex
<1>3. ASSUME NEW s, task' = [task EXCEPT ![t] = s], Kind(s), ~ToTruncate(s),
             s.op \in {"none", "create"}
      PROVE  CallInv'
  BY <1>1, <1>2, <1>3, OneTaskMoves, CallEnds DEF BlockInv
<1>4. CASE StartCreate(t)
  BY <1>3, <1>4, CreateKind DEF StartCreate, Idle
<1>5. CASE task' = [task EXCEPT ![t] = Idle]
  BY <1>3, <1>5, IdleKind
<1>6. ASSUME LoseInode(t), NEW i, task' = [task EXCEPT ![t].goal = i]
      PROVE  CallInv'
  <2> DEFINE r == task[t]
             s == [r EXCEPT !.goal = i]
  <2>1. r.pc = "new" /\ Shape(r) /\ Kind(r)
    BY <1>6, TaskIs DEF LoseInode, CallInv, KindInv
  <2>2. r.op = "create" /\ ~r.page
    BY <2>1 DEF Kind, PageOps
  <2>3. s.pc = r.pc /\ s.op = r.op /\ s.page = r.page
    BY <2>1 DEF Shape, Columns
  <2>4. task' = [task EXCEPT ![t] = s]
    BY <1>6
  <2> HIDE DEF s
  <2>5. Kind(s) /\ ~ToTruncate(s)
    BY <2>1, <2>2, <2>3, CreateKind
  <2> QED BY <1>3, <2>2, <2>3, <2>4, <2>5
<1> QED BY <1>4, <1>5, <1>6 DEF LoseInode

LEMMA CallClaimInode ==
  ASSUME BlockInv, CallInv, NEW t \in Tasks, ClaimInode(t)
  PROVE  CallInv'
<1> DEFINE i == task[t].goal
           s == [Idle EXCEPT !.pc = "init", !.op = "create", !.ino = i]
<1>1. /\ task[t].pc = "new" /\ i \notin live /\ UNCHANGED <<i_mutex, cut>>
      /\ i_size' = [i_size EXCEPT ![i] = 0] /\ task' = [task EXCEPT ![t] = s]
  BY DEF ClaimInode, errorVars
<1>2. Moves(t) /\ task'[t] = s
  BY <1>1, OneTaskMoves DEF BlockInv
<1>3. s.pc = "init" /\ s.op = "create" /\ s.page = FALSE
  BY DEF Idle
<1> HIDE DEF s
<1>4. Kind(s) /\ ~ToTruncate(s) /\ OwnIMutex(t)
  BY <1>1, <1>3, CreateKind DEF OwnIMutex
<1>5. Globals
  BY TaskIs
<1>6. \A u \in Tasks : task[u].ino # None => task[u].ino \in live
  BY DEF BlockInv, Inv, OwnInv
<1>7. \A u \in Tasks \ {t} : task[u].ino # None => i_size'[task[u].ino] = i_size[task[u].ino]
  BY <1>1, <1>5, <1>6 DEF Globals
<1> QED BY <1>1, <1>2, <1>3, <1>4, <1>7, CallEnds

LEMMA CallInode ==
  ASSUME BlockInv, CallInv, NEW t \in Tasks, InitInode(t) \/ FreeInode(t)
  PROVE  CallInv'
<1> DEFINE r == task[t]
<1>1. UNCHANGED <<i_size, i_mutex, cut>> /\ r.pc \in {"init", "free"}
  BY DEF InitInode, FreeInode, errorVars
<1>2. OwnIMutex(t)
  BY <1>1 DEF OwnIMutex
<1>3. CASE task' = [task EXCEPT ![t] = Idle]
  BY <1>1, <1>2, <1>3, OneTaskMoves, IdleKind, CallEnds DEF BlockInv
<1>4. CASE r.pc = "init" /\ task' = [task EXCEPT ![t].pc = "free", ![t].op = "evict"]
  <2> DEFINE s == [r EXCEPT !.pc = "free", !.op = "evict"]
  <2>1. Shape(r) /\ Kind(r) /\ r.op = "create"
    BY <1>4, TaskIs DEF CallInv, KindInv, BlockInv, Inv, PlaceInv
  <2>2. ~r.page
    BY <2>1 DEF Kind, PageOps
  <2>3. s.pc = "free" /\ s.op = "evict" /\ s.page = r.page
    BY <2>1 DEF Shape, Columns
  <2>4. task' = [task EXCEPT ![t] = s]
    BY <1>4
  <2>5. Moves(t) /\ task'[t] = s
    BY <2>4, OneTaskMoves DEF BlockInv
  <2> HIDE DEF s
  <2>6. Kind(s) /\ ~ToTruncate(s)
    BY <2>2, <2>3 DEF Kind, ToTruncate, Truncating, Sharing, PageOps
  <2> QED BY <1>1, <1>2, <1>4, <2>3, <2>5, <2>6, CallEnds
<1> QED BY <1>3, <1>4 DEF InitInode, FreeInode

LEMMA CallInit == Init => CallInv
<1> SUFFICES ASSUME Init
             PROVE  CallInv
  OBVIOUS
<1>1. \A t \in Tasks : task[t] = Idle
  BY DEF Init
<1>2. \A t \in Tasks : /\ Kind(task[t]) /\ ~ToTruncate(task[t]) /\ task[t].op = "none"
                       /\ task[t].pc = "idle" /\ ~task[t].page
  BY <1>1, IdleKind
<1>3. KindInv
  BY <1>2 DEF KindInv, Miss
<1> QED BY <1>2, <1>3 DEF CallInv, SizeInv, PageInv, PagesInv, Writers, ToTruncate, Truncating

LEMMA CallNext == BlockInv /\ CallInv /\ [Next]_vars => CallInv'
<1> SUFFICES ASSUME BlockInv, CallInv, [Next]_vars
             PROVE  CallInv'
  OBVIOUS
<1>1. ASSUME NEW t \in Tasks, Step(t)
      PROVE  CallInv'
  BY <1>1, CallWalkVerify, CallWalkAdd, CallLockAndVerify, CallAllocate, CallPageEnd,
     CallWriteEnd, CallWriteFailed, CallTruncateLock, CallTruncate, CallTruncateEnd,
     CallClaimInode, CallLook, CallInode, CallWriteBegin DEF Step
<1>2. ASSUME NEW t \in Tasks, Start(t)
      PROVE  CallInv'
  BY <1>2, CallPageStart, CallStartWrite, CallStartTruncate, CallStartEvict DEF Start
<1>3. ASSUME UNCHANGED vars
      PROVE  CallInv'
  BY <1>3 DEF vars, errorVars, CallInv, KindInv, SizeInv, PageInv, PagesInv, InFile, ToTruncate,
              Truncating, Sharing
<1> QED BY <1>1, <1>2, <1>3, CallLook DEF Next

----------------------------------------
(* What changes of pointers do to ways *)

\* The pointers p make trees of the blocks S.
Forest(p, S, lv, file, R) ==
  S \subseteq Blocks /\ 0 \notin S /\ Labels(lv, file) /\ Tree(p, S, lv, file, R)

LEMMA SlotOnWay ==
  ASSUME NEW p, NEW S, NEW lv, NEW file, NEW R, Forest(p, S, lv, file, R),
         NEW i \in Inodes, NEW b, Fits(b),
         NEW n \in 1 .. Len(ext2_block_to_path(b)), Goes(p, i, b, n - 1)
  PROVE  LET w == Way(p, i, b)[n - 1] IN
         /\ w \in Indirect(S, lv) /\ ext2_block_to_path(b)[n] \in Slots(w) /\ file[w] = i
<1> DEFINE L == Len(ext2_block_to_path(b))
<1>1. L \in 1 .. 4
  BY PathIs DEF PathOK
<1>2. n \in 1 .. L
  OBVIOUS
<1> HIDE DEF L
<1>3. n - 1 \in 0 .. L /\ n - 1 \in 0 .. n - 1 /\ n - 1 < L /\ (n - 1) + 1 = n
  BY <1>1, <1>2
<1>4. \A m \in 0 .. n - 1 : Leads(p, i, b, m, S, lv, file)
  BY <1>3, WayLeads DEF Forest, L
<1>5. Leads(p, i, b, n - 1, S, lv, file)
  BY <1>3, <1>4
<1> QED BY <1>3, <1>5 DEF Leads, L

\* The slots of file i are in q what they are in p, except slot o of h.
ElseSame(p, q, S, lv, file, i, h, o) ==
  \A g \in Indirect(S, lv) : file[g] = i => \A k \in Slots(g) :
    (g = h /\ k = o) \/ q[g][k] = p[g][k]

LEMMA ElseUnmoved ==
  ASSUME NEW p, NEW S, NEW lv, NEW file, NEW R, Forest(p, S, lv, file, R),
         NEW i \in Inodes, NEW b, Fits(b), NEW q, NEW h, NEW o,
         ElseSame(p, q, S, lv, file, i, h, o), ~Uses(p, i, b, h, o)
  PROVE  Unmoved(p, q, i, b)
<1>1. ASSUME NEW n \in 1 .. Len(ext2_block_to_path(b)), Goes(p, i, b, n - 1)
      PROVE  q[Way(p, i, b)[n - 1]][ext2_block_to_path(b)[n]] =
               p[Way(p, i, b)[n - 1]][ext2_block_to_path(b)[n]]
  BY <1>1, SlotOnWay DEF Uses, ElseSame
<1> QED BY <1>1, WayUnmoved

LEMMA FileUntouched ==
  ASSUME NEW p, NEW S, NEW lv, NEW file, NEW R, Forest(p, S, lv, file, R),
         NEW i \in Inodes, NEW q,
         \A h \in Indirect(S, lv) : file[h] = i => \A o \in Slots(h) : q[h][o] = p[h][o]
  PROVE  Untouched(p, q, i)
<1> SUFFICES ASSUME NEW b, Fits(b)
             PROVE  Unmoved(p, q, i, b)
  BY DEF Untouched
<1>1. ASSUME NEW n \in 1 .. Len(ext2_block_to_path(b)), Goes(p, i, b, n - 1)
      PROVE  q[Way(p, i, b)[n - 1]][ext2_block_to_path(b)[n]] =
               p[Way(p, i, b)[n - 1]][ext2_block_to_path(b)[n]]
  BY <1>1, SlotOnWay
<1> QED BY <1>1, WayUnmoved

LEMMA Nothing ==
  ASSUME NEW p, NEW i
  PROVE  Untouched(p, p, i)
BY WayUnmoved DEF Untouched

(* A slot of file i is emptied. *)
LEMMA EmptiedWays ==
  ASSUME NEW p, NEW S, NEW lv, NEW file, NEW R, Forest(p, S, lv, file, R),
         NEW i \in Inodes, NEW b, Fits(b), NEW q, NEW h, NEW o,
         ElseSame(p, q, S, lv, file, i, h, o), q[h][o] = 0
  PROVE  /\ \A n \in 0 .. Len(ext2_block_to_path(b)) : Goes(q, i, b, n) =>
              Goes(p, i, b, n) /\ \A m \in 0 .. n : Way(q, i, b)[m] = Way(p, i, b)[m]
         /\ \A g, k : Uses(q, i, b, g, k) => Uses(p, i, b, g, k)
         /\ Found(q, i, b) # 0 => /\ Found(q, i, b) = Found(p, i, b)
                                  /\ ~Uses(p, i, b, h, o)
                                  /\ \A g, k : Uses(p, i, b, g, k) => Uses(q, i, b, g, k)
<1> DEFINE path == ext2_block_to_path(b)
           L == Len(path)
           v == Way(p, i, b)
           w == Way(q, i, b)
<1>1. L \in 1 .. 4
  BY PathIs DEF PathOK
<1>2. v[0] = i /\ w[0] = i
      /\ \A m \in 1 .. 4 : v[m] = p[v[m - 1]][path[m]] /\ w[m] = q[w[m - 1]][path[m]]
  BY WayIs
<1>3. ASSUME NEW n \in 1 .. L, Goes(p, i, b, n - 1)
      PROVE  q[v[n - 1]][path[n]] \in {0, v[n]}
  <2>1. v[n - 1] \in Indirect(S, lv) /\ path[n] \in Slots(v[n - 1]) /\ file[v[n - 1]] = i
    BY <1>3, SlotOnWay
  <2> HIDE DEF path, L, v, w
  <2>2. n \in 1 .. 4
    BY <1>1
  <2>3. q[v[n - 1]][path[n]] = 0 \/ q[v[n - 1]][path[n]] = p[v[n - 1]][path[n]]
    BY <2>1 DEF ElseSame
  <2> QED BY <1>2, <2>2, <2>3
<1>4. ASSUME NEW n \in 0 .. L, Goes(q, i, b, n)
      PROVE  Goes(p, i, b, n) /\ \A m \in 0 .. n : w[m] = v[m]
  <2> HIDE DEF path, L, v, w
  <2>1. n \in 0 .. 4 /\ \A m \in 1 .. n : m \in 1 .. L
    BY <1>1
  <2>2. \A m \in 1 .. n : Goes(p, i, b, m - 1) => q[v[m - 1]][path[m]] \in {0, v[m]}
    BY <1>3, <2>1
  <2>3. \A m \in 1 .. n : Goes(p, i, b, m - 1) =>
          q[Way(p, i, b)[m - 1]][ext2_block_to_path(b)[m]] \in {0, Way(p, i, b)[m]}
    BY <2>2 DEF path, v
  <2>4. Goes(p, i, b, n) /\ \A m \in 0 .. n : Way(q, i, b)[m] = Way(p, i, b)[m]
    BY ONLY <1>4, <2>1, <2>3, WayWas
  <2> QED BY <2>4 DEF v, w
<1>5. ASSUME NEW g, NEW k, Uses(q, i, b, g, k)
      PROVE  Uses(p, i, b, g, k)
  BY <1>1, <1>4, <1>5 DEF Uses, path, L, v
<1>6. ASSUME Found(q, i, b) # 0
      PROVE  /\ Found(q, i, b) = Found(p, i, b)
             /\ ~Uses(p, i, b, h, o)
             /\ \A g, k : Uses(p, i, b, g, k) => Uses(q, i, b, g, k)
  <2>1. Goes(q, i, b, L)
    BY <1>6 DEF Found
  <2> HIDE DEF path, L, v, w
  <2>2. L \in 0 .. L
    BY <1>1
  <2>3. Goes(p, i, b, L) /\ \A m \in 0 .. L : w[m] = v[m]
    BY <1>4, <2>1, <2>2
  <2>4. Found(q, i, b) = Found(p, i, b)
    BY <2>1, <2>2, <2>3 DEF Found, path, L, v, w
  <2>5. ASSUME NEW g, NEW k, Uses(p, i, b, g, k)
        PROVE  Uses(q, i, b, g, k) /\ q[g][k] # 0
    <3>1. PICK n \in 1 .. L : Goes(p, i, b, n - 1) /\ v[n - 1] = g /\ path[n] = k
      BY <2>5 DEF Uses, L, v, path
    <3>2. n - 1 \in 0 .. L /\ n \in 0 .. L /\ n \in 1 .. 4 /\ L \in 0 .. 4
      BY <1>1
    <3>3. Goes(q, i, b, n - 1) /\ w[n - 1] = g
      BY <2>1, <2>3, <3>1, <3>2, GoesLess
    <3>4. w[n] = q[g][k] /\ w[n] # 0
      BY <1>2, <2>1, <3>1, <3>2, <3>3 DEF Goes, w
    <3> QED BY <3>1, <3>3, <3>4 DEF Uses, path, L, w
  <2> QED BY <2>4, <2>5
<1> QED BY <1>4, <1>5, <1>6

(* No way leads into a branch that hangs off nothing. *)
LEMMA FreedUntouched ==
  ASSUME NEW S, NEW lv, NEW file, NEW R, Forest(ptr, S, lv, file, R),
         NEW x \in R, NEW C, IsBranch(S, lv, file, x, C),
         NEW q, \A h \in Inodes \cup (S \ C) : q[h] = ptr[h], NEW i \in Inodes
  PROVE  Untouched(ptr, q, i)
<1> SUFFICES ASSUME NEW b, Fits(b)
             PROVE  Unmoved(ptr, q, i, b)
  BY DEF Untouched
<1>1. ASSUME NEW n \in 1 .. Len(ext2_block_to_path(b)), Goes(ptr, i, b, n - 1)
      PROVE  q[Way(ptr, i, b)[n - 1]][ext2_block_to_path(b)[n]] =
               ptr[Way(ptr, i, b)[n - 1]][ext2_block_to_path(b)[n]]
  <2> DEFINE w == Way(ptr, i, b)
             path == ext2_block_to_path(b)
             L == Len(path)
             A == {w[m] : m \in 0 .. n - 1}
  <2>0. L \in 1 .. 4 /\ n \in 1 .. L
    BY PathIs DEF PathOK
  <2>1. w[0] = i /\ \A m \in 1 .. 4 : w[m] = ptr[w[m - 1]][path[m]]
    BY WayIs
  <2>2. n - 1 \in 0 .. L
    BY <2>0
  <2>3. \A m \in 0 .. n - 1 : Leads(ptr, i, b, m, S, lv, file)
    BY <1>1, <2>2, WayLeads DEF Forest
  <2>4. \A m \in 0 .. n - 1 : (m > 0 => w[m] \in S) /\ (m < L => w[m] \in Indirect(S, lv)
                                                              /\ path[m + 1] \in Slots(w[m]))
    BY <2>3 DEF Leads
  <2> HIDE DEF w, path, L
  <2>5. ASSUME NEW m \in 1 .. n - 1
        PROVE  /\ w[m] \in S /\ w[m - 1] \in Indirect(S, lv) /\ path[m] \in Slots(w[m - 1])
               /\ w[m] = ptr[w[m - 1]][path[m]] /\ w[m - 1] \in A /\ w[m] \in A
    BY <2>0, <2>1, <2>4
  <2>6. A \subseteq Inodes \cup S
    BY <2>0, <2>1, <2>5
  <2>7. Rises(ptr, S, lv, A, {i})
    <3>1. SUFFICES ASSUME NEW y \in A
                   PROVE  y = i \/ (y \in S /\ \E h \in A \cap Indirect(S, lv) :
                                      \E o \in Slots(h) : ptr[h][o] = y)
      BY DEF Rises
    <3>2. PICK m \in 0 .. n - 1 : y = w[m]
      OBVIOUS
    <3>3. m = 0 \/ m \in 1 .. n - 1
      BY <2>0
    <3> HIDE DEF A
    <3> QED BY <2>1, <2>5, <3>2, <3>3
  <2>8. Rises(ptr, S, lv, C, {x})
    BY BranchRises DEF Forest
  <2>9. x \in S /\ ~ Points(ptr, S, lv, x) /\ S \cap Inodes = {}
    BY Ext2BlocksAssumption DEF Forest, Tree
  <2>10. x \notin A
    <3>1. SUFFICES ASSUME NEW m \in 0 .. n - 1, x = w[m]
                   PROVE  FALSE
      OBVIOUS
    <3>2. m = 0 \/ m \in 1 .. n - 1
      BY <2>0
    <3> HIDE DEF A
    <3> QED BY <2>1, <2>5, <2>9, <3>1, <3>2 DEF Points
  <2>11. i \notin C
    BY <2>9 DEF IsBranch
  <2>13. S \subseteq Blocks /\ Labels(lv, file) /\ Tree(ptr, S, lv, file, R)
    BY DEF Forest
  <2>12. A \cap C = {}
    BY <2>6, <2>7, <2>8, <2>10, <2>11, <2>13, Apart
  <2>14. w[n - 1] \in A
    BY <2>0
  <2> QED BY <2>6, <2>12, <2>14 DEF w, path
<1> QED BY <1>1, WayUnmoved

\* The blocks g[1], g[2], ... continue the way to block a of file i, from its
\* step k on.
Inserts(p, q, S, lv, file, i, a, k, g) ==
  LET path == ext2_block_to_path(a)
      h == Way(p, i, a)[k - 1]
  IN /\ k \in 1 .. Len(path) /\ Goes(p, i, a, k - 1)
     /\ ElseSame(p, q, S, lv, file, i, h, path[k])
     /\ q[h][path[k]] = g[1]
     /\ \A j \in 1 .. Len(path) - k + 1 : g[j] # 0
     /\ \A j \in 1 .. Len(path) - k :
          /\ q[g[j]][path[k + j]] = g[j + 1]
          /\ \A o \in 0 .. Ptrs - 1 : o # path[k + j] => q[g[j]][o] = 0

(* A way that leads to the slot goes on along the new blocks. *)
LEMMA InsertedWay ==
  ASSUME NEW p, NEW S, NEW lv, NEW file, NEW R, Forest(p, S, lv, file, R),
         NEW i \in Inodes, NEW a, Fits(a), NEW q, NEW k, NEW g,
         Inserts(p, q, S, lv, file, i, a, k, g), NEW b, Fits(b),
         Uses(p, i, b, Way(p, i, a)[k - 1], ext2_block_to_path(a)[k])
  PROVE  LET pa == ext2_block_to_path(a)
             pb == ext2_block_to_path(b)
         IN /\ Len(pb) = Len(pa)
            /\ \A m \in 1 .. k : pb[m] = pa[m]
            /\ Way(p, i, b)[k] = p[Way(p, i, a)[k - 1]][pa[k]]
            /\ \A j \in k .. Len(pa) : (\A m \in 1 .. j : pb[m] = pa[m]) =>
                 Goes(q, i, b, j) /\ Way(q, i, b)[j] = g[j - k + 1]
<1> DEFINE pa == ext2_block_to_path(a)
           pb == ext2_block_to_path(b)
           L == Len(pa)
           B == Len(pb)
           h == Way(p, i, a)[k - 1]
           v == Way(p, i, b)
           w == Way(q, i, b)
<1>1. /\ k \in 1 .. L /\ Goes(p, i, a, k - 1) /\ q[h][pa[k]] = g[1]
      /\ ElseSame(p, q, S, lv, file, i, h, pa[k])
      /\ \A j \in 1 .. L - k + 1 : g[j] # 0
      /\ \A j \in 1 .. L - k : q[g[j]][pa[k + j]] = g[j + 1]
  BY DEF Inserts
<1>2. PICK n \in 1 .. B : Goes(p, i, b, n - 1) /\ v[n - 1] = h /\ pb[n] = pa[k]
  BY DEF Uses
<1>3. L \in 1 .. 4 /\ B \in 1 .. 4 /\ Depth(pa[1]) = L - 1 /\ Depth(pb[1]) = B - 1
  BY PathIs DEF PathOK
<1>4. S \subseteq Blocks /\ 0 \notin S /\ Labels(lv, file) /\ Tree(p, S, lv, file, R)
  BY DEF Forest
<1>5. k - 1 \in 0 .. L /\ n - 1 \in 0 .. B
  BY <1>1, <1>3
<1>6. k - 1 = n - 1 /\ \A m \in 1 .. n - 1 : pa[m] = pb[m]
  <2>1. Way(p, i, a)[k - 1] = Way(p, i, b)[n - 1]
    BY <1>2, Zenon
  <2>2. i \in Inodes /\ Fits(a) /\ Fits(b)
    OBVIOUS
  <2> QED BY ONLY <1>1, <1>2, <1>4, <1>5, <2>1, <2>2, WaysMeet, SMTT(30)
<1>7. n = k /\ \A m \in 1 .. k : pb[m] = pa[m]
  BY <1>1, <1>2, <1>3, <1>6
<1>8. B = L
  BY <1>1, <1>3, <1>7
<1>9. /\ v[0] = i /\ \A m \in 1 .. 4 : v[m] = p[v[m - 1]][pb[m]]
      /\ w[0] = i /\ \A m \in 1 .. 4 : w[m] = q[w[m - 1]][pb[m]]
  BY WayIs
<1>10. ASSUME NEW m \in 1 .. k - 1
       PROVE  q[v[m - 1]][pb[m]] = v[m]
  <2>0. m \in 1 .. B /\ m \in 1 .. 4 /\ m - 1 \in 0 .. k - 1 /\ m - 1 \in 0 .. B /\ k - 1 \in 0 .. B
        /\ m - 1 # k - 1 /\ k - 1 \in 0 .. 4
    <3> HIDE DEF L, B
    <3> QED BY <1>1, <1>3, <1>8
  <2>1. Goes(p, i, b, m - 1)
    BY <1>2, <1>7, <2>0, GoesLess
  <2>2. v[m - 1] \in Indirect(S, lv) /\ pb[m] \in Slots(v[m - 1]) /\ file[v[m - 1]] = i
    BY <2>0, <2>1, SlotOnWay
  <2>3. v[m - 1] # h
    BY <1>2, <1>4, <1>7, <2>0, <2>1, WaysMeet
  <2> HIDE DEF v, w, pa, pb, h
  <2>4. q[v[m - 1]][pb[m]] = p[v[m - 1]][pb[m]]
    BY <1>1, <2>2, <2>3 DEF ElseSame
  <2> QED BY <1>9, <2>0, <2>4
<1>11. Goes(q, i, b, k - 1) /\ w[k - 1] = h /\ v[k - 1] = h
  <2>0. k - 1 \in 0 .. 4 /\ k - 1 \in 0 .. k - 1
    <3> HIDE DEF L
    <3> QED BY <1>1, <1>3
  <2>1. Goes(p, i, b, k - 1) /\ v[k - 1] = h
    BY <1>2, <1>7
  <2> HIDE DEF v, w, pa, pb, L, B, h
  <2>2. \A m \in 1 .. k - 1 : q[v[m - 1]][pb[m]] = v[m]
    BY <1>10
  <2>3. Goes(q, i, b, k - 1) /\ \A m \in 0 .. k - 1 : w[m] = v[m]
    BY <2>0, <2>1, <2>2, WayKept DEF v, w, pb
  <2> QED BY <2>0, <2>1, <2>3
<1> DEFINE E(j) == j \in k .. L /\ (\A m \in 1 .. j : pb[m] = pa[m]) =>
                     Goes(q, i, b, j) /\ w[j] = g[j - k + 1]
<1> HIDE DEF v, w, pa, pb, L, B, h
<1>12. ASSUME NEW j \in 0 .. 3, E(j)
       PROVE  E(j + 1)
  <2> SUFFICES ASSUME j + 1 \in k .. L, \A m \in 1 .. j + 1 : pb[m] = pa[m]
               PROVE  Goes(q, i, b, j + 1) /\ w[j + 1] = g[(j + 1) - k + 1]
    OBVIOUS
  <2>0. j + 1 \in 1 .. 4 /\ (j + 1) - 1 = j /\ (j + 1) - k + 1 \in 1 .. L - k + 1 /\ j + 1 \in 1 .. j + 1
    BY <1>1, <1>3
  <2>1. ASSUME Goes(q, i, b, j), w[j + 1] = g[(j + 1) - k + 1]
        PROVE  Goes(q, i, b, j + 1) /\ w[j + 1] = g[(j + 1) - k + 1]
    BY <1>1, <2>0, <2>1, GoesOn DEF w
  <2>2. CASE j + 1 = k
    BY <1>1, <1>3, <1>9, <1>11, <2>0, <2>1, <2>2
  <2>3. CASE j + 1 # k
    <3>1. j \in k .. L /\ j - k + 1 \in 1 .. L - k /\ k + (j - k + 1) = j + 1
          /\ (j - k + 1) + 1 = (j + 1) - k + 1
      BY <1>1, <1>3, <2>3
    <3>2. \A m \in 1 .. j : m \in 1 .. j + 1
      OBVIOUS
    <3>3. Goes(q, i, b, j) /\ w[j] = g[j - k + 1]
      BY <1>12, <3>1, <3>2
    <3>4. w[j + 1] = q[g[j - k + 1]][pa[k + (j - k + 1)]]
      BY <1>9, <2>0, <3>1, <3>3
    <3>5. w[j + 1] = g[(j + 1) - k + 1]
      BY <1>1, <3>1, <3>4
    <3> QED BY <2>1, <3>3, <3>5
  <2> QED BY <2>2, <2>3
<1>13. E(0)
  BY <1>1, <1>3
<1> HIDE DEF E
<1>14. E(1) /\ E(2) /\ E(3) /\ E(4)
  BY <1>12, <1>13
<1>15. ASSUME NEW j \in k .. L, \A m \in 1 .. j : pb[m] = pa[m]
       PROVE  Goes(q, i, b, j) /\ w[j] = g[j - k + 1]
  BY <1>1, <1>3, <1>14, <1>15 DEF E
<1>16. v[k] = p[h][pa[k]]
  <2>1. k \in 1 .. 4 /\ k \in 1 .. k
    BY <1>1, <1>3
  <2> QED BY <1>7, <1>9, <1>11, <2>1
<1> QED BY <1>7, <1>8, <1>15, <1>16 DEF v, w, pa, pb, L, B, h

(* What a new branch changes: the way to a leads to its last block, and *)
(* the others lead where they did, or nowhere if the slot was not empty. *)
LEMMA InsertedWays ==
  ASSUME NEW p, NEW S, NEW lv, NEW file, NEW R, Forest(p, S, lv, file, R),
         NEW i \in Inodes, NEW a, Fits(a), NEW q, NEW k, NEW g,
         Inserts(p, q, S, lv, file, i, a, k, g),
         NEW old, old = p[Way(p, i, a)[k - 1]][ext2_block_to_path(a)[k]]
  PROVE  /\ Found(q, i, a) = g[Len(ext2_block_to_path(a)) - k + 1]
         /\ old = 0 => Found(p, i, a) = 0
         /\ \A b : Fits(b) /\ b # a =>
              Found(q, i, b) = Found(p, i, b) \/ (old # 0 /\ Found(q, i, b) = 0)
<1> DEFINE pa == ext2_block_to_path(a)
           L == Len(pa)
           h == Way(p, i, a)[k - 1]
<1>1. /\ k \in 1 .. L /\ Goes(p, i, a, k - 1)
      /\ ElseSame(p, q, S, lv, file, i, h, pa[k])
      /\ \A j \in 1 .. L - k :
           \A o \in 0 .. Ptrs - 1 : o # pa[k + j] => q[g[j]][o] = 0
  BY DEF Inserts
<1>2. L \in 1 .. 4 /\ a \in Nat
  BY PathIs DEF PathOK, Fits
<1>3. Uses(p, i, a, h, pa[k])
  BY <1>1 DEF Uses
<1>4. ASSUME NEW b, Fits(b), Uses(p, i, b, h, pa[k])
      PROVE  LET pb == ext2_block_to_path(b) IN
             /\ Len(pb) = L
             /\ \A m \in 1 .. k : pb[m] = pa[m]
             /\ Way(p, i, b)[k] = old
             /\ \A j \in k .. L : (\A m \in 1 .. j : pb[m] = pa[m]) =>
                  Goes(q, i, b, j) /\ Way(q, i, b)[j] = g[j - k + 1]
  BY <1>4, InsertedWay
<1>5. ASSUME NEW b, Fits(b), Uses(p, i, b, h, pa[k]), old = 0
      PROVE  Found(p, i, b) = 0
  BY <1>1, <1>4, <1>5 DEF Goes, Found
<1>6. Found(q, i, a) = g[L - k + 1]
  BY <1>1, <1>2, <1>3, <1>4 DEF Found
<1>7. ASSUME NEW b, Fits(b), b # a, Uses(p, i, b, h, pa[k])
      PROVE  Found(q, i, b) = 0
  <2> DEFINE pb == ext2_block_to_path(b)
             w == Way(q, i, b)
  <2>1. /\ Len(pb) = L
        /\ \A m \in 1 .. k : pb[m] = pa[m]
        /\ \A j \in k .. L : (\A m \in 1 .. j : pb[m] = pa[m]) =>
             Goes(q, i, b, j) /\ w[j] = g[j - k + 1]
    BY <1>4, <1>7
  <2>2. /\ b \in Nat /\ \A n \in 2 .. L : pb[n] \in 0 .. Ptrs - 1
        /\ \A n \in 1 .. L : pb[n] \in Nat /\ pa[n] \in Nat
    <3>1. PathOK(pa) /\ PathOK(pb) /\ b \in Nat
      BY <1>7, PathIs DEF Fits
    <3> QED BY <2>1, <3>1 DEF PathOK
  <2>3. PICK j \in 1 .. L : pb[j] # pa[j] /\ \A m \in 1 .. j - 1 : pb[m] = pa[m]
    <3>1. ASSUME a < b
          PROVE  \E j \in 1 .. L : pb[j] # pa[j] /\ \A m \in 1 .. j - 1 : pb[m] = pa[m]
      <4>1. PICK j \in 1 .. 4 : Parts(a, b, j) /\ pa[j] < pb[j]
        BY <1>7, <3>1, PathLess
      <4>2. j \in 1 .. L /\ \A m \in 1 .. j - 1 : pb[m] = pa[m]
        BY <2>1, <4>1 DEF Parts
      <4> HIDE DEF pa, pb, L
      <4> QED BY <2>2, <4>1, <4>2
    <3>2. ASSUME b < a
          PROVE  \E j \in 1 .. L : pb[j] # pa[j] /\ \A m \in 1 .. j - 1 : pb[m] = pa[m]
      <4>1. PICK j \in 1 .. 4 : Parts(b, a, j) /\ pb[j] < pa[j]
        BY <1>7, <3>2, PathLess
      <4>2. j \in 1 .. L /\ \A m \in 1 .. j - 1 : pb[m] = pa[m]
        BY <2>1, <4>1 DEF Parts
      <4> HIDE DEF pa, pb, L
      <4> QED BY <2>2, <4>1, <4>2
    <3> QED BY <1>2, <1>7, <2>2, <3>1, <3>2
  <2>4. \A m \in 1 .. 4 : w[m] = q[w[m - 1]][pb[m]]
    BY WayIs
  <2> HIDE DEF pa, pb, L, w, h
  <2>5. j > k
    BY <1>1, <1>2, <2>1, <2>3
  <2>6. /\ j - 1 \in k .. L /\ (j - 1) - k + 1 = j - k /\ j - k \in 1 .. L - k /\ k + (j - k) = j
        /\ j \in 1 .. 4 /\ j \in 2 .. L
    BY <1>1, <1>2, <2>5
  <2>7. w[j - 1] = g[j - k]
    BY <2>1, <2>3, <2>6
  <2>8. w[j] = 0
    BY <1>1, <2>2, <2>3, <2>4, <2>6, <2>7
  <2>9. ~ Goes(q, i, b, L)
    BY <2>8 DEF Goes, w
  <2> QED BY <2>1, <2>9 DEF Found, pb
<1>8. ASSUME NEW b, Fits(b), ~Uses(p, i, b, h, pa[k])
      PROVE  Found(q, i, b) = Found(p, i, b)
  BY <1>1, <1>8, ElseUnmoved DEF Unmoved
<1>9. old = 0 => Found(p, i, a) = 0
  BY <1>3, <1>5
<1>10. ASSUME NEW b, Fits(b), b # a
       PROVE  Found(q, i, b) = Found(p, i, b) \/ (old # 0 /\ Found(q, i, b) = 0)
  BY <1>5, <1>7, <1>8, <1>10
<1> QED BY <1>6, <1>9, <1>10

(* Ways that are there stay, if the slot was empty. *)
LEMMA InsertedOn ==
  ASSUME NEW p, NEW S, NEW lv, NEW file, NEW R, Forest(p, S, lv, file, R),
         NEW i \in Inodes, NEW q, NEW h, NEW o,
         ElseSame(p, q, S, lv, file, i, h, o), p[h][o] = 0,
         NEW b, Fits(b), NEW n \in 0 .. Len(ext2_block_to_path(b)), Goes(p, i, b, n)
  PROVE  Goes(q, i, b, n) /\ \A m \in 0 .. n : Way(q, i, b)[m] = Way(p, i, b)[m]
<1> DEFINE path == ext2_block_to_path(b)
           L == Len(path)
           v == Way(p, i, b)
<1>1. L \in 1 .. 4 /\ n \in 0 .. L
  BY PathIs DEF PathOK
<1>2. \A m \in 1 .. 4 : v[m] = p[v[m - 1]][path[m]]
  BY WayIs
<1>3. \A m \in 1 .. n : v[m] # 0
  BY DEF Goes
<1>4. ASSUME NEW m \in 1 .. n
      PROVE  q[v[m - 1]][path[m]] = v[m]
  <2>0. m \in 1 .. L /\ m - 1 \in 0 .. n /\ m \in 1 .. 4 /\ n \in 0 .. 4
    <3> HIDE DEF L
    <3> QED BY <1>1
  <2>1. Goes(p, i, b, m - 1)
    BY <2>0, GoesLess
  <2>2. v[m - 1] \in Indirect(S, lv) /\ path[m] \in Slots(v[m - 1]) /\ file[v[m - 1]] = i
    BY <2>0, <2>1, SlotOnWay
  <2> HIDE DEF v, path, L
  <2>3. v[m] = p[v[m - 1]][path[m]] /\ v[m] # 0
    BY <1>2, <1>3, <2>0
  <2>4. q[v[m - 1]][path[m]] = p[v[m - 1]][path[m]]
    BY <2>2, <2>3 DEF ElseSame
  <2> QED BY <2>3, <2>4
<1>5. n \in 0 .. 4
  <2> HIDE DEF L
  <2> QED BY <1>1
<1>6. \A m \in 1 .. n : q[Way(p, i, b)[m - 1]][ext2_block_to_path(b)[m]] = Way(p, i, b)[m]
  BY <1>4
<1>7. Goes(p, i, b, n)
  OBVIOUS
<1> QED BY ONLY <1>5, <1>6, <1>7, WayKept, SMTT(30)

----------------------------------------
(* What the steps that change pointers do to the ways *)

LEMMA ForestIs ==
  ASSUME TypeOK, NEW lv, NEW file, Trees(lv, file)
  PROVE  Forest(ptr, Placed, lv, file, Tops)
BY PlacedAre DEF Forest, Trees

(* A slot of file i is emptied. *)
LEMMA CutEffect ==
  ASSUME TypeOK, NEW lv, NEW file, Trees(lv, file), NEW i \in Inodes,
         NEW h \in Indirect(Placed, lv), file[h] = i, NEW o \in Slots(h),
         ptr' = [ptr EXCEPT ![h][o] = 0]
  PROVE  /\ ElseSame(ptr, ptr', Placed, lv, file, i, h, o) /\ ptr'[h][o] = 0
         /\ \A j \in Inodes : j # i => Untouched(ptr, ptr', j)
<1>1. Forest(ptr, Placed, lv, file, Tops) /\ Placed \subseteq Blocks
  BY ForestIs, PlacedAre
<1>2. \A g \in Indirect(Placed, lv) : g \in Hosts /\ Slots(g) \subseteq Offsets
  BY <1>1, SlotOffsets DEF Indirect, Hosts
<1>3. ptr \in [Hosts -> [Offsets -> Blocks \cup {0, Junk}]]
  BY DEF TypeOK
<1>4. ptr'[h][o] = 0
  BY <1>2, <1>3
<1>5. \A g \in Indirect(Placed, lv) : \A k \in Slots(g) : (g = h /\ k = o) \/ ptr'[g][k] = ptr[g][k]
  BY <1>2, <1>3
<1>6. ASSUME NEW j \in Inodes, j # i
      PROVE  Untouched(ptr, ptr', j)
  <2>1. \A g \in Indirect(Placed, lv) : file[g] = j => \A k \in Slots(g) : ptr'[g][k] = ptr[g][k]
    BY <1>5, <1>6
  <2>2. ASSUME NEW q, q = ptr'
        PROVE  Untouched(ptr, q, j)
    <3>1. \A g \in Indirect(Placed, lv) : file[g] = j => \A k \in Slots(g) : q[g][k] = ptr[g][k]
      BY <2>1, <2>2
    <3> HIDE DEF Placed
    <3>2. j \in Inodes
      OBVIOUS
    <3> QED BY ONLY <1>1, <3>1, <3>2, FileUntouched
  <2> QED BY <2>2
<1> QED BY <1>4, <1>5, <1>6 DEF ElseSame

LEMMA FreeEffect ==
  ASSUME BlockInv, NEW t \in Tasks, FreeBranch(t), NEW i \in Inodes
  PROVE  Untouched(ptr, ptr', i)
<1> DEFINE r == task[t]
           C == Branch(r.top, r.depth)
<1>1. r.top # 0 /\ ptr' = [h \in Hosts |-> IF h \in C THEN Unknown ELSE ptr[h]]
  BY DEF FreeBranch
<1>2. TypeOK
  BY DEF BlockInv
<1>3. PICK lv, file : Trees(lv, file)
  BY DEF BlockInv
<1>4. Forest(ptr, Placed, lv, file, Tops) /\ Placed \subseteq Blocks
  BY <1>2, <1>3, ForestIs, PlacedAre
<1>5. IsBranch(Placed, lv, file, r.top, C) /\ r.top \in Tops
  BY <1>1, <1>3, TopBranch DEF Tops
<1> HIDE DEF C
<1>6. C \subseteq Placed /\ Placed \cap Inodes = {}
  BY <1>2, <1>5, PlacedAre DEF IsBranch
<1>7. \A h \in Inodes \cup (Placed \ C) : ptr'[h] = ptr[h]
  BY <1>1, <1>4, <1>6 DEF Hosts
<1>8. ASSUME NEW q, q = ptr'
      PROVE  Untouched(ptr, q, i)
  BY <1>4, <1>5, <1>7, <1>8, FreedUntouched
<1> QED BY <1>8

LEMMA ClaimEffect ==
  ASSUME BlockInv, NEW t \in Tasks, ClaimInode(t), NEW i \in Inodes
  PROVE  Untouched(ptr, ptr', i)
<1> DEFINE j == task[t].goal
<1>1. task[t].pc = "new" /\ j \notin live /\ ptr' = [ptr EXCEPT ![j] = NoPointers]
  BY DEF ClaimInode
<1>2. j \in Inodes
  BY <1>1 DEF BlockInv, Inv, PlaceInv
<1>3. \A o \in 0 .. NDir + 2 : ptr[j][o] = 0
  BY <1>1, <1>2 DEF BlockInv, EmptyInv, NoBlocks
<1>4. TypeOK
  BY DEF BlockInv
<1>5. PICK lv, file : Trees(lv, file)
  BY DEF BlockInv
<1>6. Forest(ptr, Placed, lv, file, Tops) /\ Placed \subseteq Blocks
  BY <1>4, <1>5, ForestIs, PlacedAre
<1>7. ptr \in [Hosts -> [Offsets -> Blocks \cup {0, Junk}]]
  BY <1>4 DEF TypeOK
<1> HIDE DEF j
<1>8. ASSUME NEW h \in Indirect(Placed, lv), NEW o \in Slots(h)
      PROVE  ptr'[h][o] = ptr[h][o]
  BY <1>1, <1>2, <1>3, <1>6, <1>7 DEF Indirect, Hosts, Slots, Offsets, NoPointers
<1>9. ASSUME NEW q, q = ptr'
      PROVE  Untouched(ptr, q, i)
  BY <1>6, <1>8, <1>9, FileUntouched
<1> QED BY <1>9

\* The branch that Splice makes, and where it goes.
LEMMA SpliceDoes ==
  ASSUME BlockInv, NEW t \in Tasks, Splice(t), NEW lv, NEW file, Trees(lv, file)
  PROVE  LET r == task[t]
             k == Len(r.chain)
             n == Len(r.got)
         IN /\ r.pc = "splice" /\ r.ino \in Inodes /\ Fits(r.b)
            /\ ChainShape(r) /\ ChainTrue(r, ptr)
            /\ n \in 1 .. 4 /\ n = Len(Path(r)) - k + 1 /\ k \in 1 .. 4
            /\ \A j \in 1 .. n : r.got[j] \in Blocks /\ r.got[j] \notin Placed
            /\ file[r.chain[k].host] = r.ino /\ r.chain[k].host \in Hosts
            /\ Spliced(ptr', r.chain[k].host, r.chain[k].off, r.got, n,
                       [j \in 1 .. n - 1 |-> Path(r)[k + j]])
<1> DEFINE r == task[t]
           path == Path(r)
           k == Len(r.chain)
           g == r.got
           n == Len(g)
           h0 == r.chain[k].host
           o0 == r.chain[k].off
           i == r.ino
           old == ptr[h0][o0]
           a == [j \in 1 .. n - 1 |-> path[k + j]]
\* The task.
<1>1. /\ r.pc = "splice" 
  BY DEF Splice
<1>2. /\ Shape(r) /\ Typed(r) /\ Form(r) /\ Globals /\ DOMAIN task = Tasks /\ Holding(r)
      /\ Holding(r) => truncate_mutex[r.ino] = t
  BY <1>1, TaskIs DEF Holding
<1>5. /\ r.ino \in Inodes /\ r.top = 0 /\ r.work = <<>> /\ Fits(r.b) /\ r.op # "evict"
      /\ ChainShape(r) /\ n = Needed(r)
  BY <1>1, <1>2 DEF Form, WithChain
<1>6. PathOK(path) /\ Len(path) \in 1 .. 4 /\ k \in 1 .. Len(path)
  BY <1>5, WalkDepthIs DEF PathOK, ChainShape
<1>7. n \in 1 .. 4 /\ n = Len(path) - k + 1 /\ k \in 1 .. 4
  <2> DEFINE l == Len(path)
  <2>1. n = l - k + 1 /\ l \in 1 .. 4 /\ k \in 1 .. l
    BY <1>5, <1>6 DEF Needed
  <2> HIDE DEF l, n, k
  <2>2. n \in 1 .. 4 /\ k \in 1 .. 4
    BY <2>1
  <2> QED BY <2>1, <2>2 DEF l
<1>8. /\ g \in Seq(Blocks) /\ ToSet(g) \subseteq used \ lost /\ ToSet(g) \cap Placed = {}
      /\ DOMAIN g = 1 .. n /\ ToSet(g) = {g[j] : j \in 1 .. n}
  BY HandsAre DEF ToSet
<1>9. /\ \A j \in 1 .. n : g[j] \in Blocks /\ g[j] \notin Placed
      /\ \A j, m \in 1 .. n : g[j] = g[m] => j = m
      /\ g[n] \in Blocks
  <2>1. \A j \in 1 .. n : g[j] \in Blocks /\ g[j] \in ToSet(g)
    BY <1>8
  <2>2. \A j, m \in DOMAIN g : g[j] = g[m] => j = m
    BY DEF BlockInv, HandInv
  <2>3. n \in 1 .. n
    BY <1>7
  <2> QED BY <1>8, <2>1, <2>2, <2>3
\* The slot that is filled.
<1>11. /\ Labels(lv, file) /\ Tree(ptr, Placed, lv, file, Tops) /\ Placed \subseteq Blocks
       /\ 0 \notin Placed
  BY PlacedAre DEF Trees, BlockInv
<1>12. ChainTrue(r, ptr)
  BY <1>1, <1>2 DEF Trees, TaskTrue
<1>13. ChainLeads(r, Placed, lv, file)
  BY <1>5, <1>11, <1>12, ChainReal
<1>14. /\ h0 \in Indirect(Placed, lv) /\ o0 \in Slots(h0) /\ file[h0] = i
       /\ Below(lv, h0, o0) = n - 1
  <2>1. k \in 1 .. k
    <3>1. k \in 1 .. 4
      BY <1>7
    <3> HIDE DEF k
    <3> QED BY <3>1
  <2>2. /\ h0 \in Indirect(Placed, lv) /\ o0 \in Slots(h0) /\ file[h0] = i
        /\ Below(lv, h0, o0) = Len(path) - k
    BY <1>13, <2>1 DEF ChainLeads
  <2>3. Len(path) - k = n - 1
    BY <1>6, <1>7
  <2> QED BY <2>2, <2>3
<1>15. h0 \in Hosts /\ o0 \in Offsets /\ \A j \in 1 .. n : g[j] # h0
  BY <1>9, <1>11, <1>14, SlotOffsets, Ext2BlocksAssumption DEF Indirect, Hosts
<1>16. Partial(r) = r.chain[k]
  BY DEF Partial, Last
<1>19. \A j \in 1 .. n - 1 : a[j] \in 0 .. Ptrs - 1 /\ a[j] = path[k + j]
  <2> SUFFICES ASSUME NEW j \in 1 .. n - 1
               PROVE  path[k + j] \in 0 .. Ptrs - 1
    OBVIOUS
  <2>1. k + j \in 2 .. Len(path)
    <3> DEFINE l == Len(path)
    <3>1. n = l - k + 1 /\ l \in 1 .. 4 /\ k \in 1 .. 4
      BY <1>6, <1>7
    <3>3. j \in 1 .. n - 1
      OBVIOUS
    <3> HIDE DEF l, n, k
    <3>2. k + j \in 2 .. l
      BY <3>1, <3>3, SMTT(30)
    <3> QED BY <3>2 DEF l
  <2> QED BY <1>6, <2>1 DEF PathOK
<1>20. SplicePtr(ptr', h0, o0, g, n, path, k)
  BY <1>16 DEF Splice, SplicePtr
<1> HIDE DEF a, h0, o0, old, path, k
<1>21. Spliced(ptr', h0, o0, g, n, a)
  <2>1. ASSUME NEW q, q = ptr'
        PROVE  Spliced(q, h0, o0, g, n, a)
    <3>1. SplicePtr(q, h0, o0, g, n, path, k) /\ Distinct(g, n)
      BY <1>7, <1>9, <1>20, <2>1 DEF Distinct
    <3>2. /\ q = [x \in Hosts |-> q[x]]
          /\ q[h0] = [ptr[h0] EXCEPT ![o0] = g[1]]
          /\ \A j \in 1 .. n - 1 : q[g[j]] = [NoPointers EXCEPT ![path[k + j]] = g[j + 1]]
          /\ \A x \in Hosts : x # h0 /\ (\A j \in 1 .. n - 1 : g[j] # x) => q[x] = ptr[x]
      <4> DEFINE G == g
                 N == n
      <4>1. SplicePtr(q, h0, o0, G, N, path, k) /\ Distinct(G, N)
        BY <3>1
      <4>2. G \in Seq(Blocks) /\ N = Len(G) /\ h0 \in Hosts /\ \A j \in 1 .. N : G[j] # h0
        BY <1>8, <1>15
      <4> HIDE DEF G, N
      <4>3. SplicedBy(q, h0, o0, G, N, path, k)
        BY <4>1, <4>2, SpliceCases
      <4> QED BY <4>3 DEF SplicedBy, G, N
    <3>3. \A j \in 1 .. n - 1 : q[g[j]] = [NoPointers EXCEPT ![a[j]] = g[j + 1]]
      BY <1>19, <3>2
    <3>4. \A j \in 1 .. n - 1 : a[j] \in 0 .. Ptrs - 1
      BY <1>19
    <3>5. ptr \in [Hosts -> [Offsets -> Blocks \cup {0, Junk}]]
      BY <1>2 DEF Globals
    <3> QED BY <1>7, <1>8, <1>15, <3>2, <3>3, <3>4, <3>5, SplicedIs
  <2> QED
    BY <2>1<1> QED
  BY <1>1, <1>5, <1>7, <1>9, <1>12, <1>14, <1>15, <1>21 DEF a, h0, o0, path, k

LEMMA SpliceInserts ==
  ASSUME BlockInv, NEW t \in Tasks, Splice(t), NEW lv, NEW file, Trees(lv, file)
  PROVE  LET r == task[t]
             k == Len(r.chain)
         IN /\ Inserts(ptr, ptr', Placed, lv, file, r.ino, r.b, k, r.got)
            /\ Way(ptr, r.ino, r.b)[k - 1] = r.chain[k].host /\ Path(r)[k] = r.chain[k].off
            /\ Len(r.got) = Len(Path(r)) - k + 1
            /\ \A j \in Inodes : j # r.ino => Untouched(ptr, ptr', j)
<1> DEFINE r == task[t]
           k == Len(r.chain)
           path == Path(r)
           L == Len(path)
           g == r.got
           n == Len(g)
           i == r.ino
           h == r.chain[k].host
           o == r.chain[k].off
           a == [j \in 1 .. n - 1 |-> path[k + j]]
<1>1. /\ i \in Inodes /\ Fits(r.b) /\ ChainShape(r) /\ ChainTrue(r, ptr)
      /\ n \in 1 .. 4 /\ n = L - k + 1 /\ k \in 1 .. 4
      /\ \A j \in 1 .. n : g[j] \in Blocks /\ g[j] \notin Placed
      /\ file[h] = i /\ h \in Hosts
      /\ Spliced(ptr', h, o, g, n, a)
  BY SpliceDoes
<1>2. /\ k \in 1 .. L /\ Goes(ptr, i, r.b, k - 1) /\ Way(ptr, i, r.b)[k - 1] = h /\ path[k] = o
  <2>1. /\ k \in 1 .. L /\ Goes(ptr, i, r.b, k - 1)
        /\ \A m \in 1 .. k : r.chain[m].host = Way(ptr, i, r.b)[m - 1] /\ r.chain[m].off = path[m]
    <3>0. Fits(r.b) /\ ChainShape(r) /\ ChainTrue(r, ptr)
      BY <1>1
    <3> HIDE DEF r
    <3>1. /\ Len(r.chain) \in 1 .. Len(Path(r)) /\ Goes(ptr, r.ino, r.b, Len(r.chain) - 1)
          /\ \A m \in 1 .. Len(r.chain) :
               /\ r.chain[m].host = Way(ptr, r.ino, r.b)[m - 1]
               /\ r.chain[m].key = Way(ptr, r.ino, r.b)[m]
               /\ r.chain[m].off = Path(r)[m]
      BY ONLY <3>0, ChainWay
    <3> QED BY <3>1
  <2>2. k \in 1 .. k
    <3>1. k \in 1 .. 4
      BY <1>1
    <3> HIDE DEF k
    <3> QED BY ONLY <3>1
  <2> QED BY <2>1, <2>2, Zenon
<1>3. TypeOK
  BY DEF BlockInv
<1>4. Forest(ptr, Placed, lv, file, Tops) /\ Placed \subseteq Blocks
  BY <1>3, ForestIs, PlacedAre
<1>5. L \in 1 .. 4
  BY <1>1, PathIs DEF PathOK, Path
<1> HIDE DEF r, k, path, L, g, n, i, h, o, a
<1>6. ASSUME NEW q, q = ptr'
      PROVE  /\ Inserts(ptr, q, Placed, lv, file, i, r.b, k, g)
             /\ \A j \in Inodes : j # i => Untouched(ptr, q, j)
  <2>1. Spliced(q, h, o, g, n, a)
    BY <1>1, <1>6
  <2>2. ASSUME NEW x \in Indirect(Placed, lv), NEW c \in Slots(x)
        PROVE  (x = h /\ c = o) \/ q[x][c] = ptr[x][c]
    BY <1>1, <1>4, <2>1, SlotOffsets, Ext2BlocksAssumption DEF Indirect, Hosts, Spliced
  <2>3. ElseSame(ptr, q, Placed, lv, file, i, h, o)
    BY <2>2 DEF ElseSame
  <2>4. ASSUME NEW j \in Inodes, j # i
        PROVE  Untouched(ptr, q, j)
    BY <1>1, <1>4, <2>2, <2>4, FileUntouched
  <2>5. \A j \in 1 .. n : g[j] # 0
    BY <1>1, Ext2BlocksAssumption
  <2>6. \A j \in 1 .. n - 1 : /\ a[j] = path[k + j] /\ q[g[j]][a[j]] = g[j + 1]
                              /\ \A c \in 0 .. Ptrs - 1 : c # a[j] => q[g[j]][c] = 0
    BY <2>1 DEF Spliced, a
  <2>7. L - k + 1 = n /\ L - k = n - 1
    BY <1>1, <1>5
  <2>8. q[h][o] = g[1]
    BY <2>1 DEF Spliced
  <2>9. path = ext2_block_to_path(r.b) /\ L = Len(path)
    BY DEF path, L, Path
  <2>10. Inserts(ptr, q, Placed, lv, file, i, r.b, k, g)
    BY <1>2, <2>3, <2>5, <2>6, <2>7, <2>8, <2>9 DEF Inserts
  <2> QED BY <2>4, <2>10
<1> QED BY <1>1, <1>2, <1>6 DEF r, k, path, L, g, n, i, h, o

(* The block that Splice adds is found, the others where they were; blocks *)
(* are missing only if one could not be read. *)
LEMMA SpliceEffect ==
  ASSUME BlockInv, CallInv, NEW t \in Tasks, Splice(t)
  PROVE  LET r == task[t] IN
         /\ Found(ptr', r.ino, r.b) = r.got[Len(r.got)]
         /\ \A b : Fits(b) /\ b # r.b =>
              Found(ptr', r.ino, b) \in {0, Found(ptr, r.ino, b)}
         /\ r.ino \notin cut =>
              /\ Found(ptr, r.ino, r.b) = 0
              /\ \A b : Fits(b) /\ b # r.b => Found(ptr', r.ino, b) = Found(ptr, r.ino, b)
              /\ \A b : Fits(b) => \A n \in 0 .. Len(ext2_block_to_path(b)) :
                   Goes(ptr, r.ino, b, n) =>
                     \A m \in 0 .. n : Way(ptr', r.ino, b)[m] = Way(ptr, r.ino, b)[m]
         /\ \A j \in Inodes : j # r.ino => Untouched(ptr, ptr', j)
<1>1. PICK lv, file : Trees(lv, file)
  BY DEF BlockInv
<1>2. TypeOK
  BY DEF BlockInv
<1>3. Forest(ptr, Placed, lv, file, Tops)
  BY <1>1, <1>2, ForestIs
<1> DEFINE r == task[t]
           k == Len(r.chain)
           h == r.chain[k].host
           o == r.chain[k].off
           old == ptr[h][o]
           i == r.ino
<1>4. /\ Inserts(ptr, ptr', Placed, lv, file, i, r.b, k, r.got)
      /\ Way(ptr, i, r.b)[k - 1] = h /\ Path(r)[k] = o
      /\ Len(r.got) = Len(Path(r)) - k + 1
      /\ \A j \in Inodes : j # i => Untouched(ptr, ptr', j)
  BY <1>1, SpliceInserts
<1>5. i \in Inodes /\ Fits(r.b) /\ ChainTrue(r, ptr) /\ k \in 1 .. 4 /\ r.pc = "splice"
  BY <1>1, SpliceDoes
<1>6. ASSUME i \notin cut
      PROVE  old = 0
  <2>1. Partial(r).key = 0
    BY <1>5, <1>6 DEF CallInv, KindInv, Miss
  <2>2. Partial(r) = r.chain[k]
    BY DEF Partial, Last
  <2>3. k \in 1 .. k
    <3>1. k \in 1 .. 4
      BY <1>5
    <3> HIDE DEF k
    <3> QED BY ONLY <3>1
  <2> QED BY <1>5, <2>1, <2>2, <2>3 DEF ChainTrue
<1>7. Path(r) = ext2_block_to_path(r.b)
  BY DEF Path
<1> HIDE DEF r, k, h, o, old, i
<1>8. ASSUME NEW q, q = ptr'
      PROVE  /\ Found(q, i, r.b) = r.got[Len(r.got)]
             /\ old = 0 => Found(ptr, i, r.b) = 0
             /\ \A b : Fits(b) /\ b # r.b =>
                  Found(q, i, b) = Found(ptr, i, b) \/ (old # 0 /\ Found(q, i, b) = 0)
             /\ old = 0 => \A b : Fits(b) => \A n \in 0 .. Len(ext2_block_to_path(b)) :
                   Goes(ptr, i, b, n) =>
                     \A m \in 0 .. n : Way(q, i, b)[m] = Way(ptr, i, b)[m]
  <2>1. Inserts(ptr, q, Placed, lv, file, i, r.b, k, r.got)
    BY <1>4, <1>8
  <2>2. old = ptr[Way(ptr, i, r.b)[k - 1]][ext2_block_to_path(r.b)[k]]
    BY <1>4, <1>7 DEF old
  <2>3. ElseSame(ptr, q, Placed, lv, file, i, h, o)
    BY <1>4, <1>7, <2>1 DEF Inserts
  <2>4. old = 0 => \A b : Fits(b) => \A n \in 0 .. Len(ext2_block_to_path(b)) :
          Goes(ptr, i, b, n) => \A m \in 0 .. n : Way(q, i, b)[m] = Way(ptr, i, b)[m]
    BY <1>3, <1>5, <2>3, InsertedOn DEF old
  <2>5. /\ Found(q, i, r.b) = r.got[Len(ext2_block_to_path(r.b)) - k + 1]
        /\ old = 0 => Found(ptr, i, r.b) = 0
        /\ \A b : Fits(b) /\ b # r.b =>
             Found(q, i, b) = Found(ptr, i, b) \/ (old # 0 /\ Found(q, i, b) = 0)
    BY ONLY <1>3, <1>5, <2>1, <2>2, InsertedWays
  <2> QED BY <1>4, <1>7, <2>4, <2>5
<1> QED BY <1>4, <1>6, <1>8 DEF i, r

----------------------------------------
(* The slots that truncate is to empty *)

\* Slot o of h is one of A.
Lists(A, h, o) == \E n \in 1 .. Len(A) : A[n].host = h /\ A[n].off = o

LEMMA ListsJoin ==
  ASSUME NEW A \in Seq(SlotRecord), NEW B \in Seq(SlotRecord), NEW h, NEW o
  PROVE  Lists(A \o B, h, o) <=> Lists(A, h, o) \/ Lists(B, h, o)
<1> DEFINE W == A \o B
           k == Len(A)
           l == Len(B)
<1>1. /\ k \in Nat /\ l \in Nat /\ Len(W) = k + l
      /\ \A n \in 1 .. k : W[n] = A[n]
      /\ \A n \in k + 1 .. k + l : W[n] = B[n - k]
  OBVIOUS
<1> HIDE DEF W, k, l
<1>2. ASSUME NEW n \in 1 .. k + l
      PROVE  (n \in 1 .. k /\ W[n] = A[n]) \/ (n - k \in 1 .. l /\ W[n] = B[n - k])
  BY <1>1
<1>3. ASSUME NEW n \in 1 .. k
      PROVE  n \in 1 .. k + l /\ W[n] = A[n]
  BY <1>1
<1>4. ASSUME NEW n \in 1 .. l
      PROVE  k + n \in 1 .. k + l /\ W[k + n] = B[n]
  BY <1>1
<1>5. ASSUME Lists(W, h, o)
      PROVE  Lists(A, h, o) \/ Lists(B, h, o)
  BY <1>1, <1>2, <1>5 DEF Lists, k, l
<1>6. ASSUME Lists(A, h, o)
      PROVE  Lists(W, h, o)
  BY <1>1, <1>3, <1>6 DEF Lists, k
<1>7. ASSUME Lists(B, h, o)
      PROVE  Lists(W, h, o)
  BY <1>1, <1>4, <1>7 DEF Lists, l
<1> QED BY <1>5, <1>6, <1>7 DEF W

LEMMA ListsSlots ==
  ASSUME NEW g \in Hosts, NEW off \in Nat, NEW end \in Nat, NEW d \in 0 .. 3, NEW h, NEW o
  PROVE  /\ SlotsFrom(g, off, end, d) \in Seq(SlotRecord)
         /\ Lists(SlotsFrom(g, off, end, d), h, o) <=> h = g /\ o \in off .. end - 1
<1> DEFINE A == SlotsFrom(g, off, end, d)
<1>1. SlotRange(A, g, off, end, d)
  BY SlotsFromIs
<1> HIDE DEF A
<1>2. /\ A \in Seq(SlotRecord)
      /\ \A n \in 1 .. Len(A) : /\ A[n].host = g
                               /\ A[n].off \in Nat /\ off <= A[n].off /\ A[n].off < end
      /\ \A e \in Nat : off <= e /\ e < end => \E n \in 1 .. Len(A) : A[n].off = e
  BY <1>1 DEF SlotRange
<1>3. ASSUME Lists(A, h, o)
      PROVE  h = g /\ o \in off .. end - 1
  BY <1>2, <1>3 DEF Lists
<1>4. ASSUME h = g, o \in off .. end - 1
      PROVE  Lists(A, h, o)
  <2>1. o \in Nat /\ off <= o /\ o < end
    BY <1>4
  <2>2. PICK n \in 1 .. Len(A) : A[n].off = o
    BY <1>2, <2>1
  <2> QED BY <1>2, <1>4, <2>2 DEF Lists
<1> QED BY <1>2, <1>3, <1>4 DEF A

LEMMA ListsIndirects ==
  ASSUME NEW i \in Inodes, NEW off \in 0 .. NDir + 2, NEW h, NEW o
  PROVE  /\ do_indirects(i, off) \in Seq(SlotRecord)
         /\ Lists(do_indirects(i, off), h, o) <=> h = i /\ o \in NDir .. NDir + 2 /\ o > off
<1> DEFINE A == do_indirects(i, off)
           from == IF off < NDir THEN NDir ELSE off + 1
           k == NDir + 3 - from
           e(n) == Slot(i, from + n - 1, Depth(from + n - 1))
<1>1. /\ k \in Nat /\ from \in Nat /\ from >= NDir
      /\ \A n \in 1 .. k : from + n - 1 \in NDir .. NDir + 2 /\ from + n - 1 > off
  BY Geometry
<1>2. \A c \in NDir .. NDir + 2 : c > off => c - from + 1 \in 1 .. k /\ from + (c - from + 1) - 1 = c
  BY Geometry
<1>3. A = [n \in 1 .. k |-> e(n)]
  BY DEF do_indirects
<1>4. A \in Seq(SlotRecord)
  BY IndirectsAre
<1> HIDE DEF A, k, from, e
<1>5. Len(A) = k /\ \A n \in 1 .. k : A[n] = e(n)
  BY <1>1, <1>3, <1>4
<1>6. \A n \in 1 .. k : A[n].host = i /\ A[n].off = from + n - 1
  BY <1>5, SlotIs DEF e
<1>7. ASSUME Lists(A, h, o)
      PROVE  h = i /\ o \in NDir .. NDir + 2 /\ o > off
  BY <1>1, <1>5, <1>6, <1>7 DEF Lists
<1>8. ASSUME h = i, o \in NDir .. NDir + 2, o > off
      PROVE  Lists(A, h, o)
  BY <1>2, <1>5, <1>6, <1>8 DEF Lists
<1> QED BY <1>4, <1>7, <1>8 DEF A

\* Where the end of the indirect block at position j of the chain begins.
From(r, k, from, j) == IF j = k THEN from ELSE r.chain[j].off + 1

LEMMA ListsEnds ==
  ASSUME NEW r, Fits(r.b), ChainShape(r), NEW k \in 1 .. Len(r.chain), NEW from \in Nat,
         NEW h, NEW o
  PROVE  /\ EndsOfShared(r, k, from) \in Seq(SlotRecord)
         /\ Lists(EndsOfShared(r, k, from), h, o) <=>
              \E j \in 2 .. k : h = r.chain[j].host /\ o \in From(r, k, from, j) .. Ptrs - 1
<1> DEFINE c == r.chain
           path == Path(r)
           n == Len(path)
           End(j) == SlotsFrom(c[j].host, From(r, k, from, j), Ptrs, n - j)
           f == [m \in 1 .. k - 1 |-> End(k - m + 1)]
           In(j) == h = c[j].host /\ o \in From(r, k, from, j) .. Ptrs - 1
<1>1. PathOK(path) /\ n \in 1 .. 4
  BY WalkDepthIs DEF PathOK
<1>2. Len(c) \in 1 .. n /\ c \in Seq(Link) /\ \A j \in 1 .. Len(c) : c[j].off = path[j]
  BY DEF ChainShape
<1>3. k \in 1 .. n /\ k \in 1 .. 4 /\ \A j \in 2 .. k : j \in 1 .. Len(c) /\ j \in 1 .. n /\ n - j \in 0 .. 3
  <2> DEFINE l == Len(c)
  <2>1. l \in 1 .. n /\ k \in 1 .. l
    BY <1>2
  <2> HIDE DEF l, n
  <2>2. k \in 1 .. n /\ k \in 1 .. 4 /\ \A j \in 2 .. k : j \in 1 .. l /\ j \in 1 .. n /\ n - j \in 0 .. 3
    BY <1>1, <2>1
  <2> QED BY <2>2 DEF l
<1>4. ASSUME NEW j \in 2 .. k
      PROVE  End(j) \in Seq(SlotRecord) /\ (Lists(End(j), h, o) <=> In(j))
  <2>1. j \in 1 .. Len(c) /\ j \in 1 .. n /\ n - j \in 0 .. 3
    BY <1>3
  <2>2. c[j] \in Link
    BY <1>2, <2>1
  <2>3. c[j].host \in Hosts
    BY <2>2, LinkTypes
  <2>4. c[j].off \in Nat
    BY <1>1, <1>2, <2>1, SMTT(30) DEF PathOK
  <2>5. From(r, k, from, j) \in Nat
    BY <2>4 DEF From
  <2> DEFINE a == c[j].host
             e == From(r, k, from, j)
             d == n - j
  <2>6. a \in Hosts /\ e \in Nat /\ d \in 0 .. 3 /\ Ptrs \in Nat
    BY <2>1, <2>3, <2>5, Geometry
  <2> HIDE DEF a, e, d
  <2>7. /\ SlotsFrom(a, e, Ptrs, d) \in Seq(SlotRecord)
        /\ Lists(SlotsFrom(a, e, Ptrs, d), h, o) <=> h = a /\ o \in e .. Ptrs - 1
    BY <2>6, ListsSlots
  <2> QED BY <2>7 DEF a, e, d
<1>6. EndsOfShared(r, k, from) = FlattenSeq(f)
  BY DEF EndsOfShared, From
<1> HIDE DEF End, n, In
<1>8. /\ f \in Seq(Seq(SlotRecord)) /\ Len(f) = k - 1
      /\ \A m \in 1 .. k - 1 : f[m] = End(k - m + 1)
  BY <1>3, <1>4
<1> HIDE DEF f
<1>9. /\ k = 1 => FlattenSeq(f) = <<>>
      /\ k = 2 => FlattenSeq(f) = f[1]
      /\ k = 3 => FlattenSeq(f) = f[1] \o f[2]
      /\ k = 4 => FlattenSeq(f) = (f[1] \o f[2]) \o f[3]
  <2>1. Len(f) \in 0 .. 3
    BY <1>3, <1>8
  <2>2. /\ k = 1 => Len(f) = 0
        /\ k = 2 => Len(f) = 1
        /\ k = 3 => Len(f) = 2
        /\ k = 4 => Len(f) = 3
    BY <1>8
  <2>3. f \in Seq(Seq(SlotRecord))
    BY <1>8
  <2>4. /\ Len(f) = 0 => FlattenSeq(f) = <<>>
        /\ Len(f) = 1 => FlattenSeq(f) = f[1]
        /\ Len(f) = 2 => FlattenSeq(f) = f[1] \o f[2]
        /\ Len(f) = 3 => FlattenSeq(f) = (f[1] \o f[2]) \o f[3]
    BY <2>1, <2>3, FlattenIs
  <2> QED BY <2>2, <2>4, Zenon
<1>10. FlattenSeq(f) \in Seq(SlotRecord) /\ (Lists(FlattenSeq(f), h, o) <=> \E j \in 2 .. k : In(j))
  <2>1. CASE k = 1
    BY <1>9, <2>1 DEF Lists
  <2>2. CASE k = 2
    BY <1>4, <1>8, <1>9, <2>2
  <2>3. CASE k = 3
    <3>1. /\ 2 \in 2 .. k /\ 3 \in 2 .. k /\ \A j \in 2 .. k : j = 2 \/ j = 3
          /\ f[1] = End(3) /\ f[2] = End(2)
      BY <1>8, <2>3
    <3>2. /\ End(2) \in Seq(SlotRecord) /\ (Lists(End(2), h, o) <=> In(2))
          /\ End(3) \in Seq(SlotRecord) /\ (Lists(End(3), h, o) <=> In(3))
      BY <1>4, <3>1
    <3>3. Lists(End(3) \o End(2), h, o) <=> In(3) \/ In(2)
      BY <3>2, ListsJoin
    <3>4. End(3) \o End(2) \in Seq(SlotRecord)
      BY <3>2
    <3> QED BY <1>9, <2>3, <3>1, <3>3, <3>4
  <2>4. CASE k = 4
    <3>1. /\ 2 \in 2 .. k /\ 3 \in 2 .. k /\ 4 \in 2 .. k /\ \A j \in 2 .. k : j = 2 \/ j = 3 \/ j = 4
          /\ f[1] = End(4) /\ f[2] = End(3) /\ f[3] = End(2)
      BY <1>8, <2>4
    <3>2. /\ End(2) \in Seq(SlotRecord) /\ (Lists(End(2), h, o) <=> In(2))
          /\ End(3) \in Seq(SlotRecord) /\ (Lists(End(3), h, o) <=> In(3))
          /\ End(4) \in Seq(SlotRecord) /\ (Lists(End(4), h, o) <=> In(4))
      BY <1>4, <3>1
    <3>3. Lists(End(4) \o End(3), h, o) <=> In(4) \/ In(3)
      BY <3>2, ListsJoin
    <3>4. End(4) \o End(3) \in Seq(SlotRecord) /\ (End(4) \o End(3)) \o End(2) \in Seq(SlotRecord)
      BY <3>2
    <3>5. Lists((End(4) \o End(3)) \o End(2), h, o) <=> (In(4) \/ In(3)) \/ In(2)
      BY <3>2, <3>3, <3>4, ListsJoin
    <3> QED BY <1>9, <2>4, <3>1, <3>4, <3>5
  <2> QED BY <1>3, <2>1, <2>2, <2>3, <2>4
<1> QED BY <1>6, <1>10 DEF In

LEMMA SharedDepthLast ==
  ASSUME NEW path, PathOK(path), NEW j \in 1 .. Len(path), j > SharedDepth(path)
  PROVE  path[j] = 0
<1> DEFINE n == Len(path)
           Z == {m \in 1 .. n : path[m] = 0}
<1>1. n \in 1 .. 4 /\ DOMAIN path = 1 .. n
  BY DEF PathOK
<1>2. PICK k \in 1 .. n : (k = 1 \/ k \notin Z) /\ \A m \in k + 1 .. n : m \in Z
  BY <1>1, LastOne
<1>3. k = 1 \/ path[k] # 0
  BY <1>2
<1>4. \A m \in k + 1 .. n : path[m] = 0
  BY <1>2
<1>5. \E d \in DOMAIN path : (d = 1 \/ path[d] # 0) /\ \A m \in d + 1 .. Len(path) : path[m] = 0
  BY <1>1, <1>3, <1>4
<1> DEFINE D == SharedDepth(path)
<1>6. \A m \in D + 1 .. n : path[m] = 0
  BY <1>5 DEF SharedDepth
<1>7. D \in 1 .. n /\ j \in 1 .. n /\ j > D
  BY SharedDepthIs
<1> HIDE DEF D, n
<1>8. j \in D + 1 .. n
  BY <1>1, <1>7
<1> QED BY <1>6, <1>8

LEMMA SurvivorLast ==
  ASSUME NEW chain, Len(chain) \in 1 .. 4, DOMAIN chain = 1 .. Len(chain),
         NEW j \in 1 .. Len(chain), j > Survivor(chain)
  PROVE  all_zeroes(chain[j].host, chain[j].off)
<1> DEFINE n == Len(chain)
           Z == {m \in 1 .. n : all_zeroes(chain[m].host, chain[m].off)}
<1>1. n \in 1 .. 4
  OBVIOUS
<1>2. PICK k \in 1 .. n : (k = 1 \/ k \notin Z) /\ \A m \in k + 1 .. n : m \in Z
  BY <1>1, LastOne
<1>3. k = 1 \/ ~all_zeroes(chain[k].host, chain[k].off)
  BY <1>2
<1>4. \A m \in k + 1 .. n : all_zeroes(chain[m].host, chain[m].off)
  BY <1>2
<1>5. \E d \in DOMAIN chain :
        /\ d = 1 \/ ~all_zeroes(chain[d].host, chain[d].off)
        /\ \A m \in d + 1 .. Len(chain) : all_zeroes(chain[m].host, chain[m].off)
  BY <1>3, <1>4
<1> DEFINE D == Survivor(chain)
<1>6. \A m \in D + 1 .. n : all_zeroes(chain[m].host, chain[m].off)
  BY <1>5 DEF Survivor
<1>7. D \in 1 .. n /\ j \in 1 .. n /\ j > D
  BY SurvivorIs
<1> HIDE DEF D, n
<1>8. j \in D + 1 .. n
  BY <1>1, <1>7
<1> QED BY <1>6, <1>8

LEMMA UnmovedUses ==
  ASSUME NEW p, NEW q, NEW i, NEW b, Fits(b), Unmoved(p, q, i, b), NEW h, NEW o
  PROVE  Uses(q, i, b, h, o) <=> Uses(p, i, b, h, o)
<1> DEFINE L == Len(ext2_block_to_path(b))
<1>1. L \in 1 .. 4
  BY PathIs DEF PathOK
<1>2. \A n \in 0 .. L : /\ Goes(q, i, b, n) <=> Goes(p, i, b, n)
                        /\ Goes(p, i, b, n) => \A m \in 0 .. n : Way(q, i, b)[m] = Way(p, i, b)[m]
  BY DEF Unmoved
<1> HIDE DEF L
<1>3. ASSUME NEW n \in 1 .. L
      PROVE  (Goes(q, i, b, n - 1) /\ Way(q, i, b)[n - 1] = h)
               <=> (Goes(p, i, b, n - 1) /\ Way(p, i, b)[n - 1] = h)
  BY <1>1, <1>2
<1> QED BY <1>3 DEF Uses, L

(* Along the same path there is one way. *)
LEMMA WaysAgree ==
  ASSUME NEW p, NEW i, NEW a, NEW b, NEW n \in 0 .. 4,
         \A m \in 1 .. n : ext2_block_to_path(a)[m] = ext2_block_to_path(b)[m]
  PROVE  \A m \in 0 .. n : Way(p, i, a)[m] = Way(p, i, b)[m]
<1> DEFINE v == Way(p, i, a)
           w == Way(p, i, b)
           f == ext2_block_to_path(a)
           g == ext2_block_to_path(b)
<1>1. /\ v[0] = i /\ \A m \in 1 .. 4 : v[m] = p[v[m - 1]][f[m]]
      /\ w[0] = i /\ \A m \in 1 .. 4 : w[m] = p[w[m - 1]][g[m]]
  BY WayIs
<1>2. \A m \in 1 .. n : f[m] = g[m]
  OBVIOUS
<1> HIDE DEF v, w, f, g
<1> DEFINE E(m) == m <= n => v[m] = w[m]
<1>3. E(0)
  BY <1>1
<1>4. ASSUME NEW m \in 1 .. 4, E(m - 1)
      PROVE  E(m)
  BY <1>1, <1>2, <1>4
<1> HIDE DEF E
<1>5. E(1)
  BY <1>3, <1>4
<1>6. E(2)
  BY <1>4, <1>5
<1>7. E(3)
  BY <1>4, <1>6
<1>8. E(4)
  BY <1>4, <1>7
<1>9. \A m \in 0 .. n : m \in {0, 1, 2, 3, 4} /\ m <= n
  OBVIOUS
<1> QED BY <1>3, <1>5, <1>6, <1>7, <1>8, <1>9 DEF E, v, w

\* With q, slot o of h in file i is empty; the ways that do not use it are
\* the same.
Empties(p, q, i, h, o) ==
  /\ \A b : Fits(b) =>
       /\ ~Uses(p, i, b, h, o) => Unmoved(p, q, i, b)
       /\ \A g, k : Uses(q, i, b, g, k) => Uses(p, i, b, g, k)
       /\ Found(q, i, b) # 0 => /\ Found(q, i, b) = Found(p, i, b)
                                /\ ~Uses(p, i, b, h, o)
                                /\ \A g, k : Uses(p, i, b, g, k) => Uses(q, i, b, g, k)
  /\ \A j \in Inodes : j # i => Untouched(p, q, j)

LEMMA CutEmpties ==
  ASSUME TypeOK, NEW lv, NEW file, Trees(lv, file), NEW i \in Inodes,
         NEW h \in Indirect(Placed, lv), file[h] = i, NEW o \in Slots(h),
         ptr' = [ptr EXCEPT ![h][o] = 0]
  PROVE  Empties(ptr, ptr', i, h, o)
<1>1. /\ ElseSame(ptr, ptr', Placed, lv, file, i, h, o) /\ ptr'[h][o] = 0
      /\ \A j \in Inodes : j # i => Untouched(ptr, ptr', j)
  BY CutEffect
<1>2. Forest(ptr, Placed, lv, file, Tops)
  BY ForestIs
<1>3. ASSUME NEW q, q = ptr'
      PROVE  Empties(ptr, q, i, h, o)
  <2>1. ElseSame(ptr, q, Placed, lv, file, i, h, o) /\ q[h][o] = 0 /\ i \in Inodes
    BY <1>1, <1>3
  <2>2. \A j \in Inodes : j # i => Untouched(ptr, q, j)
    BY <1>1, <1>3
  <2> HIDE DEF Placed, Tops
  <2>3. ASSUME NEW b, Fits(b)
        PROVE  /\ \A g, k : Uses(q, i, b, g, k) => Uses(ptr, i, b, g, k)
               /\ Found(q, i, b) # 0 => /\ Found(q, i, b) = Found(ptr, i, b)
                                        /\ ~Uses(ptr, i, b, h, o)
                                        /\ \A g, k : Uses(ptr, i, b, g, k) => Uses(q, i, b, g, k)
    BY ONLY <1>2, <2>1, <2>3, EmptiedWays
  <2>4. ASSUME NEW b, Fits(b), ~Uses(ptr, i, b, h, o)
        PROVE  Unmoved(ptr, q, i, b)
    BY ONLY <1>2, <2>1, <2>4, ElseUnmoved
  <2> QED BY <2>2, <2>3, <2>4 DEF Empties
<1> QED BY <1>3

(* The first slot of the list is emptied and taken off it. *)
LEMMA KillEffect ==
  ASSUME BlockInv, NEW t \in Tasks, Kill(t)
  PROVE  LET r == task[t]
             s == task'[t]
             w == Head(r.work)
         IN /\ Empties(ptr, ptr', r.ino, w.host, w.off) /\ Lists(r.work, w.host, w.off)
            /\ \A h, o : Lists(s.work, h, o) => Lists(r.work, h, o)
            /\ \A h, o : Lists(r.work, h, o) =>
                 (h = w.host /\ o = w.off) \/ Lists(s.work, h, o)
            /\ r.pc = "kill" /\ s.pc = "kill" /\ s.ino = r.ino /\ s.b = r.b /\ r.ino \in Inodes
            /\ Moves(t) /\ UNCHANGED <<live, i_size, i_mutex, cut>>
<1> DEFINE r == task[t]
           w == Head(r.work)
           x == ptr[w.host][w.off]
           s == [r EXCEPT !.top = x, !.depth = w.depth, !.work = Tail(@)]
<1>1. /\ r.pc = "kill" /\ r.top = 0 /\ r.work # <<>>
      /\ ptr' = [ptr EXCEPT ![w.host][w.off] = 0] /\ task' = [task EXCEPT ![t] = s]
      /\ UNCHANGED <<live, i_size, i_mutex, cut>>
  BY DEF Kill, errorVars
<1>2. Shape(r) /\ Form(r)
  BY TaskIs
<1>3. /\ s.pc = "kill" /\ s.work = Tail(r.work) /\ s.ino = r.ino /\ s.b = r.b
  BY <1>1, <1>2, SMTT(30) DEF Shape, Columns
<1>4. Moves(t) /\ task'[t] = s
  BY <1>1, OneTaskMoves DEF BlockInv
<1> HIDE DEF s
<1>5. r.work \in Seq(SlotRecord) /\ r.ino \in Inodes
  BY <1>1, <1>2 DEF Form
<1> DEFINE n == Len(r.work)
<1>6. /\ n \in Nat /\ n >= 1 /\ w = r.work[1] /\ Len(s.work) = n - 1
      /\ \A k \in 1 .. n - 1 : s.work[k] = r.work[k + 1]
  BY <1>1, <1>3, <1>5
<1>7. PICK lv, file : Trees(lv, file)
  BY DEF BlockInv
<1>8. WorkTrue(r, Placed, lv, file) /\ TypeOK
  BY <1>7 DEF Trees, TaskTrue, BlockInv
<1> HIDE DEF n, w
<1>9. 1 \in 1 .. n
  BY <1>6
<1>10. w.host \in Indirect(Placed, lv) /\ w.off \in Slots(w.host) /\ file[w.host] = r.ino
  BY <1>6, <1>8, <1>9 DEF WorkTrue, n
<1>11. Empties(ptr, ptr', r.ino, w.host, w.off)
  BY <1>1, <1>5, <1>7, <1>8, <1>10, CutEmpties
<1>12. Lists(r.work, w.host, w.off)
  BY <1>6, <1>9 DEF Lists, n
<1>13. ASSUME NEW h, NEW o, Lists(s.work, h, o)
       PROVE  Lists(r.work, h, o)
  BY <1>6, <1>13 DEF Lists, n
<1>14. ASSUME NEW h, NEW o, Lists(r.work, h, o)
       PROVE  (h = w.host /\ o = w.off) \/ Lists(s.work, h, o)
  <2>1. PICK k \in 1 .. n : r.work[k].host = h /\ r.work[k].off = o
    BY <1>14 DEF Lists, n
  <2>2. CASE k = 1
    BY <1>6, <2>1, <2>2
  <2>3. CASE k # 1
    <3>1. k - 1 \in 1 .. n - 1 /\ (k - 1) + 1 = k
      BY <1>6, <2>3
    <3>2. s.work[k - 1] = r.work[k]
      BY <1>6, <3>1, SMTT(30)
    <3> QED BY <1>6, <2>1, <3>1, <3>2 DEF Lists
  <2> QED BY <2>2, <2>3
<1> QED BY <1>1, <1>3, <1>4, <1>5, <1>11, <1>12, <1>13, <1>14 DEF w

(* What ext2_find_shared takes off and lists: its chain is the beginning *)
(* of the way to the first block that goes. *)
LEMMA DetachDoes ==
  ASSUME BlockInv, NEW t \in Tasks, Detach(t)
  PROVE  LET r == task[t]
             s == task'[t]
             k == Survivor(r.chain)
             o == Path(r)[k]
             ours == k = Len(r.chain) /\ k = SharedDepth(Path(r)) /\ k > 1
             w == Way(ptr, r.ino, r.b)
         IN /\ r.pc = "detach" /\ r.ino \in Inodes /\ Fits(r.b) /\ r.b \in Nat
            /\ ChainShape(r) /\ ChainTrue(r, ptr) /\ DOMAIN r.chain = 1 .. Len(r.chain)
            /\ Len(r.chain) \in 1 .. 4 /\ k \in 1 .. Len(r.chain)
            /\ IF ours THEN ptr' = ptr ELSE Empties(ptr, ptr', r.ino, w[k - 1], o)
            /\ s.pc = "kill" /\ s.ino = r.ino /\ s.b = r.b
            /\ s.work = EndsOfShared(r, k, IF ours THEN o ELSE o + 1)
                          \o do_indirects(r.ino, Path(r)[1])
            /\ Moves(t) /\ UNCHANGED <<live, i_size, i_mutex, cut>>
            /\ \A u \in Tasks : task[u].pc = "add" => task[u].ino # r.ino
<1> DEFINE r == task[t]
           path == Path(r)
           n == Len(path)
           k == Survivor(r.chain)
           link == r.chain[k]
           h0 == link.host
           o0 == link.off
           i == r.ino
           ours == k = Len(r.chain) /\ k = SharedDepth(path) /\ k > 1
           from == IF ours THEN o0 ELSE o0 + 1
           A == EndsOfShared(r, k, from)
           B == do_indirects(i, path[1])
           s == [r EXCEPT !.pc = "kill", !.chain = <<>>,
                          !.top = IF ours THEN 0 ELSE ptr[h0][o0],
                          !.depth = IF ours THEN 0 ELSE n - k,
                          !.work = A \o B]
<1>1. /\ r.pc = "detach" /\ UNCHANGED <<live, i_size, i_mutex, cut>>
      /\ \A u \in Tasks : task[u].pc = "add" => task[u].ino # r.ino
  BY DEF Detach, errorVars
<1>2. /\ Shape(r) /\ Typed(r) /\ Form(r) /\ Holding(r)
  BY <1>1, TaskIs DEF Holding
<1>3. r.ino \in Inodes /\ Fits(r.b) /\ ChainShape(r) /\ r.b \in Nat
  BY <1>1, <1>2 DEF Form, WithChain, Fits
<1>4. PICK lv, file : Trees(lv, file)
  BY DEF BlockInv
<1>5. Labels(lv, file) /\ Tree(ptr, Placed, lv, file, Tops) /\ Placed \subseteq Blocks /\ TypeOK
  BY <1>4, PlacedAre DEF Trees, BlockInv
<1>6. ChainTrue(r, ptr)
  BY <1>1, <1>2, <1>4 DEF Trees, TaskTrue
<1>7. PathOK(path) /\ n \in 1 .. 4 /\ Len(r.chain) \in 1 .. n
  BY <1>3, WalkDepthIs DEF PathOK, ChainShape
<1>8. Len(r.chain) \in 1 .. 4
  <2> DEFINE l == Len(r.chain)
  <2>1. l \in 1 .. n
    BY <1>7
  <2> HIDE DEF l, n
  <2>2. l \in 1 .. 4
    BY <1>7, <2>1
  <2> QED BY <2>2 DEF l
<1>9. DOMAIN r.chain = 1 .. Len(r.chain)
  BY <1>2 DEF Typed
<1>10. k \in 1 .. Len(r.chain)
  BY <1>8, <1>9, SurvivorIs
<1>11. ~ (Partial(r).key = 0 /\ ptr[Partial(r).host][Partial(r).off] # 0)
  <2>1. Partial(r) = r.chain[Len(r.chain)]
    BY DEF Partial, Last
  <2>2. Len(r.chain) \in 1 .. Len(r.chain)
    <3> DEFINE l == Len(r.chain)
    <3>1. l \in 1 .. 4
      BY <1>8
    <3> HIDE DEF l
    <3>2. l \in 1 .. l
      BY <3>1
    <3> QED BY <3>2 DEF l
  <2> QED BY <1>6, <2>1, <2>2 DEF ChainTrue
<1>12. task' = [task EXCEPT ![t] = s] /\ (ptr' = IF ours THEN ptr ELSE [ptr EXCEPT ![h0][o0] = 0])
  BY <1>11, Zenon DEF Detach
<1>13. ChainLeads(r, Placed, lv, file)
  BY <1>3, <1>5, <1>6, ChainReal
<1>14. /\ s.pc = "kill" /\ s.work = A \o B /\ s.ino = i /\ s.b = r.b
  BY <1>2, SMTT(30) DEF Shape, Columns
<1>15. Moves(t) /\ task'[t] = s
  BY <1>12, OneTaskMoves, ZenonT(30) DEF BlockInv
<1> HIDE DEF k, s
<1>16. h0 \in Indirect(Placed, lv) /\ o0 \in Slots(h0) /\ file[h0] = i
  BY <1>10, <1>13 DEF ChainLeads
<1>17. h0 = Way(ptr, i, r.b)[k - 1] /\ o0 = path[k]
  BY <1>3, <1>6, <1>10, ChainWay
<1>18. ~ours => Empties(ptr, ptr', i, h0, o0)
  BY <1>3, <1>4, <1>5, <1>12, <1>16, CutEmpties
<1>19. ours => ptr' = ptr
  BY <1>12
<1>20. s.work = EndsOfShared(r, k, IF ours THEN path[k] ELSE path[k] + 1) \o B
  BY <1>14, <1>17
<1> HIDE DEF h0, o0, n, from
<1> QED
  BY <1>1, <1>3, <1>6, <1>8, <1>9, <1>10, <1>14, <1>15, <1>17, <1>18, <1>19, <1>20, ZenonT(30) DEF k

(* Ways that use one slot are the same up to there. *)
LEMMA SlotShared ==
  ASSUME NEW p, NEW S, NEW lv, NEW file, NEW R, Forest(p, S, lv, file, R),
         NEW i \in Inodes, NEW a, Fits(a), NEW b, Fits(b),
         NEW k \in 1 .. Len(ext2_block_to_path(a)), Goes(p, i, a, k - 1),
         Uses(p, i, b, Way(p, i, a)[k - 1], ext2_block_to_path(a)[k])
  PROVE  /\ Len(ext2_block_to_path(b)) = Len(ext2_block_to_path(a))
         /\ \A m \in 1 .. k : ext2_block_to_path(b)[m] = ext2_block_to_path(a)[m]
<1> DEFINE pa == ext2_block_to_path(a)
           pb == ext2_block_to_path(b)
           M == Len(pa)
           N == Len(pb)
<1>1. PICK n \in 1 .. N :
        Goes(p, i, b, n - 1) /\ Way(p, i, b)[n - 1] = Way(p, i, a)[k - 1] /\ pb[n] = pa[k]
  BY DEF Uses
<1>2. M \in 1 .. 4 /\ N \in 1 .. 4 /\ Depth(pa[1]) = M - 1 /\ Depth(pb[1]) = N - 1
  BY PathIs DEF PathOK
<1>3. S \subseteq Blocks /\ 0 \notin S /\ Labels(lv, file) /\ Tree(p, S, lv, file, R)
  BY DEF Forest
<1>4. k - 1 \in 0 .. M /\ n - 1 \in 0 .. N
  BY <1>2
<1>5. k - 1 = n - 1 /\ \A m \in 1 .. n - 1 : pa[m] = pb[m]
  BY <1>1, <1>3, <1>4, WaysMeet
<1>6. k \in 1 .. M
  OBVIOUS
<1> HIDE DEF M, N, pa, pb
<1>7. n = k
  BY <1>2, <1>5, <1>6
<1>8. \A m \in 1 .. k : pb[m] = pa[m]
  BY <1>1, <1>2, <1>5, <1>6, <1>7
<1>9. 1 \in 1 .. k
  BY <1>2, <1>6
<1>10. N = M
  BY <1>2, <1>8, <1>9, SMTT(30)
<1> QED BY <1>8, <1>10 DEF M, N, pa, pb

(* What is below the size stays: to the left of the way to the first block *)
(* that goes there is nothing below the slot that is emptied. *)
LEMMA DetachKeeps ==
  ASSUME BlockInv, CallInv, NEW t \in Tasks, Detach(t), task[t].ino \notin cut,
         NEW b, Fits(b), b < task[t].b,
         NEW k, k = Survivor(task[t].chain),
         Uses(ptr, task[t].ino, b, Way(ptr, task[t].ino, task[t].b)[k - 1], Path(task[t])[k])
  PROVE  Found(ptr, task[t].ino, b) = 0
<1> DEFINE r == task[t]
           a == r.b
           i == r.ino
           pa == ext2_block_to_path(a)
           pb == ext2_block_to_path(b)
           v == Way(ptr, i, a)
           w == Way(ptr, i, b)
           L == Len(r.chain)
           M == Len(pa)
           N == Len(pb)
<1>1. /\ r.pc = "detach" /\ i \in Inodes /\ Fits(a) /\ ChainShape(r) /\ ChainTrue(r, ptr)
      /\ DOMAIN r.chain = 1 .. L /\ L \in 1 .. 4 /\ k \in 1 .. L /\ a \in Nat
  BY DetachDoes
<1>2. Path(r) = pa
  BY DEF Path
<1>3. /\ L \in 1 .. M /\ Goes(ptr, i, a, L - 1)
      /\ \A m \in 1 .. L : /\ r.chain[m].host = v[m - 1] /\ r.chain[m].key = v[m]
                           /\ r.chain[m].off = pa[m]
  <2>0. Fits(r.b) /\ ChainShape(r) /\ ChainTrue(r, ptr)
    BY <1>1
  <2>1. /\ Len(r.chain) \in 1 .. Len(Path(r)) /\ Goes(ptr, r.ino, r.b, Len(r.chain) - 1)
        /\ \A m \in 1 .. Len(r.chain) :
             /\ r.chain[m].host = Way(ptr, r.ino, r.b)[m - 1]
             /\ r.chain[m].key = Way(ptr, r.ino, r.b)[m]
             /\ r.chain[m].off = Path(r)[m]
    <3> HIDE DEF r
    <3> QED BY ONLY <2>0, ChainWay
  <2> QED BY <1>2, <2>1
<1>4. PathOK(pa) /\ PathOK(pb)
  BY <1>1, PathIs
<1>5. M \in 1 .. 4 /\ N \in 1 .. 4
  BY <1>4 DEF PathOK
<1>6. PICK lv, file : Trees(lv, file)
  BY DEF BlockInv
<1>7. Forest(ptr, Placed, lv, file, Tops)
  BY <1>6, ForestIs DEF BlockInv
<1>9. /\ pa[1] \in Nat /\ \A m \in 1 .. M : pa[m] \in Nat
      /\ \A m \in 1 .. N : pb[m] \in Nat
      /\ Depth(pa[1]) = M - 1 /\ Depth(pb[1]) = N - 1
  BY <1>4, <1>5, Geometry, SMTT(30) DEF PathOK
<1>10. PICK j \in 1 .. 4 : Parts(b, a, j) /\ pb[j] < pa[j]
  BY <1>1, PathLess
<1>11. /\ j \in 1 .. M /\ j \in 1 .. N
       /\ \A m \in 1 .. j - 1 : pb[m] = pa[m]
  BY <1>10 DEF Parts
<1>12. \A x \in 1 .. L : x > k => all_zeroes(r.chain[x].host, r.chain[x].off)
  BY <1>1, SurvivorLast
<1>13. \A x \in 1 .. M : x > SharedDepth(pa) => pa[x] = 0
  BY <1>4, SharedDepthLast
<1>14. L # SharedDepth(pa) => r.chain[L].key = 0
  BY <1>1, <1>2 DEF Partial, Last, CallInv, KindInv, Miss
<1>15. /\ v[0] = i /\ \A m \in 1 .. 4 : v[m] = ptr[v[m - 1]][pa[m]]
       /\ w[0] = i /\ \A m \in 1 .. 4 : w[m] = ptr[w[m - 1]][pb[m]]
  BY WayIs
<1> DEFINE D == SharedDepth(pa)
<1>16. D \in 1 .. M
  BY <1>4, SharedDepthIs
<1> HIDE DEF r, a, i, pa, pb, v, w, L, M, N, D
<1>17. Goes(ptr, i, a, k - 1)
  BY <1>1, <1>3, GoesLess
<1>18. M = N /\ \A m \in 1 .. k : pb[m] = pa[m]
  <2>1. k \in 1 .. Len(ext2_block_to_path(a))
    BY <1>1, <1>3, <1>5 DEF M, pa
  <2>2. Uses(ptr, i, b, Way(ptr, i, a)[k - 1], ext2_block_to_path(a)[k])
    BY <1>2 DEF i, a, r, pa
  <2>3. Fits(a) /\ Fits(b) /\ i \in Inodes
    BY <1>1
  <2>4. /\ Len(ext2_block_to_path(b)) = Len(ext2_block_to_path(a))
        /\ \A m \in 1 .. k : ext2_block_to_path(b)[m] = ext2_block_to_path(a)[m]
    BY ONLY <1>7, <1>17, <2>1, <2>2, <2>3, SlotShared
  <2> QED BY <2>4 DEF pa, pb, M, N
<1>19. j > k
  BY <1>1, <1>9, <1>10, <1>11, <1>18
<1>21. \A m \in 0 .. j - 1 : w[m] = v[m]
  BY <1>10, <1>11, WaysAgree DEF pa, pb, v, w
<1>22. SUFFICES ASSUME Found(ptr, i, b) # 0
                PROVE  FALSE
  BY DEF i, r
<1>23. \A m \in 1 .. N : w[m] # 0
  BY <1>22 DEF Found, Goes, N, pb, w
<1>24. CASE j <= L
  <2>1. j \in 1 .. L
    BY <1>1, <1>10, <1>24
  <2>2. all_zeroes(v[j - 1], pa[j])
    BY <1>3, <1>12, <1>19, <2>1
  <2>3. pb[j] \in 0 .. pa[j] - 1
    BY <1>9, <1>10, <1>11
  <2>4. ptr[v[j - 1]][pb[j]] = 0
    BY <2>2, <2>3 DEF all_zeroes
  <2>5. j - 1 \in 0 .. j - 1
    BY <1>10
  <2> QED BY <1>10, <1>11, <1>15, <1>21, <1>23, <2>4, <2>5
<1>25. CASE j > L
  <2>1. pa[j] # 0
    BY <1>9, <1>10, <1>11
  <2>2. ~(j > D)
    BY <1>11, <1>13, <2>1 DEF D
  <2>3. L # D
    BY <1>1, <1>10, <1>16, <1>25, <2>2
  <2>4. v[L] = 0
    <3>1. L \in 1 .. L
      BY <1>1
    <3> QED BY <1>3, <1>14, <2>3, <3>1 DEF D
  <2>5. L \in 0 .. j - 1 /\ L \in 1 .. N
    BY <1>1, <1>5, <1>10, <1>11, <1>18, <1>25
  <2> QED BY <1>21, <1>23, <2>4, <2>5
<1> QED BY <1>1, <1>10, <1>24, <1>25

(* truncate takes truncate_mutex, and lists all slots of the inode from *)
(* the first block that goes, or looks for the branch that is shared. *)
LEMMA LockDoes ==
  ASSUME BlockInv, CallInv, NEW t \in Tasks, TruncateLock(t)
  PROVE  LET r == task[t]
             s == task'[t]
         IN /\ r.pc = "truncate" /\ r.ino \in Inodes /\ Fits(r.b) /\ i_size[r.ino] = r.b
            /\ s.op = r.op /\ s.ino = r.ino /\ s.b = r.b
            /\ \/ Sharing(s) /\ s.pc # "add" /\ s.pc # "return" /\ Len(Path(r)) # 1
               \/ /\ s.pc = "kill" /\ Len(Path(r)) = 1 /\ Path(r)[1] \in Nat
                  /\ \A h, o : Lists(s.work, h, o) <=> h = r.ino /\ o \in Path(r)[1] .. NDir + 2
            /\ Moves(t) /\ UNCHANGED <<live, ptr, i_size, i_mutex, cut>>
<1> DEFINE r == task[t]
           off == Path(r)[1]
           A == SlotsFrom(r.ino, off, NDir, 0)
           B == do_indirects(r.ino, off)
           s == task'[t]
<1>1. /\ r.pc = "truncate" /\ UNCHANGED <<live, ptr, i_size, i_mutex, cut>>
      /\ task' = [task EXCEPT ![t] = IF Len(Path(r)) = 1
                                     THEN [r EXCEPT !.pc = "kill", !.work = A \o B]
                                     ELSE BeginWalk(r, "shared")]
  BY DEF TruncateLock, errorVars
<1>2. /\ Shape(r) /\ Form(r) /\ Kind(r) /\ r.ino \in Inodes /\ Fits(r.b)
      /\ r.op \in {"truncate", "evict"}
  BY <1>1, TaskIs DEF CallInv, KindInv, Form, Kind, ToTruncate
<1>3. ~r.page /\ i_size[r.ino] = r.b
  BY <1>1, <1>2 DEF Kind, PageOps, CallInv, SizeInv, ToTruncate
<1>4. r.op = "evict" => Len(Path(r)) = 1
  BY <1>2, PathZero DEF Form, Path
<1>5. CASE Len(Path(r)) = 1
  <2> DEFINE q == [r EXCEPT !.pc = "kill", !.work = A \o B]
  <2>1. task' = [task EXCEPT ![t] = q]
    BY <1>1, <1>5
  <2>2. Moves(t) /\ s = q
    BY <2>1, OneTaskMoves DEF BlockInv
  <2>3. off \in 0 .. NDir + 2 /\ off < NDir
    <3>1. PathOK(Path(r))
      BY <1>2, WalkDepthIs
    <3>2. off \in 0 .. NDir + 2 /\ Depth(off) = 0
      BY <1>5, <3>1 DEF PathOK
    <3> HIDE DEF off
    <3> QED BY <3>2, Geometry DEF Depth
  <2>4. r.ino \in Hosts /\ NDir \in Nat /\ off \in Nat /\ 0 \in 0 .. 3
    BY <1>2, <2>3, Geometry DEF Hosts
  <2>5. ASSUME NEW h, NEW o
        PROVE  Lists(A \o B, h, o) <=> h = r.ino /\ o \in off .. NDir + 2
    <3>1. A \in Seq(SlotRecord) /\ (Lists(A, h, o) <=> h = r.ino /\ o \in off .. NDir - 1)
      <4> HIDE DEF off, r
      <4> QED BY ONLY <2>4, ListsSlots
    <3>2. /\ B \in Seq(SlotRecord)
          /\ Lists(B, h, o) <=> h = r.ino /\ o \in NDir .. NDir + 2 /\ o > off
      BY <1>2, <2>3, ListsIndirects, ZenonT(30)
    <3> HIDE DEF A, B, off
    <3>3. Lists(A \o B, h, o) <=> Lists(A, h, o) \/ Lists(B, h, o)
      BY <3>1, <3>2, ListsJoin
    <3>4. o \in off .. NDir + 2 <=> o \in off .. NDir - 1 \/ (o \in NDir .. NDir + 2 /\ o > off)
      BY <2>3, <2>4
    <3> QED BY <3>1, <3>2, <3>3, <3>4
  <2> HIDE DEF A, B
  <2>6. q.pc = "kill" /\ q.op = r.op /\ q.ino = r.ino /\ q.b = r.b /\ q.work = A \o B
    BY <1>2 DEF Shape, Columns
  <2> HIDE DEF q
  <2> QED BY <1>1, <1>2, <1>3, <1>5, <2>2, <2>4, <2>5, <2>6
<1>6. CASE Len(Path(r)) # 1
  <2> DEFINE q == BeginWalk(r, "shared")
  <2>1. task' = [task EXCEPT ![t] = q]
    BY <1>1, <1>6
  <2>2. r.op = "truncate" /\ r.op \notin PageOps
    BY <1>2, <1>4, <1>6 DEF PageOps
  <2>3. /\ Agrees(r, q)
        /\ q.pc \in {"verify", "detach", "return", "lock", "search"} /\ Sharing(q)
    BY <1>2, <1>3, <2>2, BeginWalkPlaces DEF Walks
  <2>4. Moves(t) /\ s = q
    BY <2>1, OneTaskMoves DEF BlockInv
  <2> HIDE DEF q
  <2>5. q.pc # "add" /\ q.pc # "return" /\ q.op = r.op /\ q.ino = r.ino /\ q.b = r.b
    BY <2>3 DEF Sharing, Agrees
  <2> QED BY <1>1, <1>2, <1>3, <2>3, <1>6, <2>4, <2>5
<1> QED BY <1>5, <1>6

(* What ext2_find_shared lists: the ends of the indirect blocks that are *)
(* shared, and the subtrees after the one that the branch is in. *)
LEMMA DetachLists ==
  ASSUME BlockInv, NEW t \in Tasks, Detach(t)
  PROVE  LET r == task[t]
             k == Survivor(r.chain)
             path == Path(r)
             ours == k = Len(r.chain) /\ k = SharedDepth(path) /\ k > 1
             w == Way(ptr, r.ino, r.b)
         IN \A h, o : Lists(task'[t].work, h, o) <=>
              \/ \E j \in 2 .. k : /\ h = w[j - 1] /\ o \in path[j] .. Ptrs - 1
                                   /\ o = path[j] => j = k /\ ours
              \/ h = r.ino /\ o \in NDir .. NDir + 2 /\ o > path[1]
<1> DEFINE r == task[t]
           k == Survivor(r.chain)
           path == Path(r)
           ours == k = Len(r.chain) /\ k = SharedDepth(path) /\ k > 1
           w == Way(ptr, r.ino, r.b)
           from == IF ours THEN path[k] ELSE path[k] + 1
           A == EndsOfShared(r, k, from)
           B == do_indirects(r.ino, path[1])
           L == Len(r.chain)
<1>1. /\ r.ino \in Inodes /\ Fits(r.b) /\ ChainShape(r) /\ ChainTrue(r, ptr)
      /\ L \in 1 .. 4 /\ k \in 1 .. L /\ task'[t].work = A \o B
  BY DetachDoes
<1>2. \A m \in 1 .. L : r.chain[m].host = w[m - 1] /\ r.chain[m].off = path[m]
  <2>0. Fits(r.b) /\ ChainShape(r) /\ ChainTrue(r, ptr)
    BY <1>1
  <2>1. \A m \in 1 .. Len(r.chain) :
             /\ r.chain[m].host = Way(ptr, r.ino, r.b)[m - 1]
             /\ r.chain[m].off = Path(r)[m]
    BY <2>0, ChainWay
  <2> QED BY <2>1
<1>3. PathOK(path) /\ L \in 1 .. Len(path)
  BY <1>1, WalkDepthIs DEF ChainShape
<1>4. path[1] \in 0 .. NDir + 2 /\ \A j \in 1 .. L : path[j] \in Nat
  BY <1>3, Geometry DEF PathOK
<1> HIDE DEF k, L, path
<1>5. from \in Nat
  BY <1>1, <1>4
<1> HIDE DEF ours
<1>6. ASSUME NEW h, NEW o
      PROVE  /\ A \in Seq(SlotRecord)
             /\ Lists(A, h, o) <=>
                  \E j \in 2 .. k : h = r.chain[j].host /\ o \in From(r, k, from, j) .. Ptrs - 1
  BY <1>1, <1>5, ListsEnds DEF L
<1>7. ASSUME NEW h, NEW o
      PROVE  /\ B \in Seq(SlotRecord)
             /\ Lists(B, h, o) <=> h = r.ino /\ o \in NDir .. NDir + 2 /\ o > path[1]
  BY <1>1, <1>4, ListsIndirects
<1>8. ASSUME NEW j \in 2 .. k, NEW o
      PROVE  o \in From(r, k, from, j) .. Ptrs - 1 <=>
               o \in path[j] .. Ptrs - 1 /\ (o = path[j] => j = k /\ ours)
  <2>1. j \in 1 .. L
    BY <1>1
  <2>2. From(r, k, from, j) = IF j = k /\ ours THEN path[j] ELSE path[j] + 1
    BY <1>2, <2>1 DEF From
  <2> QED BY <1>4, <2>1, <2>2, Geometry
<1> HIDE DEF A, B, from
<1>9. ASSUME NEW h, NEW o
      PROVE  Lists(task'[t].work, h, o) <=>
               \/ \E j \in 2 .. k : /\ h = w[j - 1] /\ o \in path[j] .. Ptrs - 1
                                    /\ o = path[j] => j = k /\ ours
               \/ h = r.ino /\ o \in NDir .. NDir + 2 /\ o > path[1]
  <2>1. Lists(task'[t].work, h, o) <=> Lists(A, h, o) \/ Lists(B, h, o)
    BY <1>1, <1>6, <1>7, ListsJoin
  <2>2. \A j \in 2 .. k : r.chain[j].host = w[j - 1]
    BY <1>1, <1>2
  <2> QED BY <1>6, <1>7, <1>8, <2>1, <2>2, SMTT(30)
<1> QED BY <1>9 DEF k, path, ours

----------------------------------------
(* What tasks know about the ways *)

\* The slots that are still to be emptied are on no way to a block that stays.
Works(r, p) == r.pc = "kill" =>
  \A h, o, b : Lists(r.work, h, o) /\ Fits(b) /\ Uses(p, r.ino, b, h, o) => b >= r.b

LEMMA LockWorks ==
  ASSUME BlockInv, CallInv, NEW t \in Tasks, TruncateLock(t)
  PROVE  Works(task'[t], ptr')
<1> DEFINE r == task[t]
           s == task'[t]
           pa == ext2_block_to_path(r.b)
<1>1. /\ r.pc = "truncate" /\ r.ino \in Inodes /\ Fits(r.b) /\ s.ino = r.ino /\ s.b = r.b
      /\ \/ Sharing(s) /\ s.pc # "add" /\ s.pc # "return"
         \/ /\ s.pc = "kill" /\ Len(Path(r)) = 1 /\ Path(r)[1] \in Nat
            /\ \A h, o : Lists(s.work, h, o) <=> h = r.ino /\ o \in Path(r)[1] .. NDir + 2
      /\ ptr' = ptr
  BY LockDoes
<1>2. PICK lv, file : Trees(lv, file)
  BY DEF BlockInv
<1>3. /\ Placed \subseteq Blocks /\ 0 \notin Placed /\ Labels(lv, file)
      /\ Tree(ptr, Placed, lv, file, Tops)
  BY <1>2, ForestIs DEF BlockInv, Forest
<1>4. ASSUME s.pc = "kill", NEW h, NEW o, NEW b, Lists(s.work, h, o), Fits(b),
             Uses(ptr, r.ino, b, h, o)
      PROVE  b >= r.b
  <2>1. ~Sharing(s)
    BY <1>4 DEF Sharing
  <2>2. Len(pa) = 1 /\ h = r.ino /\ pa[1] \in Nat /\ o \in Nat /\ (pa[1] < o \/ o = pa[1])
    BY <1>1, <1>4, <2>1, Geometry DEF Path
  <2> DEFINE a == r.b
             i == r.ino
  <2>3. Fits(a) /\ i \in Inodes /\ Uses(ptr, i, b, Way(ptr, i, a)[1 - 1], o)
    BY <1>1, <1>4, <2>2, WayIs
  <2>4. 1 \in 1 .. Len(ext2_block_to_path(a)) /\ Goes(ptr, i, a, 1 - 1)
    BY <2>2, GoesZero
  <2>5. \/ ext2_block_to_path(a)[1] < o
        \/ /\ o = ext2_block_to_path(a)[1]
           /\ \A m \in 1 + 1 .. Len(ext2_block_to_path(a)) : ext2_block_to_path(a)[m] = 0
    BY <2>2
  <2>6. Fits(b)
    BY <1>4
  <2> HIDE DEF a, i, pa
  <2>7. b >= a
    BY ONLY <1>3, <2>3, <2>4, <2>5, <2>6, LaterSlot
  <2> QED BY <2>7 DEF a
<1> QED BY <1>1, <1>4 DEF Works

LEMMA DetachWorks ==
  ASSUME BlockInv, NEW t \in Tasks, Detach(t)
  PROVE  Works(task'[t], ptr')
<1> DEFINE r == task[t]
           s == task'[t]
           k == Survivor(r.chain)
           a == r.b
           i == r.ino
           pa == ext2_block_to_path(a)
           w == Way(ptr, i, a)
           L == Len(r.chain)
           ours == k = L /\ k = SharedDepth(pa) /\ k > 1
<1>1. /\ i \in Inodes /\ Fits(a) /\ ChainShape(r) /\ ChainTrue(r, ptr)
      /\ L \in 1 .. 4 /\ k \in 1 .. L
      /\ IF ours THEN ptr' = ptr ELSE Empties(ptr, ptr', i, w[k - 1], pa[k])
      /\ s.ino = i /\ s.b = a
  BY DetachDoes DEF Path
<1>2. \A h, o : Lists(s.work, h, o) <=>
         \/ \E j \in 2 .. k : /\ h = w[j - 1] /\ o \in pa[j] .. Ptrs - 1
                              /\ o = pa[j] => j = k /\ ours
         \/ h = i /\ o \in NDir .. NDir + 2 /\ o > pa[1]
  BY DetachLists DEF Path
<1>3. L \in 1 .. Len(pa) /\ Goes(ptr, i, a, L - 1)
  BY <1>1, ChainWay DEF Path
<1>4. PICK lv, file : Trees(lv, file)
  BY DEF BlockInv
<1>5. /\ Placed \subseteq Blocks /\ 0 \notin Placed /\ Labels(lv, file)
      /\ Tree(ptr, Placed, lv, file, Tops)
  BY <1>4, ForestIs DEF BlockInv, Forest
<1>6. PathOK(pa) /\ \A x \in 1 .. Len(pa) : x > SharedDepth(pa) => pa[x] = 0
  BY <1>1, PathIs, SharedDepthLast
<1>7. Len(pa) \in 1 .. 4 /\ \A x \in 1 .. Len(pa) : pa[x] \in Nat
  BY <1>6, Geometry DEF PathOK
<1>8. w[0] = i
  BY WayIs
<1>9. ASSUME NEW h, NEW o, NEW b, Lists(s.work, h, o), Fits(b), Uses(ptr', i, b, h, o)
      PROVE  b >= a
  <2>1. Uses(ptr, i, b, h, o)
    BY <1>1, <1>9 DEF Empties
  <2> HIDE DEF r, s, k, a, i, pa, w, L
  <2>2. PICK n : /\ n \in 1 .. L /\ h = w[n - 1]
                 /\ \/ pa[n] < o
                    \/ o = pa[n] /\ \A x \in n + 1 .. Len(pa) : pa[x] = 0
    <3>1. CASE h = i /\ o \in NDir .. NDir + 2 /\ o > pa[1]
      BY <1>1, <1>7, <1>8, <3>1, Geometry
    <3>2. ASSUME NEW j \in 2 .. k, h = w[j - 1], o \in pa[j] .. Ptrs - 1,
                 o = pa[j] => j = k /\ ours
          PROVE  /\ j \in 1 .. L
                 /\ \/ pa[j] < o
                    \/ o = pa[j] /\ \A x \in j + 1 .. Len(pa) : pa[x] = 0
      BY <1>1, <1>3, <1>6, <1>7, <3>2, Geometry
    <3>3. \/ \E j \in 2 .. k : /\ h = w[j - 1] /\ o \in pa[j] .. Ptrs - 1
                               /\ o = pa[j] => j = k /\ ours
          \/ h = i /\ o \in NDir .. NDir + 2 /\ o > pa[1]
      BY <1>2, <1>9
    <3> HIDE DEF ours
    <3> QED BY <3>1, <3>2, <3>3
  <2>3. Goes(ptr, i, a, n - 1)
    BY <1>1, <1>3, <2>2, GoesLess
  <2>4. /\ n \in 1 .. Len(ext2_block_to_path(a))
        /\ Uses(ptr, i, b, Way(ptr, i, a)[n - 1], o)
        /\ \/ ext2_block_to_path(a)[n] < o
           \/ /\ o = ext2_block_to_path(a)[n]
              /\ \A x \in n + 1 .. Len(ext2_block_to_path(a)) : ext2_block_to_path(a)[x] = 0
    BY <1>1, <1>3, <1>7, <2>1, <2>2 DEF pa, w
  <2>5. Fits(a) /\ Fits(b) /\ i \in Inodes
    BY <1>1, <1>9
  <2> QED BY ONLY <1>5, <2>3, <2>4, <2>5, LaterSlot
<1> QED BY <1>1, <1>9 DEF Works

\* A slot that is still to be emptied is on the way to b.
Hit(r, p, i, b) == \E h, o : Lists(r.work, h, o) /\ Uses(p, i, b, h, o)

(* Every block that is there uses each slot of its way. *)
LEMMA FoundUses ==
  ASSUME NEW p, NEW i, NEW b, Fits(b), Found(p, i, b) # 0,
         NEW n \in 1 .. Len(ext2_block_to_path(b))
  PROVE  Uses(p, i, b, Way(p, i, b)[n - 1], ext2_block_to_path(b)[n])
<1> DEFINE L == Len(ext2_block_to_path(b))
<1>1. L \in 1 .. 4
  BY PathIs DEF PathOK
<1>2. Goes(p, i, b, L)
  BY DEF Found
<1>3. n \in 1 .. L
  OBVIOUS
<1> HIDE DEF L
<1>4. L \in 0 .. 4 /\ n - 1 \in 0 .. L
  BY <1>1, <1>3
<1>5. Goes(p, i, b, n - 1)
  BY ONLY <1>2, <1>4, GoesLess
<1> QED BY <1>3, <1>5 DEF Uses, L

(* All slots from the first block that goes are listed. *)
LEMMA LockHits ==
  ASSUME BlockInv, CallInv, NEW t \in Tasks, TruncateLock(t), task'[t].pc = "kill",
         NEW b, Fits(b), b >= task[t].b, Found(ptr, task[t].ino, b) # 0
  PROVE  Hit(task'[t], ptr, task[t].ino, b)
<1> DEFINE r == task[t]
           s == task'[t]
           a == r.b
           i == r.ino
           pa == ext2_block_to_path(a)
           pb == ext2_block_to_path(b)
<1>0. ~Sharing(s)
  BY DEF Sharing
<1>1. /\ Fits(a) /\ Len(pa) = 1 /\ pa[1] \in Nat
      /\ \A h, o : Lists(s.work, h, o) <=> h = i /\ o \in pa[1] .. NDir + 2
  BY <1>0, LockDoes DEF Path
<1>2. PathOK(pb)
  BY PathIs
<1>3. 1 \in 1 .. Len(pb) /\ pb[1] \in 0 .. NDir + 2
  BY <1>2 DEF PathOK
<1>4. pa[1] <= pb[1]
  <2>1. a \in Nat /\ b \in Nat
    BY <1>1 DEF Fits
  <2>2. CASE a = b
    BY <1>1, <2>2
  <2>3. CASE a < b
    BY <1>1, <1>3, <2>3, PathLess, Geometry DEF Parts
  <2> QED BY <2>1, <2>2, <2>3
<1>5. Lists(s.work, i, pb[1])
  BY <1>1, <1>3, <1>4, Geometry
<1>6. Uses(ptr, i, b, i, pb[1])
  BY <1>3, FoundUses, WayIs
<1> QED BY <1>5, <1>6 DEF Hit

(* Whatever is left past the size uses a slot that is listed. *)
LEMMA DetachHits ==
  ASSUME BlockInv, NEW t \in Tasks, Detach(t), Len(Path(task[t])) # 1,
         NEW b, Fits(b), b >= task[t].b, Found(ptr', task[t].ino, b) # 0
  PROVE  Hit(task'[t], ptr', task[t].ino, b)
<1> DEFINE r == task[t]
           s == task'[t]
           k == Survivor(r.chain)
           a == r.b
           i == r.ino
           pa == ext2_block_to_path(a)
           pb == ext2_block_to_path(b)
           v == Way(ptr, i, b)
           w == Way(ptr, i, a)
           L == Len(r.chain)
           M == Len(pa)
           N == Len(pb)
           ours == k = L /\ k = SharedDepth(pa) /\ k > 1
<1>1. /\ i \in Inodes /\ Fits(a) /\ ChainShape(r) /\ ChainTrue(r, ptr)
      /\ L \in 1 .. 4 /\ k \in 1 .. L /\ a \in Nat
      /\ IF ours THEN ptr' = ptr ELSE Empties(ptr, ptr', i, w[k - 1], pa[k])
  BY DetachDoes DEF Path
<1>2. \A h, o : Lists(s.work, h, o) <=>
         \/ \E j \in 2 .. k : /\ h = w[j - 1] /\ o \in pa[j] .. Ptrs - 1
                              /\ o = pa[j] => j = k /\ ours
         \/ h = i /\ o \in NDir .. NDir + 2 /\ o > pa[1]
  BY DetachLists DEF Path
<1>3. L \in 1 .. M /\ M # 1
  BY <1>1 DEF ChainShape, Path
<1>4. PathOK(pa) /\ PathOK(pb)
  BY <1>1, PathIs
<1>5. /\ M \in 1 .. 4 /\ N \in 1 .. 4 /\ \A x \in 1 .. M : pa[x] \in Nat
      /\ pb[1] \in 0 .. NDir + 2 /\ Depth(pa[1]) = M - 1
      /\ \A x \in 1 .. N : pb[x] \in Nat
      /\ \A x \in 2 .. N : pb[x] \in 0 .. Ptrs - 1
      /\ \A x \in 2 .. M : pa[x] \in 0 .. Ptrs - 1
  BY <1>4, Geometry, SMTT(30) DEF PathOK
<1>6. w[0] = i
  BY WayIs
<1>7. Found(ptr', i, b) # 0 /\ b \in Nat /\ b >= a
  BY DEF Fits
<1>8. Found(ptr, i, b) # 0 /\ \A g, c : Uses(ptr, i, b, g, c) => Uses(ptr', i, b, g, c)
  BY <1>1, <1>7 DEF Empties
<1>9. \A n \in 1 .. N : Uses(ptr, i, b, v[n - 1], pb[n])
  BY <1>8, FoundUses
<1>10. \A n \in 0 .. 4 : (\A m \in 1 .. n : pb[m] = pa[m]) => \A m \in 0 .. n : v[m] = w[m]
  BY WaysAgree
<1>11. a < b => \E j \in 1 .. 4 : Parts(a, b, j) /\ pa[j] < pb[j]
  BY <1>1, PathLess
<1>12. a < b => \E j \in 1 .. 4 : /\ j \in 1 .. M /\ j \in 1 .. N /\ pa[j] < pb[j]
                                  /\ \A m \in 1 .. j - 1 : pb[m] = pa[m]
  BY <1>11 DEF Parts
<1>13. ~ours => ~Uses(ptr, i, b, w[k - 1], pa[k])
  BY <1>1, <1>7 DEF Empties
<1>14. a = b => M = N /\ \A m \in 1 .. M : pb[m] = pa[m]
  OBVIOUS
<1> SUFFICES \E h, o : Lists(s.work, h, o) /\ Uses(ptr, i, b, h, o)
  BY <1>8 DEF Hit
<1> HIDE DEF r, s, k, a, i, pa, pb, v, w, L, M, N, ours
<1>15. ASSUME k \in 1 .. N, \A m \in 1 .. k : pb[m] = pa[m]
       PROVE  \E h, o : Lists(s.work, h, o) /\ Uses(ptr, i, b, h, o)
  BY <1>1, <1>2, <1>3, <1>5, <1>9, <1>10, <1>13, <1>15, Geometry DEF ours
<1>16. CASE a = b
  BY <1>1, <1>3, <1>5, <1>14, <1>15, <1>16
<1>17. CASE a < b
  <2>1. PICK j : /\ j \in 1 .. 4 /\ j \in 1 .. M /\ j \in 1 .. N /\ pa[j] < pb[j]
                 /\ \A m \in 1 .. j - 1 : pb[m] = pa[m]
    BY <1>12, <1>17
  <2>2. CASE j > k
    BY <1>1, <1>5, <1>15, <2>1, <2>2
  <2>3. CASE ~(j > k)
    BY <1>1, <1>2, <1>3, <1>5, <1>6, <1>9, <1>10, <2>1, <2>3, Geometry DEF Depth
  <2> QED BY <2>2, <2>3
<1> QED BY <1>1, <1>7, <1>16, <1>17

\* The chain that ext2_get_branch has just verified is true, the block that a
\* call returns is the one of its page; but not if a block could not be read,
\* in the files of c.
Adds(r, p, c) == r.pc = "add" /\ r.walk = "first" /\ r.ino \notin c => ChainTrue(r, p)
Exact(r, p, c) ==
  r.pc = "return" /\ r.err = "ok" /\ r.ino \notin c => r.res = Found(p, r.ino, r.b)
\* ext2_find_shared is for blocks below indirect blocks.
Deep(r) == Sharing(r) => Len(Path(r)) # 1

Knows(r, p, c) == Works(r, p) /\ Adds(r, p, c) /\ Exact(r, p, c) /\ Deep(r)
WaysInv == \A t \in Tasks : Knows(task[t], ptr, cut)

\* As far as task r is concerned, the ways with q are those with p.
Stays(r, p, q, c) ==
  /\ r.pc = "kill" => Untouched(p, q, r.ino)
  /\ r.page /\ r.ino \notin c =>
       /\ Found(q, r.ino, r.b) = Found(p, r.ino, r.b)
       /\ r.pc = "add" => \A n \in 0 .. Len(Path(r)) : Goes(p, r.ino, r.b, n) =>
            \A m \in 0 .. n : Way(q, r.ino, r.b)[m] = Way(p, r.ino, r.b)[m]

LEMMA KnowsKept ==
  ASSUME BlockInv, CallInv, NEW u \in Tasks, Knows(task[u], ptr, cut),
         NEW q, Stays(task[u], ptr, q, cut), NEW c, cut \subseteq c
  PROVE  Knows(task[u], q, c)
<1> DEFINE r == task[u]
<1>1. Form(r) /\ Kind(r)
  BY TaskIs DEF CallInv, KindInv
<1>2. Works(r, q)
  BY UnmovedUses DEF Works, Stays, Untouched, Knows
<1>3. Adds(r, q, c)
  <2> SUFFICES ASSUME r.pc = "add", r.walk = "first", r.ino \notin c
               PROVE  ChainTrue(r, q)
    BY DEF Adds
  <2>1. Fits(r.b) /\ ChainShape(r) /\ r.page /\ r.chain[Len(r.chain)].key # 0
    BY <1>1 DEF Kind, Form, WithChain
  <2>2. ChainTrue(r, ptr)
    BY DEF Knows, Adds
  <2>3. Goes(ptr, r.ino, r.b, Len(r.chain)) /\ Len(r.chain) \in 0 .. Len(Path(r))
    BY <2>1, <2>2, ChainWay DEF Goes
  <2> QED BY <2>1, <2>2, <2>3, ChainKept DEF Stays
<1>4. Exact(r, q, c)
  BY <1>1 DEF Exact, Kind, Stays, Knows
<1> QED BY <1>2, <1>3, <1>4 DEF Knows

(* A file that is untouched. *)
LEMMA UntouchedStays ==
  ASSUME BlockInv, CallInv, NEW u \in Tasks, NEW q,
         task[u].ino \in Inodes => Untouched(ptr, q, task[u].ino)
  PROVE  Stays(task[u], ptr, q, cut)
<1> DEFINE r == task[u]
<1>1. r.pc = "kill" => r.ino \in Inodes
  BY TaskIs DEF Form
<1>2. ASSUME r.page
      PROVE  Unmoved(ptr, q, r.ino, r.b)
  BY <1>2, PageFits DEF Untouched
<1> QED BY <1>1, <1>2 DEF Stays, Unmoved, Path

LEMMA TruncatingSize ==
  ASSUME BlockInv, CallInv, NEW t \in Tasks, Truncating(task[t])
  PROVE  /\ i_size[task[t].ino] = task[t].b /\ task[t].b \in Nat /\ task[t].ino \in Inodes
         /\ \A u \in Tasks : u # t /\ task[u].page /\ task[u].ino = task[t].ino =>
              task[u].b < task[t].b
<1>1. task[t].ino \in Inodes
  BY TaskIs DEF Form, Truncating, Sharing
<1>2. i_size[task[t].ino] = task[t].b
  BY DEF CallInv, SizeInv, ToTruncate
<1>3. i_size[task[t].ino] \in Nat
  BY <1>1 DEF BlockInv, TypeOK
<1>4. \A u \in Tasks : u # t /\ task[u].page /\ task[u].ino = task[t].ino => task[u].b < task[t].b
  BY DEF CallInv, PageInv
<1> QED BY <1>1, <1>2, <1>3, <1>4

(* What emptying slots past the size leaves of the others. *)
LEMMA KillStays ==
  ASSUME BlockInv, CallInv, NEW t \in Tasks, Works(task[t], ptr), Kill(t),
         NEW u \in Tasks, u # t
  PROVE  Stays(task[u], ptr, ptr', cut)
<1> DEFINE r == task[t]
           w == Head(r.work)
           s == task[u]
<1>1. /\ Empties(ptr, ptr', r.ino, w.host, w.off) /\ Lists(r.work, w.host, w.off)
      /\ r.pc = "kill" /\ Truncating(r)
  BY KillEffect DEF Truncating
<1>2. CASE s.ino # r.ino
  BY <1>1, <1>2, UntouchedStays DEF Empties, s
<1>3. CASE s.ino = r.ino
  BY <1>1, <1>3, Alone, PageFits, TruncatingSize DEF Holding, Works, Empties, Stays, Unmoved,
     Path
<1> QED BY <1>2, <1>3

(* What detaching a branch leaves of the others. *)
LEMMA DetachStays ==
  ASSUME BlockInv, CallInv, NEW t \in Tasks, Detach(t), NEW u \in Tasks, u # t
  PROVE  Stays(task[u], ptr, ptr', cut)
<1> DEFINE r == task[t]
           s == task[u]
           k == Survivor(r.chain)
           w == Way(ptr, r.ino, r.b)
           o == Path(r)[k]
           ours == k = Len(r.chain) /\ k = SharedDepth(Path(r)) /\ k > 1
<1>1. /\ IF ours THEN ptr' = ptr ELSE Empties(ptr, ptr', r.ino, w[k - 1], o)
      /\ r.pc = "detach" /\ \A x \in Tasks : task[x].pc = "add" => task[x].ino # r.ino
  BY DetachDoes
<1>2. Truncating(r) /\ Holding(r)
  BY <1>1 DEF Truncating, Sharing, Holding
<1>3. CASE ours \/ s.ino # r.ino
  BY <1>1, <1>3, Nothing, UntouchedStays DEF Empties, s
<1>4. CASE ~ours /\ s.ino = r.ino
  BY <1>1, <1>2, <1>4, Alone, PageFits, TruncatingSize, DetachKeeps DEF Holding, Empties,
     Unmoved, Stays
<1> QED BY <1>3, <1>4

(* What adding a block leaves of the others. *)
LEMMA SpliceStays ==
  ASSUME BlockInv, CallInv, NEW t \in Tasks, Splice(t), NEW u \in Tasks, u # t
  PROVE  Stays(task[u], ptr, ptr', cut)
<1> DEFINE r == task[t]
           s == task[u]
<1>1. /\ r.ino \notin cut =>
              /\ \A b : Fits(b) /\ b # r.b => Found(ptr', r.ino, b) = Found(ptr, r.ino, b)
              /\ \A b : Fits(b) => \A n \in 0 .. Len(ext2_block_to_path(b)) :
                   Goes(ptr, r.ino, b, n) =>
                     \A m \in 0 .. n : Way(ptr', r.ino, b)[m] = Way(ptr, r.ino, b)[m]
      /\ \A j \in Inodes : j # r.ino => Untouched(ptr, ptr', j)
  BY SpliceEffect
<1>2. r.pc = "splice" /\ r.page /\ Holding(r)
  BY DEF Splice, CallInv, KindInv, Kind, Holding
<1>3. CASE s.ino # r.ino
  BY <1>1, <1>3, UntouchedStays DEF s
<1>4. CASE s.ino = r.ino
  BY <1>1, <1>2, <1>4, Alone, PageFits DEF Holding, CallInv, PageInv, Stays, Path
<1> QED BY <1>3, <1>4

(* A step of task t that leaves the ways of the others. *)
LEMMA WaysStep ==
  ASSUME BlockInv, CallInv, WaysInv, NEW t \in Tasks, Moves(t), Knows(task'[t], ptr', cut'),
         cut \subseteq cut', \A u \in Tasks : u # t => Stays(task[u], ptr, ptr', cut)
  PROVE  WaysInv'
<1>1. ASSUME NEW u \in Tasks
      PROVE  Knows(task'[u], ptr', cut')
  BY KnowsKept DEF Moves, WaysInv
<1> QED BY <1>1 DEF WaysInv

LEMMA WaysSame ==
  ASSUME BlockInv, CallInv, WaysInv, NEW t \in Tasks, Moves(t), ptr' = ptr,
         Knows(task'[t], ptr, cut'), cut \subseteq cut'
  PROVE  WaysInv'
<1>1. ASSUME NEW u \in Tasks
      PROVE  Stays(task[u], ptr, ptr, cut)
  BY UntouchedStays, Nothing
<1> QED BY <1>1, WaysStep

\* The places where nothing is known.
LEMMA Blank ==
  ASSUME NEW s, s.pc \notin {"verify", "add", "detach", "kill", "return"}, NEW p, NEW c
  PROVE  Knows(s, p, c)
BY DEF Knows, Works, Adds, Exact, Deep, Sharing

(* A walk that ends at a missing link, or at the end of the path, has *)
(* found the block or the hole. *)
LEMMA WalkedKnows ==
  ASSUME NEW r, Call(r), r.err = "ok", Fits(r.b), r.chain \in Seq(Link), NEW c,
         NEW n, n = Len(r.chain), NEW l, NEW p,
         r.ino \notin c => /\ n + 1 \in 1 .. Len(Path(r)) /\ Goes(p, r.ino, r.b, n)
                           /\ l.key = Way(p, r.ino, r.b)[n + 1],
         r.walk = "shared" => Len(Path(r)) # 1
  PROVE  Knows(Walked(r, l), p, c)
<1> DEFINE s == Walked(r, l)
           q == [r EXCEPT !.chain = Append(@, l), !.pc = "verify"]
           L == Len(Path(r))
<1>1. /\ Kind(s) /\ Answers(q, s) /\ Agrees(r, s)
      /\ s.pc \in {"verify", "detach", "return", "lock", "search"}
      /\ Sharing(s) <=> r.walk = "shared"
      /\ s.pc = "return" => Partial(q).key = 0 \/ Len(q.chain) = WalkDepth(r)
  BY WalkedPlaces
<1>2. q.chain = Append(r.chain, l)
  BY DEF Call, Shape, Columns
<1>3. n \in Nat /\ Len(q.chain) = n + 1 /\ q.chain[n + 1] = l
  BY <1>2
<1>4. Partial(q) = l
  BY <1>3 DEF Partial, Last
<1> HIDE DEF s, q
<1>5. s.ino = r.ino /\ s.b = r.b /\ Path(s) = Path(r)
  BY <1>1 DEF Agrees, Path
<1>6. Works(s, p) /\ Adds(s, p, c) /\ Deep(s)
  BY <1>1, <1>5 DEF Works, Adds, Deep
<1>7. ASSUME s.pc = "return", s.err = "ok", s.ino \notin c
      PROVE  s.res = Found(p, s.ino, s.b)
  <2>1. s.res = l.key
    BY <1>1, <1>4, <1>7 DEF Answers
  <2>2. r.walk # "shared"
    BY <1>1, <1>7 DEF Sharing
  <2>3. l.key = 0 \/ n + 1 = L
    BY <1>1, <1>3, <1>4, <1>7, <2>2 DEF WalkDepth
  <2>4. /\ n + 1 \in 1 .. L /\ Goes(p, r.ino, r.b, n)
        /\ l.key = Way(p, r.ino, r.b)[n + 1]
    BY <1>5, <1>7
  <2>5. L \in 1 .. 4
    BY PathIs DEF PathOK, Path
  <2>6. Found(p, r.ino, r.b) = IF Goes(p, r.ino, r.b, L) THEN Way(p, r.ino, r.b)[L] ELSE 0
    BY DEF Found, Path
  <2> HIDE DEF L
  <2>7. n \in 0 .. 3
    <3>1. n \in Nat /\ n + 1 \in 1 .. L
      BY <1>3, <2>4
    <3> QED BY ONLY <2>5, <3>1
  <2>8. CASE l.key = 0
    BY <1>5, <2>1, <2>4, <2>6, <2>8 DEF Goes
  <2>9. CASE l.key # 0
    BY <1>5, <2>1, <2>3, <2>4, <2>6, <2>7, <2>9, GoesOn
  <2> QED BY <2>8, <2>9
<1> QED BY <1>6, <1>7 DEF Knows, Exact, s

LEMMA BeginWalkKnows ==
  ASSUME NEW r, Shape(r), NEW walk \in Walks, NEW c, r.op \in PageOps <=> r.page, Fits(r.b),
         r.op \in PageOps => walk # "shared" /\ r.res = 0,
         r.op \notin PageOps => walk = "shared" /\ r.op = "truncate" /\ Len(Path(r)) # 1
  PROVE  Knows(BeginWalk(r, walk), ptr, c)
<1> DEFINE q == [r EXCEPT !.walk = walk, !.chain = <<>>, !.err = "ok"]
           l == LinkAt(r.ino, Path(r)[1])
<1>1. BeginWalk(r, walk) = Walked(q, l)
  BY DEF BeginWalk
<1>2. /\ Agrees(r, q) /\ q.walk = walk /\ q.chain = <<>> /\ q.err = "ok" /\ q.page = r.page
      /\ q.res = r.res
  BY DEF Agrees, Shape, Columns
<1> HIDE DEF q
<1>3. q.ino = r.ino /\ q.b = r.b /\ q.op = r.op /\ Path(q) = Path(r) /\ Shape(q)
  BY <1>2 DEF Agrees, Path
<1>4. Call(q)
  BY <1>2, <1>3 DEF Call
<1>5. q.chain \in Seq(Link) /\ 0 = Len(q.chain)
  BY <1>2
<1>6. 0 + 1 \in 1 .. Len(Path(q)) /\ Goes(ptr, q.ino, q.b, 0)
  BY <1>3, PathIs, GoesZero DEF PathOK, Path
<1>7. l.key = Way(ptr, q.ino, q.b)[0 + 1]
  BY <1>3, WayIs DEF LinkAt, Path
<1>8. q.walk = "shared" => Len(Path(q)) # 1
  BY <1>2, <1>3
<1>9. Fits(q.b) /\ q.err = "ok"
  BY <1>2, <1>3
<1> HIDE DEF l
<1>10. Knows(Walked(q, l), ptr, c)
  BY <1>4, <1>5, <1>6, <1>7, <1>8, <1>9, WalkedKnows
<1> QED BY <1>1, <1>10

LEMMA WaysWalkVerify ==
  ASSUME BlockInv, CallInv, WaysInv, NEW t \in Tasks, WalkVerify(t)
  PROVE  WaysInv'
<1> DEFINE r == task[t]
<1>1. r.pc = "verify" /\ ptr' = ptr /\ cut \subseteq cut'
  BY DEF WalkVerify
<1>2. Call(r) /\ r.err = "ok" /\ Kind(r) /\ Shape(r) /\ Knows(r, ptr, cut)
  BY <1>1, CallIs DEF Call, WaysInv
<1>3. DOMAIN r.chain = 1 .. Len(r.chain)
  BY TaskIs DEF Typed
<1>4. ASSUME NEW e \in {"EIO", "EAGAIN"},
             task' = [task EXCEPT ![t] = AfterWalk([r EXCEPT !.err = e])]
      PROVE  WaysInv'
  <2> DEFINE q == [r EXCEPT !.err = e]
             s == AfterWalk(q)
  <2>1. /\ Agrees(r, q) /\ q.walk = r.walk /\ q.page = r.page /\ q.err = e /\ q.res = r.res
    BY <1>2 DEF Shape, Columns, Agrees
  <2>2. Moves(t) /\ task'[t] = s
    BY <1>4, OneTaskMoves DEF BlockInv
  <2> HIDE DEF q, s
  <2>3. Call(q) /\ Ended(q, Inodes \cup {r.ino}) /\ q.ino = r.ino /\ q.b = r.b
    BY <1>2, <1>4, <2>1 DEF Call, Agrees, Ended
  <2>4. /\ Answers(q, s) /\ Agrees(q, s) /\ s.pc \in {"detach", "return", "lock", "search"}
        /\ Sharing(s) <=> q.walk = "shared"
    BY <1>4, <2>1, <2>3, AfterWalkPlaces DEF s
  <2>5. Path(s) = Path(r) /\ (Sharing(s) => Sharing(r))
    BY <1>1, <2>1, <2>3, <2>4 DEF Agrees, Path, Sharing
  <2>6. Knows(s, ptr, cut')
    BY <1>2, <1>4, <2>1, <2>4, <2>5 DEF Knows, Works, Adds, Exact, Deep, Answers
  <2> QED BY <1>1, <2>2, <2>6, WaysSame
<1>5. CASE verify_chain(r.chain) /\ task' = [task EXCEPT ![t].pc = "add"]
  <2> DEFINE s == [r EXCEPT !.pc = "add"]
  <2>1. Moves(t) /\ task'[t] = s
    BY <1>5, OneTaskMoves DEF BlockInv
  <2>2. /\ Agrees(r, s) /\ s.pc = "add" /\ s.walk = r.walk /\ s.chain = r.chain
    BY <1>2 DEF Agrees, Shape, Columns
  <2> HIDE DEF s
  <2>3. ChainTrue(s, ptr)
    BY <1>3, <1>5, <2>2 DEF verify_chain, ChainTrue
  <2>4. Path(s) = Path(r) /\ (Sharing(s) => Sharing(r))
    BY <1>1, <2>2 DEF Agrees, Path, Sharing
  <2>5. Knows(s, ptr, cut')
    BY <1>2, <2>2, <2>3, <2>4 DEF Knows, Works, Adds, Exact, Deep
  <2> QED BY <1>1, <2>1, <2>5, WaysSame
<1> QED BY <1>4, <1>5 DEF WalkVerify

LEMMA WaysWalkAdd ==
  ASSUME BlockInv, CallInv, WaysInv, NEW t \in Tasks, WalkAdd(t)
  PROVE  WaysInv'
<1> DEFINE r == task[t]
           n == Len(r.chain)
           l == LinkAt(Partial(r).key, Path(r)[n + 1])
           s == Walked(r, l)
<1>1. r.pc = "add" /\ UNCHANGED <<ptr, cut>> /\ task' = [task EXCEPT ![t] = s]
  BY DEF WalkAdd, errorVars
<1>2. /\ Call(r) /\ r.err = "ok" /\ Knows(r, ptr, cut) /\ Form(r) /\ Typed(r)
      /\ r.walk # "first" => ChainTrue(r, ptr)
  BY <1>1, CallIs, TaskIs DEF WaysInv
<1>3. Moves(t) /\ task'[t] = s
  BY <1>1, OneTaskMoves DEF BlockInv
<1>4. /\ Fits(r.b) /\ ChainShape(r) /\ r.chain[n].key # 0 /\ n < WalkDepth(r)
  BY <1>1, <1>2 DEF Form, WithChain
<1>5. r.chain \in Seq(Link)
  BY <1>2 DEF Typed
<1>6. ASSUME r.ino \notin cut
      PROVE  /\ n + 1 \in 1 .. Len(Path(r)) /\ Goes(ptr, r.ino, r.b, n)
             /\ l.key = Way(ptr, r.ino, r.b)[n + 1]
  <2>1. ChainTrue(r, ptr)
    BY <1>1, <1>2, <1>6 DEF Knows, Adds
  <2>2. /\ n \in 1 .. Len(Path(r)) /\ Goes(ptr, r.ino, r.b, n)
        /\ \A m \in 1 .. n : r.chain[m].key = Way(ptr, r.ino, r.b)[m]
    BY <1>4, <2>1, ChainWay
  <2>3. WalkDepth(r) \in 1 .. Len(Path(r)) /\ Len(Path(r)) \in 1 .. 4
    BY <1>4, WalkDepthIs DEF PathOK
  <2>4. l.key = ptr[r.chain[n].key][Path(r)[n + 1]]
    BY DEF LinkAt, Partial, Last
  <2>5. \A m \in 1 .. 4 :
          Way(ptr, r.ino, r.b)[m] = ptr[Way(ptr, r.ino, r.b)[m - 1]][Path(r)[m]]
    BY WayIs DEF Path
  <2> DEFINE L == Len(Path(r))
             D == WalkDepth(r)
  <2>6. n \in 1 .. L /\ n < D /\ D \in 1 .. L /\ L \in 1 .. 4
    BY <1>4, <2>2, <2>3
  <2> HIDE DEF L, D, n, l
  <2>7. n + 1 \in 1 .. L /\ n + 1 \in 1 .. 4 /\ (n + 1) - 1 = n /\ n \in 1 .. n
    BY <2>6
  <2> QED BY <2>2, <2>4, <2>5, <2>7 DEF L
<1>7. r.walk = "shared" => Len(Path(r)) # 1
  BY <1>1, <1>2 DEF Knows, Deep, Sharing
<1> HIDE DEF l
<1>8. Knows(s, ptr, cut)
  BY <1>2, <1>4, <1>5, <1>6, <1>7, WalkedKnows
<1> QED BY <1>1, <1>3, <1>8, WaysSame

LEMMA WaysLockAndVerify ==
  ASSUME BlockInv, CallInv, WaysInv, NEW t \in Tasks, LockAndVerify(t)
  PROVE  WaysInv'
<1> DEFINE r == task[t]
<1>1. r.pc = "lock" /\ UNCHANGED <<ptr, cut>>
  BY DEF LockAndVerify, errorVars
<1>2. Shape(r) /\ Kind(r) /\ Form(r)
  BY TaskIs DEF CallInv, KindInv
<1>3. r.op \in PageOps /\ r.res = 0 /\ r.page /\ Fits(r.b)
  BY <1>1, <1>2 DEF Kind, Form, WithChain
<1>4. CASE task' = [task EXCEPT ![t] = BeginWalk(r, "regrab")]
  <2> DEFINE s == BeginWalk(r, "regrab")
  <2>1. Moves(t) /\ task'[t] = s
    BY <1>4, OneTaskMoves DEF BlockInv
  <2>2. Knows(s, ptr, cut)
    BY <1>2, <1>3, BeginWalkKnows DEF Walks
  <2> QED BY <1>1, <2>1, <2>2, WaysSame
<1>5. CASE task' = [task EXCEPT ![t] = [r EXCEPT !.pc = "search"]]
  <2> DEFINE s == [r EXCEPT !.pc = "search"]
  <2>1. Moves(t) /\ task'[t] = s
    BY <1>5, OneTaskMoves DEF BlockInv
  <2>2. s.pc = "search"
    BY <1>2 DEF Shape, Columns
  <2> HIDE DEF s
  <2>3. Knows(s, ptr, cut)
    BY <2>2, Blank
  <2> QED BY <1>1, <2>1, <2>3, WaysSame
<1> QED BY <1>4, <1>5 DEF LockAndVerify

LEMMA WaysAllocate ==
  ASSUME BlockInv, CallInv, WaysInv, NEW t \in Tasks, Search(t) \/ NoSpace(t) \/ Claim(t)
  PROVE  WaysInv'
<1> DEFINE r == task[t]
<1>1. UNCHANGED <<ptr, cut>> /\ Shape(r)
  BY TaskIs DEF Search, NoSpace, Claim, errorVars
<1>2. PICK s : /\ task' = [task EXCEPT ![t] = s]
               /\ s.pc \in {"search", "claim", "splice"} \/ (s.pc = "return" /\ s.err = "ENOSPC")
  <2>1. CASE Search(t)
    <3>1. PICK b : task' = [task EXCEPT ![t].pc = "claim", ![t].goal = b]
      BY <2>1 DEF Search
    <3> DEFINE s == [r EXCEPT !.pc = "claim", !.goal = b]
    <3>2. task' = [task EXCEPT ![t] = s]
      BY <3>1
    <3>3. s.pc = "claim"
      BY <1>1 DEF Shape, Columns
    <3> QED BY <3>2, <3>3
  <2>2. CASE NoSpace(t)
    <3> DEFINE s == [r EXCEPT !.pc = "return", !.err = "ENOSPC", !.got = <<>>, !.chain = <<>>]
    <3>1. task' = [task EXCEPT ![t] = s]
      BY <2>2 DEF NoSpace
    <3>2. s.pc = "return" /\ s.err = "ENOSPC"
      BY <1>1 DEF Shape, Columns
    <3> QED BY <3>1, <3>2
  <2>3. CASE Claim(t) /\ r.goal \in used
    BY <1>1, <2>3 DEF Claim, Shape, Columns
  <2>4. CASE Claim(t) /\ r.goal \notin used
    BY <1>1, <2>4 DEF Claim, Shape, Columns
  <2> QED BY <2>1, <2>2, <2>3, <2>4
<1>3. Moves(t) /\ task'[t] = s
  BY <1>2, OneTaskMoves DEF BlockInv
<1>4. Knows(s, ptr, cut)
  BY <1>2 DEF Knows, Works, Adds, Exact, Deep, Sharing
<1> QED BY <1>1, <1>3, <1>4, WaysSame

LEMMA WaysSplice ==
  ASSUME BlockInv, CallInv, WaysInv, NEW t \in Tasks, Splice(t)
  PROVE  WaysInv'
<1> DEFINE r == task[t]
           n == Len(r.got)
           s == [r EXCEPT !.pc = "return", !.err = "ok", !.res = r.got[n], !.got = <<>>,
                          !.chain = <<>>]
<1>1. task' = [task EXCEPT ![t] = s] /\ UNCHANGED cut
  BY DEF Splice
<1>2. Moves(t) /\ task'[t] = s
  BY <1>1, OneTaskMoves DEF BlockInv
<1>3. s.pc = "return" /\ s.res = r.got[n] /\ s.ino = r.ino /\ s.b = r.b
  BY TaskIs DEF Shape, Columns
<1> HIDE DEF s
<1>4. Found(ptr', r.ino, r.b) = r.got[n]
  BY SpliceEffect
<1>5. Knows(s, ptr', cut')
  BY <1>3, <1>4 DEF Knows, Works, Adds, Exact, Deep, Sharing
<1>6. \A u \in Tasks : u # t => Stays(task[u], ptr, ptr', cut)
  BY SpliceStays
<1> QED BY <1>1, <1>2, <1>5, <1>6, WaysStep

LEMMA WaysPageStart ==
  ASSUME BlockInv, CallInv, WaysInv, NEW t \in Tasks, NEW i, NEW b, Fits(b),
         \/ StartPage(t, "readpage", i, b)
         \/ StartPage(t, "writepage", i, b)
         \/ WriteBegin(t) /\ i = task[t].ino /\ b = task[t].b
  PROVE  WaysInv'
<1>1. PICK op \in PageOps :
        task' = [task EXCEPT ![t] = BeginWalk(Request(op, i, b, TRUE), "first")]
  BY DEF StartPage, WriteBegin, PageOps
<1>2. UNCHANGED <<ptr, cut>>
  BY DEF StartPage, WriteBegin, errorVars
<1> DEFINE r == Request(op, i, b, TRUE)
           s == BeginWalk(r, "first")
<1>3. Shape(r) /\ r.op = op /\ r.b = b /\ r.page /\ r.res = 0
  BY DEF Request, Idle, Shape, Columns
<1> HIDE DEF r
<1>5. Knows(s, ptr, cut)
  BY <1>3, BeginWalkKnows DEF Walks, PageOps
<1>6. Moves(t) /\ task'[t] = s
  BY <1>1, OneTaskMoves DEF BlockInv, r
<1> QED BY <1>2, <1>5, <1>6, WaysSame

LEMMA WaysWriteBegin ==
  ASSUME BlockInv, CallInv, WaysInv, NEW t \in Tasks, WriteBegin(t)
  PROVE  WaysInv'
BY WaysPageStart, TaskIs DEF WriteBegin, Form

LEMMA WaysTruncateLock ==
  ASSUME BlockInv, CallInv, WaysInv, NEW t \in Tasks, TruncateLock(t)
  PROVE  WaysInv'
<1> DEFINE r == task[t]
           s == task'[t]
<1>1. /\ s.ino = r.ino /\ s.b = r.b
      /\ \/ Sharing(s) /\ s.pc # "add" /\ s.pc # "return" /\ Len(Path(r)) # 1
         \/ s.pc = "kill"
      /\ Moves(t) /\ UNCHANGED <<ptr, cut>>
  BY LockDoes
<1>2. Works(s, ptr)
  BY <1>1, LockWorks
<1>3. Knows(s, ptr, cut)
  BY <1>1, <1>2 DEF Knows, Adds, Exact, Deep, Sharing, Path
<1> QED BY <1>1, <1>3, WaysSame

LEMMA WaysDetach ==
  ASSUME BlockInv, CallInv, WaysInv, NEW t \in Tasks, Detach(t)
  PROVE  WaysInv'
<1>1. task'[t].pc = "kill" /\ Moves(t) /\ UNCHANGED cut
  BY DetachDoes
<1>2. Knows(task'[t], ptr', cut')
  BY <1>1, DetachWorks DEF Knows, Adds, Exact, Deep, Sharing
<1>3. \A u \in Tasks : u # t => Stays(task[u], ptr, ptr', cut)
  BY DetachStays
<1> QED BY <1>1, <1>2, <1>3, WaysStep

LEMMA WaysKill ==
  ASSUME BlockInv, CallInv, WaysInv, NEW t \in Tasks, Kill(t)
  PROVE  WaysInv'
<1> DEFINE r == task[t]
           s == task'[t]
           w == Head(r.work)
<1>1. /\ Empties(ptr, ptr', r.ino, w.host, w.off)
      /\ \A h, o : Lists(s.work, h, o) => Lists(r.work, h, o)
      /\ r.pc = "kill" /\ s.pc = "kill" /\ s.ino = r.ino /\ s.b = r.b
      /\ Moves(t) /\ UNCHANGED cut
  BY KillEffect
<1>2. Works(r, ptr)
  BY DEF WaysInv, Knows
<1>3. Works(s, ptr')
  BY <1>1, <1>2 DEF Works, Empties
<1>4. Knows(s, ptr', cut')
  BY <1>1, <1>3 DEF Knows, Adds, Exact, Deep, Sharing
<1>5. \A u \in Tasks : u # t => Stays(task[u], ptr, ptr', cut)
  BY <1>2, KillStays
<1> QED BY <1>1, <1>4, <1>5, WaysStep

LEMMA WaysFreeBranch ==
  ASSUME BlockInv, CallInv, WaysInv, NEW t \in Tasks, FreeBranch(t)
  PROVE  WaysInv'
<1> DEFINE r == task[t]
           s == [r EXCEPT !.top = 0, !.depth = 0]
<1>1. task' = [task EXCEPT ![t] = s] /\ UNCHANGED cut /\ r.pc = "kill"
  BY DEF FreeBranch
<1>2. Moves(t) /\ task'[t] = s
  BY <1>1, OneTaskMoves DEF BlockInv
<1>3. s.pc = r.pc /\ s.work = r.work /\ s.ino = r.ino /\ s.b = r.b
  BY TaskIs DEF Shape, Columns
<1> HIDE DEF s
<1>4. \A i \in Inodes : Untouched(ptr, ptr', i)
  BY FreeEffect
<1>5. ASSUME NEW u \in Tasks
      PROVE  Stays(task[u], ptr, ptr', cut)
  BY <1>4, UntouchedStays
<1>6. Knows(r, ptr', cut)
  BY <1>5, KnowsKept DEF WaysInv
<1>7. Knows(s, ptr', cut')
  BY <1>1, <1>3, <1>6 DEF Knows, Works, Adds, Exact, Deep, Sharing
<1> QED BY <1>1, <1>2, <1>5, <1>7, WaysStep

\* A step to a place where nothing is known.
LEMMA WaysBlank ==
  ASSUME BlockInv, CallInv, WaysInv, NEW t \in Tasks, NEW s, task' = [task EXCEPT ![t] = s],
         s.pc \in {"idle", "page", "truncate", "free", "new", "init"}, UNCHANGED cut,
         \A i \in Inodes : Untouched(ptr, ptr', i)
  PROVE  WaysInv'
<1>1. Moves(t) /\ task'[t] = s
  BY OneTaskMoves DEF BlockInv
<1>2. ASSUME NEW u \in Tasks
      PROVE  Stays(task[u], ptr, ptr', cut)
  BY UntouchedStays
<1>3. Knows(s, ptr', cut')
  BY Blank
<1> QED BY <1>1, <1>2, <1>3, WaysStep

LEMMA WaysRest ==
  ASSUME BlockInv, CallInv, WaysInv, NEW t \in Tasks,
         \/ PageEnd(t) \/ WriteEnd(t) \/ WriteFailed(t) \/ TruncateEnd(t) \/ StartCreate(t)
         \/ ClaimInode(t) \/ LoseInode(t) \/ InitInode(t) \/ FreeInode(t)
         \/ \E i \in Inodes : \/ StartEvict(t, i)
                              \/ \E size : StartTruncate(t, i, size) \/ StartWrite(t, i, size)
  PROVE  WaysInv'
<1> DEFINE r == task[t]
           Truncate(op, i, size) == [Request(op, i, size, FALSE) EXCEPT !.pc = "truncate"]
<1>1. UNCHANGED cut
  BY DEF PageEnd, WriteEnd, WriteFailed, TruncateEnd, StartCreate, ClaimInode, LoseInode,
         InitInode, FreeInode, StartEvict, StartTruncate, StartWrite, errorVars
<1>2. \A i \in Inodes : Untouched(ptr, ptr', i)
  BY ClaimEffect, Nothing DEF PageEnd, WriteEnd, WriteFailed, TruncateEnd, StartCreate,
     LoseInode, InitInode, FreeInode, StartEvict, StartTruncate, StartWrite, errorVars
<1>3. /\ Idle.pc = "idle"
      /\ \A op, i, size : Truncate(op, i, size).pc = "truncate"
      /\ \A i : /\ [Idle EXCEPT !.pc = "free", !.op = "evict", !.ino = i].pc = "free"
                /\ [Idle EXCEPT !.pc = "new", !.op = "create", !.goal = i].pc = "new"
                /\ [Idle EXCEPT !.pc = "init", !.op = "create", !.ino = i].pc = "init"
  BY DEF Idle, Request
<1>4. CASE PageEnd(t) \/ WriteEnd(t) \/ FreeInode(t) \/ WriteFailed(t) \/ TruncateEnd(t)
  <2>1. \/ task' = [task EXCEPT ![t] = Idle]
        \/ task' = [task EXCEPT ![t] = Truncate("truncate", r.ino, i_size[r.ino])]
        \/ task' = [task EXCEPT ![t] = [Idle EXCEPT !.pc = "free", !.op = "evict", !.ino = r.ino]]
    BY <1>4 DEF PageEnd, WriteEnd, FreeInode, WriteFailed, TruncateEnd
  <2>2. ASSUME NEW s, task' = [task EXCEPT ![t] = s],
               s.pc \in {"idle", "truncate", "free", "new", "init"}
        PROVE  WaysInv'
    BY <1>1, <1>2, <2>2, WaysBlank
  <2> DEFINE a == Truncate("truncate", r.ino, i_size[r.ino])
             f == [Idle EXCEPT !.pc = "free", !.op = "evict", !.ino = r.ino]
  <2>3. a.pc = "truncate" /\ f.pc = "free"
    BY <1>3
  <2> HIDE DEF a, f
  <2> QED BY <1>3, <2>1, <2>2, <2>3 DEF a, f
<1>5. CASE StartCreate(t)
  <2>1. PICK i : task' = [task EXCEPT ![t] = [Idle EXCEPT !.pc = "new", !.op = "create", !.goal = i]]
    BY <1>5 DEF StartCreate
  <2> DEFINE s == [Idle EXCEPT !.pc = "new", !.op = "create", !.goal = i]
  <2>2. task' = [task EXCEPT ![t] = s] /\ s.pc = "new"
    BY <1>3, <2>1
  <2> HIDE DEF s
  <2> QED BY <1>1, <1>2, <2>2, WaysBlank
<1>6. CASE ClaimInode(t)
  <2>1. task' = [task EXCEPT ![t] = [Idle EXCEPT !.pc = "init", !.op = "create", !.ino = r.goal]]
    BY <1>6 DEF ClaimInode
  <2> DEFINE s == [Idle EXCEPT !.pc = "init", !.op = "create", !.ino = r.goal]
  <2>2. task' = [task EXCEPT ![t] = s] /\ s.pc = "init"
    BY <1>3, <2>1
  <2> HIDE DEF s
  <2> QED BY <1>1, <1>2, <2>2, WaysBlank
<1>7. CASE LoseInode(t)
  BY <1>1, <1>2, <1>3, <1>7, WaysBlank, TaskIs DEF Shape, Columns, LoseInode
<1>8. CASE InitInode(t)
  <2>1. CASE task' = [task EXCEPT ![t] = Idle]
    BY <1>1, <1>2, <1>3, <2>1, WaysBlank
  <2>2. CASE task' = [task EXCEPT ![t].pc = "free", ![t].op = "evict"]
    <3> DEFINE s == [r EXCEPT !.pc = "free", !.op = "evict"]
    <3>2. task' = [task EXCEPT ![t] = s]
      BY <2>2
    <3>3. s.pc = "free"
      BY TaskIs DEF Shape, Columns
    <3> HIDE DEF s
    <3> QED BY <1>1, <1>2, <3>2, <3>3, WaysBlank
  <2> QED BY <1>8, <2>1, <2>2 DEF InitInode
<1>9. CASE \E i \in Inodes : StartEvict(t, i) \/ \E size : StartTruncate(t, i, size)
  <2>1. PICK op, i, size : task' = [task EXCEPT ![t] = Truncate(op, i, size)]
    BY <1>9 DEF StartEvict, StartTruncate
  <2> DEFINE s == Truncate(op, i, size)
  <2>2. task' = [task EXCEPT ![t] = s] /\ s.pc = "truncate"
    BY <1>3, <2>1
  <2> HIDE DEF s
  <2> QED BY <1>1, <1>2, <2>2, WaysBlank
<1>10. CASE \E i \in Inodes : \E b : StartWrite(t, i, b)
  <2>1. PICK i, b : task' = [task EXCEPT ![t] = [Request("begin", i, b, FALSE) EXCEPT !.pc = "page"]]
    BY <1>10 DEF StartWrite
  <2> DEFINE s == [Request("begin", i, b, FALSE) EXCEPT !.pc = "page"]
  <2>2. task' = [task EXCEPT ![t] = s] /\ s.pc = "page"
    BY <2>1 DEF Idle, Request
  <2> HIDE DEF s
  <2> QED BY <1>1, <1>2, <2>2, WaysBlank
<1> QED BY <1>4, <1>5, <1>6, <1>7, <1>8, <1>9, <1>10, SMTT(30)

LEMMA WaysInit == Init => WaysInv
<1> SUFFICES ASSUME Init, NEW t \in Tasks
             PROVE  Knows(task[t], ptr, cut)
  BY DEF WaysInv
<1>1. task[t].pc = "idle"
  BY DEF Init, Idle
<1> QED BY <1>1, Blank

LEMMA WaysNext == BlockInv /\ CallInv /\ WaysInv /\ [Next]_vars => WaysInv'
<1> SUFFICES ASSUME BlockInv, CallInv, WaysInv, [Next]_vars
             PROVE  WaysInv'
  OBVIOUS
<1>1. ASSUME NEW t \in Tasks, Step(t)
      PROVE  WaysInv'
  BY <1>1, WaysWalkVerify, WaysWalkAdd, WaysLockAndVerify, WaysAllocate, WaysSplice,
     WaysTruncateLock, WaysDetach, WaysKill, WaysFreeBranch, WaysRest, WaysWriteBegin DEF Step
<1>2. ASSUME NEW t \in Tasks, Start(t)
      PROVE  WaysInv'
  BY <1>2, WaysPageStart, WaysRest, FileFits DEF Start
<1>3. ASSUME UNCHANGED vars
      PROVE  WaysInv'
  BY <1>3 DEF vars, errorVars, WaysInv
<1> QED BY <1>1, <1>2, <1>3, WaysRest DEF Next

----------------------------------------
(* Lookups *)

FileInv == BlockInv /\ CallInv /\ WaysInv

LEMMA FileInvNext == FileInv /\ [Next]_vars => FileInv'
BY BlockNext, CallNext, WaysNext DEF FileInv

LEMMA FileInvAlways == Spec => []FileInv
<1>1. Init => FileInv
  BY BlockInit, CallInit, WaysInit DEF FileInv
<1> QED BY <1>1, FileInvNext, PTL DEF Spec

(* ext2_get_block returns the block of the page, or finds the hole there *)
(* is, although it walks the chain without truncate_mutex while other *)
(* blocks of the file come and go (fs/ext2/inode.c:245-253). *)
THEOREM LookupsAreExact == Spec => []LookupIsExact
<1>1. FileInv => LookupIsExact
  BY PageFits, BlockOfIs DEF LookupIsExact, FileInv, CallInv, KindInv, Kind, WaysInv, Knows,
     Exact
<1> QED BY <1>1, FileInvAlways, PTL

----------------------------------------
(* What is below the size *)

LEMMA KillKeeps ==
  ASSUME FileInv, NEW t \in Tasks, Kill(t), NEW i \in Inodes, NEW b, Fits(b), b < i_size[i]
  PROVE  Found(ptr', i, b) = Found(ptr, i, b)
<1> DEFINE r == task[t]
           w == Head(r.work)
<1>1. /\ Empties(ptr, ptr', r.ino, w.host, w.off) /\ Lists(r.work, w.host, w.off)
      /\ r.pc = "kill" /\ r.ino \in Inodes
  BY KillEffect DEF FileInv
<1>2. CASE i # r.ino
  BY <1>1, <1>2 DEF Empties, Untouched, Unmoved
<1>3. CASE i = r.ino
  <2>1. i_size[r.ino] = r.b /\ r.b \in Nat
    BY <1>1, TruncatingSize DEF Truncating, FileInv
  <2>2. b < r.b /\ b \in Nat
    BY <1>3, <2>1 DEF Fits
  <2>3. ~Uses(ptr, r.ino, b, w.host, w.off)
    BY <1>1, <2>1, <2>2 DEF FileInv, WaysInv, Knows, Works
  <2> QED BY <1>1, <1>3, <2>3 DEF Empties, Unmoved
<1> QED BY <1>2, <1>3

LEMMA DetachKeepsFound ==
  ASSUME FileInv, NEW t \in Tasks, Detach(t), NEW i \in Inodes, i \notin cut,
         NEW b, Fits(b), b < i_size[i], Found(ptr, i, b) # 0
  PROVE  Found(ptr', i, b) = Found(ptr, i, b)
<1> DEFINE r == task[t]
           k == Survivor(r.chain)
           h == Way(ptr, r.ino, r.b)[k - 1]
<1>1. /\ r.pc = "detach" /\ r.ino \in Inodes
      /\ ptr' = ptr \/ Empties(ptr, ptr', r.ino, h, Path(r)[k])
  BY DetachDoes DEF FileInv
<1>2. CASE ptr' = ptr
  BY <1>2
<1>3. CASE i # r.ino /\ Empties(ptr, ptr', r.ino, h, Path(r)[k])
  BY <1>3 DEF Empties, Untouched, Unmoved
<1>4. CASE i = r.ino /\ Empties(ptr, ptr', r.ino, h, Path(r)[k])
  BY <1>1, <1>4, TruncatingSize, DetachKeeps DEF Truncating, Sharing, FileInv, Empties, Unmoved
<1> QED BY <1>1, <1>2, <1>3, <1>4

LEMMA SpliceKeeps ==
  ASSUME FileInv, NEW t \in Tasks, Splice(t), NEW i \in Inodes, i \notin cut,
         NEW b, Fits(b), Found(ptr, i, b) # 0
  PROVE  Found(ptr', i, b) = Found(ptr, i, b)
<1>1. CASE i # task[t].ino
  BY <1>1, SpliceEffect DEF FileInv, Untouched, Unmoved
<1>2. CASE i = task[t].ino
  BY <1>2, SpliceEffect, SMTT(30) DEF FileInv
<1> QED BY <1>1, <1>2

\* The steps that leave the pointers alone.
LEMMA PointersStay ==
  ASSUME NEW t \in Tasks, StartCreate(t) \/ Start(t) \/ Step(t)
  PROVE  \/ Splice(t) \/ Detach(t) \/ Kill(t) \/ FreeBranch(t) \/ ClaimInode(t)
         \/ ptr' = ptr
BY ZenonT(30) DEF StartCreate, Start, StartPage, StartWrite, StartTruncate, StartEvict, Step, WalkVerify,
       WalkAdd, LockAndVerify, Search, NoSpace, Claim, PageEnd, WriteBegin, WriteEnd, WriteFailed,
       TruncateLock, TruncateEnd, LoseInode, InitInode, FreeInode

LEMMA CutGrows ==
  ASSUME NEW t \in Tasks, StartCreate(t) \/ Start(t) \/ Step(t)
  PROVE  cut \subseteq cut'
<1>1. CASE WalkVerify(t)
  BY <1>1 DEF WalkVerify
<1>2. CASE ~WalkVerify(t)
  BY <1>2, ZenonT(30) DEF StartCreate, Start, StartPage, StartWrite, StartTruncate, StartEvict, Step,
       WalkAdd, LockAndVerify, Search, NoSpace, Claim, Splice, PageEnd, WriteBegin, WriteEnd, WriteFailed,
       TruncateLock, Detach, Kill, FreeBranch, TruncateEnd, ClaimInode, LoseInode, InitInode,
       FreeInode, errorVars
<1> QED BY <1>1, <1>2

LEMMA StepKeeps ==
  ASSUME FileInv, NEW t \in Tasks, StartCreate(t) \/ Start(t) \/ Step(t),
         NEW i \in Inodes, i \notin cut, NEW b, Fits(b), b < i_size[i], Found(ptr, i, b) # 0
  PROVE  Found(ptr', i, b) = Found(ptr, i, b)
<1>1. CASE FreeBranch(t) \/ ClaimInode(t)
  BY <1>1, FreeEffect, ClaimEffect DEF FileInv, Untouched, Unmoved
<1> QED BY <1>1, PointersStay, KillKeeps, DetachKeepsFound, SpliceKeeps

(* Whatever the interleaving of reads, writes, truncates and deletions, no *)
(* step unmaps or moves a block below the size: __ext2_truncate_blocks *)
(* empties only slots that lead past the size (fs/ext2/inode.c:940-1149) *)
(* and a spliced branch hides nothing. *)
THEOREM KeepsWhatIsBelowSize == Spec => KeepsBelowSize
<1> DEFINE StaysBelow == \A i \in (live \cap live') \ cut' : \A b \in FileBlocks[i] :
                           b < i_size[i] /\ b < i_size'[i] /\ BlockOf(i, b) # 0
                             => BlockOf(i, b)' = BlockOf(i, b)
<1>1. FileInv /\ [Next]_vars => [StaysBelow]_vars
  BY CutGrows, FileFits, BlockOfIs, StepKeeps DEF Next, FileInv, BlockInv, TypeOK
<1>2. Spec => [][StaysBelow]_vars
  BY <1>1, FileInvAlways, PTL DEF Spec
<1> QED BY <1>2 DEF KeepsBelowSize

----------------------------------------
(* What is past the size *)

\* Task r is why block b of file i may be there although it is past the size:
\* it writes the block, or it is going to free it.
Excuse(r, p, i, b) ==
  /\ r.ino = i
  /\ \/ r.op = "write" /\ r.b = b
     \/ r.pc = "truncate"
     \/ Sharing(r)
     \/ r.pc = "kill" /\ Hit(r, p, i, b)
PastInv == \A i \in Inodes \ AppendOnly : \A b :
  Fits(b) /\ b >= i_size[i] /\ Found(ptr, i, b) # 0 =>
    \E t \in Tasks : Excuse(task[t], ptr, i, b)

LEMMA ExcuseKept ==
  ASSUME NEW r, NEW p, NEW q, NEW i, NEW b, Fits(b), Unmoved(p, q, i, b), Excuse(r, p, i, b)
  PROVE  Excuse(r, q, i, b)
<1>1. Hit(r, p, i, b) => Hit(r, q, i, b)
  BY UnmovedUses DEF Hit
<1> QED BY <1>1 DEF Excuse

(* A step of task t, seen from a block past the size: the task answers for *)
(* it now, or another one did and still does. *)
LEMMA PastStep ==
  ASSUME PastInv, NEW t \in Tasks, Moves(t),
         \A i \in Inodes \ AppendOnly : \A b :
           Fits(b) /\ b >= i_size'[i] /\ Found(ptr', i, b) # 0 =>
           \/ \E u \in Tasks : Excuse(task'[u], ptr', i, b)
           \/ /\ b >= i_size[i] /\ Found(ptr, i, b) # 0 /\ ~Excuse(task[t], ptr, i, b)
              /\ \A u \in Tasks \ {t} :
                   Excuse(task[u], ptr, i, b) => Excuse(task[u], ptr', i, b)
  PROVE  PastInv'
<1> SUFFICES ASSUME NEW i \in Inodes \ AppendOnly, NEW b, Fits(b), b >= i_size'[i],
                    Found(ptr', i, b) # 0
             PROVE  \E u \in Tasks : Excuse(task'[u], ptr', i, b)
  BY DEF PastInv
<1>1. CASE /\ b >= i_size[i] /\ Found(ptr, i, b) # 0 /\ ~Excuse(task[t], ptr, i, b)
           /\ \A u \in Tasks \ {t} : Excuse(task[u], ptr, i, b) => Excuse(task[u], ptr', i, b)
  BY <1>1 DEF PastInv, Moves
<1> QED BY <1>1

(* Steps that leave the ways alone. *)
LEMMA PastQuiet ==
  ASSUME PastInv, NEW t \in Tasks, Moves(t), \A i \in Inodes : Untouched(ptr, ptr', i),
         \A i \in Inodes \ AppendOnly : \A b :
           Fits(b) /\ b >= i_size'[i] /\ Found(ptr, i, b) # 0 =>
           \/ Excuse(task'[t], ptr, i, b)
           \/ b >= i_size[i] /\ ~Excuse(task[t], ptr, i, b)
  PROVE  PastInv'
<1>1. ASSUME NEW i \in Inodes \ AppendOnly, NEW b, Fits(b), b >= i_size'[i],
             Found(ptr', i, b) # 0
      PROVE  \/ \E u \in Tasks : Excuse(task'[u], ptr', i, b)
             \/ /\ b >= i_size[i] /\ Found(ptr, i, b) # 0 /\ ~Excuse(task[t], ptr, i, b)
                /\ \A u \in Tasks \ {t} :
                     Excuse(task[u], ptr, i, b) => Excuse(task[u], ptr', i, b)
  BY <1>1, ExcuseKept DEF Untouched, Unmoved
<1> QED BY <1>1, PastStep

(* Steps within a call. *)
LEMMA PastGoesOn ==
  ASSUME PastInv, NEW t \in Tasks, NEW s, Moves(t), task'[t] = s,
         \A i \in Inodes : Untouched(ptr, ptr', i), UNCHANGED i_size,
         s.op = task[t].op, s.ino = task[t].ino, s.b = task[t].b, task[t].pc # "truncate",
         Sharing(task[t]) => Sharing(s),
         task[t].pc = "kill" => s.pc = "kill" /\ s.work = task[t].work
  PROVE  PastInv'
<1>1. ASSUME NEW i, NEW b, Excuse(task[t], ptr, i, b)
      PROVE  Excuse(s, ptr, i, b)
  BY <1>1 DEF Excuse, Hit
<1> QED BY <1>1, PastQuiet

(* Steps of a task that answers for nothing past the size. *)
LEMMA PastNone ==
  ASSUME PastInv, NEW t \in Tasks, Moves(t), \A i \in Inodes : Untouched(ptr, ptr', i),
         UNCHANGED i_size,
         \A i \in Inodes \ AppendOnly : \A b : b >= i_size[i] => ~Excuse(task[t], ptr, i, b)
  PROVE  PastInv'
BY PastQuiet

LEMMA NoExcuse ==
  ASSUME NEW r, Kind(r), r.op # "write", ~ToTruncate(r), NEW p, NEW i, NEW b
  PROVE  ~Excuse(r, p, i, b)
BY DEF Excuse, ToTruncate, Truncating

(* Steps that begin to truncate file i. *)
LEMMA PastTruncates ==
  ASSUME PastInv, NEW t \in Tasks, Moves(t), UNCHANGED ptr, NEW i,
         task'[t].pc = "truncate", task'[t].ino = i,
         \A j \in Inodes : j # i => i_size'[j] = i_size[j],
         \A j \in Inodes : j # i => \A b : ~Excuse(task[t], ptr, j, b)
  PROVE  PastInv'
<1>1. \A j \in Inodes : Untouched(ptr, ptr', j)
  BY Nothing
<1>2. \A b : Excuse(task'[t], ptr, i, b)
  BY DEF Excuse
<1>3. ASSUME NEW j \in Inodes, NEW b, b >= i_size'[j]
      PROVE  \/ Excuse(task'[t], ptr, j, b)
             \/ b >= i_size[j] /\ ~Excuse(task[t], ptr, j, b)
  BY <1>2, <1>3
<1> QED BY <1>1, <1>3, PastQuiet

LEMMA PastWalkVerify ==
  ASSUME FileInv, PastInv, NEW t \in Tasks, WalkVerify(t)
  PROVE  PastInv'
<1> DEFINE r == task[t]
<1>1. r.pc = "verify" /\ ptr' = ptr /\ i_size' = i_size
  BY DEF WalkVerify
<1>2. Call(r) /\ r.err = "ok" /\ Shape(r)
  BY <1>1, CallIs DEF Call, FileInv
<1>3. \A i \in Inodes : Untouched(ptr, ptr', i)
  BY <1>1, Nothing
<1>4. ASSUME NEW e \in {"EIO", "EAGAIN"},
             task' = [task EXCEPT ![t] = AfterWalk([r EXCEPT !.err = e])]
      PROVE  PastInv'
  <2> DEFINE q == [r EXCEPT !.err = e]
             s == AfterWalk(q)
  <2>1. /\ Agrees(r, q) /\ q.walk = r.walk /\ q.page = r.page /\ q.err = e /\ q.res = r.res
    BY <1>2 DEF Shape, Columns, Agrees
  <2>2. Moves(t) /\ task'[t] = s
    BY <1>4, OneTaskMoves DEF BlockInv, FileInv
  <2> HIDE DEF q, s
  <2>3. Call(q) /\ Ended(q, Inodes \cup {r.ino})
    BY <1>2, <1>4, <2>1 DEF Call, Agrees, Ended
  <2>4. Agrees(q, s) /\ (Sharing(s) <=> q.walk = "shared")
    BY <1>4, <2>1, <2>3, AfterWalkPlaces DEF s
  <2>5. s.op = r.op /\ s.ino = r.ino /\ s.b = r.b /\ (Sharing(r) => Sharing(s))
    BY <1>1, <2>1, <2>4 DEF Agrees, Sharing
  <2> QED BY <1>1, <1>3, <2>2, <2>5, PastGoesOn
<1>5. CASE task' = [task EXCEPT ![t].pc = "add"]
  <2> DEFINE s == [r EXCEPT !.pc = "add"]
  <2>1. Moves(t) /\ task'[t] = s
    BY <1>5, OneTaskMoves DEF BlockInv, FileInv
  <2>2. s.op = r.op /\ s.ino = r.ino /\ s.b = r.b /\ s.pc = "add" /\ s.walk = r.walk
    BY <1>2 DEF Shape, Columns
  <2> HIDE DEF s
  <2>3. Sharing(r) => Sharing(s)
    BY <1>1, <2>2 DEF Sharing
  <2> QED BY <1>1, <1>3, <2>1, <2>2, <2>3, PastGoesOn
<1> QED BY <1>4, <1>5 DEF WalkVerify

LEMMA PastWalkAdd ==
  ASSUME FileInv, PastInv, NEW t \in Tasks, WalkAdd(t)
  PROVE  PastInv'
<1> DEFINE r == task[t]
           l == LinkAt(Partial(r).key, Path(r)[Len(r.chain) + 1])
           s == Walked(r, l)
<1>1. r.pc = "add" /\ ptr' = ptr /\ i_size' = i_size /\ task' = [task EXCEPT ![t] = s]
  BY DEF WalkAdd
<1>2. Call(r) /\ r.err = "ok"
  BY <1>1, CallIs DEF FileInv
<1>3. Moves(t) /\ task'[t] = s
  BY <1>1, OneTaskMoves DEF BlockInv, FileInv
<1>4. \A i \in Inodes : Untouched(ptr, ptr', i)
  BY <1>1, Nothing
<1> HIDE DEF l
<1>5. Agrees(r, s) /\ (Sharing(s) <=> r.walk = "shared")
  BY <1>2, WalkedPlaces
<1> HIDE DEF s
<1>6. s.op = r.op /\ s.ino = r.ino /\ s.b = r.b /\ (Sharing(r) => Sharing(s))
  BY <1>1, <1>5 DEF Agrees, Sharing
<1> QED BY <1>1, <1>3, <1>4, <1>6, PastGoesOn

\* Steps on the way to the block of a page.
LEMMA PastPages ==
  ASSUME FileInv, PastInv, NEW t \in Tasks,
         LockAndVerify(t) \/ Search(t) \/ NoSpace(t) \/ Claim(t)
  PROVE  PastInv'
<1> DEFINE r == task[t]
<1>1. /\ ptr' = ptr /\ i_size' = i_size /\ r.pc \in {"lock", "search", "claim"} /\ Shape(r)
      /\ Kind(r)
  BY TaskIs DEF LockAndVerify, Search, NoSpace, Claim, FileInv, CallInv, KindInv
<1>2. \A i \in Inodes : Untouched(ptr, ptr', i)
  BY <1>1, Nothing
<1>3. ASSUME NEW s, task' = [task EXCEPT ![t] = s], s.op = r.op, s.ino = r.ino, s.b = r.b
      PROVE  PastInv'
  <2>1. Moves(t) /\ task'[t] = s
    BY <1>3, OneTaskMoves DEF BlockInv, FileInv
  <2>2. ~Sharing(r) /\ r.pc # "kill" /\ r.pc # "truncate"
    BY <1>1 DEF Sharing
  <2> QED BY <1>1, <1>2, <1>3, <2>1, <2>2, PastGoesOn
<1>4. CASE LockAndVerify(t)
  BY <1>1, <1>3, <1>4, BeginWalkPlaces DEF Kind, LockAndVerify, Walks, Agrees, Shape, Columns
<1>5. CASE Search(t)
  BY <1>1, <1>3, <1>5 DEF Search, Shape, Columns
<1>6. CASE NoSpace(t)
  BY <1>1, <1>3, <1>6 DEF NoSpace, Shape, Columns
<1>7. CASE Claim(t)
  BY <1>1, <1>3, <1>7 DEF Claim, Shape, Columns
<1> QED BY <1>4, <1>5, <1>6, <1>7

LEMMA PastFreeBranch ==
  ASSUME FileInv, PastInv, NEW t \in Tasks, FreeBranch(t)
  PROVE  PastInv'
<1> DEFINE r == task[t]
           s == [r EXCEPT !.top = 0, !.depth = 0]
<1>1. task' = [task EXCEPT ![t] = s] /\ UNCHANGED i_size /\ r.pc = "kill"
  BY DEF FreeBranch
<1>2. Moves(t) /\ task'[t] = s
  BY <1>1, OneTaskMoves DEF BlockInv, FileInv
<1>3. s.op = r.op /\ s.pc = r.pc /\ s.work = r.work /\ s.ino = r.ino /\ s.b = r.b
  BY TaskIs DEF Shape, Columns, FileInv
<1> HIDE DEF s
<1>4. \A i \in Inodes : Untouched(ptr, ptr', i)
  BY FreeEffect DEF FileInv
<1>5. ~Sharing(r)
  BY <1>1 DEF Sharing
<1> QED BY <1>1, <1>2, <1>3, <1>4, <1>5, PastGoesOn

LEMMA PastSplice ==
  ASSUME FileInv, PastInv, NEW t \in Tasks, Splice(t)
  PROVE  PastInv'
<1> DEFINE r == task[t]
           s == [r EXCEPT !.pc = "return", !.err = "ok", !.res = r.got[Len(r.got)], !.got = <<>>,
                          !.chain = <<>>]
<1>1. task' = [task EXCEPT ![t] = s] /\ UNCHANGED i_size /\ r.pc = "splice"
  BY DEF Splice
<1>2. Moves(t) /\ task'[t] = s
  BY <1>1, OneTaskMoves DEF BlockInv, FileInv
<1>3. s.op = r.op /\ s.ino = r.ino /\ s.b = r.b
  BY TaskIs DEF Shape, Columns, FileInv
<1> HIDE DEF s
<1>4. /\ \A b : Fits(b) /\ b # r.b => Found(ptr', r.ino, b) \in {0, Found(ptr, r.ino, b)}
      /\ \A j \in Inodes : j # r.ino => Untouched(ptr, ptr', j)
  BY SpliceEffect DEF FileInv
<1>5. Kind(r) /\ r.page /\ ~ToTruncate(r) /\ Holding(r)
  BY <1>1 DEF FileInv, CallInv, KindInv, Kind, ToTruncate, Truncating, Sharing, Holding
<1>6. ASSUME NEW i \in Inodes, NEW b, Fits(b), b >= i_size'[i], Found(ptr', i, b) # 0
      PROVE  \/ \E u \in Tasks : Excuse(task'[u], ptr', i, b)
             \/ /\ b >= i_size[i] /\ Found(ptr, i, b) # 0 /\ ~Excuse(task[t], ptr, i, b)
                /\ \A u \in Tasks \ {t} :
                     Excuse(task[u], ptr, i, b) => Excuse(task[u], ptr', i, b)
  <2>1. CASE i # r.ino
    <3>1. Unmoved(ptr, ptr', i, b)
      BY <1>4, <1>6, <2>1 DEF Untouched
    <3>2. Found(ptr, i, b) # 0
      BY <1>6, <3>1 DEF Unmoved
    <3>3. ~Excuse(task[t], ptr, i, b)
      BY <2>1 DEF Excuse
    <3>4. ASSUME NEW u, Excuse(u, ptr, i, b)
          PROVE  Excuse(u, ptr', i, b)
      BY <1>6, <3>1, <3>4, ExcuseKept
    <3> QED BY <1>1, <1>6, <3>2, <3>3, <3>4
  <2>2. CASE i = r.ino /\ b = r.b
    <3>1. CASE r.op = "write"
      BY <1>2, <1>3, <2>2, <3>1 DEF Excuse
    <3>2. CASE r.op # "write"
      BY <1>1, <1>2, <1>5, <1>6, <2>2, <3>2 DEF FileInv, CallInv, PagesInv, BlockInv, TypeOK,
         Fits, InFile, Moves, Excuse
    <3> QED BY <3>1, <3>2
  <2>3. CASE i = r.ino /\ b # r.b
    BY <1>1, <1>4, <1>5, <1>6, <2>3, Alone DEF Excuse, ToTruncate, Truncating, Holding, FileInv
  <2> QED BY <2>1, <2>2, <2>3
<1> QED BY <1>2, <1>6, PastStep

LEMMA PastTruncateLock ==
  ASSUME FileInv, PastInv, NEW t \in Tasks, TruncateLock(t)
  PROVE  PastInv'
<1> DEFINE r == task[t]
           s == task'[t]
<1>1. /\ i_size[r.ino] = r.b /\ s.ino = r.ino
      /\ Sharing(s) \/ s.pc = "kill"
      /\ Moves(t) /\ UNCHANGED <<ptr, i_size>>
  BY LockDoes DEF FileInv
<1>2. \A i \in Inodes : Untouched(ptr, ptr', i)
  BY <1>1, Nothing
<1>3. ASSUME NEW i \in Inodes, NEW b, Fits(b), b >= i_size'[i], Found(ptr, i, b) # 0
      PROVE  \/ Excuse(s, ptr, i, b)
             \/ b >= i_size[i] /\ ~Excuse(r, ptr, i, b)
  BY <1>1, <1>3, LockHits DEF Excuse, FileInv
<1> QED BY <1>1, <1>2, <1>3, PastQuiet

LEMMA PastDetach ==
  ASSUME FileInv, PastInv, NEW t \in Tasks, Detach(t)
  PROVE  PastInv'
<1> DEFINE r == task[t]
           s == task'[t]
           k == Survivor(r.chain)
           h == Way(ptr, r.ino, r.b)[k - 1]
<1>1. /\ r.pc = "detach" /\ s.pc = "kill" /\ s.ino = r.ino /\ r.ino \in Inodes
      /\ ptr' = ptr \/ Empties(ptr, ptr', r.ino, h, Path(r)[k])
      /\ Moves(t) /\ UNCHANGED i_size
  BY DetachDoes DEF FileInv
<1>2. i_size[r.ino] = r.b /\ Sharing(r)
  BY <1>1, TruncatingSize DEF Truncating, Sharing, FileInv
<1>3. Len(Path(r)) # 1
  BY <1>2 DEF FileInv, WaysInv, Knows, Deep
<1>4. ASSUME NEW i \in Inodes, NEW b, Fits(b), b >= i_size'[i], Found(ptr', i, b) # 0
      PROVE  \/ \E u \in Tasks : Excuse(task'[u], ptr', i, b)
             \/ /\ b >= i_size[i] /\ Found(ptr, i, b) # 0 /\ ~Excuse(task[t], ptr, i, b)
                /\ \A u \in Tasks \ {t} :
                     Excuse(task[u], ptr, i, b) => Excuse(task[u], ptr', i, b)
  <2>1. CASE i # r.ino
    <3>1. Unmoved(ptr, ptr', i, b)
      BY <1>1, <1>4, <2>1, Nothing DEF Untouched, Empties
    <3>2. Found(ptr, i, b) # 0
      BY <1>4, <3>1 DEF Unmoved
    <3>3. ~Excuse(task[t], ptr, i, b)
      BY <2>1 DEF Excuse
    <3>4. ASSUME NEW u, Excuse(u, ptr, i, b)
          PROVE  Excuse(u, ptr', i, b)
      BY <1>4, <3>1, <3>4, ExcuseKept
    <3> QED BY <1>1, <1>4, <3>2, <3>3, <3>4
  <2>2. CASE i = r.ino
    BY <1>1, <1>2, <1>3, <1>4, <2>2, DetachHits DEF FileInv, Excuse
  <2> QED BY <2>1, <2>2
<1> QED BY <1>1, <1>4, PastStep

LEMMA PastKill ==
  ASSUME FileInv, PastInv, NEW t \in Tasks, Kill(t)
  PROVE  PastInv'
<1> DEFINE r == task[t]
           s == task'[t]
           w == Head(r.work)
<1>1. /\ Empties(ptr, ptr', r.ino, w.host, w.off)
      /\ \A h, o : Lists(r.work, h, o) => (h = w.host /\ o = w.off) \/ Lists(s.work, h, o)
      /\ r.pc = "kill" /\ s.pc = "kill" /\ s.ino = r.ino
      /\ Moves(t) /\ UNCHANGED i_size
  BY KillEffect DEF FileInv
<1>2. r.op # "write"
  BY <1>1 DEF FileInv, CallInv, KindInv, Kind, ToTruncate, Truncating
<1>3. ASSUME NEW i \in Inodes, NEW b, Fits(b), b >= i_size'[i], Found(ptr', i, b) # 0
      PROVE  \/ \E u \in Tasks : Excuse(task'[u], ptr', i, b)
             \/ /\ b >= i_size[i] /\ Found(ptr, i, b) # 0 /\ ~Excuse(task[t], ptr, i, b)
                /\ \A u \in Tasks \ {t} :
                     Excuse(task[u], ptr, i, b) => Excuse(task[u], ptr', i, b)
  <2>1. CASE i # r.ino
    BY <1>1, <1>3, <2>1, ExcuseKept DEF Untouched, Empties, Unmoved, Excuse
  <2>2. CASE i = r.ino
    BY <1>1, <1>2, <1>3, <2>2 DEF Empties, Excuse, Hit, Sharing
  <2> QED BY <2>1, <2>2
<1> QED BY <1>1, <1>3, PastStep

\* Calls that answer for nothing.
LEMMA PastOthers ==
  ASSUME FileInv, PastInv, NEW t \in Tasks,
         \/ PageEnd(t) \/ WriteBegin(t) \/ StartCreate(t) \/ LoseInode(t) \/ InitInode(t)
         \/ FreeInode(t)
         \/ \E i \in Inodes : \E b \in FileBlocks[i] :
              StartPage(t, "readpage", i, b) \/ StartPage(t, "writepage", i, b)
                \/ StartWrite(t, i, b)
  PROVE  PastInv'
<1> DEFINE r == task[t]
<1>1. UNCHANGED <<ptr, i_size>>
  BY DEF PageEnd, StartCreate, LoseInode, InitInode, FreeInode, StartPage, StartWrite,
         WriteBegin
<1>2. \E s : task' = [task EXCEPT ![t] = s]
  BY DEF LoseInode, InitInode, PageEnd, StartCreate, FreeInode, StartPage, StartWrite,
         WriteBegin
<1>3. Moves(t)
  BY <1>2, OneTaskMoves DEF BlockInv, FileInv
<1>4. r.pc \in {"return", "idle", "page", "new", "init", "free"} /\ (r.pc = "return" => r.op # "write")
  BY DEF PageEnd, StartCreate, LoseInode, InitInode, FreeInode, StartPage, StartWrite,
         WriteBegin
<1>5. Kind(r)
  BY DEF FileInv, CallInv, KindInv
<1>6. r.op # "write" /\ ~ToTruncate(r)
  BY <1>4, <1>5 DEF Kind, PageOps, ToTruncate, Truncating, Sharing
<1>7. \A i, b : ~Excuse(r, ptr, i, b)
  BY <1>5, <1>6, NoExcuse
<1>8. \A i \in Inodes : Untouched(ptr, ptr', i)
  BY <1>1, Nothing
<1> QED BY <1>1, <1>3, <1>7, <1>8, PastNone

LEMMA PastTruncateEnd ==
  ASSUME FileInv, PastInv, NEW t \in Tasks, TruncateEnd(t)
  PROVE  PastInv'
<1> DEFINE r == task[t]
<1>1. UNCHANGED <<ptr, i_size>> /\ r.pc = "kill" /\ r.work = <<>>
  BY DEF TruncateEnd
<1>2. Moves(t)
  BY OneTaskMoves DEF BlockInv, FileInv, TruncateEnd
<1>3. r.op # "write" /\ ~Sharing(r)
  BY <1>1 DEF FileInv, CallInv, KindInv, Kind, ToTruncate, Truncating, Sharing
<1>4. \A i, b : ~Hit(r, ptr, i, b)
  BY <1>1 DEF Hit, Lists
<1>5. \A i, b : ~Excuse(r, ptr, i, b)
  BY <1>1, <1>3, <1>4 DEF Excuse
<1>6. \A i \in Inodes : Untouched(ptr, ptr', i)
  BY <1>1, Nothing
<1> QED BY <1>1, <1>2, <1>5, <1>6, PastNone

LEMMA PastBegins ==
  ASSUME FileInv, PastInv, NEW t \in Tasks, NEW i \in Inodes,
         StartEvict(t, i) \/ \E size \in Sizes[i] : StartTruncate(t, i, size)
  PROVE  PastInv'
<1> DEFINE r == task[t]
<1>1. PICK op, size :
        /\ task' = [task EXCEPT ![t] = [Request(op, i, size, FALSE) EXCEPT !.pc = "truncate"]]
        /\ i_size' = [i_size EXCEPT ![i] = size]
  BY DEF StartEvict, StartTruncate
<1>2. ptr' = ptr /\ r.pc = "idle"
  BY DEF StartEvict, StartTruncate
<1> DEFINE s == [Request(op, i, size, FALSE) EXCEPT !.pc = "truncate"]
<1>3. s.pc = "truncate" /\ s.ino = i
  BY DEF Request, Idle
<1> HIDE DEF s
<1>4. Moves(t) /\ task'[t] = s
  BY <1>1, OneTaskMoves DEF BlockInv, FileInv, s
<1>5. \A j \in Inodes : j # i => i_size'[j] = i_size[j]
  BY <1>1 DEF FileInv, BlockInv, TypeOK
<1>6. Kind(r) /\ r.op # "write" /\ ~ToTruncate(r)
  BY <1>2 DEF FileInv, CallInv, KindInv, Kind, ToTruncate, Truncating, Sharing
<1>7. \A j, b : ~Excuse(r, ptr, j, b)
  BY <1>6, NoExcuse
<1> QED BY <1>2, <1>3, <1>4, <1>5, <1>7, PastTruncates

LEMMA PastWriteFailed ==
  ASSUME FileInv, PastInv, NEW t \in Tasks, WriteFailed(t)
  PROVE  PastInv'
<1> DEFINE r == task[t]
<1>1. r.pc \in {"page", "return"} /\ UNCHANGED <<ptr, i_size>>
  BY DEF WriteFailed
<1>2. Form(r)
  BY TaskIs DEF FileInv
<1>3. r.ino \in Inodes /\ r.b \in Nat /\ i_size[r.ino] \in Nat
  BY <1>1, <1>2 DEF FileInv, BlockInv, TypeOK, Form, Fits
<1>4. \A i, b : Excuse(r, ptr, i, b) => i = r.ino /\ b = r.b
  BY <1>1 DEF Excuse, Sharing
<1>5. CASE r.b + 1 > i_size[r.ino] /\ r.ino \notin AppendOnly
  <2> DEFINE s == [Request("truncate", r.ino, i_size[r.ino], FALSE) EXCEPT !.pc = "truncate"]
  <2>1. task' = [task EXCEPT ![t] = s]
    BY <1>5 DEF WriteFailed
  <2>2. s.pc = "truncate" /\ s.ino = r.ino
    BY DEF Request, Idle
  <2>3. Moves(t) /\ task'[t] = s
    BY <2>1, OneTaskMoves DEF BlockInv, FileInv
  <2> HIDE DEF s
  <2>4. \A j \in Inodes : j # r.ino => \A b : ~Excuse(r, ptr, j, b)
    BY <1>4
  <2> QED BY <1>1, <2>2, <2>3, <2>4, PastTruncates
<1>6. CASE ~(r.b + 1 > i_size[r.ino] /\ r.ino \notin AppendOnly)
  <2>1. task' = [task EXCEPT ![t] = Idle]
    BY <1>6 DEF WriteFailed
  <2>2. \A i \in Inodes \ AppendOnly : \A b : b >= i_size[i] => ~Excuse(r, ptr, i, b)
    BY <1>3, <1>4, <1>6
  <2> QED BY <1>1, <2>1, <2>2, OneTaskMoves, Nothing, PastNone DEF BlockInv, FileInv
<1> QED BY <1>5, <1>6

LEMMA PastWriteEnd ==
  ASSUME FileInv, PastInv, NEW t \in Tasks, WriteEnd(t)
  PROVE  PastInv'
<1> DEFINE r == task[t]
<1>1. /\ r.pc = "return" /\ r.op = "write" /\ UNCHANGED ptr
      /\ i_size' = [i_size EXCEPT ![r.ino] = IF r.b + 1 > @ THEN r.b + 1 ELSE @]
      /\ task' = [task EXCEPT ![t] = Idle]
  BY DEF WriteEnd
<1>2. r.page
  BY <1>1 DEF FileInv, CallInv, KindInv, Kind, PageOps
<1>3. r.ino \in Inodes /\ r.b \in Nat /\ i_size \in [Inodes -> Nat]
  BY <1>2, PageFits DEF FileInv, BlockInv, TypeOK
<1>4. \A i, b : Excuse(r, ptr, i, b) => i = r.ino /\ b = r.b
  BY <1>1 DEF Excuse, Sharing
<1>5. Moves(t)
  BY <1>1, OneTaskMoves DEF BlockInv, FileInv
<1>6. \A i \in Inodes : Untouched(ptr, ptr', i)
  BY <1>1, Nothing
<1>7. ASSUME NEW i \in Inodes, NEW b, Fits(b), b >= i_size'[i]
      PROVE  b >= i_size[i] /\ ~Excuse(r, ptr, i, b)
  BY <1>1, <1>3, <1>4, <1>7 DEF Fits
<1> QED BY <1>5, <1>6, <1>7, PastQuiet

LEMMA PastClaimInode ==
  ASSUME FileInv, PastInv, NEW t \in Tasks, ClaimInode(t)
  PROVE  PastInv'
<1> DEFINE r == task[t]
           j == r.goal
<1>1. /\ r.pc = "new" /\ j \notin live /\ i_size' = [i_size EXCEPT ![j] = 0]
      /\ \E s : task' = [task EXCEPT ![t] = s]
  BY DEF ClaimInode
<1>2. Moves(t)
  BY <1>1, OneTaskMoves DEF BlockInv, FileInv
<1>3. \A i \in Inodes : Untouched(ptr, ptr', i)
  BY ClaimEffect DEF FileInv
<1>4. j \in Inodes /\ NoBlocks(j)
  BY <1>1 DEF FileInv, BlockInv, Inv, PlaceInv, EmptyInv
<1>5. ASSUME NEW b, Fits(b)
      PROVE  Found(ptr, j, b) = 0
  <2> DEFINE path == ext2_block_to_path(b)
  <2>1. PathOK(path)
    BY <1>5, PathIs
  <2>2. Len(path) \in 1 .. 4 /\ path[1] \in 0 .. NDir + 2
    BY <2>1 DEF PathOK
  <2>3. Way(ptr, j, b)[1] = ptr[j][path[1]]
    BY WayIs
  <2>4. Way(ptr, j, b)[1] = 0
    BY <1>4, <2>2, <2>3 DEF NoBlocks
  <2>5. 1 \in 1 .. Len(path)
    BY <2>2
  <2> QED BY <2>4, <2>5 DEF Found, Goes
<1>6. Kind(r) /\ r.op # "write" /\ ~ToTruncate(r)
  BY <1>1 DEF FileInv, CallInv, KindInv, Kind, ToTruncate, Truncating, Sharing
<1>7. \A i, b : ~Excuse(r, ptr, i, b)
  BY <1>6, NoExcuse
<1>8. ASSUME NEW i \in Inodes, NEW b, Fits(b), b >= i_size'[i], Found(ptr, i, b) # 0
      PROVE  b >= i_size[i]
  BY <1>1, <1>5, <1>8 DEF FileInv, BlockInv, TypeOK
<1> QED BY <1>2, <1>3, <1>7, <1>8, PastQuiet

LEMMA PastInit == Init => PastInv
<1> SUFFICES ASSUME Init, NEW i \in Inodes, NEW b, Fits(b), Found(ptr, i, b) # 0
             PROVE  FALSE
  BY DEF PastInv
<1> DEFINE path == ext2_block_to_path(b)
<1>1. PathOK(path)
  BY PathIs
<1>2. path[1] \in Offsets
  BY <1>1 DEF PathOK, Offsets
<1>3. ptr[i] = NoPointers
  BY DEF Init, Hosts
<1>4. ptr[i][path[1]] = 0
  BY <1>2, <1>3 DEF NoPointers
<1>5. Way(ptr, i, b)[0] = i
      /\ \A n \in 1 .. 4 : Way(ptr, i, b)[n] = ptr[Way(ptr, i, b)[n - 1]][path[n]]
  BY WayIs
<1>6. 1 \in 1 .. 4 /\ 1 - 1 = 0
  OBVIOUS
<1>7. Way(ptr, i, b)[1] = 0
  BY <1>4, <1>5, <1>6
<1>8. 1 \in 1 .. Len(path)
  BY <1>1 DEF PathOK
<1> QED BY <1>7, <1>8 DEF Found, Goes

LEMMA PastNext == FileInv /\ PastInv /\ [Next]_vars => PastInv'
<1> SUFFICES ASSUME FileInv, PastInv, [Next]_vars
             PROVE  PastInv'
  OBVIOUS
<1>1. ASSUME NEW t \in Tasks, Step(t)
      PROVE  PastInv'
  BY <1>1, PastWalkVerify, PastWalkAdd, PastPages, PastSplice, PastOthers, PastWriteEnd,
     PastWriteFailed, PastTruncateLock, PastDetach, PastKill, PastFreeBranch, PastTruncateEnd,
     PastClaimInode DEF Step
<1>2. ASSUME NEW t \in Tasks, Start(t)
      PROVE  PastInv'
  BY <1>2, PastOthers, PastBegins DEF Start
<1>3. ASSUME UNCHANGED vars
      PROVE  PastInv'
  BY <1>3 DEF vars, PastInv
<1> QED BY <1>1, <1>2, <1>3, PastOthers DEF Next

(* Once truncate or a failed write has returned, nothing is left past the *)
(* end of a file that is not append-only (fs/ext2/inode.c:59-67, 1172, 1202-1203): *)
(* whoever may still have put a block there holds i_mutex or is being waited for. *)
THEOREM NothingIsPastSize == Spec => []NothingPastSize
<1>1. Init => FileInv /\ PastInv
  BY BlockInit, CallInit, WaysInit, PastInit DEF FileInv
<1>2. FileInv /\ PastInv /\ [Next]_vars => FileInv' /\ PastInv'
  BY FileInvNext, PastNext
<1>3. FileInv /\ PastInv => NothingPastSize
  BY FileFits, BlockOfIs, NobodyTruncates DEF NothingPastSize, FileInv, Excuse, ToTruncate,
     Truncating, PastInv
<1> QED BY <1>1, <1>2, <1>3, PTL DEF Spec

=============================================================================
