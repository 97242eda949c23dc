------------------------------ MODULE Ext2Blocks ------------------------------
(***************************************************************************)
(* Block mapping, allocation and truncation in ext2: ext2_get_blocks finds *)
(* or allocates the block of a file, __ext2_truncate_blocks frees those    *)
(* past a size, and both share the bitmap with all other files.  What      *)
(* keeps them apart:                                                       *)
(*   i_mutex         held by write and by truncate;                        *)
(*   the page lock   held by whoever maps the block of a page; truncate    *)
(*                   lowers i_size first and then waits for the pages past *)
(*                   it (truncate_setsize);                                *)
(*   truncate_mutex  held while blocks are added to or removed from a file;*)
(*   i_meta_lock     a reader looks at a pointer of an indirect block with *)
(*                   it, ext2_find_shared detaches a branch with it;       *)
(*   the bitmap      a block is taken by an atomic test-and-set.           *)
(* A page is one block.  Requests are for one block at a time.             *)
(***************************************************************************)
EXTENDS Integers, Sequences, FiniteSets, SequencesExt

CONSTANTS
  Inodes, Blocks, Tasks,
  NDir,            \* EXT2_NDIR_BLOCKS: pointers to data in the inode
  Ptrs,            \* EXT2_ADDR_PER_BLOCK: pointers in an indirect block
  FileBlocks,      \* the blocks of each file that are read and written
  Sizes,           \* the sizes that each file is truncated to
  AppendOnly,      \* files with the append-only flag (IS_APPEND)
  MayFail,         \* may an allocation fail (quota, reserved blocks)?
  MaxReadErrors,   \* bound: reads of an indirect block that fail
  None, Junk

ASSUME Ext2BlocksAssumption ==
  /\ NDir \in Nat \ {0} /\ Ptrs \in Nat \ {0}
  /\ FileBlocks \in [Inodes -> SUBSET Nat]
  /\ Sizes \in [Inodes -> SUBSET Nat]
  /\ AppendOnly \subseteq Inodes
  /\ MayFail \in BOOLEAN /\ MaxReadErrors \in Nat
  /\ Inodes \cap Blocks = {} /\ 0 \notin Blocks
  /\ None \notin Tasks \cup Inodes /\ Junk \notin Blocks \cup {0}

VARIABLES
  live,            \* the bits that are set in the inode bitmap
  used,            \* the bits that are set in the block bitmap
  ptr,             \* the pointers of each inode and each indirect block
  i_size,          \* of each inode, in blocks
  i_mutex,         \* who holds it, for each inode
  truncate_mutex,  \* likewise
  task,            \* what each task is doing
  errors,          \* reads of indirect blocks that have failed
  lost,            \* blocks given up after one: a matter for e2fsck
  cut              \* inodes that one may have damaged

errorVars == <<errors, lost, cut>>
vars == <<live, used, ptr, i_size, i_mutex, truncate_mutex, task, errorVars>>

Offsets == (0 .. NDir + 2) \cup (0 .. Ptrs - 1)
Hosts == Inodes \cup Blocks
NoPointers == [o \in Offsets |-> 0]
Unknown == [o \in Offsets |-> Junk]   \* a free block, or a block of data

EXT2_IND_BLOCK == NDir

\* The path to block b of a file: offsets in the inode, then in indirect
\* blocks.  Empty if b is too big.
ext2_block_to_path(b) ==
  LET ind == b - NDir
      dind == ind - Ptrs
      tind == dind - Ptrs * Ptrs
  IN CASE b < NDir -> <<b>>
       [] b >= NDir /\ ind < Ptrs -> <<EXT2_IND_BLOCK, ind>>
       [] ind >= Ptrs /\ dind < Ptrs * Ptrs ->
            <<EXT2_IND_BLOCK + 1, dind \div Ptrs, dind % Ptrs>>
       [] dind >= Ptrs * Ptrs /\ tind \div (Ptrs * Ptrs) < Ptrs ->
            <<EXT2_IND_BLOCK + 2, tind \div (Ptrs * Ptrs),
              (tind \div Ptrs) % Ptrs, tind % Ptrs>>
       [] OTHER -> <<>>

\* Files are no larger than their trees can be (ext2_max_size).
ASSUME Ext2BlocksFit ==
  \A i \in Inodes : \A b \in FileBlocks[i] \cup Sizes[i] : ext2_block_to_path(b) # <<>>

\* How many indirect blocks lie between slot o of an inode and the data.
Depth(o) == IF o < NDir THEN 0 ELSE o - NDir + 1

Children(set) == {ptr[h][o] : h \in set, o \in 0 .. Ptrs - 1} \ {0}

\* The blocks of the branch that starts at block b, with depth levels of
\* indirect blocks; those levels.
Levels(b, depth) ==
  LET level[n \in 0 .. depth] == IF n = 0 THEN {b} ELSE Children(level[n - 1])
  IN level
Branch(b, depth) == UNION {Levels(b, depth)[n] : n \in 0 .. depth}
IndirectBlocks(b, depth) == UNION {Levels(b, depth)[n] : n \in 0 .. depth - 1}

Idle == [pc |-> "idle", op |-> "none", ino |-> None, b |-> 0, page |-> FALSE,
         walk |-> "none", chain |-> <<>>, err |-> "ok", res |-> 0,
         goal |-> 0, got |-> <<>>, top |-> 0, depth |-> 0, work |-> <<>>]

Link == [host : Hosts, off : Offsets, key : Blocks \cup {0, Junk}]

(* Types.  Whatever is allocated or detached in order to be freed is a     *)
(* block of the file system, never what a free block or a block of data    *)
(* happens to hold, and blocks given up after a read error stay allocated  *)
(* (fs/ext2/inode.c).                                                      *)
TypeOK ==
  /\ live \subseteq Inodes
  /\ used \subseteq Blocks
  /\ ptr \in [Hosts -> [Offsets -> Blocks \cup {0, Junk}]]
  /\ i_size \in [Inodes -> Nat]
  /\ i_mutex \in [Inodes -> Tasks \cup {None}]
  /\ truncate_mutex \in [Inodes -> Tasks \cup {None}]
  /\ DOMAIN task = Tasks
  /\ \A t \in Tasks :
       /\ task[t].ino \in Inodes \cup {None}
       /\ task[t].chain \in Seq(Link)
       /\ task[t].got \in Seq(Blocks)
       /\ task[t].top \in Blocks \cup {0}
       /\ task[t].depth \in 0 .. 3
       /\ task[t].res \in Blocks \cup {0, Junk}
  /\ errors \in 0 .. MaxReadErrors
  /\ lost \subseteq used
  /\ cut \subseteq Inodes

Init ==
  /\ live = Inodes
  /\ used = {}
  /\ ptr = [h \in Hosts |-> IF h \in Inodes THEN NoPointers ELSE Unknown]
  /\ i_size = [i \in Inodes |-> 0]
  /\ i_mutex = [i \in Inodes |-> None]
  /\ truncate_mutex = [i \in Inodes |-> None]
  /\ task = [t \in Tasks |-> Idle]
  /\ errors = 0
  /\ lost = {}
  /\ cut = {}

-----------------------------------------------------------------------------
(* ext2_get_branch: the chain of pointers that leads to a block            *)

Path(r) == ext2_block_to_path(r.b)
Partial(r) == Last(r.chain)

\* add_chain
LinkAt(host, off) == [host |-> host, off |-> off, key |-> ptr[host][off]]

verify_chain(chain) == \A n \in DOMAIN chain :
  chain[n].key = ptr[chain[n].host][chain[n].off]

\* ext2_find_shared walks to the deepest offset that is not zero.
SharedDepth(path) ==
  CHOOSE k \in DOMAIN path :
    /\ k = 1 \/ path[k] # 0
    /\ \A j \in k + 1 .. Len(path) : path[j] = 0

WalkDepth(r) == IF r.walk = "shared" THEN SharedDepth(Path(r)) ELSE Len(Path(r))

Unlocked(mutex, t, i) == IF mutex[i] = t THEN [mutex EXCEPT ![i] = None] ELSE mutex

\* Where a walk leads when it ends with the chain and the error of r: the
\* block is found, or the link is missing, or reading it failed.
AfterWalk(r) ==
  LET found == r.err = "ok" /\ Partial(r).key # 0
      s == [r EXCEPT !.walk = "none"]
  IN
  CASE r.walk = "shared" -> [s EXCEPT !.pc = "detach", !.err = "ok"]
    [] r.walk # "shared" /\ found ->
         [s EXCEPT !.pc = "return", !.res = Partial(r).key, !.chain = <<>>]
    [] r.walk = "first" /\ ~found /\ (r.op = "readpage" \/ r.err = "EIO") ->
         [s EXCEPT !.pc = "return", !.chain = <<>>]
    [] r.walk = "first" /\ ~found /\ r.op # "readpage" /\ r.err # "EIO" ->
         [s EXCEPT !.pc = "lock"]
    [] r.walk = "regrab" /\ ~found -> [s EXCEPT !.pc = "search", !.err = "ok"]

\* The task once link l has been added to its chain.
Walked(r, l) ==
  LET s == [r EXCEPT !.chain = Append(@, l), !.pc = "verify"] IN
  IF l.key = 0 \/ Len(s.chain) = WalkDepth(r) THEN AfterWalk(s) ELSE s

\* The first link is in the inode: no lock is needed.
BeginWalk(r, walk) ==
  LET s == [r EXCEPT !.walk = walk, !.chain = <<>>, !.err = "ok"]
  IN Walked(s, LinkAt(r.ino, Path(r)[1]))

\* truncate_mutex, if task t has it, is given up as soon as the block is known.
Released(t) == IF task'[t].pc = "return" THEN Unlocked(truncate_mutex, t, task[t].ino)
               ELSE truncate_mutex

\* sb_bread reads the indirect block; with i_meta_lock, has the chain been
\* cut meanwhile?
WalkVerify(t) ==
  LET r == task[t] IN
  /\ r.pc = "verify"
  /\ \/ /\ errors < MaxReadErrors
        /\ errors' = errors + 1
        /\ cut' = IF r.walk = "first" THEN cut ELSE cut \cup {r.ino}
        /\ task' = [task EXCEPT ![t] = AfterWalk([r EXCEPT !.err = "EIO"])]
     \/ /\ verify_chain(r.chain)
        /\ task' = [task EXCEPT ![t].pc = "add"]
        /\ UNCHANGED <<errors, cut>>
     \/ /\ ~verify_chain(r.chain)
        /\ task' = [task EXCEPT ![t] = AfterWalk([r EXCEPT !.err = "EAGAIN"])]
        /\ UNCHANGED <<errors, cut>>
  /\ truncate_mutex' = Released(t)
  /\ UNCHANGED <<live, used, ptr, i_size, i_mutex, lost>>

\* The next link, still with i_meta_lock.
WalkAdd(t) ==
  LET r == task[t] IN
  /\ r.pc = "add"
  /\ task' = [task EXCEPT ![t] =
       Walked(r, LinkAt(Partial(r).key, Path(r)[Len(r.chain) + 1]))]
  /\ truncate_mutex' = Released(t)
  /\ UNCHANGED <<live, used, ptr, i_size, i_mutex, errorVars>>

-----------------------------------------------------------------------------
(* The callers of ext2_get_block                                           *)

PageLocked(i, b) == \E t \in Tasks :
  task[t].page /\ task[t].ino = i /\ task[t].b = b

\* Can inode i be reached?  Not before ext2_new_inode has returned it, nor
\* once it is being deleted.
Reachable(i) ==
  i \in live /\ \A t \in Tasks : task[t].ino = i => task[t].op \notin {"create", "evict"}

Request(op, i, b, page) ==
  [Idle EXCEPT !.op = op, !.ino = i, !.b = b, !.page = page]

\* ext2_readpage and ext2_writepage, with the page locked.
StartPage(t, op, i, b) ==
  /\ task[t].pc = "idle"
  /\ Reachable(i)
  /\ ~PageLocked(i, b)
  /\ b < i_size[i]
  /\ task' = [task EXCEPT ![t] = BeginWalk(Request(op, i, b, TRUE), "first")]
  /\ UNCHANGED <<live, used, ptr, i_size, i_mutex, truncate_mutex, errorVars>>

\* A write takes i_mutex ...
StartWrite(t, i, b) ==
  /\ task[t].pc = "idle"
  /\ Reachable(i)
  /\ i_mutex[i] = None
  /\ i_mutex' = [i_mutex EXCEPT ![i] = t]
  /\ task' = [task EXCEPT ![t] = [Request("begin", i, b, FALSE) EXCEPT !.pc = "page"]]
  /\ UNCHANGED <<live, used, ptr, i_size, truncate_mutex, errorVars>>

\* ... and then waits for the page: ext2_write_begin.
WriteBegin(t) ==
  LET r == task[t] IN
  /\ r.pc = "page"
  /\ ~PageLocked(r.ino, r.b)
  /\ task' = [task EXCEPT ![t] = BeginWalk(Request("write", r.ino, r.b, TRUE), "first")]
  /\ UNCHANGED <<live, used, ptr, i_size, i_mutex, truncate_mutex, errorVars>>

\* The page has its block, a hole or an error; unlock_page.
PageEnd(t) ==
  LET r == task[t] IN
  /\ r.pc = "return" /\ r.op \in {"readpage", "writepage"}
  /\ task' = [task EXCEPT ![t] = Idle]
  /\ UNCHANGED <<live, used, ptr, i_size, i_mutex, truncate_mutex, errorVars>>

\* ext2_write_end, everything copied.
WriteEnd(t) ==
  LET r == task[t] IN
  /\ r.pc = "return" /\ r.op = "write" /\ r.err = "ok"
  /\ i_size' = [i_size EXCEPT ![r.ino] = IF r.b + 1 > @ THEN r.b + 1 ELSE @]
  /\ i_mutex' = [i_mutex EXCEPT ![r.ino] = None]
  /\ task' = [task EXCEPT ![t] = Idle]
  /\ UNCHANGED <<live, used, ptr, truncate_mutex, errorVars>>

\* mutant: the page is still locked when the blocks are freed
WriteFailed_KeepsPage(t) ==
  LET r == task[t] IN
  /\ \/ r.pc = "page" /\ ~PageLocked(r.ino, r.b)
     \/ r.pc = "return" /\ r.op = "write"
  /\ IF r.b + 1 > i_size[r.ino] /\ r.ino \notin AppendOnly
     THEN /\ task' = [task EXCEPT ![t] =
               [Request("truncate", r.ino, i_size[r.ino], TRUE) EXCEPT !.pc = "truncate"]]
          /\ UNCHANGED i_mutex
     ELSE /\ task' = [task EXCEPT ![t] = Idle]
          /\ i_mutex' = [i_mutex EXCEPT ![r.ino] = None]
  /\ UNCHANGED <<live, used, ptr, i_size, truncate_mutex, errorVars>>

\* There is no page, ext2_write_begin failed, or ext2_write_end copied too
\* little: the page is unlocked and ext2_write_failed frees what lies past the
\* end of the file, except that ext2_truncate_blocks returns at once for an
\* append-only file.
WriteFailed(t) ==
  LET r == task[t] IN
  /\ \/ r.pc = "page" /\ ~PageLocked(r.ino, r.b)
     \/ r.pc = "return" /\ r.op = "write"
  /\ IF r.b + 1 > i_size[r.ino] /\ r.ino \notin AppendOnly
     THEN /\ task' = [task EXCEPT ![t] =
               [Request("truncate", r.ino, i_size[r.ino], FALSE) EXCEPT !.pc = "truncate"]]
          /\ UNCHANGED i_mutex
     ELSE /\ task' = [task EXCEPT ![t] = Idle]
          /\ i_mutex' = [i_mutex EXCEPT ![r.ino] = None]
  /\ UNCHANGED <<live, used, ptr, i_size, truncate_mutex, errorVars>>

-----------------------------------------------------------------------------
(* ext2_get_blocks when the block has to be allocated                      *)

\* mutant: the chain is trusted, whatever happened before the mutex was taken
LockAndVerify_Trusts(t) ==
  LET r == task[t] IN
  /\ r.pc = "lock"
  /\ truncate_mutex[r.ino] = None
  /\ task' = [task EXCEPT ![t] =
       IF r.err = "EAGAIN"
       THEN BeginWalk(r, "regrab") ELSE [r EXCEPT !.pc = "search"]]
  /\ truncate_mutex' = IF task'[t].pc = "return" THEN truncate_mutex
                       ELSE [truncate_mutex EXCEPT ![r.ino] = t]
  /\ UNCHANGED <<live, used, ptr, i_size, i_mutex, errorVars>>

\* With truncate_mutex, the chain is walked again if it has changed.
LockAndVerify(t) ==
  LET r == task[t] IN
  /\ r.pc = "lock"
  /\ truncate_mutex[r.ino] = None
  /\ task' = [task EXCEPT ![t] =
       IF r.err = "EAGAIN" \/ ~verify_chain(r.chain)
       THEN BeginWalk(r, "regrab") ELSE [r EXCEPT !.pc = "search"]]
  /\ truncate_mutex' = IF task'[t].pc = "return" THEN truncate_mutex
                       ELSE [truncate_mutex EXCEPT ![r.ino] = t]
  /\ UNCHANGED <<live, used, ptr, i_size, i_mutex, errorVars>>

\* ext2_new_blocks: find a clear bit, without a lock.
Search(t) ==
  /\ task[t].pc = "search"
  /\ \E b \in Blocks \ used :
       task' = [task EXCEPT ![t].pc = "claim", ![t].goal = b]
  /\ UNCHANGED <<live, used, ptr, i_size, i_mutex, truncate_mutex, errorVars>>

\* No clear bit, or none for this user: ext2_alloc_blocks gives back what it
\* has got so far.
NoSpace(t) ==
  LET r == task[t] IN
  /\ r.pc = "search"
  /\ MayFail \/ used = Blocks
  /\ used' = used \ ToSet(r.got)
  /\ task' = [task EXCEPT ![t] =
       [r EXCEPT !.pc = "return", !.err = "ENOSPC", !.got = <<>>, !.chain = <<>>]]
  /\ truncate_mutex' = Released(t)
  /\ UNCHANGED <<live, ptr, i_size, i_mutex, errorVars>>

\* indirect_blks and the block of data.
Needed(r) == Len(Path(r)) - Len(r.chain) + 1

\* mutant: the bit is set without testing it
Claim_NoTest(t) ==
  LET r == task[t] IN
  /\ r.pc = "claim"
  /\ used' = used \cup {r.goal}
  /\ task' = [task EXCEPT ![t] =
       [r EXCEPT !.got = Append(@, r.goal), !.goal = 0,
                 !.pc = IF Len(r.got) + 1 = Needed(r) THEN "splice" ELSE "search"]]
  /\ UNCHANGED <<live, ptr, i_size, i_mutex, truncate_mutex, errorVars>>

\* ext2_set_bit_atomic: the loser searches on.
Claim(t) ==
  LET r == task[t] IN
  /\ r.pc = "claim"
  /\ IF r.goal \in used
     THEN /\ task' = [task EXCEPT ![t].pc = "search", ![t].goal = 0]
          /\ UNCHANGED used
     ELSE /\ used' = used \cup {r.goal}
          /\ task' = [task EXCEPT ![t] =
               [r EXCEPT !.got = Append(@, r.goal), !.goal = 0,
                         !.pc = IF Len(r.got) + 1 = Needed(r) THEN "splice" ELSE "search"]]
  /\ UNCHANGED <<live, ptr, i_size, i_mutex, truncate_mutex, errorVars>>

\* ext2_alloc_branch links the new blocks to each other, along the path from
\* its place d on ...
Attached(host, off, new, path, d) ==
  [h \in Hosts |->
     CASE h = host -> [ptr[h] EXCEPT ![off] = new[1]]
       [] h \in ToSet(Front(new)) ->
            LET k == CHOOSE j \in 1 .. Len(new) - 1 : new[j] = h
            IN [NoPointers EXCEPT ![path[d + k]] = new[k + 1]]
       [] OTHER -> ptr[h]]

\* ... and ext2_splice_branch fills in the missing link.
Splice(t) ==
  LET r == task[t]
      where == Partial(r)
      old == ptr[where.host][where.off]
      n == Len(r.got)
  IN
  /\ r.pc = "splice"
  /\ ptr' = Attached(where.host, where.off, r.got, Path(r), Len(r.chain))
  /\ lost' = IF old = 0 THEN lost ELSE lost \cup Branch(old, Len(Path(r)) - Len(r.chain))
  /\ task' = [task EXCEPT ![t] =
       [r EXCEPT !.pc = "return", !.err = "ok", !.res = r.got[n], !.got = <<>>, !.chain = <<>>]]
  /\ truncate_mutex' = Released(t)
  /\ UNCHANGED <<live, used, i_size, i_mutex, errors, cut>>

-----------------------------------------------------------------------------
(* __ext2_truncate_blocks                                                  *)

\* ext2_setsize, EPERM for an append-only file: truncate_setsize lowers (or
\* raises) i_size ...
StartTruncate(t, i, size) ==
  /\ task[t].pc = "idle"
  /\ Reachable(i) /\ i \notin AppendOnly
  /\ i_mutex[i] = None
  /\ i_mutex' = [i_mutex EXCEPT ![i] = t]
  /\ i_size' = [i_size EXCEPT ![i] = size]
  /\ task' = [task EXCEPT ![t] =
       [Request("truncate", i, size, FALSE) EXCEPT !.pc = "truncate"]]
  /\ UNCHANGED <<live, used, ptr, truncate_mutex, errorVars>>

\* A slot whose branch is to be freed, with the depth of the branch.
Slot(host, off, depth) == [host |-> host, off |-> off, depth |-> depth]

\* The slots off, off + 1, ... < end of a host.
SlotsFrom(host, off, end, depth) ==
  [n \in 1 .. (IF off < end THEN end - off ELSE 0) |-> Slot(host, off + n - 1, depth)]

\* do_indirects: the whole subtrees, after the one that off is in.
do_indirects(i, off) ==
  LET from == IF off < NDir THEN NDir ELSE off + 1 IN
  [n \in 1 .. NDir + 3 - from |-> Slot(i, from + n - 1, Depth(from + n - 1))]

\* mutant: truncate does not wait for the pages past the new size
TruncateLock_NoPageWait(t) ==
  LET r == task[t]
      off == Path(r)[1]
  IN
  /\ r.pc = "truncate"
  /\ truncate_mutex[r.ino] = None
  /\ truncate_mutex' = [truncate_mutex EXCEPT ![r.ino] = t]
  /\ task' = [task EXCEPT ![t] =
       IF Len(Path(r)) = 1
       THEN [r EXCEPT !.pc = "kill", !.work =
               SlotsFrom(r.ino, off, NDir, 0) \o do_indirects(r.ino, off)]
       ELSE BeginWalk(r, "shared")]
  /\ UNCHANGED <<live, used, ptr, i_size, i_mutex, errorVars>>

\* ... and waits for the pages past it.  From truncate_mutex on, nobody else
\* adds or removes blocks.
TruncateLock(t) ==
  LET r == task[t]
      off == Path(r)[1]
  IN
  /\ r.pc = "truncate"
  /\ ~\E u \in Tasks : task[u].page /\ task[u].ino = r.ino /\ task[u].b >= r.b
  /\ truncate_mutex[r.ino] = None
  /\ truncate_mutex' = [truncate_mutex EXCEPT ![r.ino] = t]
  /\ task' = [task EXCEPT ![t] =
       IF Len(Path(r)) = 1
       THEN [r EXCEPT !.pc = "kill", !.work =
               SlotsFrom(r.ino, off, NDir, 0) \o do_indirects(r.ino, off)]
       ELSE BeginWalk(r, "shared")]
  /\ UNCHANGED <<live, used, ptr, i_size, i_mutex, errorVars>>

\* mutant: the first pointer is not looked at
all_zeroes_SkipsFirst(host, off) == \A o \in 1 .. off - 1 : ptr[host][o] = 0

all_zeroes(host, off) == \A o \in 0 .. off - 1 : ptr[host][o] = 0

\* The last link of the chain that has something to the left of it that
\* survives, or the first one.
Survivor(chain) ==
  CHOOSE k \in DOMAIN chain :
    /\ k = 1 \/ ~all_zeroes(chain[k].host, chain[k].off)
    /\ \A j \in k + 1 .. Len(chain) : all_zeroes(chain[j].host, chain[j].off)

\* The ends of the indirect blocks on the shared branch, deepest first; the
\* one at position k starts at offset from, the others after their link.
EndsOfShared(r, k, from) ==
  LET n == Len(Path(r))
      End(j) == SlotsFrom(r.chain[j].host, IF j = k THEN from ELSE r.chain[j].off + 1,
                          Ptrs, n - j)
  IN FlattenSeq([m \in 1 .. k - 1 |-> End(k - m + 1)])

\* mutant: the branch is detached without i_meta_lock
Detach_NoMetaLock(t) ==
  LET r == task[t]
      path == Path(r)
      k == Survivor(r.chain)
      link == r.chain[k]
      acquired == Partial(r).key = 0 /\ ptr[Partial(r).host][Partial(r).off] # 0
      ours == k = Len(r.chain) /\ k = SharedDepth(path) /\ k > 1
      ends == CASE acquired -> EndsOfShared(r, Len(r.chain), Partial(r).off + 1)
                [] ~acquired /\ ours -> EndsOfShared(r, k, link.off)
                [] ~acquired /\ ~ours -> EndsOfShared(r, k, link.off + 1)
  IN
  /\ r.pc = "detach"
  /\ ptr' = IF acquired \/ ours THEN ptr ELSE [ptr EXCEPT ![link.host][link.off] = 0]
  /\ task' = [task EXCEPT ![t] =
       [r EXCEPT !.pc = "kill", !.chain = <<>>,
                 !.top = IF acquired \/ ours THEN 0 ELSE ptr[link.host][link.off],
                 !.depth = IF acquired \/ ours THEN 0 ELSE Len(path) - k,
                 !.work = ends \o do_indirects(r.ino, path[1])]]
  /\ UNCHANGED <<live, used, i_size, i_mutex, truncate_mutex, errorVars>>

\* ext2_find_shared: with i_meta_lock held for writing, the top of the
\* branch is detached.
Detach(t) ==
  LET r == task[t]
      path == Path(r)
      k == Survivor(r.chain)
      link == r.chain[k]
      acquired == Partial(r).key = 0 /\ ptr[Partial(r).host][Partial(r).off] # 0
      ours == k = Len(r.chain) /\ k = SharedDepth(path) /\ k > 1
      ends == CASE acquired -> EndsOfShared(r, Len(r.chain), Partial(r).off + 1)
                [] ~acquired /\ ours -> EndsOfShared(r, k, link.off)
                [] ~acquired /\ ~ours -> EndsOfShared(r, k, link.off + 1)
  IN
  /\ r.pc = "detach"
  /\ ~\E u \in Tasks : task[u].pc = "add" /\ task[u].ino = r.ino
  /\ ptr' = IF acquired \/ ours THEN ptr ELSE [ptr EXCEPT ![link.host][link.off] = 0]
  /\ task' = [task EXCEPT ![t] =
       [r EXCEPT !.pc = "kill", !.chain = <<>>,
                 !.top = IF acquired \/ ours THEN 0 ELSE ptr[link.host][link.off],
                 !.depth = IF acquired \/ ours THEN 0 ELSE Len(path) - k,
                 !.work = ends \o do_indirects(r.ino, path[1])]]
  /\ UNCHANGED <<live, used, i_size, i_mutex, truncate_mutex, errorVars>>

\* ext2_free_data and ext2_free_branches take the next branch off its slot,
\* without i_meta_lock, or pass over an empty slot ...
Kill(t) ==
  LET r == task[t]
      s == Head(r.work)
  IN
  /\ r.pc = "kill" /\ r.top = 0 /\ r.work # <<>>
  /\ ptr' = [ptr EXCEPT ![s.host][s.off] = 0]
  /\ task' = [task EXCEPT ![t] =
       [r EXCEPT !.top = ptr[s.host][s.off], !.depth = s.depth, !.work = Tail(@)]]
  /\ UNCHANGED <<live, used, i_size, i_mutex, truncate_mutex, errorVars>>

\* mutant: blocks below one that cannot be read are freed all the same
FreeBranch_FreesUnread(t) ==
  LET r == task[t]
      all == Branch(r.top, r.depth)
  IN
  /\ r.pc = "kill" /\ r.top # 0
  /\ \/ /\ used' = used \ all
        /\ UNCHANGED <<errors, lost>>
     \/ /\ errors < MaxReadErrors
        /\ \E n \in 0 .. r.depth - 1 : \E bad \in Levels(r.top, r.depth)[n] :
             LET gone == Branch(bad, r.depth - n) IN
             /\ used' = used \ all
             /\ lost' = lost \cup gone
        /\ errors' = errors + 1
  /\ ptr' = [h \in Hosts |-> IF h \in all THEN Unknown ELSE ptr[h]]
  /\ task' = [task EXCEPT ![t] = [r EXCEPT !.top = 0, !.depth = 0]]
  /\ UNCHANGED <<live, i_size, i_mutex, truncate_mutex, cut>>

\* ... and free its blocks, in one step: it is detached, and nobody else can
\* reach it.  An indirect block that cannot be read is given up, with
\* everything below it.
FreeBranch(t) ==
  LET r == task[t]
      all == Branch(r.top, r.depth)
  IN
  /\ r.pc = "kill" /\ r.top # 0
  /\ \/ /\ used' = used \ all
        /\ UNCHANGED <<errors, lost>>
     \/ /\ errors < MaxReadErrors
        /\ \E n \in 0 .. r.depth - 1 : \E bad \in Levels(r.top, r.depth)[n] :
             LET gone == Branch(bad, r.depth - n) IN
             /\ used' = used \ (all \ gone)
             /\ lost' = lost \cup gone
        /\ errors' = errors + 1
  /\ ptr' = [h \in Hosts |-> IF h \in all THEN Unknown ELSE ptr[h]]
  /\ task' = [task EXCEPT ![t] = [r EXCEPT !.top = 0, !.depth = 0]]
  /\ UNCHANGED <<live, i_size, i_mutex, truncate_mutex, cut>>

\* What comes after it: the call returns, or the inode is freed.
TruncateEnd(t) ==
  LET r == task[t] IN
  /\ r.pc = "kill" /\ r.top = 0 /\ r.work = <<>>
  /\ truncate_mutex' = [truncate_mutex EXCEPT ![r.ino] = None]
  /\ i_mutex' = Unlocked(i_mutex, t, r.ino)
  /\ task' = [task EXCEPT ![t] =
       IF r.op = "evict" THEN [Idle EXCEPT !.pc = "free", !.op = "evict", !.ino = r.ino] ELSE Idle]
  /\ UNCHANGED <<live, used, ptr, i_size, errorVars>>

-----------------------------------------------------------------------------
(* Inodes come and go: ext2_new_inode and ext2_evict_inode                 *)

\* Find a clear bit in the inode bitmap, without a lock.
StartCreate(t) ==
  /\ task[t].pc = "idle"
  /\ \E i \in Inodes \ live :
       task' = [task EXCEPT ![t] = [Idle EXCEPT !.pc = "new", !.op = "create", !.goal = i]]
  /\ UNCHANGED <<live, used, ptr, i_size, i_mutex, truncate_mutex, errorVars>>

\* mutant: the inode's bit is set without testing it
ClaimInode_NoTest(t) ==
  LET i == task[t].goal IN
  /\ task[t].pc = "new"
  /\ live' = live \cup {i}
  /\ ptr' = [ptr EXCEPT ![i] = NoPointers]
  /\ i_size' = [i_size EXCEPT ![i] = 0]
  /\ task' = [task EXCEPT ![t] = [Idle EXCEPT !.pc = "init", !.op = "create", !.ino = i]]
  /\ UNCHANGED <<used, i_mutex, truncate_mutex, errorVars>>

\* ext2_set_bit_atomic; the new inode has no blocks.
ClaimInode(t) ==
  LET i == task[t].goal IN
  /\ task[t].pc = "new"
  /\ i \notin live
  /\ live' = live \cup {i}
  /\ ptr' = [ptr EXCEPT ![i] = NoPointers]
  /\ i_size' = [i_size EXCEPT ![i] = 0]
  /\ task' = [task EXCEPT ![t] = [Idle EXCEPT !.pc = "init", !.op = "create", !.ino = i]]
  /\ UNCHANGED <<used, i_mutex, truncate_mutex, errorVars>>

\* "We lost this inode": the search goes on, in this group or the next one,
\* or ends with ENOSPC.
LoseInode(t) ==
  /\ task[t].pc = "new"
  /\ task[t].goal \in live
  /\ \/ \E i \in Inodes \ live : task' = [task EXCEPT ![t].goal = i]
     \/ task' = [task EXCEPT ![t] = Idle]
  /\ UNCHANGED <<live, used, ptr, i_size, i_mutex, truncate_mutex, errorVars>>

\* The inode is returned; or the quota or the ACLs fail, and the iput at
\* fail_drop deletes it again.
InitInode(t) ==
  /\ task[t].pc = "init"
  /\ \/ task' = [task EXCEPT ![t] = Idle]
     \/ MayFail /\ task' = [task EXCEPT ![t].pc = "free", ![t].op = "evict"]
  /\ UNCHANGED <<live, used, ptr, i_size, i_mutex, truncate_mutex, errorVars>>

\* ext2_evict_inode: the last reference to an inode without links is gone.
\* An append-only file keeps its links (may_delete in fs/namei.c).
StartEvict(t, i) ==
  /\ task[t].pc = "idle"
  /\ i \notin AppendOnly
  /\ i \in live /\ \A u \in Tasks : task[u].ino # i
  /\ i_size' = [i_size EXCEPT ![i] = 0]
  /\ task' = [task EXCEPT ![t] = [Request("evict", i, 0, FALSE) EXCEPT !.pc = "truncate"]]
  /\ UNCHANGED <<live, used, ptr, i_mutex, truncate_mutex, errorVars>>

\* ext2_free_inode, after everything else.
FreeInode(t) ==
  /\ task[t].pc = "free"
  /\ live' = live \ {task[t].ino}
  /\ task' = [task EXCEPT ![t] = Idle]
  /\ UNCHANGED <<used, ptr, i_size, i_mutex, truncate_mutex, errorVars>>

-----------------------------------------------------------------------------
Start(t) == \E i \in Inodes :
  \/ \E b \in FileBlocks[i] : \/ StartPage(t, "readpage", i, b)
                           \/ StartPage(t, "writepage", i, b)
                           \/ StartWrite(t, i, b)
  \/ \E size \in Sizes[i] : StartTruncate(t, i, size)
  \/ StartEvict(t, i)

Step(t) ==
  \/ WalkVerify(t) \/ WalkAdd(t)
  \/ LockAndVerify(t) \/ Search(t) \/ NoSpace(t) \/ Claim(t) \/ Splice(t)
  \/ PageEnd(t) \/ WriteBegin(t) \/ WriteEnd(t) \/ WriteFailed(t)
  \/ TruncateLock(t) \/ Detach(t) \/ Kill(t) \/ FreeBranch(t) \/ TruncateEnd(t)
  \/ ClaimInode(t) \/ LoseInode(t) \/ InitInode(t) \/ FreeInode(t)

Next == \E t \in Tasks : StartCreate(t) \/ Start(t) \/ Step(t)

Spec == Init /\ [][Next]_vars

-----------------------------------------------------------------------------
(* Correctness                                                             *)

\* The pointers of inode i that are not empty, as <<host, offset>>, and the
\* blocks they point to.
Pointers(i) ==
  {<<i, o>> : o \in {o \in 0 .. NDir + 2 : ptr[i][o] # 0}}
    \cup UNION {{<<h, o>> : h \in IndirectBlocks(ptr[i][s], Depth(s)),
                            o \in 0 .. Ptrs - 1} :
                 s \in {s \in 0 .. NDir + 2 : ptr[i][s] # 0}}
Target(p) == ptr[p[1]][p[2]]
Mapped == {p \in UNION {Pointers(i) : i \in live} : Target(p) # 0}
InFiles == {Target(p) : p \in Mapped}

\* The blocks task t has taken and not spliced yet, or has detached and not
\* freed yet.
HeldBy(t) == ToSet(task[t].got) \cup
  (IF task[t].top = 0 THEN {} ELSE Branch(task[t].top, task[t].depth))

(* No block belongs to two files, or twice to one; one that a task is      *)
(* adding or freeing, or that is free, is in no file: the bitmap's         *)
(* test-and-set (fs/ext2/balloc.c:724), truncate_mutex, and detaching      *)
(* before freeing see to it.                                               *)
NoBlockShared ==
  /\ \A p, q \in Mapped : Target(p) = Target(q) => p = q
  /\ InFiles \subseteq used \ lost
  /\ \A t \in Tasks : HeldBy(t) \subseteq used \ (lost \cup InFiles)
  /\ \A t, u \in Tasks : t # u => HeldBy(t) \cap HeldBy(u) = {}

(* Failed allocations (fs/ext2/inode.c:439) and truncates (1099-1123) lose *)
(* no block: every bit that is set is in a file or in some task's hands,   *)
(* except what had to be given up after a read error.                      *)
NoBlockLeaked ==
  used \subseteq InFiles \cup lost \cup UNION {HeldBy(t) : t \in Tasks}

(* Two calls of ext2_new_inode never return the same inode, although both  *)
(* may have found its bit clear (fs/ext2/ialloc.c:496), and while a task   *)
(* works on an inode its bit stays set, also while it is being deleted:    *)
(* "otherwise a newly created file might use the same inode number"        *)
(* (fs/ext2/ialloc.c:99).                                                  *)
NoInodeShared ==
  \A t \in Tasks : task[t].ino # None =>
    /\ task[t].ino \in live
    /\ task[t].op \in {"create", "evict"} =>
         \A u \in Tasks \ {t} : task[u].ino # task[t].ino

\* The block that holds block b of file i, 0 if that is a hole.
BlockOf(i, b) ==
  LET path == ext2_block_to_path(b)
      at[n \in 1 .. Len(path)] ==
        IF n = 1 THEN ptr[i][path[1]]
        ELSE IF at[n - 1] = 0 THEN 0 ELSE ptr[at[n - 1]][path[n]]
  IN at[Len(path)]

(* A task that holds the page lock gets the block of its page, or finds    *)
(* the hole there is, although it walks the chain without truncate_mutex   *)
(* while other blocks of the file come and go (fs/ext2/inode.c:245-253).   *)
LookupIsExact ==
  \A t \in Tasks : LET r == task[t] IN
    r.pc = "return" /\ r.err = "ok" /\ r.ino \notin cut
      => r.res = BlockOf(r.ino, r.b)

(* Once truncate or a failed write returns, no block is left past the end  *)
(* of the file (fs/ext2/inode.c:59-67, 1202-1203), although pages may be   *)
(* under way to the disk, which allocates blocks for them.  Append-only    *)
(* files are left out: a write to one that fails leaves its blocks behind, *)
(* as the source admits ("it seems like a bug here that we don't allow     *)
(* IS_APPEND inode to have blocks-past-i_size trimmed off",                *)
(* fs/ext2/inode.c:1160-1163).                                             *)
NothingPastSize ==
  \A i \in Inodes \ AppendOnly : Reachable(i) /\ i_mutex[i] = None =>
    \A b \in FileBlocks[i] : b >= i_size[i] => BlockOf(i, b) = 0

(* What is in a file stays where it is until the file gets shorter: no     *)
(* step unmaps or moves a block below the size.                            *)
KeepsBelowSize ==
  [][\A i \in (live \cap live') \ cut' : \A b \in FileBlocks[i] :
       b < i_size[i] /\ b < i_size'[i] /\ BlockOf(i, b) # 0
         => BlockOf(i, b)' = BlockOf(i, b)]_vars

(* Page locks, i_mutex, truncate_mutex and i_meta_lock are taken in an     *)
(* order that leaves nobody waiting for ever.                              *)
SomeoneGoesOn ==
  (\E t \in Tasks : task[t].pc # "idle") => \E t \in Tasks : ENABLED Step(t)

=============================================================================
