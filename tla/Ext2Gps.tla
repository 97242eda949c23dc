------------------------------- MODULE Ext2Gps -------------------------------
(***************************************************************************)
(* The location stored with one ext2 inode: the copy in memory (i_gps of   *)
(* the ext2_inode_info, guarded by i_gps_lock), the copy in the inode      *)
(* table, and everything that moves it between the two: ext2_set_gps and   *)
(* its callers, ext2_get_gps, the flusher thread, eviction and ext2_iget.  *)
(*                                                                         *)
(* Callers of ext2_set_gps differ in what surrounds it:                    *)
(*   "dirop"  holds the inode's i_mutex and calls mark_inode_dirty after   *)
(*            it (entries added, removed, relinked; ACLs, quota, and       *)
(*            xattrs and truncation unless the inode is synchronous);      *)
(*   "ioctl"  calls mark_inode_dirty after it, without i_mutex             *)
(*            (ext2_ioctl, the inode that a rename moves);                 *)
(*   "write"  comes from vfs_write or vfs_writev: the write dirties the    *)
(*            inode before it, and nothing does after it.                  *)
(* A task of kind "get" calls ext2_get_gps, one of kind "none" nothing.    *)
(* On a synchronous inode ext2_xattr_set2 (xattr.c:695-706) and            *)
(* ext2_setsize (inode.c:1208-1210) call sync_inode_metadata instead, and  *)
(* mark nothing: they are like "write" in that, and are not modelled.      *)
(*                                                                         *)
(* A location is abstracted to its version, the number of fixes the kernel *)
(* had received; its fields are stored and written back one at a time.     *)
(* What get_current_location returns is taken to be whole: GpsLocation is  *)
(* about the cases in which it is not.                                     *)
(***************************************************************************)
EXTENDS ArmRwLock, FiniteSets

CONSTANTS
  Tasks,                     \* the tasks that may use the inode
  Mixes,                     \* what they may be doing, together
  NFields,                   \* fields of i_gps: latitude, longitude, ...
  MaxFixes,                  \* bound: locations the kernel receives
  MaxCount,                  \* bound: i_count at which getters stop
  MayEvict                   \* may the inode leave memory (pressure, umount)?

ASSUME Ext2GpsAssumption ==
  /\ NFields \in Nat \ {0}
  /\ MaxFixes \in Nat
  /\ MaxCount \in Nat
  /\ MayEvict \in BOOLEAN
  /\ IsFiniteSet(Tasks)
  /\ Cardinality(Tasks) < Bit31
  /\ Mixes \subseteq [Tasks -> {"dirop", "ioctl", "write", "get", "none"}]

VARIABLES
  kind,        \* what each task does with the inode; never changes
  kgps,        \* the version get_current_location returns
  ram,         \* i_gps of the inode in memory, field by field
  disk,        \* the same fields in the buffer of the inode table
  medium,      \* and on the disk: what is left when the machine stops
  cached,      \* is the inode in memory?
  i_count,     \* its reference count
  dentry,      \* is its dentry in the dcache?  (it holds one reference)
  users,       \* tasks that hold a path or an open file
  dirty,       \* the dirty flags in i_state
  i_mutex,     \* the tasks that hold i_mutex (one or none)
  i_gps_lock,  \* the lock word
  pc,          \* where each task is
  ver,         \* k_gps of each task in ext2_set_gps (0 outside it)
  buf,         \* what each task in ext2_get_gps has read
  pos,         \* the next field each task handles
  fpc, fpos,   \* the flusher thread: where it is, its next field
  mounted      \* is the file system mounted?

inodeVars == <<cached, i_count, dentry, users>>
flusherVars == <<fpc, fpos>>
bufferVars == <<kind, medium>>
taskVars == <<pc, ver, buf, pos>>
vars == <<kgps, ram, disk, inodeVars, dirty, i_mutex, i_gps_lock, taskVars,
          flusherVars, mounted, bufferVars>>

Fields == 1 .. NFields
Version == 0 .. MaxFixes
DirtyFlag == {"meta", "pages"}
TaskState == {"idle", "snap", "lock", "store", "check", "redirty", "unlock",
              "mark", "rlock", "read", "runlock", "put"}

(* Types.  i_count passes MaxCount by one when get_gps_location takes the  *)
(* dentry's reference and that of ext2_iget (fs/ext2/namei.c).             *)
TypeOK ==
  /\ kind \in Mixes
  /\ kgps \in Version
  /\ ram \in [Fields -> Version]
  /\ disk \in [Fields -> Version]
  /\ medium \in [Fields -> Version]
  /\ cached \in BOOLEAN
  /\ i_count \in 0 .. MaxCount + 1
  /\ dentry \in BOOLEAN
  /\ users \subseteq Tasks
  /\ dirty \subseteq DirtyFlag
  /\ i_mutex \subseteq Tasks
  /\ i_gps_lock \in LockWord
  /\ pc \in [Tasks -> TaskState]
  /\ ver \in [Tasks -> Version]
  /\ buf \in [Tasks -> [Fields -> Version]]
  /\ pos \in [Tasks -> Fields]
  /\ fpc \in {"idle", "clear", "copy", "end"}
  /\ fpos \in Fields
  /\ mounted \in BOOLEAN

Init ==
  /\ kind \in Mixes
  /\ kgps = 0
  /\ ram = [f \in Fields |-> 0]
  /\ disk = [f \in Fields |-> 0]
  /\ medium = [f \in Fields |-> 0]
  /\ cached = FALSE
  /\ i_count = 0
  /\ dentry = FALSE
  /\ users = {}
  /\ dirty = {}
  /\ i_mutex = {}
  /\ i_gps_lock = Unlocked
  /\ pc = [t \in Tasks |-> "idle"]
  /\ ver = [t \in Tasks |-> 0]
  /\ buf = [t \in Tasks |-> [f \in Fields |-> 0]]
  /\ pos = [t \in Tasks |-> 1]
  /\ fpc = "idle"
  /\ fpos = 1
  /\ mounted = TRUE

(* set_gps_location: the kernel receives a new location.                   *)
NewFix ==
  /\ kgps < MaxFixes
  /\ kgps' = kgps + 1
  /\ UNCHANGED <<ram, disk, inodeVars, dirty, i_mutex, i_gps_lock, taskVars,
                 flusherVars, mounted, bufferVars>>

-----------------------------------------------------------------------------
(* References.  The first lookup of a name makes the dentry, which keeps a *)
(* reference; ext2_iget reads the inode table if the inode is not cached.  *)

Lookup(t) ==
  /\ mounted
  /\ users' = users \cup {t}
  /\ dentry' = TRUE
  /\ i_count' = IF dentry THEN i_count ELSE i_count + 1
  /\ cached' = TRUE
  /\ ram' = IF cached THEN ram ELSE disk

PathPut(t) == users' = users \ {t}

\* The dcache shrinks: the dentry gives its reference back.
ShrinkDcache ==
  /\ MayEvict
  /\ mounted /\ dentry /\ users = {}
  /\ dentry' = FALSE
  /\ i_count' = i_count - 1
  /\ UNCHANGED <<kgps, ram, disk, cached, users, dirty, i_mutex, i_gps_lock,
                 taskVars, flusherVars, mounted, bufferVars>>

\* mutant: reclaim an inode without looking at its dirty flags
PruneIcache_Dirty ==
  /\ MayEvict
  /\ cached /\ i_count = 0 /\ fpc = "idle"
  /\ cached' = FALSE
  /\ dirty' = {}
  /\ ram' = [f \in Fields |-> 0]
  /\ UNCHANGED <<kgps, disk, i_count, dentry, users, i_mutex, i_gps_lock,
                 taskVars, flusherVars, mounted, bufferVars>>

\* Memory pressure: an inode that nobody refers to, that is clean and not
\* under writeback leaves memory.
PruneIcache ==
  /\ MayEvict
  /\ cached /\ i_count = 0 /\ dirty = {} /\ fpc = "idle"
  /\ cached' = FALSE
  /\ ram' = [f \in Fields |-> 0]
  /\ UNCHANGED <<kgps, disk, i_count, dentry, users, dirty, i_mutex,
                 i_gps_lock, taskVars, flusherVars, mounted, bufferVars>>

\* generic_shutdown_super: nobody holds a path; the dcache goes, everything
\* dirty is written, and the inodes that nobody refers to are evicted.
Unmount ==
  /\ MayEvict
  /\ mounted /\ users = {} /\ fpc = "idle"
  /\ LET count == IF dentry THEN i_count - 1 ELSE i_count IN
       /\ i_count' = count
       /\ cached' = (cached /\ count > 0)
       /\ disk' = IF "meta" \in dirty THEN ram ELSE disk
       /\ ram' = IF count > 0 THEN ram ELSE [f \in Fields |-> 0]
  /\ dentry' = FALSE
  /\ dirty' = {}
  /\ medium' = disk'
  /\ mounted' = FALSE
  /\ UNCHANGED <<kgps, users, i_mutex, i_gps_lock, taskVars, flusherVars, kind>>

Mount ==
  /\ ~mounted /\ ~cached
  /\ mounted' = TRUE
  /\ UNCHANGED <<kgps, ram, disk, inodeVars, dirty, i_mutex, i_gps_lock,
                 taskVars, flusherVars, bufferVars>>

-----------------------------------------------------------------------------
(* The callers of ext2_set_gps                                             *)

\* mutant: a directory operation that does not take i_mutex
StartDirOp_NoMutex(t) ==
  /\ kind[t] = "dirop" /\ pc[t] = "idle"
  /\ Lookup(t)
  /\ pc' = [pc EXCEPT ![t] = "snap"]
  /\ UNCHANGED <<kgps, disk, dirty, i_mutex, i_gps_lock, ver, buf, pos,
                 flusherVars, mounted, bufferVars>>

StartDirOp(t) ==
  /\ kind[t] = "dirop" /\ pc[t] = "idle" /\ i_mutex = {}
  /\ Lookup(t)
  /\ i_mutex' = {t}
  /\ pc' = [pc EXCEPT ![t] = "snap"]
  /\ UNCHANGED <<kgps, disk, dirty, i_gps_lock, ver, buf, pos, flusherVars, mounted, bufferVars>>

StartIoctl(t) ==
  /\ kind[t] = "ioctl" /\ pc[t] = "idle"
  /\ Lookup(t)
  /\ pc' = [pc EXCEPT ![t] = "snap"]
  /\ UNCHANGED <<kgps, disk, dirty, i_mutex, i_gps_lock, ver, buf, pos,
                 flusherVars, mounted, bufferVars>>

\* f_op->write dirties the pages it touches, and the inode if its size or
\* its times change.  If it wrote nothing, there is no vfs_set_gps.
StartWrite(t) ==
  /\ kind[t] = "write" /\ pc[t] = "idle"
  /\ Lookup(t)
  /\ \/ /\ \E flags \in {{"pages"}, {"meta"}, DirtyFlag} : dirty' = dirty \cup flags
        /\ pc' = [pc EXCEPT ![t] = "snap"]
     \/ /\ pc' = [pc EXCEPT ![t] = "put"]
        /\ UNCHANGED dirty
  /\ UNCHANGED <<kgps, disk, i_mutex, i_gps_lock, ver, buf, pos, flusherVars, mounted, bufferVars>>

\* get_current_location(&k_gps), before i_gps_lock is taken.
SetSnapshot(t) ==
  /\ pc[t] = "snap"
  /\ ver' = [ver EXCEPT ![t] = kgps]
  /\ pc' = [pc EXCEPT ![t] = "lock"]
  /\ UNCHANGED <<kgps, ram, disk, inodeVars, dirty, i_mutex, i_gps_lock, buf,
                 pos, flusherVars, mounted, bufferVars>>

SetLock(t) ==
  /\ pc[t] = "lock"
  /\ CanWriteLock(i_gps_lock)
  /\ i_gps_lock' = WriteLocked
  /\ pos' = [pos EXCEPT ![t] = 1]
  /\ pc' = [pc EXCEPT ![t] = "store"]
  /\ UNCHANGED <<kgps, ram, disk, inodeVars, dirty, i_mutex, ver, buf,
                 flusherVars, mounted, bufferVars>>

SetField(t) ==
  /\ pc[t] = "store"
  /\ ram' = [ram EXCEPT ![pos[t]] = ver[t]]
  /\ pos' = [pos EXCEPT ![t] = (@ % NFields) + 1]
  /\ pc' = [pc EXCEPT ![t] = IF pos[t] = NFields THEN "check" ELSE "store"]
  /\ UNCHANGED <<kgps, disk, inodeVars, dirty, i_mutex, i_gps_lock, ver, buf,
                 flusherVars, mounted, bufferVars>>

\* if (inode->i_state & I_DIRTY) mark_inode_dirty(inode)
SetCheckDirty(t) ==
  /\ pc[t] = "check"
  /\ pc' = [pc EXCEPT ![t] = IF dirty # {} THEN "redirty" ELSE "unlock"]
  /\ UNCHANGED <<kgps, ram, disk, inodeVars, dirty, i_mutex, i_gps_lock, ver,
                 buf, pos, flusherVars, mounted, bufferVars>>

SetRedirty(t) ==
  /\ pc[t] = "redirty"
  /\ dirty' = DirtyFlag
  /\ pc' = [pc EXCEPT ![t] = "unlock"]
  /\ UNCHANGED <<kgps, ram, disk, inodeVars, i_mutex, i_gps_lock, ver, buf,
                 pos, flusherVars, mounted, bufferVars>>

SetUnlock(t) ==
  /\ pc[t] = "unlock"
  /\ i_gps_lock' = Unlocked
  /\ ver' = [ver EXCEPT ![t] = 0]
  /\ pc' = [pc EXCEPT ![t] = IF kind[t] = "write" THEN "put" ELSE "mark"]
  /\ UNCHANGED <<kgps, ram, disk, inodeVars, dirty, i_mutex, buf, pos,
                 flusherVars, mounted, bufferVars>>

\* mutant: the caller relies on ext2_set_gps to mark the inode
MarkDirty_Missing(t) ==
  /\ pc[t] = "mark"
  /\ i_mutex' = i_mutex \ {t}
  /\ pc' = [pc EXCEPT ![t] = "put"]
  /\ UNCHANGED <<kgps, ram, disk, inodeVars, dirty, i_gps_lock, ver, buf, pos,
                 flusherVars, mounted, bufferVars>>

\* mark_inode_dirty(inode) of the caller, which then drops i_mutex.  (Not of
\* the two callers that synchronise the inode instead, see above.)
MarkDirty(t) ==
  /\ pc[t] = "mark"
  /\ dirty' = DirtyFlag
  /\ i_mutex' = i_mutex \ {t}
  /\ pc' = [pc EXCEPT ![t] = "put"]
  /\ UNCHANGED <<kgps, ram, disk, inodeVars, i_gps_lock, ver, buf, pos,
                 flusherVars, mounted, bufferVars>>

\* fput or path_put at the end of the system call.
Put(t) ==
  /\ pc[t] = "put"
  /\ PathPut(t)
  /\ pc' = [pc EXCEPT ![t] = "idle"]
  /\ UNCHANGED <<kgps, ram, disk, cached, i_count, dentry, dirty, i_mutex,
                 i_gps_lock, ver, buf, pos, flusherVars, mounted, bufferVars>>

-----------------------------------------------------------------------------
(* ext2_get_gps                                                            *)

\* The path is looked up, and ext2_iget takes a reference of its own, which
\* nothing gives back.
StartGet(t) ==
  /\ kind[t] = "get" /\ pc[t] = "idle"
  /\ mounted
  /\ i_count < MaxCount
  /\ users' = users \cup {t}
  /\ dentry' = TRUE
  /\ i_count' = IF dentry THEN i_count + 1 ELSE i_count + 2
  /\ cached' = TRUE
  /\ ram' = IF cached THEN ram ELSE disk
  /\ pc' = [pc EXCEPT ![t] = "rlock"]
  /\ UNCHANGED <<kgps, disk, dirty, i_mutex, i_gps_lock, ver, buf, pos,
                 flusherVars, mounted, bufferVars>>

GetLock(t) ==
  /\ pc[t] = "rlock"
  /\ CanReadLock(i_gps_lock)
  /\ i_gps_lock' = ReadLocked(i_gps_lock)
  /\ pos' = [pos EXCEPT ![t] = 1]
  /\ pc' = [pc EXCEPT ![t] = "read"]
  /\ UNCHANGED <<kgps, ram, disk, inodeVars, dirty, i_mutex, ver, buf,
                 flusherVars, mounted, bufferVars>>

GetField(t) ==
  /\ pc[t] = "read"
  /\ buf' = [buf EXCEPT ![t][pos[t]] = ram[pos[t]]]
  /\ pos' = [pos EXCEPT ![t] = (@ % NFields) + 1]
  /\ pc' = [pc EXCEPT ![t] = IF pos[t] = NFields THEN "runlock" ELSE "read"]
  /\ UNCHANGED <<kgps, ram, disk, inodeVars, dirty, i_mutex, i_gps_lock, ver,
                 flusherVars, mounted, bufferVars>>

\* What was read is the caller's from here on.
GetUnlock(t) ==
  /\ pc[t] = "runlock"
  /\ i_gps_lock' = ReadUnlocked(i_gps_lock)
  /\ buf' = [buf EXCEPT ![t] = [f \in Fields |-> 0]]
  /\ pc' = [pc EXCEPT ![t] = "put"]
  /\ UNCHANGED <<kgps, ram, disk, inodeVars, dirty, i_mutex, ver, pos,
                 flusherVars, mounted, bufferVars>>

-----------------------------------------------------------------------------
(* The flusher: writeback_single_inode and __ext2_write_inode              *)

\* mutant: all dirty flags are reset before the pages are written
FlushPages_ClearsAll ==
  /\ fpc = "idle" /\ cached /\ dirty # {}
  /\ dirty' = {}
  /\ fpc' = "clear"
  /\ UNCHANGED <<kgps, ram, disk, inodeVars, i_mutex, i_gps_lock, taskVars,
                 fpos, mounted, bufferVars>>

\* I_SYNC is set, I_DIRTY_PAGES reset, and the pages are written.
FlushPages ==
  /\ fpc = "idle" /\ cached /\ dirty # {}
  /\ dirty' = dirty \ {"pages"}
  /\ fpc' = "clear"
  /\ UNCHANGED <<kgps, ram, disk, inodeVars, i_mutex, i_gps_lock, taskVars,
                 fpos, mounted, bufferVars>>

\* The metadata flags are cleared right before write_inode.
FlushClear ==
  /\ fpc = "clear"
  /\ dirty' = dirty \ {"meta"}
  /\ fpc' = IF "meta" \in dirty THEN "copy" ELSE "end"
  /\ fpos' = 1
  /\ UNCHANGED <<kgps, ram, disk, inodeVars, i_mutex, i_gps_lock, taskVars,
                 mounted, bufferVars>>

\* __ext2_write_inode copies i_gps, and does not take i_gps_lock.
FlushField ==
  /\ fpc = "copy"
  /\ disk' = [disk EXCEPT ![fpos] = ram[fpos]]
  /\ fpos' = (fpos % NFields) + 1
  /\ fpc' = IF fpos = NFields THEN "end" ELSE "copy"
  /\ UNCHANGED <<kgps, ram, inodeVars, dirty, i_mutex, i_gps_lock, taskVars,
                 mounted, bufferVars>>

\* mutant: the metadata flags are cleared after write_inode
FlushEnd_ClearsMeta ==
  /\ fpc = "end"
  /\ \E left \in {{}, {"pages"}} : dirty' = (dirty \ {"meta"}) \cup left
  /\ fpc' = "idle"
  /\ UNCHANGED <<kgps, ram, disk, inodeVars, i_mutex, i_gps_lock, taskVars,
                 fpos, mounted, bufferVars>>

\* I_SYNC is reset; pages dirtied in the meantime leave I_DIRTY_PAGES set.
FlushEnd ==
  /\ fpc = "end"
  /\ \E left \in {{}, {"pages"}} : dirty' = dirty \cup left
  /\ fpc' = "idle"
  /\ UNCHANGED <<kgps, ram, disk, inodeVars, i_mutex, i_gps_lock, taskVars,
                 fpos, mounted, bufferVars>>

\* The flusher of the block device, whose pages hold the inode table, writes
\* the dirty buffer (do_writepages for the device's inode).
WriteBuffer ==
  /\ medium # disk
  /\ medium' = disk
  /\ UNCHANGED <<kind, kgps, ram, disk, inodeVars, dirty, i_mutex, i_gps_lock,
                 taskVars, flusherVars, mounted>>

-----------------------------------------------------------------------------
SetGps(t) ==
  \/ SetSnapshot(t) \/ SetLock(t) \/ SetField(t) \/ SetCheckDirty(t)
  \/ SetRedirty(t) \/ SetUnlock(t)

GetGps(t) == GetLock(t) \/ GetField(t) \/ GetUnlock(t)

Step(t) == SetGps(t) \/ MarkDirty(t) \/ GetGps(t) \/ Put(t)

Start(t) == StartDirOp(t) \/ StartIoctl(t) \/ StartWrite(t) \/ StartGet(t)

Flush == FlushPages \/ FlushClear \/ FlushField \/ FlushEnd

Next ==
  \/ NewFix \/ Flush \/ WriteBuffer \/ ShrinkDcache \/ PruneIcache \/ Unmount \/ Mount
  \/ \E t \in Tasks : Start(t) \/ Step(t)

Spec == Init /\ [][Next]_vars

(* A system call under way goes on, and the flushers wake up again and     *)
(* again (every 5 seconds by default) as long as something is dirty.       *)
Fairness ==
  /\ WF_vars(Flush) /\ WF_vars(WriteBuffer)
  /\ \A t \in Tasks : WF_vars(Step(t))

FairSpec == Spec /\ Fairness

-----------------------------------------------------------------------------
(* Correctness                                                             *)

Whole(loc) == \A f, g \in Fields : loc[f] = loc[g]

Storing(t) == pc[t] \in {"store", "check", "redirty", "unlock", "mark"}

NoWrites == \A t \in Tasks : kind[t] # "write"
OnlyDirOps == \A t \in Tasks : kind[t] \notin {"write", "ioctl"}

(* "The GPS information is written whenever an Inode is created or         *)
(* modified, and this includes the case when files are written to"         *)
(* (README:15): an inode that is not dirty, that nobody is modifying and   *)
(* that the flusher is not writing has its location in the inode table     *)
(* (fs/ext2/namei.c:196, fs/fs-writeback.c:417-422).                       *)
EveryLocationSaved ==
  cached /\ "meta" \notin dirty /\ fpc # "copy" /\ (\A t \in Tasks : ~Storing(t))
    => disk = ram

(* This holds of all callers of ext2_set_gps that mark the inode after it, *)
(* so eviction loses nothing they recorded.                                *)
CleanMeansSaved == NoWrites => EveryLocationSaved

(* Nobody in ext2_get_gps ever returns fields of two different locations,  *)
(* although the flusher copies them to disk without i_gps_lock             *)
(* (fs/ext2/inode.c:1492) and ext2_iget reads back what it finds there.    *)
ReadsWhole ==
  NoWrites => \A t \in Tasks : pc[t] = "runlock" => Whole(buf[t])

(* i_mutex makes directory operations record locations in the order in     *)
(* which the kernel received them, although ext2_set_gps reads the         *)
(* location before it takes i_gps_lock (fs/ext2/namei.c:149, 172): what is *)
(* stored with an inode never goes back to an earlier location, neither in *)
(* memory nor on the disk, where a crash would find it.                    *)
NeverGoesBack ==
  [][OnlyDirOps => \A f \in Fields :
       /\ cached /\ cached' => ram[f] <= ram'[f]
       /\ medium[f] <= medium'[f]]_vars

(* A location recorded with an inode reaches the disk.                     *)
GpsReachesDisk ==
  OnlyDirOps => \A v \in Version :
    (cached /\ \A f \in Fields : ram[f] = v) ~> (\A f \in Fields : medium[f] >= v)

(* What is in memory when the inode is marked dirty reaches the inode      *)
(* table, also when a write is what marked it, unless another location     *)
(* replaces it in memory: the flusher resets the mark before it copies     *)
(* (fs/fs-writeback.c:417-422), so a mark made during the copy leads to    *)
(* another one.                                                            *)
DirtyReachesDisk ==
  \A v \in Version :
    (cached /\ "meta" \in dirty /\ \A f \in Fields : ram[f] = v)
      ~> (\A f \in Fields : disk[f] = v) \/ (\E f \in Fields : ram[f] # v)


(* "VFS: Busy inodes after unmount" (fs/super.c:396) is never printed: an  *)
(* unmounted file system has no inode left in memory.                      *)
NoBusyInodes == ~mounted => ~cached

=============================================================================
