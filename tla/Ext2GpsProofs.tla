---------------------------- MODULE Ext2GpsProofs ----------------------------
(***************************************************************************)
(* Theorems about Ext2Gps, for any number of tasks, any mix of them, any   *)
(* number of fields and of locations.                                      *)
(***************************************************************************)
EXTENDS Ext2Gps, FiniteSetTheorems, TLAPS

-----------------------------------------------------------------------------
(* The lock word                                                           *)

(* A lock operation always leaves a machine word.                          *)
LEMMA WordArithmetic ==
  ASSUME NEW x \in Int
  PROVE  x % (2 * Bit31) \in LockWord
<1> DEFINE m == 2 * Bit31
<1>1. m \in Nat /\ m > 0
  BY Bit31Assumption
<1> HIDE DEF m
<1>2. x % m \in 0 .. (m - 1)
  BY <1>1
<1> QED
  BY <1>2 DEF m, LockWord

(* The lock word counts up and down, and wraps at its ends.                *)
LEMMA WordCounts ==
  ASSUME NEW w \in LockWord
  PROVE  /\ ReadLocked(w) = IF w = 2 * Bit31 - 1 THEN 0 ELSE w + 1
         /\ ReadUnlocked(w) = IF w = 0 THEN 2 * Bit31 - 1 ELSE w - 1
<1> DEFINE m == 2 * Bit31
<1>1. m \in Nat /\ m > 1 /\ w \in 0 .. m - 1
  BY Bit31Assumption DEF LockWord
<1> HIDE DEF m
<1>2. \A k \in 0 .. m - 1 : k % m = k
  BY <1>1
<1>3. m % m = 0
  BY <1>1
<1>4. (-1) % m = m - 1
  BY <1>1
<1>5. (w + 1) % m = IF w = m - 1 THEN 0 ELSE w + 1
  BY <1>1, <1>2, <1>3
<1>6. (w - 1) % m = IF w = 0 THEN m - 1 ELSE w - 1
  BY <1>1, <1>2, <1>4
<1> QED
  BY <1>5, <1>6 DEF m, ReadLocked, ReadUnlocked

(* The constants of the lock are machine words.                            *)
LEMMA LockConstants == Unlocked \in LockWord /\ WriteLocked \in LockWord
BY Bit31Assumption DEF Unlocked, WriteLocked, LockWord

\* ext2_set_gps and the mark_inode_dirty of its caller.
Setting(t) ==
  pc[t] \in {"snap", "lock", "store", "check", "redirty", "unlock", "mark"}

Getting(t) == pc[t] \in {"rlock", "read", "runlock"}

(* Field after field, and back to the first one.                           *)
LEMMA NextField ==
  ASSUME NEW p \in Fields
  PROVE  /\ (p % NFields) + 1 = IF p = NFields THEN 1 ELSE p + 1
         /\ (p % NFields) + 1 \in Fields
<1>1. NFields \in Nat /\ NFields > 0 /\ p \in 1 .. NFields
  BY Ext2GpsAssumption DEF Fields
<1>2. NFields % NFields = 0
  BY <1>1
<1>3. \A k \in 0 .. NFields - 1 : k % NFields = k
  BY <1>1
<1>4. (p % NFields) + 1 = IF p = NFields THEN 1 ELSE p + 1
  BY <1>1, <1>2, <1>3
<1> QED
  BY <1>1, <1>4 DEF Fields

LEMMA FirstField == 1 \in Fields /\ NFields \in Fields
BY Ext2GpsAssumption DEF Fields

-----------------------------------------------------------------------------
(* Type correctness                                                        *)

(* What keeps i_count in bounds: one reference is the dentry's, the others *)
(* were left by ext2_get_gps.                                              *)
CountInv ==
  /\ dentry => i_count >= 1
  /\ ~dentry => i_count <= MaxCount

TypeInv == TypeOK /\ CountInv

LEMMA TypeInvInit == Init => TypeInv
<1> SUFFICES ASSUME Init PROVE TypeInv
  OBVIOUS
<1> USE Ext2GpsAssumption, LockConstants, FirstField
<1>1. /\ kgps \in Version /\ ram \in [Fields -> Version]
      /\ disk \in [Fields -> Version] /\ medium \in [Fields -> Version]
      /\ ver \in [Tasks -> Version] /\ buf \in [Tasks -> [Fields -> Version]]
  BY DEF Init, Version
<1>2. cached \in BOOLEAN /\ dentry \in BOOLEAN /\ mounted \in BOOLEAN
  BY DEF Init
<1>5. kind \in Mixes /\ i_count \in 0 .. MaxCount + 1
  BY DEF Init
<1>3. /\ users \subseteq Tasks /\ dirty \subseteq DirtyFlag
      /\ i_mutex \subseteq Tasks /\ i_gps_lock \in LockWord
      /\ pc \in [Tasks -> TaskState] /\ pos \in [Tasks -> Fields]
      /\ fpc \in {"idle", "clear", "copy", "end"} /\ fpos \in Fields
  BY DEF Init, TaskState
<1>4. CountInv
  BY DEF Init, CountInv
<1> QED
  BY <1>1, <1>2, <1>3, <1>4, <1>5 DEF TypeInv, TypeOK

LEMMA TypeInvWorld ==
  ASSUME TypeInv,
         \/ NewFix \/ Flush \/ WriteBuffer \/ ShrinkDcache \/ PruneIcache
         \/ Unmount \/ Mount
  PROVE  TypeInv'
<1> USE Ext2GpsAssumption DEF TypeInv, TypeOK, CountInv, Version, DirtyFlag,
        inodeVars, taskVars, flusherVars, bufferVars
<1>1. CASE NewFix
  BY <1>1 DEF NewFix
<1>2. CASE FlushPages
  BY <1>2 DEF FlushPages
<1>3. CASE FlushClear
  BY <1>3, FirstField DEF FlushClear
<1>4. CASE FlushField
  BY <1>4, NextField DEF FlushField
<1>5. CASE FlushEnd
  BY <1>5 DEF FlushEnd
<1>6. CASE WriteBuffer
  BY <1>6 DEF WriteBuffer
<1>7. CASE ShrinkDcache
  <2>1. dentry' \in BOOLEAN /\ ~dentry'
    BY <1>7 DEF ShrinkDcache
  <2>2. i_count' \in 0 .. MaxCount
    BY <1>7 DEF ShrinkDcache
  <2> QED
    BY <1>7, <2>1, <2>2 DEF ShrinkDcache
<1>8. CASE PruneIcache
  <2>1. cached' \in BOOLEAN
    BY <1>8 DEF PruneIcache
  <2>2. ram' \in [Fields -> Version]
    BY <1>8 DEF PruneIcache
  <2> QED
    BY <1>8, <2>1, <2>2 DEF PruneIcache
<1>9. CASE Unmount
  <2>1. i_count' \in 0 .. MaxCount
    BY <1>9 DEF Unmount
  <2>2. cached' \in BOOLEAN /\ mounted' \in BOOLEAN /\ dentry' \in BOOLEAN /\ ~dentry'
    BY <1>9 DEF Unmount
  <2>3. /\ disk' \in [Fields -> Version] /\ medium' \in [Fields -> Version]
        /\ ram' \in [Fields -> Version]
    BY <1>9 DEF Unmount
  <2>4. dirty' \subseteq DirtyFlag
    BY <1>9 DEF Unmount
  <2>5. UNCHANGED <<kgps, users, i_mutex, i_gps_lock, taskVars, flusherVars, kind>>
    BY <1>9 DEF Unmount
  <2> QED
    BY <2>1, <2>2, <2>3, <2>4, <2>5
<1>10. CASE Mount
  BY <1>10 DEF Mount
<1> QED
  BY <1>1, <1>2, <1>3, <1>4, <1>5, <1>6, <1>7, <1>8, <1>9, <1>10 DEF Flush

LEMMA TypeInvStart ==
  ASSUME TypeInv, NEW t \in Tasks, Start(t)
  PROVE  TypeInv'
<1> USE Ext2GpsAssumption DEF TypeInv, TypeOK, CountInv, TaskState, DirtyFlag,
        flusherVars, bufferVars
<1>1. /\ i_count' \in 0 .. MaxCount + 1 /\ i_count' >= 1
      /\ dentry' = TRUE /\ cached' = TRUE
      /\ ram' \in [Fields -> Version] /\ users' \subseteq Tasks
  <2>1. CASE Lookup(t)
    BY <2>1 DEF Lookup
  <2>2. CASE StartGet(t)
    BY <2>2 DEF StartGet
  <2> QED
    BY <2>1, <2>2 DEF Start, StartDirOp, StartIoctl, StartWrite
<1>2. CASE StartDirOp(t)
  BY <1>1, <1>2 DEF StartDirOp
<1>3. CASE StartIoctl(t)
  BY <1>1, <1>3 DEF StartIoctl
<1>4. CASE StartWrite(t)
  BY <1>1, <1>4 DEF StartWrite
<1>5. CASE StartGet(t)
  BY <1>1, <1>5 DEF StartGet
<1> QED
  BY <1>2, <1>3, <1>4, <1>5 DEF Start

LEMMA TypeInvStep ==
  ASSUME TypeInv, NEW t \in Tasks, Step(t)
  PROVE  TypeInv'
<1> USE Ext2GpsAssumption DEF TypeInv, TypeOK, CountInv, TaskState, DirtyFlag,
        inodeVars, flusherVars, bufferVars
<1>0. i_gps_lock \in Int
  BY Bit31Assumption DEF LockWord
<1>1. CASE SetSnapshot(t)
  BY <1>1 DEF SetSnapshot
<1>2. CASE SetLock(t)
  BY <1>2, FirstField, LockConstants DEF SetLock
<1>3. CASE SetField(t)
  BY <1>3, NextField DEF SetField
<1>4. CASE SetCheckDirty(t)
  BY <1>4 DEF SetCheckDirty
<1>5. CASE SetRedirty(t)
  BY <1>5 DEF SetRedirty
<1>6. CASE SetUnlock(t)
  <2>1. ver' \in [Tasks -> Version]
    BY <1>6 DEF SetUnlock, Version
  <2> QED
    BY <1>6, <2>1, LockConstants DEF SetUnlock
<1>7. CASE MarkDirty(t)
  BY <1>7 DEF MarkDirty
<1>8. CASE Put(t)
  BY <1>8 DEF Put, PathPut
<1>9. CASE GetLock(t)
  <2>1. i_gps_lock' \in LockWord
    BY <1>0, <1>9, WordArithmetic DEF GetLock, ReadLocked
  <2> QED
    BY <1>9, <2>1, FirstField DEF GetLock
<1>10. CASE GetField(t)
  BY <1>10, NextField DEF GetField
<1>11. CASE GetUnlock(t)
  <2>1. i_gps_lock' \in LockWord
    BY <1>0, <1>11, WordArithmetic DEF GetUnlock, ReadUnlocked
  <2>2. buf' \in [Tasks -> [Fields -> Version]]
    BY <1>11 DEF GetUnlock, Version
  <2> QED
    BY <1>11, <2>1, <2>2 DEF GetUnlock
<1> QED
  BY <1>1, <1>2, <1>3, <1>4, <1>5, <1>6, <1>7, <1>8, <1>9, <1>10, <1>11
     DEF Step, SetGps, GetGps

LEMMA TypeInvNext == TypeInv /\ [Next]_vars => TypeInv'
<1> SUFFICES ASSUME TypeInv, [Next]_vars PROVE TypeInv'
  OBVIOUS
<1>1. CASE UNCHANGED vars
  BY <1>1 DEF vars, inodeVars, taskVars, flusherVars, bufferVars, TypeInv,
              TypeOK, CountInv
<1>2. CASE Next
  BY <1>2, TypeInvWorld, TypeInvStart, TypeInvStep DEF Next
<1> QED
  BY <1>1, <1>2

-----------------------------------------------------------------------------
(* Who refers to the inode, and who holds i_mutex                          *)

(* A task in a system call holds a path, a path holds the dentry, and the  *)
(* inode is in memory as long as anything refers to it, marks it dirty or  *)
(* writes it.                                                              *)
RefInv ==
  /\ \A t \in Tasks : pc[t] # "idle" => t \in users
  /\ users # {} => dentry
  /\ dentry \/ i_count > 0 \/ dirty # {} \/ fpc # "idle" => cached

(* What a task can be doing, by its kind; a directory operation holds      *)
(* i_mutex from before ext2_set_gps until it has marked the inode.         *)
KindInv ==
  \A t \in Tasks :
    /\ Getting(t) => kind[t] = "get"
    /\ Setting(t) => kind[t] \in {"dirop", "ioctl", "write"}
    /\ pc[t] = "mark" => kind[t] # "write"
    /\ Setting(t) /\ kind[t] = "dirop" => i_mutex = {t}

LEMMA RefInvInit == Init => RefInv /\ KindInv
<1> SUFFICES ASSUME Init PROVE RefInv /\ KindInv
  OBVIOUS
<1>1. /\ \A t \in Tasks : pc[t] = "idle"
      /\ users = {} /\ ~dentry /\ i_count = 0 /\ dirty = {} /\ fpc = "idle"
  BY DEF Init
<1> QED
  BY <1>1 DEF RefInv, KindInv, Getting, Setting

LEMMA RefInvWorld ==
  ASSUME TypeInv, RefInv,
         \/ NewFix \/ Flush \/ WriteBuffer \/ ShrinkDcache \/ PruneIcache
         \/ Unmount \/ Mount
  PROVE  RefInv'
<1> USE Ext2GpsAssumption DEF TypeInv, TypeOK, CountInv, RefInv,
        inodeVars, taskVars, flusherVars, bufferVars
<1>1. CASE NewFix
  BY <1>1 DEF NewFix
<1>2. CASE FlushPages
  BY <1>2 DEF FlushPages
<1>3. CASE FlushClear
  BY <1>3 DEF FlushClear
<1>4. CASE FlushField
  BY <1>4 DEF FlushField
<1>5. CASE FlushEnd
  BY <1>5 DEF FlushEnd
<1>6. CASE WriteBuffer
  BY <1>6 DEF WriteBuffer
<1>7. CASE ShrinkDcache
  BY <1>7 DEF ShrinkDcache
<1>8. CASE PruneIcache
  <2>1. ~dentry /\ i_count = 0 /\ dirty = {} /\ fpc = "idle" /\ users = {}
    BY <1>8 DEF PruneIcache
  <2>2. UNCHANGED <<pc, users, dentry, i_count, dirty, fpc>>
    BY <1>8 DEF PruneIcache
  <2> QED
    BY <2>1, <2>2
<1>9. CASE Unmount
  <2>1. users = {} /\ users' = {} /\ pc' = pc /\ dirty' = {} /\ fpc = "idle" /\ fpc' = fpc
    BY <1>9 DEF Unmount
  <2>2. ~dentry'
    BY <1>9 DEF Unmount
  <2>3. i_count' > 0 => cached'
    BY <1>9 DEF Unmount
  <2> QED
    BY <2>1, <2>2, <2>3
<1>10. CASE Mount
  BY <1>10 DEF Mount
<1> QED
  BY <1>1, <1>2, <1>3, <1>4, <1>5, <1>6, <1>7, <1>8, <1>9, <1>10 DEF Flush

LEMMA RefInvTask ==
  ASSUME TypeInv, RefInv, NEW t \in Tasks, Start(t) \/ Step(t)
  PROVE  RefInv'
<1> USE DEF TypeInv, TypeOK, RefInv, inodeVars, flusherVars
<1>1. CASE Start(t)
  <2>1. dentry' /\ cached' /\ users' = users \cup {t}
    BY <1>1 DEF Start, StartDirOp, StartIoctl, StartWrite, StartGet, Lookup
  <2>2. \A u \in Tasks \ {t} : pc'[u] = pc[u]
    BY <1>1 DEF Start, StartDirOp, StartIoctl, StartWrite, StartGet
  <2> QED
    BY <2>1, <2>2
<1>2. CASE Put(t)
  <2>1. \A u \in Tasks : pc'[u] # "idle" => u \in users'
    BY <1>2 DEF Put, PathPut
  <2>2. users' \subseteq users /\ UNCHANGED <<dentry, i_count, cached, dirty, fpc>>
    BY <1>2 DEF Put, PathPut
  <2> QED
    BY <2>1, <2>2
<1>3. CASE SetGps(t) \/ MarkDirty(t) \/ GetGps(t)
  <2>1. pc[t] # "idle" /\ t \in users /\ cached
    BY <1>3 DEF SetGps, GetGps, SetSnapshot, SetLock, SetField, SetCheckDirty,
                SetRedirty, SetUnlock, MarkDirty, GetLock, GetField, GetUnlock
  <2>2. UNCHANGED <<users, dentry, cached>>
    BY <1>3 DEF SetGps, GetGps, SetSnapshot, SetLock, SetField, SetCheckDirty,
                SetRedirty, SetUnlock, MarkDirty, GetLock, GetField, GetUnlock
  <2>3. \A u \in Tasks \ {t} : pc'[u] = pc[u]
    BY <1>3 DEF SetGps, GetGps, SetSnapshot, SetLock, SetField, SetCheckDirty,
                SetRedirty, SetUnlock, MarkDirty, GetLock, GetField, GetUnlock
  <2> QED
    BY <2>1, <2>2, <2>3
<1> QED
  BY <1>1, <1>2, <1>3 DEF Step

LEMMA KindInvNext == TypeInv /\ KindInv /\ [Next]_vars => KindInv' /\ kind' = kind
<1> SUFFICES ASSUME TypeInv, KindInv, [Next]_vars PROVE KindInv' /\ kind' = kind
  OBVIOUS
<1> USE DEF TypeInv, TypeOK, KindInv, Getting, Setting, taskVars, bufferVars
<1>0. \A u \in Tasks : kind[u] \in {"dirop", "ioctl", "write", "get", "none"}
  BY Ext2GpsAssumption
<1>1. CASE UNCHANGED vars
  BY <1>1 DEF vars
<1>2. CASE NewFix \/ Flush \/ WriteBuffer \/ ShrinkDcache \/ PruneIcache
           \/ Unmount \/ Mount
  <2>1. pc' = pc /\ i_mutex' = i_mutex /\ kind' = kind
    BY <1>2 DEF NewFix, Flush, FlushPages, FlushClear, FlushField, FlushEnd,
                WriteBuffer, ShrinkDcache, PruneIcache, Unmount, Mount
  <2> QED
    BY <2>1
<1>3. ASSUME NEW t \in Tasks, Start(t)
      PROVE  KindInv' /\ kind' = kind
  <2>1. CASE StartDirOp(t)
    BY <2>1 DEF StartDirOp
  <2>2. CASE StartIoctl(t)
    BY <2>2 DEF StartIoctl
  <2>3. CASE StartWrite(t)
    BY <2>3 DEF StartWrite
  <2>4. CASE StartGet(t)
    BY <2>4 DEF StartGet
  <2> QED
    BY <1>3, <2>1, <2>2, <2>3, <2>4 DEF Start
<1>4. ASSUME NEW t \in Tasks, Step(t)
      PROVE  KindInv' /\ kind' = kind
  <2>1. CASE SetGps(t)
    <3>1. i_mutex' = i_mutex /\ kind' = kind /\ \A u \in Tasks \ {t} : pc'[u] = pc[u]
      BY <2>1 DEF SetGps, SetSnapshot, SetLock, SetField, SetCheckDirty,
                  SetRedirty, SetUnlock
    <3>2. /\ Setting(t) /\ pc'[t] \notin {"rlock", "read", "runlock"}
          /\ pc'[t] = "mark" => kind[t] # "write"
      BY <2>1 DEF SetGps, SetSnapshot, SetLock, SetField, SetCheckDirty,
                  SetRedirty, SetUnlock
    <3> QED
      BY <3>1, <3>2
  <2>2. CASE MarkDirty(t)
    BY <1>0, <2>2 DEF MarkDirty
  <2>3. CASE GetGps(t) \/ Put(t)
    BY <2>3 DEF GetGps, GetLock, GetField, GetUnlock, Put
  <2> QED
    BY <1>4, <2>1, <2>2, <2>3 DEF Step
<1> QED
  BY <1>1, <1>2, <1>3, <1>4 DEF Next

LEMMA RefInvNext == TypeInv /\ RefInv /\ [Next]_vars => RefInv'
<1> SUFFICES ASSUME TypeInv, RefInv, [Next]_vars PROVE RefInv'
  OBVIOUS
<1>1. CASE UNCHANGED vars
  BY <1>1 DEF vars, inodeVars, taskVars, flusherVars, RefInv
<1>2. CASE Next
  BY <1>2, RefInvWorld, RefInvTask DEF Next
<1> QED
  BY <1>1, <1>2

-----------------------------------------------------------------------------
(* i_gps_lock                                                              *)

InWrite(t) == pc[t] \in {"store", "check", "redirty", "unlock"}
InRead(t) == pc[t] \in {"read", "runlock"}

Writing == \E t \in Tasks : InWrite(t)
ReadersInside == {t \in Tasks : InRead(t)}

(* One task stores alone, or the lock word counts those that read.         *)
LockInv ==
  /\ \A t, u \in Tasks : InWrite(t) /\ InWrite(u) => t = u
  /\ Writing => ReadersInside = {} /\ i_gps_lock = Bit31
  /\ ~Writing => i_gps_lock = Cardinality(ReadersInside)

LEMMA ReadersCount ==
  /\ IsFiniteSet(ReadersInside)
  /\ Cardinality(ReadersInside) \in Nat
  /\ Cardinality(ReadersInside) < Bit31
  /\ Cardinality(ReadersInside) = 0 <=> ReadersInside = {}
<1>1. IsFiniteSet(Tasks) /\ ReadersInside \subseteq Tasks
  BY Ext2GpsAssumption DEF ReadersInside
<1>2. IsFiniteSet(ReadersInside) /\ Cardinality(ReadersInside) <= Cardinality(Tasks)
  BY <1>1, FS_Subset
<1>3. Cardinality(ReadersInside) \in Nat /\ Cardinality(Tasks) \in Nat
  BY <1>1, <1>2, FS_CardinalityType
<1>4. Cardinality(ReadersInside) = 0 <=> ReadersInside = {}
  BY <1>2, FS_EmptySet
<1> QED
  BY <1>2, <1>3, <1>4, Ext2GpsAssumption, Bit31Assumption

LEMMA LockInvInit == Init => LockInv
<1> SUFFICES ASSUME Init PROVE LockInv
  OBVIOUS
<1>1. \A t \in Tasks : ~InWrite(t) /\ ~InRead(t)
  BY DEF Init, InWrite, InRead
<1>2. i_gps_lock = 0
  BY DEF Init, Unlocked
<1>3. ReadersInside = {} /\ ~Writing
  BY <1>1 DEF ReadersInside, Writing
<1> QED
  BY <1>1, <1>2, <1>3, ReadersCount DEF LockInv

(* Steps that move no task across a lock operation.                        *)
LEMMA LockInvFrame ==
  ASSUME LockInv, i_gps_lock' = i_gps_lock,
         \A t \in Tasks : (InWrite(t)' <=> InWrite(t)) /\ (InRead(t)' <=> InRead(t))
  PROVE  LockInv'
<1>1. ReadersInside' = ReadersInside /\ (Writing' <=> Writing)
  BY DEF ReadersInside, Writing
<1> QED
  BY <1>1 DEF LockInv

LEMMA LockInvStep ==
  ASSUME TypeInv, LockInv, NEW t \in Tasks, Step(t)
  PROVE  LockInv'
<1> USE DEF TypeInv, TypeOK
<1>1. CASE SetLock(t)
  <2>1. i_gps_lock = 0 /\ i_gps_lock' = Bit31
    BY <1>1 DEF SetLock, CanWriteLock, Unlocked, WriteLocked
  <2>2. ~Writing
    BY <2>1, Bit31Assumption DEF LockInv
  <2>3. ReadersInside = {}
    BY <2>1, <2>2, ReadersCount DEF LockInv
  <2>4. \A u \in Tasks : (InWrite(u)' <=> u = t) /\ (InRead(u)' <=> InRead(u))
    BY <1>1, <2>2 DEF SetLock, InWrite, InRead, Writing
  <2>5. Writing' /\ ReadersInside' = {}
    BY <2>3, <2>4 DEF Writing, ReadersInside
  <2> QED
    BY <2>1, <2>4, <2>5 DEF LockInv
<1>2. CASE SetUnlock(t)
  <2>1. InWrite(t) /\ i_gps_lock' = 0
    BY <1>2 DEF SetUnlock, InWrite, Unlocked
  <2>2. Writing /\ ReadersInside = {}
    BY <2>1 DEF LockInv, Writing
  <2>3. \A u \in Tasks : ~InWrite(u)' /\ (InRead(u)' <=> InRead(u))
    BY <1>2, <2>1 DEF SetUnlock, InWrite, InRead, LockInv
  <2>4. ~Writing' /\ ReadersInside' = {}
    BY <2>2, <2>3 DEF Writing, ReadersInside
  <2>5. Cardinality({}) = 0
    BY FS_EmptySet
  <2> QED
    BY <2>1, <2>3, <2>4, <2>5 DEF LockInv
<1>3. CASE GetLock(t)
  <2>1. ReadLocked(i_gps_lock) < Bit31 /\ i_gps_lock' = ReadLocked(i_gps_lock)
    BY <1>3 DEF GetLock, CanReadLock
  <2>2. i_gps_lock # Bit31 /\ (i_gps_lock < Bit31 => i_gps_lock' = i_gps_lock + 1)
    BY <2>1, WordCounts, Bit31Assumption DEF LockWord
  <2>3. ~Writing /\ i_gps_lock = Cardinality(ReadersInside)
    BY <2>2 DEF LockInv
  <2>4. \A u \in Tasks : InWrite(u)' <=> InWrite(u)
    BY <1>3 DEF GetLock, InWrite
  <2>5. ~Writing'
    BY <2>3, <2>4 DEF Writing
  <2>6. t \notin ReadersInside /\ ReadersInside' = ReadersInside \cup {t}
    BY <1>3 DEF GetLock, ReadersInside, InRead
  <2>7. Cardinality(ReadersInside') = Cardinality(ReadersInside) + 1
    BY <2>6, ReadersCount, FS_AddElement
  <2> QED
    BY <2>2, <2>3, <2>4, <2>5, <2>7, ReadersCount DEF LockInv
<1>4. CASE GetUnlock(t)
  <2>1. t \in ReadersInside /\ ReadersInside' = ReadersInside \ {t}
    BY <1>4 DEF GetUnlock, ReadersInside, InRead
  <2>2. ~Writing /\ i_gps_lock = Cardinality(ReadersInside)
    BY <2>1 DEF LockInv
  <2>3. \A u \in Tasks : InWrite(u)' <=> InWrite(u)
    BY <1>4 DEF GetUnlock, InWrite
  <2>4. ~Writing'
    BY <2>2, <2>3 DEF Writing
  <2>5. Cardinality(ReadersInside') = Cardinality(ReadersInside) - 1
    BY <2>1, ReadersCount, FS_RemoveElement
  <2>6. i_gps_lock # 0
    BY <2>1, <2>2, ReadersCount
  <2>7. i_gps_lock' = i_gps_lock - 1
    BY <1>4, <2>6, WordCounts DEF GetUnlock
  <2> QED
    BY <2>2, <2>3, <2>4, <2>5, <2>7 DEF LockInv
<1>5. CASE SetSnapshot(t) \/ SetField(t) \/ SetCheckDirty(t) \/ SetRedirty(t)
           \/ MarkDirty(t) \/ GetField(t) \/ Put(t)
  <2>1. i_gps_lock' = i_gps_lock
    BY <1>5 DEF SetSnapshot, SetField, SetCheckDirty, SetRedirty, MarkDirty,
                GetField, Put
  <2>2. \A u \in Tasks : (InWrite(u)' <=> InWrite(u)) /\ (InRead(u)' <=> InRead(u))
    BY <1>5 DEF SetSnapshot, SetField, SetCheckDirty, SetRedirty, MarkDirty,
                GetField, Put, InWrite, InRead
  <2> QED
    BY <2>1, <2>2, LockInvFrame
<1> QED
  BY <1>1, <1>2, <1>3, <1>4, <1>5 DEF Step, SetGps, GetGps

LEMMA LockInvNext == TypeInv /\ LockInv /\ [Next]_vars => LockInv'
<1> SUFFICES ASSUME TypeInv, LockInv, [Next]_vars PROVE LockInv'
  OBVIOUS
<1>1. CASE \E t \in Tasks : Step(t)
  BY <1>1, LockInvStep
<1>2. CASE \E t \in Tasks : Start(t)
  <2>1. PICK t \in Tasks : Start(t)
    BY <1>2
  <2>2. i_gps_lock' = i_gps_lock
    BY <2>1 DEF Start, StartDirOp, StartIoctl, StartWrite, StartGet
  <2>3. \A u \in Tasks : (InWrite(u)' <=> InWrite(u)) /\ (InRead(u)' <=> InRead(u))
    BY <2>1 DEF Start, StartDirOp, StartIoctl, StartWrite, StartGet, InWrite,
                InRead, TypeInv, TypeOK
  <2> QED
    BY <2>2, <2>3, LockInvFrame
<1>3. CASE \/ NewFix \/ Flush \/ WriteBuffer \/ ShrinkDcache \/ PruneIcache
           \/ Unmount \/ Mount \/ UNCHANGED vars
  <2>1. pc' = pc /\ i_gps_lock' = i_gps_lock
    BY <1>3 DEF NewFix, Flush, FlushPages, FlushClear, FlushField, FlushEnd,
                WriteBuffer, ShrinkDcache, PruneIcache, Unmount, Mount, vars,
                taskVars
  <2> QED
    BY <2>1, LockInvFrame DEF InWrite, InRead
<1> QED
  BY <1>1, <1>2, <1>3 DEF Next

(* The lock keeps the fields still while they are read.                    *)
LEMMA ReadersAlone ==
  ASSUME LockInv, NEW t \in Tasks, NEW u \in Tasks, InRead(t)
  PROVE  ~InWrite(u)
BY DEF LockInv, Writing, ReadersInside

-----------------------------------------------------------------------------
(* What is clean is saved                                                  *)

(* As long as nobody is storing and the metadata are not marked, what the  *)
(* flusher has copied of this location, or all of it, is in the table.     *)
SaveInv ==
  NoWrites /\ cached /\ "meta" \notin dirty /\ (\A t \in Tasks : ~Storing(t)) =>
    \A f \in Fields : (fpc = "copy" => f < fpos) => disk[f] = ram[f]

LEMMA SaveInvInit == Init => SaveInv
BY DEF Init, SaveInv

LEMMA SaveInvFrame ==
  ASSUME SaveInv, UNCHANGED <<kind, cached, ram, disk, fpc, fpos>>,
         "meta" \in dirty => "meta" \in dirty',
         \A t \in Tasks : Storing(t) => Storing(t)'
  PROVE  SaveInv'
BY DEF SaveInv, NoWrites

LEMMA SaveInvFlush ==
  ASSUME TypeInv, RefInv, SaveInv, Flush
  PROVE  SaveInv'
<1> USE DEF TypeInv, TypeOK, SaveInv, NoWrites, Storing, inodeVars, taskVars, bufferVars
<1>1. CASE FlushPages
  BY <1>1 DEF FlushPages
<1>2. CASE FlushClear
  <2>1. CASE "meta" \in dirty
    <3>1. fpos' = 1 /\ fpc' = "copy"
      BY <1>2, <2>1 DEF FlushClear
    <3>2. \A f \in Fields : ~(f < fpos')
      BY <3>1 DEF Fields
    <3> QED
      BY <3>1, <3>2
  <2>2. CASE "meta" \notin dirty
    BY <1>2, <2>2 DEF FlushClear
  <2> QED
    BY <2>1, <2>2
<1>3. CASE FlushField
  <2>1. \A f \in Fields : (fpc' = "copy" => f < fpos') => f < fpos \/ f = fpos
    BY <1>3, NextField, Ext2GpsAssumption DEF FlushField, Fields
  <2>2. \A f \in Fields : disk'[f] = IF f = fpos THEN ram[f] ELSE disk[f]
    BY <1>3 DEF FlushField
  <2>3. fpc = "copy" /\ UNCHANGED <<ram, cached, dirty, kind, pc>>
    BY <1>3 DEF FlushField
  <2> QED
    BY <2>1, <2>2, <2>3
<1>4. CASE FlushEnd
  BY <1>4 DEF FlushEnd
<1> QED
  BY <1>1, <1>2, <1>3, <1>4 DEF Flush

(* Reading the inode back, and the last write at unmount.                  *)
LEMMA SaveInvInode ==
  ASSUME TypeInv, RefInv, KindInv, SaveInv,
         (\E t \in Tasks : Start(t)) \/ PruneIcache \/ Unmount
  PROVE  SaveInv'
<1> USE DEF TypeInv, TypeOK, flusherVars, bufferVars, taskVars
<1>1. ASSUME NEW t \in Tasks, Start(t)
      PROVE  SaveInv'
  <2>1. /\ ram' = IF cached THEN ram ELSE disk
        /\ UNCHANGED <<kind, disk, fpc, fpos>>
        /\ "meta" \in dirty => "meta" \in dirty'
    BY <1>1 DEF Start, StartDirOp, StartIoctl, StartWrite, StartGet, Lookup
  <2>2. \A u \in Tasks : Storing(u) => Storing(u)'
    BY <1>1 DEF Start, StartDirOp, StartIoctl, StartWrite, StartGet, Storing
  <2>3. CASE cached
    BY <2>1, <2>2, <2>3 DEF SaveInv, NoWrites
  <2>4. CASE ~cached
    BY <2>1, <2>4 DEF SaveInv
  <2> QED
    BY <2>3, <2>4
<1>2. CASE PruneIcache
  BY <1>2 DEF PruneIcache, SaveInv
<1>3. CASE Unmount
  <2>1. \A t \in Tasks : pc[t] = "idle" /\ ~Storing(t)
    BY <1>3 DEF Unmount, RefInv, Storing
  <2> SUFFICES ASSUME NoWrites, cached' PROVE \A f \in Fields : disk'[f] = ram'[f]
    BY <1>3 DEF SaveInv, Unmount, NoWrites
  <2>2. cached /\ fpc = "idle" /\ ram' = ram /\ disk' = IF "meta" \in dirty THEN ram ELSE disk
    BY <1>3 DEF Unmount
  <2> QED
    BY <2>1, <2>2 DEF SaveInv
<1> QED
  BY <1>1, <1>2, <1>3

LEMMA SaveInvStep ==
  ASSUME TypeInv, KindInv, SaveInv, NEW t \in Tasks, Step(t)
  PROVE  SaveInv'
<1> USE DEF TypeInv, TypeOK, inodeVars, flusherVars, bufferVars
<1>1. CASE MarkDirty(t)
  BY <1>1 DEF MarkDirty, SaveInv, DirtyFlag
<1>2. CASE SetLock(t) \/ SetField(t) \/ SetCheckDirty(t) \/ SetRedirty(t)
  <2>1. Storing(t)'
    BY <1>2 DEF SetLock, SetField, SetCheckDirty, SetRedirty, Storing
  <2> QED
    BY <2>1 DEF SaveInv
<1>3. CASE SetUnlock(t)
  <2>1. kind[t] = "write" \/ Storing(t)'
    BY <1>3 DEF SetUnlock, Storing
  <2>2. kind' = kind
    BY <1>3 DEF SetUnlock
  <2> QED
    BY <2>1, <2>2 DEF SaveInv, NoWrites
<1>4. CASE SetSnapshot(t) \/ GetGps(t) \/ Put(t)
  <2>1. UNCHANGED <<kind, cached, ram, disk, fpc, fpos, dirty>>
    BY <1>4 DEF SetSnapshot, GetGps, GetLock, GetField, GetUnlock, Put
  <2>2. \A u \in Tasks : Storing(u) => Storing(u)'
    BY <1>4 DEF SetSnapshot, GetGps, GetLock, GetField, GetUnlock, Put, Storing
  <2> QED
    BY <2>1, <2>2, SaveInvFrame
<1> QED
  BY <1>1, <1>2, <1>3, <1>4 DEF Step, SetGps

LEMMA SaveInvNext ==
  TypeInv /\ RefInv /\ KindInv /\ SaveInv /\ [Next]_vars => SaveInv'
<1> SUFFICES ASSUME TypeInv, RefInv, KindInv, SaveInv, [Next]_vars PROVE SaveInv'
  OBVIOUS
<1>1. CASE NewFix \/ WriteBuffer \/ ShrinkDcache \/ Mount \/ UNCHANGED vars
  <2>1. UNCHANGED <<kind, cached, ram, disk, fpc, fpos, dirty, pc>>
    BY <1>1 DEF NewFix, WriteBuffer, ShrinkDcache, Mount, vars, inodeVars,
                taskVars, flusherVars, bufferVars
  <2> QED
    BY <2>1, SaveInvFrame DEF Storing
<1>2. CASE (\E t \in Tasks : Start(t)) \/ PruneIcache \/ Unmount
  BY <1>2, SaveInvInode
<1> QED
  BY <1>1, <1>2, SaveInvFlush, SaveInvStep DEF Next

-----------------------------------------------------------------------------
(* What is read is whole                                                   *)

(* A task that stores has stored its own location so far, one that reads   *)
(* has read the one in memory so far; that one is whole when nobody is     *)
(* storing, and so is the one on disk when ext2_iget is going to read it.  *)
WholeInv ==
  /\ \A t \in Tasks :
       /\ pc[t] = "store" => \A f \in Fields : f < pos[t] => ram[f] = ver[t]
       /\ pc[t] = "read" => \A f \in Fields : f < pos[t] => buf[t][f] = ram[f]
  /\ NoWrites =>
       /\ cached /\ (\A t \in Tasks : pc[t] # "store") => Whole(ram)
       /\ ~cached => Whole(disk)
       /\ \A t \in Tasks : pc[t] = "runlock" => Whole(buf[t])

LEMMA WholeInvInit == Init => WholeInv
BY DEF Init, WholeInv, Whole

(* A step of task t that leaves the location in memory alone.              *)
LEMMA WholeInvFrame ==
  ASSUME WholeInv, NEW t \in Tasks,
         cached, UNCHANGED <<cached, kind, disk, ram>>,
         \A u \in Tasks \ {t} :
           pc'[u] = pc[u] /\ ver'[u] = ver[u] /\ buf'[u] = buf[u] /\ pos'[u] = pos[u],
         pc[t] # "store", pc'[t] # "store",
         pc'[t] = "read" => \A f \in Fields : f < pos'[t] => buf'[t][f] = ram[f],
         NoWrites /\ pc'[t] = "runlock" => Whole(buf'[t])
  PROVE  WholeInv'
<1>1. \A u \in Tasks :
        /\ pc'[u] = "store" => \A f \in Fields : f < pos'[u] => ram'[f] = ver'[u]
        /\ pc'[u] = "read" => \A f \in Fields : f < pos'[u] => buf'[u][f] = ram'[f]
  BY DEF WholeInv
<1>2. NoWrites' <=> NoWrites
  BY DEF NoWrites
<1>3. NoWrites => \A u \in Tasks : pc'[u] = "runlock" => Whole(buf'[u])
  BY DEF WholeInv, Whole
<1>4. NoWrites /\ (\A u \in Tasks : pc'[u] # "store") => Whole(ram')
  BY DEF WholeInv, Whole
<1> QED
  BY <1>1, <1>2, <1>3, <1>4 DEF WholeInv

LEMMA WholeInvStart ==
  ASSUME TypeInv, RefInv, KindInv, WholeInv, NEW t \in Tasks, Start(t)
  PROVE  WholeInv'
<1> USE DEF TypeInv, TypeOK
<1>1. /\ ram' = IF cached THEN ram ELSE disk
      /\ cached' /\ UNCHANGED <<kind, disk, ver, buf, pos>>
      /\ pc[t] = "idle" /\ pc'[t] \in {"snap", "put", "rlock"}
      /\ \A u \in Tasks \ {t} : pc'[u] = pc[u]
  BY DEF Start, StartDirOp, StartIoctl, StartWrite, StartGet, Lookup, bufferVars
<1>2. CASE cached
  <2>1. UNCHANGED <<cached, kind, disk, ram>>
    BY <1>1, <1>2
  <2> QED
    BY <1>1, <1>2, <2>1, WholeInvFrame
<1>3. CASE ~cached
  <2>1. \A u \in Tasks : pc[u] = "idle"
    BY <1>3 DEF RefInv
  <2>2. \A u \in Tasks : pc'[u] \notin {"store", "read", "runlock"}
    BY <1>1, <2>1
  <2> QED
    BY <1>1, <1>3, <2>2 DEF WholeInv, NoWrites, Whole
<1> QED
  BY <1>2, <1>3

LEMMA WholeInvWorld ==
  ASSUME TypeInv, RefInv, SaveInv, WholeInv,
         \/ NewFix \/ Flush \/ WriteBuffer \/ ShrinkDcache \/ PruneIcache
         \/ Unmount \/ Mount
  PROVE  WholeInv'
<1> USE DEF TypeInv, TypeOK, inodeVars, taskVars, bufferVars
<1>1. CASE NewFix \/ WriteBuffer \/ ShrinkDcache \/ Mount
  <2>1. UNCHANGED <<kind, cached, ram, disk, pc, ver, buf, pos>>
    BY <1>1 DEF NewFix, WriteBuffer, ShrinkDcache, Mount
  <2> QED
    BY <2>1 DEF WholeInv, NoWrites, Whole
<1>2. CASE Flush
  <2>1. UNCHANGED <<kind, cached, ram, pc, ver, buf, pos>> /\ (disk' = disk \/ cached)
    BY <1>2 DEF Flush, FlushPages, FlushClear, FlushField, FlushEnd, RefInv
  <2> QED
    BY <2>1 DEF WholeInv, NoWrites, Whole
<1>3. CASE PruneIcache \/ Unmount
  <2>1. \A t \in Tasks : pc[t] = "idle" /\ ~Storing(t) /\ pc'[t] = "idle"
    BY <1>3 DEF PruneIcache, Unmount, RefInv, CountInv, Storing
  <2>2. kind' = kind /\ fpc = "idle"
    BY <1>3 DEF PruneIcache, Unmount
  <2>3. ASSUME NoWrites, cached
        PROVE  Whole(ram) /\ \A f \in Fields : "meta" \notin dirty => disk[f] = ram[f]
    BY <2>1, <2>2, <2>3 DEF WholeInv, SaveInv
  <2>4. ASSUME NoWrites, cached'
        PROVE  Whole(ram')
    <3>1. cached /\ ram' = ram
      BY <1>3, <2>4 DEF PruneIcache, Unmount
    <3> QED
      BY <2>3, <2>4, <3>1
  <2>5. ASSUME NoWrites, ~cached'
        PROVE  Whole(disk')
    <3>1. disk' = IF "meta" \in dirty THEN ram ELSE disk
      BY <1>3 DEF PruneIcache, Unmount
    <3>2. ~cached => dirty = {}
      BY DEF RefInv
    <3>3. CASE cached
      BY <2>3, <2>5, <3>1, <3>3 DEF Whole
    <3>4. CASE ~cached
      BY <2>5, <3>1, <3>2, <3>4 DEF WholeInv
    <3> QED
      BY <3>3, <3>4
  <2> QED
    BY <2>1, <2>2, <2>4, <2>5 DEF WholeInv, NoWrites
<1> QED
  BY <1>1, <1>2, <1>3

LEMMA WholeInvStep ==
  ASSUME TypeInv, RefInv, LockInv, WholeInv, NEW t \in Tasks, Step(t)
  PROVE  WholeInv'
<1> USE DEF TypeInv, TypeOK, inodeVars, bufferVars
<1>0. cached /\ cached' = cached /\ kind' = kind /\ disk' = disk
      /\ \A u \in Tasks \ {t} : pc'[u] = pc[u]
  BY DEF Step, SetGps, GetGps, SetSnapshot, SetLock, SetField, SetCheckDirty,
         SetRedirty, SetUnlock, MarkDirty, Put, GetLock, GetField, GetUnlock,
         RefInv
<1>1. CASE SetLock(t)
  <2>1. \A f \in Fields : ~(f < pos'[t])
    BY <1>1 DEF SetLock, Fields
  <2> QED
    BY <1>0, <1>1, <2>1 DEF SetLock, WholeInv, NoWrites, Whole
<1>2. CASE SetField(t)
  <2>1. InWrite(t) /\ \A u \in Tasks \ {t} : ~InWrite(u) /\ ~InRead(u)
    BY <1>2 DEF SetField, InWrite, LockInv, Writing, ReadersInside
  <2>2. \A f \in Fields : ram'[f] = IF f = pos[t] THEN ver[t] ELSE ram[f]
    BY <1>2 DEF SetField
  <2>3. ver' = ver /\ buf' = buf /\ pc[t] = "store"
    BY <1>2 DEF SetField
  <2>4. \A f \in Fields : f < pos[t] \/ f = pos[t] => ram'[f] = ver[t]
    BY <2>2, <2>3 DEF WholeInv
  <2>5. CASE pos[t] = NFields
    <3>1. \A f \in Fields : f < pos[t] \/ f = pos[t]
      BY <2>5, Ext2GpsAssumption DEF Fields
    <3>2. Whole(ram')
      BY <2>4, <3>1 DEF Whole
    <3>3. pc'[t] = "check"
      BY <1>2, <2>5 DEF SetField
    <3>4. \A u \in Tasks : pc'[u] \notin {"store", "read", "runlock"}
      BY <1>0, <2>1, <3>3 DEF InWrite, InRead
    <3> QED
      BY <1>0, <3>2, <3>4 DEF WholeInv
  <2>6. CASE pos[t] # NFields
    <3>1. pos'[t] = pos[t] + 1 /\ pc'[t] = "store"
      BY <1>2, <2>6, NextField DEF SetField
    <3>2. \A f \in Fields : f < pos'[t] => f < pos[t] \/ f = pos[t]
      BY <3>1, Ext2GpsAssumption DEF Fields
    <3>3. \A u \in Tasks \ {t} : pc'[u] \notin {"store", "read", "runlock"}
      BY <1>0, <2>1 DEF InWrite, InRead
    <3> QED
      BY <1>0, <2>3, <2>4, <3>1, <3>2, <3>3 DEF WholeInv
  <2> QED
    BY <2>5, <2>6
<1>3. CASE GetLock(t)
  <2>1. \A f \in Fields : ~(f < pos'[t])
    BY <1>3 DEF GetLock, Fields
  <2> QED
    BY <1>0, <1>3, <2>1 DEF GetLock, WholeInv, NoWrites, Whole
<1>4. CASE GetField(t)
  <2>1. InRead(t) /\ \A u \in Tasks : pc[u] # "store"
    BY <1>4, ReadersAlone DEF GetField, InRead, InWrite
  <2>2. \A f \in Fields : buf'[t][f] = IF f = pos[t] THEN ram[f] ELSE buf[t][f]
    BY <1>4 DEF GetField
  <2>3. ram' = ram /\ ver' = ver /\ pc[t] = "read" /\ pc'[t] # "store"
        /\ \A u \in Tasks \ {t} : buf'[u] = buf[u] /\ pos'[u] = pos[u]
    BY <1>4 DEF GetField
  <2>4. \A f \in Fields : f < pos[t] \/ f = pos[t] => buf'[t][f] = ram[f]
    BY <2>2, <2>3 DEF WholeInv
  <2>5. CASE pos[t] = NFields
    <3>1. \A f \in Fields : f < pos[t] \/ f = pos[t]
      BY <2>5, Ext2GpsAssumption DEF Fields
    <3>2. NoWrites => Whole(buf'[t])
      BY <1>0, <2>1, <2>4, <3>1 DEF Whole, WholeInv
    <3>3. pc'[t] = "runlock"
      BY <1>4, <2>5 DEF GetField
    <3> QED
      BY <1>0, <2>3, <3>2, <3>3, WholeInvFrame
  <2>6. CASE pos[t] # NFields
    <3>1. pos'[t] = pos[t] + 1 /\ pc'[t] = "read"
      BY <1>4, <2>6, NextField DEF GetField
    <3>2. \A f \in Fields : f < pos'[t] => f < pos[t] \/ f = pos[t]
      BY <3>1, Ext2GpsAssumption DEF Fields
    <3>3. \A f \in Fields : f < pos'[t] => buf'[t][f] = ram[f]
      BY <2>4, <3>2
    <3> QED
      BY <1>0, <2>3, <3>1, <3>3, WholeInvFrame
  <2> QED
    BY <2>5, <2>6
<1>5. CASE \/ SetSnapshot(t) \/ SetCheckDirty(t) \/ SetRedirty(t) \/ SetUnlock(t)
           \/ MarkDirty(t) \/ GetUnlock(t) \/ Put(t)
  <2>1. /\ ram' = ram /\ pc[t] # "store"
        /\ pc'[t] \notin {"store", "read", "runlock"}
        /\ \A u \in Tasks \ {t} : ver'[u] = ver[u] /\ buf'[u] = buf[u] /\ pos'[u] = pos[u]
    BY <1>5 DEF SetSnapshot, SetCheckDirty, SetRedirty, SetUnlock, MarkDirty,
                GetUnlock, Put
  <2> QED
    BY <1>0, <2>1, WholeInvFrame
<1> QED
  BY <1>1, <1>2, <1>3, <1>4, <1>5 DEF Step, SetGps, GetGps

LEMMA WholeInvNext ==
  /\ TypeInv /\ RefInv /\ KindInv /\ LockInv /\ SaveInv /\ WholeInv
  /\ [Next]_vars
  => WholeInv'
<1> SUFFICES ASSUME TypeInv, RefInv, KindInv, LockInv, SaveInv, WholeInv, [Next]_vars
             PROVE  WholeInv'
  OBVIOUS
<1>1. CASE UNCHANGED vars
  BY <1>1 DEF vars, inodeVars, taskVars, bufferVars, WholeInv, NoWrites, Whole
<1>2. CASE Next
  BY <1>2, WholeInvStart, WholeInvWorld, WholeInvStep DEF Next
<1> QED
  BY <1>1, <1>2

-----------------------------------------------------------------------------
(* Locations never go back                                                 *)

(* Newer from the medium to the table, from there to the inode in memory,  *)
(* to what a directory operation is about to store, and to the kernel.     *)
OrderInv ==
  OnlyDirOps =>
    /\ \A f \in Fields : medium[f] <= disk[f] /\ disk[f] <= kgps
    /\ cached => \A f \in Fields : disk[f] <= ram[f] /\ ram[f] <= kgps
    /\ \A t \in Tasks : pc[t] \in {"lock", "store"} =>
         ver[t] <= kgps /\ \A f \in Fields : ram[f] <= ver[t]

(* What a step may do to the location: NeverGoesBack, without the box.     *)
Forward ==
  OnlyDirOps => \A f \in Fields :
    /\ cached /\ cached' => ram[f] <= ram'[f]
    /\ medium[f] <= medium'[f]

\* Versions are numbers.
LEMMA VersionsAreNumbers ==
  ASSUME TypeInv
  PROVE  /\ Version \subseteq Nat /\ kgps \in Nat
         /\ \A f \in Fields : ram[f] \in Nat /\ disk[f] \in Nat /\ medium[f] \in Nat
         /\ \A t \in Tasks : ver[t] \in Nat
BY Ext2GpsAssumption DEF TypeInv, TypeOK, Version

LEMMA OrderInvInit == Init => OrderInv
BY DEF Init, OrderInv

(* Without ioctls and writes, at most one task is in ext2_set_gps.         *)
LEMMA OneSetter ==
  ASSUME TypeInv, KindInv, OnlyDirOps, NEW t \in Tasks, NEW u \in Tasks,
         Setting(t), Setting(u)
  PROVE  t = u
BY DEF KindInv, OnlyDirOps

LEMMA OrderInvWorld ==
  ASSUME TypeInv, RefInv, OrderInv,
         \/ NewFix \/ Flush \/ WriteBuffer \/ ShrinkDcache \/ PruneIcache
         \/ Unmount \/ Mount
  PROVE  OrderInv' /\ Forward
<1>a. kind' = kind /\ pc' = pc /\ ver' = ver
  BY DEF NewFix, Flush, FlushPages, FlushClear, FlushField, FlushEnd,
         WriteBuffer, ShrinkDcache, PruneIcache, Unmount, Mount, taskVars,
         bufferVars
<1>b. OnlyDirOps' <=> OnlyDirOps
  BY <1>a DEF OnlyDirOps
<1> SUFFICES ASSUME OnlyDirOps PROVE OrderInv' /\ Forward
  BY <1>b DEF OrderInv, Forward
<1> USE VersionsAreNumbers
<1>1. CASE NewFix
  <2>1. kgps' = kgps + 1 /\ UNCHANGED <<ram, disk, medium, cached>>
    BY <1>1 DEF NewFix, inodeVars, bufferVars
  <2> QED
    BY <1>a, <2>1 DEF OrderInv, Forward
<1>2. CASE Flush
  <2>1. UNCHANGED <<kgps, ram, medium, cached>>
        /\ \/ disk' = disk
           \/ cached /\ fpos \in Fields /\ disk' = [disk EXCEPT ![fpos] = ram[fpos]]
    BY <1>2 DEF Flush, FlushPages, FlushClear, FlushField, FlushEnd, RefInv,
                inodeVars, bufferVars, TypeInv, TypeOK
  <2>2. \A f \in Fields :
          disk'[f] = disk[f] \/ (cached /\ disk'[f] = ram[f])
    BY <2>1 DEF TypeInv, TypeOK
  <2> QED
    BY <1>a, <2>1, <2>2 DEF OrderInv, Forward
<1>3. CASE WriteBuffer
  <2>1. medium' = disk /\ UNCHANGED <<kgps, ram, disk, cached>>
    BY <1>3 DEF WriteBuffer, inodeVars
  <2> QED
    BY <1>a, <2>1 DEF OrderInv, Forward
<1>4. CASE ShrinkDcache \/ Mount
  <2>1. UNCHANGED <<kgps, ram, disk, medium, cached>>
    BY <1>4 DEF ShrinkDcache, Mount, inodeVars, bufferVars
  <2> QED
    BY <1>a, <2>1 DEF OrderInv, Forward
<1>5. CASE PruneIcache
  <2>1. ~cached' /\ UNCHANGED <<kgps, disk, medium>>
    BY <1>5 DEF PruneIcache, bufferVars
  <2>2. \A t \in Tasks : pc[t] = "idle"
    BY <1>5 DEF PruneIcache, RefInv, TypeInv, CountInv
  <2> QED
    BY <1>a, <2>1, <2>2 DEF OrderInv, Forward
<1>6. CASE Unmount
  <2>1. \A t \in Tasks : pc[t] = "idle"
    BY <1>6 DEF Unmount, RefInv
  <2>2. /\ disk' = IF "meta" \in dirty THEN ram ELSE disk
        /\ medium' = disk' /\ kgps' = kgps
        /\ cached' => cached /\ ram' = ram
    BY <1>6 DEF Unmount
  <2>3. "meta" \in dirty => cached
    BY DEF RefInv
  <2>4. \A f \in Fields : disk[f] <= disk'[f] /\ disk'[f] <= kgps
    BY <2>2, <2>3 DEF OrderInv
  <2>5. cached => \A f \in Fields : disk'[f] <= ram[f]
    BY <2>2 DEF OrderInv
  <2>6. \A f \in Fields : disk'[f] \in Nat
    BY <2>2
  <2> QED
    BY <1>a, <2>1, <2>2, <2>4, <2>5, <2>6 DEF OrderInv, Forward
<1> QED
  BY <1>1, <1>2, <1>3, <1>4, <1>5, <1>6

LEMMA OrderInvStart ==
  ASSUME TypeInv, RefInv, OrderInv, NEW t \in Tasks, Start(t)
  PROVE  OrderInv' /\ Forward
<1> USE VersionsAreNumbers
<1>1. /\ ram' = IF cached THEN ram ELSE disk
      /\ cached' /\ UNCHANGED <<kind, disk, medium, ver, kgps>>
      /\ pc'[t] \notin {"lock", "store"}
      /\ \A u \in Tasks \ {t} : pc'[u] = pc[u]
  BY DEF Start, StartDirOp, StartIoctl, StartWrite, StartGet, Lookup,
         bufferVars, TypeInv, TypeOK
<1>2. CASE cached
  BY <1>1, <1>2 DEF OrderInv, Forward, OnlyDirOps
<1>3. CASE ~cached
  <2>1. \A u \in Tasks : pc[u] = "idle"
    BY <1>3 DEF RefInv
  <2> QED
    BY <1>1, <1>3, <2>1 DEF OrderInv, Forward, OnlyDirOps
<1> QED
  BY <1>2, <1>3

LEMMA OrderInvStep ==
  ASSUME TypeInv, RefInv, KindInv, OrderInv, NEW t \in Tasks, Step(t)
  PROVE  OrderInv' /\ Forward
<1>a. /\ cached /\ UNCHANGED <<cached, kind, disk, medium, kgps>>
      /\ \A u \in Tasks \ {t} : pc'[u] = pc[u] /\ ver'[u] = ver[u]
  BY DEF Step, SetGps, GetGps, SetSnapshot, SetLock, SetField, SetCheckDirty,
         SetRedirty, SetUnlock, MarkDirty, Put, GetLock, GetField, GetUnlock,
         RefInv, inodeVars, bufferVars, TypeInv, TypeOK
<1>b. OnlyDirOps' <=> OnlyDirOps
  BY <1>a DEF OnlyDirOps
<1> SUFFICES ASSUME OnlyDirOps PROVE OrderInv' /\ Forward
  BY <1>b DEF OrderInv, Forward
<1> USE VersionsAreNumbers
<1>1. CASE SetSnapshot(t)
  <2>1. ram' = ram /\ ver'[t] = kgps
    BY <1>1 DEF SetSnapshot, TypeInv, TypeOK
  <2> QED
    BY <1>a, <2>1 DEF OrderInv, Forward
<1>2. CASE SetField(t)
  <2>1. pc[t] = "store" /\ ver' = ver /\ pos[t] \in Fields
        /\ ram' = [ram EXCEPT ![pos[t]] = ver[t]]
    BY <1>2 DEF SetField, TypeInv, TypeOK
  <2>2. \A f \in Fields : ram'[f] = ram[f] \/ ram'[f] = ver[t]
    BY <2>1 DEF TypeInv, TypeOK
  <2>3. \A f \in Fields : ram[f] <= ram'[f] /\ ram'[f] <= ver[t] /\ ver[t] <= kgps
    BY <2>1, <2>2 DEF OrderInv
  <2>4. \A u \in Tasks \ {t} : pc'[u] \notin {"lock", "store"}
    BY <1>a, <2>1, OneSetter DEF Setting
  <2>5. \A f \in Fields : ram'[f] \in Nat
    BY <2>2
  <2> QED
    BY <1>a, <2>1, <2>3, <2>4, <2>5 DEF OrderInv, Forward
<1>3. CASE SetLock(t)
  <2>1. ram' = ram /\ ver' = ver /\ pc[t] = "lock"
    BY <1>3 DEF SetLock
  <2> QED
    BY <1>a, <2>1 DEF OrderInv, Forward
<1>4. CASE \/ SetCheckDirty(t) \/ SetRedirty(t) \/ SetUnlock(t) \/ MarkDirty(t)
           \/ GetGps(t) \/ Put(t)
  <2>1. ram' = ram /\ pc'[t] \notin {"lock", "store"}
    BY <1>4 DEF SetCheckDirty, SetRedirty, SetUnlock, MarkDirty, GetGps,
                GetLock, GetField, GetUnlock, Put, TypeInv, TypeOK
  <2> QED
    BY <1>a, <2>1 DEF OrderInv, Forward
<1> QED
  BY <1>1, <1>2, <1>3, <1>4 DEF Step, SetGps

LEMMA OrderInvNext ==
  TypeInv /\ RefInv /\ KindInv /\ OrderInv /\ [Next]_vars => OrderInv' /\ [Forward]_vars
<1> SUFFICES ASSUME TypeInv, RefInv, KindInv, OrderInv, [Next]_vars
             PROVE  OrderInv' /\ [Forward]_vars
  OBVIOUS
<1>1. CASE UNCHANGED vars
  BY <1>1 DEF vars, inodeVars, taskVars, bufferVars, OrderInv, OnlyDirOps
<1>2. CASE Next
  BY <1>2, OrderInvWorld, OrderInvStart, OrderInvStep DEF Next
<1> QED
  BY <1>1, <1>2

-----------------------------------------------------------------------------
Inv == TypeInv /\ RefInv /\ KindInv /\ LockInv /\ SaveInv /\ WholeInv /\ OrderInv

LEMMA InvAlways == Spec => []Inv
<1>1. Init => Inv
  BY TypeInvInit, RefInvInit, LockInvInit, SaveInvInit, WholeInvInit, OrderInvInit
     DEF Inv
<1>2. Inv /\ [Next]_vars => Inv'
  BY TypeInvNext, RefInvNext, KindInvNext, LockInvNext, SaveInvNext,
     WholeInvNext, OrderInvNext DEF Inv
<1> QED
  BY <1>1, <1>2, PTL DEF Spec

(* i_count, and every field, stays in bounds (fs/ext2/namei.c:231).        *)
THEOREM TypeCorrect == Spec => []TypeOK
<1>1. Inv => TypeOK
  BY DEF Inv, TypeInv
<1> QED
  BY <1>1, InvAlways, PTL

(* Callers of ext2_set_gps that mark the inode after it lose no location:  *)
(* a clean inode is in the table as it is in memory, whenever the flusher, *)
(* which takes no i_gps_lock, has run (fs/fs-writeback.c:417-422).         *)
THEOREM CleanIsSaved == Spec => []CleanMeansSaved
<1>1. Inv => CleanMeansSaved
  <2> SUFFICES ASSUME Inv, NoWrites, cached, "meta" \notin dirty, fpc # "copy",
                      \A t \in Tasks : ~Storing(t)
               PROVE  disk = ram
    BY DEF CleanMeansSaved, EveryLocationSaved
  <2>1. \A f \in Fields : disk[f] = ram[f]
    BY DEF Inv, SaveInv
  <2>2. disk \in [Fields -> Version] /\ ram \in [Fields -> Version]
    BY DEF Inv, TypeInv, TypeOK
  <2> QED
    BY <2>1, <2>2
<1> QED
  BY <1>1, InvAlways, PTL

(* ext2_get_gps returns one location, not a mixture of two, also after the *)
(* inode was read back from a table the flusher wrote without i_gps_lock   *)
(* (fs/ext2/inode.c:1492).                                                 *)
THEOREM GetReadsWhole == Spec => []ReadsWhole
<1>1. Inv => ReadsWhole
  BY DEF Inv, WholeInv, ReadsWhole
<1> QED
  BY <1>1, InvAlways, PTL

(* i_mutex orders directory operations: no step replaces a location in     *)
(* memory or on the disk by an older one (fs/ext2/namei.c:149, 172).       *)
THEOREM LocationsGoForward == Spec => NeverGoesBack
<1>1. Inv /\ [Next]_vars => [Forward]_vars
  BY OrderInvNext DEF Inv
<1>2. Spec => [][Forward]_vars
  BY <1>1, InvAlways, PTL DEF Spec
<1> QED
  BY <1>2 DEF Forward, NeverGoesBack

=============================================================================
