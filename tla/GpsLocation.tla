----------------------------- MODULE GpsLocation -----------------------------
(***************************************************************************)
(* The current location of the device, kernel/gps.c: the struct kernel_gps *)
(* and the gps_lock that guards it, written by set_gps_location and read   *)
(* by get_current_location.                                                *)
(*                                                                         *)
(* A location is several machine words and no copy of it is atomic, so     *)
(* every copy is one step per word.  Payloads are abstracted to versions:  *)
(* the n-th accepted call of set_gps_location carries the words n, n, ...  *)
(* and takes the timestamp n; version 0 is the record compiled into the    *)
(* kernel.  Calls never stop coming: those after call MaxSets carry the    *)
(* version MaxSets again.  A word that copy_from_user zeroed after a fault *)
(* is Zeroed.                                                              *)
(***************************************************************************)
EXTENDS ArmRwLock, FiniteSets

CONSTANTS
  Setters,       \* processes that call set_gps_location (gpsd, test gps)
  Readers,       \* kernel threads that call get_current_location
  NWords,        \* machine words of a struct gps_location
  MaxSets,       \* bound: calls of set_gps_location that are told apart
  MaxStray,      \* bound: faulting calls of get_gps_location
  CopyFaults,    \* may copy_from_user fault half way?
  MemcpyFaults   \* may the second access to user memory fault?

ASSUME GpsLocationAssumption ==
  /\ NWords \in Nat \ {0}
  /\ MaxSets \in Nat \ {0}
  /\ MaxStray \in Nat
  /\ CopyFaults \in BOOLEAN
  /\ MemcpyFaults \in BOOLEAN
  /\ IsFiniteSet(Readers)
  /\ Cardinality(Readers) + MaxStray < Bit31

VARIABLES
  gps_lock,   \* the lock word
  loc,        \* kernel_gps.loc, word by word
  stamp,      \* kernel_gps.timestamp
  issued,     \* the version of the last call that was accepted
  spc,        \* where each setter is in set_gps_location
  sver,       \* the version each setter carries
  spos,       \* the next word each setter copies
  sret,       \* what each setter's last call returned
  rpc,        \* where each reader is in get_current_location
  rpos,       \* the next word each reader copies
  rbuf,       \* *result of each reader: the words copied so far
  rstamp,     \* *result of each reader: its timestamp
  stray       \* how many calls of get_gps_location faulted

kernelVars == <<gps_lock, loc, stamp>>
setterVars == <<issued, spc, sver, spos, sret>>
readerVars == <<rpc, rpos, rbuf, rstamp>>
vars == <<kernelVars, setterVars, readerVars, stray>>

Words == 1 .. NWords
Zeroed == -1
Version == 0 .. MaxSets
Word == Version \cup {Zeroed}

SetterState == {"idle", "copy", "lock", "stamp", "memcpy", "unlock", "oops"}
ReaderState == {"idle", "lock", "copy", "stamp", "unlock"}
Result == {"none", "OK", "EACCES", "EINVAL", "EFAULT"}

(* Every word of a location, in the kernel or in a caller's copy, comes    *)
(* from some call of set_gps_location, and a copy (kernel/gps.c:178, 184,  *)
(* 302) never runs past its last word.                                     *)
TypeOK ==
  /\ gps_lock \in LockWord
  /\ loc \in [Words -> Word]
  /\ stamp \in Version
  /\ issued \in Version
  /\ spc \in [Setters -> SetterState]
  /\ sver \in [Setters -> Version]
  /\ spos \in [Setters -> 1 .. NWords + 1]
  /\ sret \in [Setters -> Result]
  /\ rpc \in [Readers -> ReaderState]
  /\ rpos \in [Readers -> 1 .. NWords + 1]
  /\ rbuf \in [Readers -> [Words -> Word]]
  /\ rstamp \in [Readers -> Version]
  /\ stray \in 0 .. MaxStray

Init ==
  /\ gps_lock = Unlocked
  /\ loc = [w \in Words |-> 0]
  /\ stamp = 0
  /\ issued = 0
  /\ spc = [s \in Setters |-> "idle"]
  /\ sver = [s \in Setters |-> 0]
  /\ spos = [s \in Setters |-> 1]
  /\ sret = [s \in Setters |-> "none"]
  /\ rpc = [r \in Readers |-> "idle"]
  /\ rpos = [r \in Readers |-> 1]
  /\ rbuf = [r \in Readers |-> [w \in Words |-> 0]]
  /\ rstamp = [r \in Readers |-> 0]
  /\ stray = 0

-----------------------------------------------------------------------------
(* set_gps_location                                                        *)

\* Not root, or valid_gps finds all three coordinates zero.  (valid_gps reads
\* user memory directly: a fault there kills the caller before it has changed
\* anything.)
SetRejected(s) ==
  /\ spc[s] = "idle"
  /\ \E err \in {"EACCES", "EINVAL"} : sret' = [sret EXCEPT ![s] = err]
  /\ UNCHANGED <<kernelVars, issued, spc, sver, spos, readerVars, stray>>

NextVersion == IF issued < MaxSets THEN issued + 1 ELSE issued

\* mutant: the time is taken when the call starts, without the lock
SetAccepted_StampsFirst(s) ==
  /\ spc[s] = "idle"
  /\ issued' = NextVersion
  /\ stamp' = NextVersion
  /\ spc' = [spc EXCEPT ![s] = "copy"]
  /\ sver' = [sver EXCEPT ![s] = NextVersion]
  /\ spos' = [spos EXCEPT ![s] = 1]
  /\ sret' = [sret EXCEPT ![s] = "none"]
  /\ UNCHANGED <<gps_lock, loc, readerVars, stray>>

\* The checks passed: copy_from_user is about to write kernel_gps.loc.
SetAccepted(s) ==
  /\ spc[s] = "idle"
  /\ issued' = NextVersion
  /\ spc' = [spc EXCEPT ![s] = "copy"]
  /\ sver' = [sver EXCEPT ![s] = NextVersion]
  /\ spos' = [spos EXCEPT ![s] = 1]
  /\ sret' = [sret EXCEPT ![s] = "none"]
  /\ UNCHANGED <<kernelVars, readerVars, stray>>

\* One word of copy_from_user(k_gps, loc, ...): gps_lock is not held.
SetCopyWord(s) ==
  /\ spc[s] = "copy"
  /\ loc' = [loc EXCEPT ![spos[s]] = sver[s]]
  /\ spos' = [spos EXCEPT ![s] = @ + 1]
  /\ spc' = [spc EXCEPT ![s] = IF spos[s] = NWords THEN "lock" ELSE "copy"]
  /\ UNCHANGED <<gps_lock, stamp, issued, sver, sret, readerVars, stray>>

\* copy_from_user faults: it zeroes what is left of its destination.
SetCopyFault(s) ==
  /\ CopyFaults
  /\ spc[s] = "copy"
  /\ loc' = [w \in Words |-> IF w >= spos[s] THEN Zeroed ELSE loc[w]]
  /\ spc' = [spc EXCEPT ![s] = "idle"]
  /\ sret' = [sret EXCEPT ![s] = "EFAULT"]
  /\ UNCHANGED <<gps_lock, stamp, issued, sver, spos, readerVars, stray>>

SetWriteLock(s) ==
  /\ spc[s] = "lock"
  /\ CanWriteLock(gps_lock)
  /\ gps_lock' = WriteLocked
  /\ spc' = [spc EXCEPT ![s] = "stamp"]
  /\ UNCHANGED <<loc, stamp, issued, sver, spos, sret, readerVars, stray>>

\* kernel_gps.timestamp = CURRENT_TIME
SetStamp(s) ==
  /\ spc[s] = "stamp"
  /\ stamp' = sver[s]
  /\ spc' = [spc EXCEPT ![s] = "memcpy"]
  /\ spos' = [spos EXCEPT ![s] = 1]
  /\ UNCHANGED <<gps_lock, loc, issued, sver, sret, readerVars, stray>>

\* mutant: the second copy is dropped as redundant
SetMemcpyWord_Dropped(s) ==
  /\ spc[s] = "memcpy"
  /\ spos' = [spos EXCEPT ![s] = NWords + 1]
  /\ spc' = [spc EXCEPT ![s] = "unlock"]
  /\ UNCHANGED <<kernelVars, issued, sver, sret, readerVars, stray>>

\* mutant: the loop runs one word too far
SetMemcpyWord_OffByOne(s) ==
  /\ spc[s] = "memcpy"
  /\ loc' = [loc EXCEPT ![spos[s]] = sver[s]]
  /\ spos' = [spos EXCEPT ![s] = @ + 1]
  /\ spc' = [spc EXCEPT ![s] = IF spos[s] > NWords THEN "unlock" ELSE "memcpy"]
  /\ UNCHANGED <<gps_lock, stamp, issued, sver, sret, readerVars, stray>>

\* One word of memcpy(k_gps, loc, ...), again from user memory.
SetMemcpyWord(s) ==
  /\ spc[s] = "memcpy"
  /\ loc' = [loc EXCEPT ![spos[s]] = sver[s]]
  /\ spos' = [spos EXCEPT ![s] = @ + 1]
  /\ spc' = [spc EXCEPT ![s] = IF spos[s] = NWords THEN "unlock" ELSE "memcpy"]
  /\ UNCHANGED <<gps_lock, stamp, issued, sver, sret, readerVars, stray>>

\* The user page went away after copy_from_user.  A fault in atomic context
\* has no fixup: the caller is killed where it stands, with gps_lock held.
SetMemcpyFault(s) ==
  /\ MemcpyFaults
  /\ spc[s] = "memcpy"
  /\ spc' = [spc EXCEPT ![s] = "oops"]
  /\ UNCHANGED <<kernelVars, issued, sver, spos, sret, readerVars, stray>>

\* mutant: a return path without write_unlock
SetWriteUnlock_Missing(s) ==
  /\ spc[s] = "unlock"
  /\ spc' = [spc EXCEPT ![s] = "idle"]
  /\ sret' = [sret EXCEPT ![s] = "OK"]
  /\ UNCHANGED <<kernelVars, issued, sver, spos, readerVars, stray>>

SetWriteUnlock(s) ==
  /\ spc[s] = "unlock"
  /\ gps_lock' = Unlocked
  /\ spc' = [spc EXCEPT ![s] = "idle"]
  /\ sret' = [sret EXCEPT ![s] = "OK"]
  /\ UNCHANGED <<loc, stamp, issued, sver, spos, readerVars, stray>>

-----------------------------------------------------------------------------
(* get_current_location                                                    *)

ReadCall(r) ==
  /\ rpc[r] = "idle"
  /\ rpc' = [rpc EXCEPT ![r] = "lock"]
  /\ UNCHANGED <<kernelVars, setterVars, rpos, rbuf, rstamp, stray>>

ReadLock(r) ==
  /\ rpc[r] = "lock"
  /\ CanReadLock(gps_lock)
  /\ gps_lock' = ReadLocked(gps_lock)
  /\ rpc' = [rpc EXCEPT ![r] = "copy"]
  /\ rpos' = [rpos EXCEPT ![r] = 1]
  /\ UNCHANGED <<loc, stamp, setterVars, rbuf, rstamp, stray>>

\* *result = kernel_gps copies the location first, one word at a time ...
ReadCopyWord(r) ==
  /\ rpc[r] = "copy"
  /\ rbuf' = [rbuf EXCEPT ![r][rpos[r]] = loc[rpos[r]]]
  /\ rpos' = [rpos EXCEPT ![r] = @ + 1]
  /\ rpc' = [rpc EXCEPT ![r] = IF rpos[r] = NWords THEN "stamp" ELSE "copy"]
  /\ UNCHANGED <<kernelVars, setterVars, rstamp, stray>>

\* ... and then the timestamp.
ReadCopyStamp(r) ==
  /\ rpc[r] = "stamp"
  /\ rstamp' = [rstamp EXCEPT ![r] = stamp]
  /\ rpc' = [rpc EXCEPT ![r] = "unlock"]
  /\ UNCHANGED <<kernelVars, setterVars, rpos, rbuf, stray>>

\* mutant: a return path without read_unlock
ReadUnlock_Missing(r) ==
  /\ rpc[r] = "unlock"
  /\ rpc' = [rpc EXCEPT ![r] = "idle"]
  /\ UNCHANGED <<kernelVars, setterVars, rpos, rbuf, rstamp, stray>>

ReadUnlock(r) ==
  /\ rpc[r] = "unlock"
  /\ gps_lock' = ReadUnlocked(gps_lock)
  /\ rpc' = [rpc EXCEPT ![r] = "idle"]
  /\ UNCHANGED <<loc, stamp, setterVars, rpos, rbuf, rstamp, stray>>

\* get_gps_location: copy_to_user faults, and the error path releases a read
\* lock that this system call never took.
StrayReadUnlock ==
  /\ stray < MaxStray
  /\ stray' = stray + 1
  /\ gps_lock' = ReadUnlocked(gps_lock)
  /\ UNCHANGED <<loc, stamp, setterVars, readerVars>>

-----------------------------------------------------------------------------
SetStep(s) ==
  \/ SetCopyWord(s) \/ SetCopyFault(s) \/ SetWriteLock(s) \/ SetStamp(s)
  \/ SetMemcpyWord(s) \/ SetMemcpyFault(s) \/ SetWriteUnlock(s)

ReadStep(r) ==
  ReadLock(r) \/ ReadCopyWord(r) \/ ReadCopyStamp(r) \/ ReadUnlock(r)

Next ==
  \/ \E s \in Setters : SetRejected(s) \/ SetAccepted(s) \/ SetStep(s)
  \/ \E r \in Readers : ReadCall(r) \/ ReadStep(r)
  \/ StrayReadUnlock

Spec == Init /\ [][Next]_vars

(* A thread inside a call keeps running; nobody is obliged to make a call. *)
Fairness ==
  /\ \A s \in Setters : WF_vars(SetStep(s))
  /\ \A r \in Readers : WF_vars(ReadStep(r))

FairSpec == Spec /\ Fairness

-----------------------------------------------------------------------------
(* Correctness                                                             *)

InWrite(s) == spc[s] \in {"stamp", "memcpy", "unlock", "oops"}
InRead(r) == rpc[r] \in {"copy", "stamp", "unlock"}

(* Two calls of set_gps_location are never between write_lock and          *)
(* write_unlock together, not even after get_gps_location has released a   *)
(* read lock it did not hold (kernel/gps.c:352).                           *)
WritersExclude ==
  \A s, t \in Setters : InWrite(s) /\ InWrite(t) => s = t

(* gps_lock "protect[s] the gps_location against concurrent modification"  *)
(* (kernel/gps.c:96): no reader is inside get_current_location's critical  *)
(* section while a setter is inside the one of set_gps_location, until     *)
(* get_gps_location has released a read lock it did not hold.              *)
ReadersExcludeWriters ==
  stray = 0 => \A s \in Setters, r \in Readers : ~(InWrite(s) /\ InRead(r))

OneSetter == \A s, t \in Setters : sver[s] # 0 /\ sver[t] # 0 => s = t

(* As long as only one process, the daemon, has set a location, a snapshot *)
(* may mix words of two locations, but none of its words is older than the *)
(* time it carries: set_gps_location copies the location before it takes   *)
(* the time, get_current_location reads it before it reads the time.       *)
NoWordOlderThanStamp ==
  OneSetter /\ stray = 0 =>
    \A r \in Readers : rpc[r] = "unlock" =>
      \A w \in Words : rbuf[r][w] = Zeroed \/ rbuf[r][w] >= rstamp[r]

\* The last location that s set was copied in part only.
HalfWay(s) == spc[s] = "idle" /\ sver[s] # 0 /\ spos[s] <= NWords

(* However many calls of set_gps_location overlapped, once they are over   *)
(* the kernel holds one whole location with its own time, unless the last  *)
(* copy of one of the callers failed half way in copy_from_user: the       *)
(* second copy, made under the lock, repairs what the unlocked first       *)
(* copies of others left.                                                  *)
QuietLocationIsWhole ==
  (\A s \in Setters : spc[s] = "idle" /\ ~HalfWay(s))
    => \A w \in Words : loc[w] = stamp

(* What the comment on gps_lock promises (kernel/gps.c:96): a snapshot is  *)
(* one location, the one its time belongs to.                              *)
SnapshotIsWhole ==
  \A r \in Readers : rpc[r] = "unlock" =>
    \A w \in Words : rbuf[r][w] = rstamp[r]

\* A setter was killed with the lock, or an unlock released nobody's lock.
LockLost == stray > 0 \/ \E s \in Setters : spc[s] = "oops"

\* Somebody in S takes the write lock again and again.
WritersKeepComing(S) == []<><<\E s \in S : SetWriteLock(s)>>_vars
ReadersKeepComing == []<><<\E r \in Readers : ReadLock(r)>>_vars

(* "Stores the current gps information in result" (kernel/gps.c:294): a    *)
(* call of get_current_location returns, unless a fault under the lock or  *)
(* a stray unlock spoiled it.  The lock is a spin lock without a queue     *)
(* (arch/arm/include/asm/spinlock.h:204-220), so there is one more way to  *)
(* wait for ever: set_gps_location takes the lock again and again, each    *)
(* time just before the reader looks.  A single call of it, or finitely    *)
(* many, cannot keep a reader out.                                         *)
ReadsReturn ==
  \A r \in Readers :
    \/ []<>(rpc[r] = "idle")
    \/ WritersKeepComing(Setters)
    \/ <>LockLost

(* Likewise a call of set_gps_location returns, unless others take the     *)
(* lock again and again, readers (which the lock lets in as long as one of *)
(* them is inside) or other setters, or the lock is lost.                  *)
SetsReturn ==
  \A s \in Setters :
    \/ []<>(spc[s] = "idle")
    \/ ReadersKeepComing
    \/ WritersKeepComing(Setters \ {s})
    \/ <>LockLost

=============================================================================
