-------------------------- MODULE GpsLocationProofs --------------------------
(***************************************************************************)
(* Theorems about GpsLocation, for every number of setters, readers, words *)
(* and calls.  They include the calls of get_gps_location that release a   *)
(* read lock they did not take: LockInv counts what those leave behind.    *)
(***************************************************************************)
EXTENDS GpsLocation, FiniteSetTheorems, TLAPS

-----------------------------------------------------------------------------
(* The lock word                                                           *)

(* A lock operation always leaves a machine word.                          *)
LEMMA WordArithmetic ==
  ASSUME NEW x \in Int
  PROVE  x % (2 * Bit31) \in LockWord
<1> DEFINE m == 2 * Bit31
<1>1. m \in Nat /\ m > 0
  BY Bit31Assumption
<1> HIDE DEF m
<1>2. x % m \in 0 .. (m - 1)
  BY <1>1
<1> QED
  BY <1>2 DEF m, LockWord

(* The lock word counts up and down, and wraps at its ends.                *)
LEMMA WordCounts ==
  ASSUME NEW w \in LockWord
  PROVE  /\ ReadLocked(w) = IF w = 2 * Bit31 - 1 THEN 0 ELSE w + 1
         /\ ReadUnlocked(w) = IF w = 0 THEN 2 * Bit31 - 1 ELSE w - 1
<1> DEFINE m == 2 * Bit31
<1>1. m \in Nat /\ m > 1 /\ w \in 0 .. m - 1
  BY Bit31Assumption DEF LockWord
<1> HIDE DEF m
<1>2. \A k \in 0 .. m - 1 : k % m = k
  BY <1>1
<1>3. m % m = 0
  BY <1>1
<1>4. (-1) % m = m - 1
  BY <1>1
<1>5. (w + 1) % m = IF w = m - 1 THEN 0 ELSE w + 1
  BY <1>1, <1>2, <1>3
<1>6. (w - 1) % m = IF w = 0 THEN m - 1 ELSE w - 1
  BY <1>1, <1>2, <1>4
<1> QED
  BY <1>5, <1>6 DEF m, ReadLocked, ReadUnlocked

(* The constants of the lock are machine words.                            *)
LEMMA LockConstants == Unlocked \in LockWord /\ WriteLocked \in LockWord
BY Bit31Assumption DEF Unlocked, WriteLocked, LockWord

-----------------------------------------------------------------------------
(* Type correctness                                                        *)

(* A copy that is under way has a word left to copy.                       *)
CopiesInBounds ==
  /\ \A s \in Setters : spc[s] \in {"copy", "memcpy"} => spos[s] <= NWords
  /\ \A r \in Readers : rpc[r] = "copy" => rpos[r] <= NWords

TypeInv == TypeOK /\ CopiesInBounds

LEMMA TypeInvInit == Init => TypeInv
BY LockConstants, GpsLocationAssumption
   DEF Init, TypeInv, TypeOK, CopiesInBounds, Words, Version, Word,
       SetterState, ReaderState, Result

(* Every step of a setter keeps the type invariant.                        *)
LEMMA TypeInvSetter ==
  ASSUME TypeInv, NEW s \in Setters,
         SetRejected(s) \/ SetAccepted(s) \/ SetStep(s)
  PROVE  TypeInv'
<1> USE GpsLocationAssumption DEF TypeInv, TypeOK, CopiesInBounds, Words,
        Version, Word, SetterState, Result, kernelVars, readerVars
<1>1. CASE SetRejected(s)
  BY <1>1 DEF SetRejected
<1>2. CASE SetAccepted(s)
  BY <1>2 DEF SetAccepted, NextVersion
<1>3. CASE SetCopyWord(s)
  BY <1>3 DEF SetCopyWord
<1>4. CASE SetCopyFault(s)
  BY <1>4 DEF SetCopyFault
<1>5. CASE SetWriteLock(s)
  BY <1>5, LockConstants DEF SetWriteLock
<1>6. CASE SetStamp(s)
  BY <1>6 DEF SetStamp
<1>7. CASE SetMemcpyWord(s)
  BY <1>7 DEF SetMemcpyWord
<1>8. CASE SetMemcpyFault(s)
  BY <1>8 DEF SetMemcpyFault
<1>9. CASE SetWriteUnlock(s)
  BY <1>9, LockConstants DEF SetWriteUnlock
<1> QED
  BY <1>1, <1>2, <1>3, <1>4, <1>5, <1>6, <1>7, <1>8, <1>9 DEF SetStep

(* Every step of a reader, and a stray unlock, keeps the type invariant.   *)
LEMMA TypeInvReader ==
  ASSUME TypeInv,
         \/ \E r \in Readers : ReadCall(r) \/ ReadStep(r)
         \/ StrayReadUnlock
  PROVE  TypeInv'
<1> USE GpsLocationAssumption DEF TypeInv, TypeOK, CopiesInBounds, Words,
        Version, Word, ReaderState, kernelVars, setterVars, readerVars
<1>1. gps_lock \in Int
  BY Bit31Assumption DEF LockWord
<1>2. ASSUME NEW r \in Readers, ReadCall(r)
      PROVE  TypeInv'
  BY <1>2 DEF ReadCall
<1>3. ASSUME NEW r \in Readers, ReadLock(r)
      PROVE  TypeInv'
  <2>1. gps_lock' \in LockWord
    BY <1>1, <1>3, WordArithmetic DEF ReadLock, ReadLocked
  <2> QED
    BY <1>3, <2>1 DEF ReadLock
<1>4. ASSUME NEW r \in Readers, ReadCopyWord(r)
      PROVE  TypeInv'
  BY <1>4 DEF ReadCopyWord
<1>5. ASSUME NEW r \in Readers, ReadCopyStamp(r)
      PROVE  TypeInv'
  BY <1>5 DEF ReadCopyStamp
<1>6. ASSUME NEW r \in Readers, ReadUnlock(r)
      PROVE  TypeInv'
  <2>1. gps_lock' \in LockWord
    BY <1>1, <1>6, WordArithmetic DEF ReadUnlock, ReadUnlocked
  <2> QED
    BY <1>6, <2>1 DEF ReadUnlock
<1>7. ASSUME StrayReadUnlock
      PROVE  TypeInv'
  <2>1. gps_lock' \in LockWord
    BY <1>1, <1>7, WordArithmetic DEF StrayReadUnlock, ReadUnlocked
  <2> QED
    BY <1>7, <2>1 DEF StrayReadUnlock
<1> QED
  BY <1>2, <1>3, <1>4, <1>5, <1>6, <1>7 DEF ReadStep

LEMMA TypeInvNext == TypeInv /\ [Next]_vars => TypeInv'
<1> SUFFICES ASSUME TypeInv, [Next]_vars PROVE TypeInv'
  OBVIOUS
<1>1. CASE UNCHANGED vars
  BY <1>1 DEF vars, kernelVars, setterVars, readerVars, TypeInv, TypeOK,
              CopiesInBounds
<1>2. CASE Next
  BY <1>2, TypeInvSetter, TypeInvReader DEF Next
<1> QED
  BY <1>1, <1>2

(* Every state of the location store is well typed, and no copy of a       *)
(* location runs past its last word (kernel/gps.c:178, 184, 302).          *)
THEOREM TypeCorrect == Spec => []TypeOK
<1>1. Spec => []TypeInv
  BY TypeInvInit, TypeInvNext, PTL DEF Spec
<1>2. TypeInv => TypeOK
  BY DEF TypeInv
<1> QED
  BY <1>1, <1>2, PTL

-----------------------------------------------------------------------------
(* Mutual exclusion                                                        *)

ReadersInside == {r \in Readers : InRead(r)}

Inside == Cardinality(ReadersInside)
Writing == \E s \in Setters : InWrite(s)

(* The lock word, when d unlocks too many are still to be made up for: the *)
(* readers inside less the debt, and the top bit of a writer.              *)
LockDebt(d) ==
  IF Writing
  THEN Inside <= d /\ gps_lock = Bit31 + Inside - d
  ELSE gps_lock = IF Inside >= d THEN Inside - d ELSE 2 * Bit31 + Inside - d

(* The debt is never more than the stray unlocks so far; write_unlock,     *)
(* which stores zero, cancels what is left of it.                          *)
LockInv == WritersExclude /\ \E d \in 0 .. stray : LockDebt(d)

(* The readers inside can be counted, and with all stray unlocks they do   *)
(* not reach the top bit.                                                  *)
LEMMA ReadersCount ==
  /\ IsFiniteSet(ReadersInside)
  /\ Inside \in Nat
  /\ Inside + MaxStray < Bit31
  /\ Inside = 0 <=> ReadersInside = {}
<1>1. IsFiniteSet(Readers) /\ ReadersInside \subseteq Readers
  BY GpsLocationAssumption DEF ReadersInside
<1>2. IsFiniteSet(ReadersInside) /\ Inside <= Cardinality(Readers)
  BY <1>1, FS_Subset DEF Inside
<1>3. Inside \in Nat /\ Cardinality(Readers) \in Nat
  BY <1>1, <1>2, FS_CardinalityType DEF Inside
<1>4. Inside = 0 <=> ReadersInside = {}
  BY <1>2, FS_EmptySet DEF Inside
<1>5. Inside + MaxStray < Bit31
  BY <1>2, <1>3, GpsLocationAssumption, Bit31Assumption
<1> QED
  BY <1>2, <1>3, <1>4, <1>5

LEMMA LockInvInit == Init => LockInv
<1> SUFFICES ASSUME Init PROVE LockInv
  OBVIOUS
<1>1. (\A s \in Setters : ~InWrite(s)) /\ (\A r \in Readers : ~InRead(r))
  BY DEF Init, InWrite, InRead
<1>2. Inside = 0 /\ ~Writing
  BY <1>1, ReadersCount DEF ReadersInside, Writing
<1>3. gps_lock = 0 /\ stray = 0
  BY DEF Init, Unlocked
<1>4. LockDebt(0)
  BY <1>2, <1>3 DEF LockDebt
<1> QED
  BY <1>1, <1>3, <1>4 DEF LockInv, WritersExclude

(* Steps that move no process across a lock operation keep the invariant.  *)
LEMMA LockInvFrame ==
  ASSUME LockInv, gps_lock' = gps_lock, stray' = stray,
         \A s \in Setters : InWrite(s)' <=> InWrite(s),
         \A r \in Readers : InRead(r)' <=> InRead(r)
  PROVE  LockInv'
<1>1. Inside' = Inside /\ (Writing' <=> Writing)
  BY DEF ReadersInside, Inside, Writing
<1>2. \A d \in 0 .. stray : LockDebt(d) => LockDebt(d)'
  BY <1>1 DEF LockDebt
<1> QED
  BY <1>2 DEF LockInv, WritersExclude

LEMMA LockInvSetter ==
  ASSUME TypeInv, LockInv, NEW s \in Setters,
         SetRejected(s) \/ SetAccepted(s) \/ SetStep(s)
  PROVE  LockInv'
<1> USE DEF TypeInv, TypeOK
<1>0. PICK d \in 0 .. stray : LockDebt(d)
  BY DEF LockInv
<1>a. /\ d \in Nat /\ d < Bit31 /\ Bit31 \in Nat
      /\ Inside \in Nat /\ Inside + d < Bit31
  BY <1>0, ReadersCount, GpsLocationAssumption, Bit31Assumption
<1>1. CASE SetWriteLock(s)
  <2>1. gps_lock = 0 /\ gps_lock' = Bit31 /\ stray' = stray
    BY <1>1 DEF SetWriteLock, CanWriteLock, Unlocked, WriteLocked
  <2>2. ~Writing /\ Inside = d
    BY <1>0, <1>a, <2>1 DEF LockDebt
  <2>3. \A t \in Setters : InWrite(t)' <=> t = s
    BY <1>1, <2>2 DEF SetWriteLock, InWrite, Writing
  <2>4. Writing'
    BY <2>3 DEF Writing
  <2>5. Inside' = Inside
    BY <1>1 DEF SetWriteLock, Inside, ReadersInside, InRead, readerVars
  <2>6. LockDebt(d)'
    BY <1>a, <2>1, <2>2, <2>4, <2>5 DEF LockDebt
  <2> QED
    BY <1>0, <2>1, <2>3, <2>6 DEF LockInv, WritersExclude
<1>2. CASE SetWriteUnlock(s)
  <2>1. InWrite(s)
    BY <1>2 DEF SetWriteUnlock, InWrite
  <2>2. \A t \in Setters : ~InWrite(t)'
    BY <1>2, <2>1 DEF SetWriteUnlock, InWrite, LockInv, WritersExclude
  <2>3. Inside' = Inside /\ gps_lock' = 0 /\ stray' = stray
    BY <1>2 DEF SetWriteUnlock, Inside, ReadersInside, InRead, readerVars, Unlocked
  <2>4. Inside <= d
    BY <1>0, <2>1 DEF LockDebt, Writing
  <2>5. ~Writing'
    BY <2>2 DEF Writing
  <2>6. \E e \in 0 .. stray : e = Inside
    BY <1>a, <2>4
  <2>7. PICK e \in 0 .. stray : e = Inside
    BY <2>6
  <2>8. LockDebt(e)'
    BY <1>a, <2>3, <2>5, <2>7 DEF LockDebt
  <2> QED
    BY <2>2, <2>3, <2>8 DEF LockInv, WritersExclude
<1>3. CASE SetRejected(s) \/ SetAccepted(s) \/ SetCopyWord(s) \/ SetCopyFault(s)
           \/ SetStamp(s) \/ SetMemcpyWord(s) \/ SetMemcpyFault(s)
  <2>1. gps_lock' = gps_lock /\ rpc' = rpc /\ stray' = stray
    BY <1>3 DEF SetRejected, SetAccepted, SetCopyWord, SetCopyFault, SetStamp,
                SetMemcpyWord, SetMemcpyFault, kernelVars, readerVars
  <2>2. \A t \in Setters : InWrite(t)' <=> InWrite(t)
    BY <1>3 DEF SetRejected, SetAccepted, SetCopyWord, SetCopyFault, SetStamp,
                SetMemcpyWord, SetMemcpyFault, InWrite
  <2>3. \A r \in Readers : InRead(r)' <=> InRead(r)
    BY <2>1 DEF InRead
  <2> QED
    BY <2>1, <2>2, <2>3, LockInvFrame
<1> QED
  BY <1>1, <1>2, <1>3 DEF SetStep

LEMMA LockInvReader ==
  ASSUME TypeInv, LockInv, NEW r \in Readers, ReadCall(r) \/ ReadStep(r)
  PROVE  LockInv'
<1> USE DEF TypeInv, TypeOK
<1>0. PICK d \in 0 .. stray : LockDebt(d)
  BY DEF LockInv
<1>a. /\ d \in Nat /\ d < Bit31 /\ Bit31 \in Nat
      /\ Inside \in Nat /\ Inside + d < Bit31
  BY <1>0, ReadersCount, GpsLocationAssumption, Bit31Assumption
<1>1. CASE ReadLock(r)
  <2>1. stray' = stray /\ spc' = spc /\ gps_lock' = ReadLocked(gps_lock)
    BY <1>1 DEF ReadLock, setterVars
  <2>2. /\ \A s \in Setters : InWrite(s)' <=> InWrite(s)
        /\ Writing' <=> Writing
    BY <2>1 DEF InWrite, Writing
  <2>3. r \notin ReadersInside /\ ReadersInside' = ReadersInside \cup {r}
    BY <1>1 DEF ReadLock, ReadersInside, InRead
  <2>4. Inside' = Inside + 1
    BY <2>3, ReadersCount, FS_AddElement DEF Inside
  <2>5. ReadLocked(gps_lock) < Bit31
    BY <1>1 DEF ReadLock, CanReadLock
  <2>6. gps_lock' = IF gps_lock = 2 * Bit31 - 1 THEN 0 ELSE gps_lock + 1
    BY <2>1, WordCounts
  <2>7. Writing => LockDebt(d)'
    <3> SUFFICES ASSUME Writing PROVE LockDebt(d)'
      OBVIOUS
    <3>1. Inside <= d /\ gps_lock = Bit31 + Inside - d
      BY <1>0 DEF LockDebt
    <3>2. Inside' <= d /\ gps_lock' = Bit31 + Inside' - d
      BY <1>a, <2>1, <2>4, <2>5, <2>6, <3>1, Bit31Assumption
    <3> QED
      BY <2>2, <3>2 DEF LockDebt
  <2>8. ~Writing => LockDebt(d)'
    <3> SUFFICES ASSUME ~Writing PROVE LockDebt(d)'
      OBVIOUS
    <3>1. gps_lock = IF Inside >= d THEN Inside - d ELSE 2 * Bit31 + Inside - d
      BY <1>0 DEF LockDebt
    <3>2. gps_lock' = IF Inside' >= d THEN Inside' - d
                                      ELSE 2 * Bit31 + Inside' - d
      BY <1>a, <2>1, <2>4, <2>5, <2>6, <3>1
    <3> QED
      BY <2>2, <3>2 DEF LockDebt
  <2>9. LockDebt(d)'
    BY <2>7, <2>8
  <2> QED
    BY <1>0, <2>1, <2>2, <2>9 DEF LockInv, WritersExclude
<1>2. CASE ReadUnlock(r)
  <2>1. stray' = stray /\ spc' = spc /\ gps_lock' = ReadUnlocked(gps_lock)
    BY <1>2 DEF ReadUnlock, setterVars
  <2>2. /\ \A s \in Setters : InWrite(s)' <=> InWrite(s)
        /\ Writing' <=> Writing
    BY <2>1 DEF InWrite, Writing
  <2>3. r \in ReadersInside /\ ReadersInside' = ReadersInside \ {r}
    BY <1>2 DEF ReadUnlock, ReadersInside, InRead
  <2>4. Inside' = Inside - 1
    BY <2>3, ReadersCount, FS_RemoveElement DEF Inside
  <2>5. Inside >= 1
    BY <1>a, <2>3, ReadersCount
  <2>6. gps_lock' = IF gps_lock = 0 THEN 2 * Bit31 - 1 ELSE gps_lock - 1
    BY <2>1, WordCounts
  <2>7. Writing => LockDebt(d)'
    BY <1>0, <1>a, <2>2, <2>4, <2>5, <2>6 DEF LockDebt
  <2>8. ~Writing => LockDebt(d)'
    <3> SUFFICES ASSUME ~Writing PROVE LockDebt(d)'
      OBVIOUS
    <3>1. gps_lock = IF Inside >= d THEN Inside - d ELSE 2 * Bit31 + Inside - d
      BY <1>0 DEF LockDebt
    <3>2. gps_lock' = IF Inside' >= d THEN Inside' - d
                                      ELSE 2 * Bit31 + Inside' - d
      BY <1>a, <2>4, <2>5, <2>6, <3>1
    <3> QED
      BY <2>2, <3>2 DEF LockDebt
  <2>9. LockDebt(d)'
    BY <2>7, <2>8
  <2> QED
    BY <1>0, <2>1, <2>2, <2>9 DEF LockInv, WritersExclude
<1>3. CASE ReadCall(r) \/ ReadCopyWord(r) \/ ReadCopyStamp(r)
  <2>1. gps_lock' = gps_lock /\ spc' = spc /\ stray' = stray
    BY <1>3 DEF ReadCall, ReadCopyWord, ReadCopyStamp, kernelVars, setterVars
  <2>2. \A q \in Readers : InRead(q)' <=> InRead(q)
    BY <1>3 DEF ReadCall, ReadCopyWord, ReadCopyStamp, InRead
  <2>3. \A s \in Setters : InWrite(s)' <=> InWrite(s)
    BY <2>1 DEF InWrite
  <2> QED
    BY <2>1, <2>2, <2>3, LockInvFrame
<1> QED
  BY <1>1, <1>2, <1>3 DEF ReadStep

(* A stray unlock adds one to the debt.                                    *)
LEMMA LockInvStray ==
  ASSUME TypeInv, LockInv, StrayReadUnlock
  PROVE  LockInv'
<1> USE DEF TypeInv, TypeOK
<1>0. PICK d \in 0 .. stray : LockDebt(d)
  BY DEF LockInv
<1>1. /\ stray' = stray + 1 /\ stray' <= MaxStray
      /\ gps_lock' = ReadUnlocked(gps_lock)
      /\ spc' = spc /\ rpc' = rpc
  BY GpsLocationAssumption DEF StrayReadUnlock, setterVars, readerVars
<1>2. /\ d \in Nat /\ Bit31 \in Nat
      /\ Inside \in Nat /\ Inside + d + 1 < Bit31
  BY <1>0, <1>1, ReadersCount, GpsLocationAssumption, Bit31Assumption
<1>3. /\ \A s \in Setters : InWrite(s)' <=> InWrite(s)
      /\ Writing' <=> Writing
      /\ Inside' = Inside
  BY <1>1 DEF InWrite, Writing, Inside, ReadersInside, InRead
<1>4. LockDebt(d + 1)'
  <2>1. gps_lock' = IF gps_lock = 0 THEN 2 * Bit31 - 1 ELSE gps_lock - 1
    BY <1>1, WordCounts
  <2>2. Writing => LockDebt(d + 1)'
    BY <1>0, <1>2, <1>3, <2>1 DEF LockDebt
  <2>3. ~Writing => LockDebt(d + 1)'
    <3> SUFFICES ASSUME ~Writing PROVE LockDebt(d + 1)'
      OBVIOUS
    <3>1. gps_lock = IF Inside >= d THEN Inside - d ELSE 2 * Bit31 + Inside - d
      BY <1>0 DEF LockDebt
    <3>2. gps_lock' = IF Inside >= d + 1 THEN Inside - (d + 1)
                                         ELSE 2 * Bit31 + Inside - (d + 1)
      BY <1>2, <2>1, <3>1
    <3> QED
      BY <1>3, <3>2 DEF LockDebt
  <2> QED
    BY <2>2, <2>3
<1>5. d + 1 \in 0 .. stray'
  BY <1>0, <1>1, GpsLocationAssumption
<1> QED
  BY <1>3, <1>4, <1>5 DEF LockInv, WritersExclude

LEMMA LockInvNext == TypeInv /\ LockInv /\ [Next]_vars => LockInv'
<1> SUFFICES ASSUME TypeInv, LockInv, [Next]_vars PROVE LockInv'
  OBVIOUS
<1>1. CASE UNCHANGED vars
  <2>1. gps_lock' = gps_lock /\ spc' = spc /\ rpc' = rpc /\ stray' = stray
    BY <1>1 DEF vars, kernelVars, setterVars, readerVars
  <2> QED
    BY <2>1, LockInvFrame DEF InWrite, InRead
<1>2. CASE Next
  BY <1>2, LockInvSetter, LockInvReader, LockInvStray DEF Next
<1> QED
  BY <1>1, <1>2

(* Without a stray unlock there is no debt, and a writer is alone.         *)
LEMMA LockExclusion == LockInv => ReadersExcludeWriters
<1> SUFFICES ASSUME LockInv, stray = 0, NEW s \in Setters, NEW r \in Readers,
                    InWrite(s), InRead(r)
             PROVE  FALSE
  BY DEF ReadersExcludeWriters
<1>1. LockDebt(0) /\ Writing
  BY DEF LockInv, Writing
<1>2. Inside = 0
  BY <1>1, ReadersCount DEF LockDebt
<1> QED
  BY <1>2, ReadersCount DEF ReadersInside

(* gps_lock keeps setters from each other (kernel/gps.c:182-186) whatever  *)
(* the error path of get_gps_location does to it (kernel/gps.c:352), and   *)
(* readers from setters (kernel/gps.c:96, 301-303) until that path is      *)
(* first taken, for any number of both below the top bit of the word.      *)
THEOREM LockExcludes == Spec => [](WritersExclude /\ ReadersExcludeWriters)
<1>1. Spec => [](TypeInv /\ LockInv)
  BY TypeInvInit, TypeInvNext, LockInvInit, LockInvNext, PTL DEF Spec
<1>2. TypeInv /\ LockInv => WritersExclude /\ ReadersExcludeWriters
  BY LockExclusion DEF LockInv
<1> QED
  BY <1>1, <1>2, PTL

-----------------------------------------------------------------------------
(* Words and their time                                                    *)

NotOlder(word, time) == word = Zeroed \/ word >= time

(* One setter: the words it has copied are its own, nothing in the kernel  *)
(* is older than the time in the kernel, and what a reader has copied so   *)
(* far is not older than the time it is going to read.                     *)
AgeInv ==
  /\ stamp <= issued
  /\ \A w \in Words : NotOlder(loc[w], stamp)
  /\ \A s \in Setters :
       /\ spc[s] # "idle" =>
            sver[s] # 0 /\ stamp <= sver[s] /\ sver[s] <= issued
       /\ spc[s] = "copy" => \A w \in Words : w < spos[s] => loc[w] = sver[s]
       /\ spc[s] \notin {"idle", "copy"} => \A w \in Words : loc[w] = sver[s]
  /\ \A r \in Readers :
       /\ rpc[r] = "copy" =>
            \A w \in Words : w < rpos[r] => NotOlder(rbuf[r][w], stamp)
       /\ rpc[r] = "stamp" => \A w \in Words : NotOlder(rbuf[r][w], stamp)
       /\ rpc[r] = "unlock" => \A w \in Words : NotOlder(rbuf[r][w], rstamp[r])

LEMMA AgeInvInit == Init => AgeInv
BY DEF Init, AgeInv, NotOlder, Words

LEMMA AgeInvSetter ==
  ASSUME TypeInv, AgeInv, LockInv, stray = 0, OneSetter',
         NEW s \in Setters, SetRejected(s) \/ SetAccepted(s) \/ SetStep(s)
  PROVE  AgeInv'
<1> USE GpsLocationAssumption DEF TypeInv, TypeOK, CopiesInBounds, Words,
        Version, Word, Zeroed, AgeInv, NotOlder, kernelVars, readerVars
<1>0. \A t \in Setters \ {s} : sver'[s] # 0 => sver'[t] = 0
  BY DEF OneSetter
<1>1. CASE SetRejected(s)
  BY <1>1 DEF SetRejected
<1>2. CASE SetAccepted(s)
  BY <1>2 DEF SetAccepted, NextVersion
<1>3. CASE SetCopyWord(s)
  <2>1. \A t \in Setters \ {s} : spc'[t] = "idle"
    BY <1>0, <1>3 DEF SetCopyWord
  <2>2. \A w \in Words : loc'[w] = IF w = spos[s] THEN sver[s] ELSE loc[w]
    BY <1>3 DEF SetCopyWord
  <2>3. \A w \in Words : w < spos'[s] => loc'[w] = sver'[s]
    BY <1>3, <2>2 DEF SetCopyWord
  <2>4. spc'[s] # "copy" => spos'[s] = NWords + 1
    BY <1>3 DEF SetCopyWord
  <2>5. \A w \in Words : NotOlder(loc'[w], stamp')
    BY <1>3, <2>2 DEF SetCopyWord
  <2> QED
    BY <1>3, <2>1, <2>3, <2>4, <2>5 DEF SetCopyWord
<1>4. CASE SetCopyFault(s)
  <2>1. \A t \in Setters \ {s} : spc'[t] = "idle"
    BY <1>0, <1>4 DEF SetCopyFault
  <2> QED
    BY <1>4, <2>1 DEF SetCopyFault
<1>5. CASE SetWriteLock(s)
  BY <1>5 DEF SetWriteLock
<1>6. CASE SetStamp(s)
  <2>0. \A t \in Setters \ {s} : spc'[t] = "idle"
    BY <1>0, <1>6 DEF SetStamp
  <2>1. \A r \in Readers : ~InRead(r)
    BY <1>6, LockExclusion DEF ReadersExcludeWriters, SetStamp, InWrite
  <2> QED
    <3>1. stamp' = sver[s] /\ stamp' <= issued' /\ \A w \in Words : loc'[w] = stamp'
      BY <1>6 DEF SetStamp
    <3>2. \A r \in Readers : rpc'[r] = rpc[r] /\ rpc[r] \notin {"copy", "stamp", "unlock"}
      BY <1>6, <2>1 DEF SetStamp, InRead
    <3>3. spc'[s] = "memcpy" /\ sver'[s] = sver[s] /\ issued' = issued
      BY <1>6 DEF SetStamp
    <3>4. sver[s] # 0 /\ sver[s] <= issued
      BY <1>6 DEF SetStamp
    <3>5. \A w \in Words : NotOlder(loc'[w], stamp')
      BY <3>1
    <3> QED
      BY <2>0, <3>1, <3>2, <3>3, <3>4, <3>5
<1>7. CASE SetMemcpyWord(s)
  <2>1. loc' = loc
    BY <1>7 DEF SetMemcpyWord
  <2>2. spc[s] \notin {"idle", "copy"} /\ spc'[s] \notin {"idle", "copy"}
    BY <1>7 DEF SetMemcpyWord
  <2>3. \A t \in Setters \ {s} : spc'[t] = spc[t] /\ spos'[t] = spos[t]
    BY <1>7 DEF SetMemcpyWord
  <2> QED
    BY <1>7, <2>1, <2>2, <2>3 DEF SetMemcpyWord
<1>8. CASE SetMemcpyFault(s)
  BY <1>8 DEF SetMemcpyFault
<1>9. CASE SetWriteUnlock(s)
  BY <1>9 DEF SetWriteUnlock
<1> QED
  BY <1>1, <1>2, <1>3, <1>4, <1>5, <1>6, <1>7, <1>8, <1>9 DEF SetStep

LEMMA AgeInvReader ==
  ASSUME TypeInv, AgeInv, NEW r \in Readers, ReadCall(r) \/ ReadStep(r)
  PROVE  AgeInv'
<1> USE GpsLocationAssumption DEF TypeInv, TypeOK, CopiesInBounds, Words,
        Version, Word, Zeroed, AgeInv, NotOlder, kernelVars, setterVars
<1>1. CASE ReadCall(r)
  BY <1>1 DEF ReadCall
<1>2. CASE ReadLock(r)
  BY <1>2 DEF ReadLock
<1>3. CASE ReadCopyWord(r)
  BY <1>3 DEF ReadCopyWord
<1>4. CASE ReadCopyStamp(r)
  BY <1>4 DEF ReadCopyStamp
<1>5. CASE ReadUnlock(r)
  BY <1>5 DEF ReadUnlock
<1> QED
  BY <1>1, <1>2, <1>3, <1>4, <1>5 DEF ReadStep

(* A version is never 0 again, and no stray unlock is taken back: what     *)
(* AgeInv rests on held all the time if it holds now.                      *)
LEMMA OnceAlone ==
  ASSUME TypeInv, [Next]_vars, OneSetter', stray' = 0
  PROVE  OneSetter /\ stray = 0
<1> USE DEF TypeInv, TypeOK, Version, OneSetter
<1>1. \A s \in Setters : sver[s] # 0 => sver'[s] # 0
  <2>1. CASE UNCHANGED sver
    BY <2>1
  <2>2. ASSUME NEW t \in Setters, SetAccepted(t)
        PROVE  \A s \in Setters : sver[s] # 0 => sver'[s] # 0
    BY <2>2, GpsLocationAssumption DEF SetAccepted, NextVersion
  <2>3. ASSUME NEW t \in Setters, SetRejected(t) \/ SetStep(t)
        PROVE  UNCHANGED sver
    BY <2>3 DEF SetRejected, SetStep, SetCopyWord, SetCopyFault, SetWriteLock,
                SetStamp, SetMemcpyWord, SetMemcpyFault, SetWriteUnlock
  <2>4. ASSUME NEW r \in Readers, ReadCall(r) \/ ReadStep(r)
        PROVE  UNCHANGED sver
    BY <2>4 DEF ReadCall, ReadStep, ReadLock, ReadCopyWord, ReadCopyStamp,
                ReadUnlock, setterVars
  <2> QED
    BY <2>1, <2>2, <2>3, <2>4 DEF Next, vars, setterVars, StrayReadUnlock
<1>2. stray' # 0 \/ stray = 0
  <2>1. CASE StrayReadUnlock
    BY <2>1 DEF StrayReadUnlock
  <2>2. ASSUME NEW t \in Setters, SetRejected(t) \/ SetAccepted(t) \/ SetStep(t)
        PROVE  UNCHANGED stray
    BY <2>2 DEF SetRejected, SetAccepted, SetStep, SetCopyWord, SetCopyFault,
                SetWriteLock, SetStamp, SetMemcpyWord, SetMemcpyFault,
                SetWriteUnlock
  <2>3. ASSUME NEW r \in Readers, ReadCall(r) \/ ReadStep(r)
        PROVE  UNCHANGED stray
    BY <2>3 DEF ReadCall, ReadStep, ReadLock, ReadCopyWord, ReadCopyStamp,
                ReadUnlock
  <2> QED
    BY <2>1, <2>2, <2>3 DEF Next, vars
<1> QED
  BY <1>1, <1>2

AgeWhileAlone == OneSetter /\ stray = 0 => AgeInv

LEMMA AgeInvNext ==
  TypeInv /\ LockInv /\ AgeWhileAlone /\ [Next]_vars => AgeWhileAlone'
<1> SUFFICES ASSUME TypeInv, LockInv, AgeWhileAlone, [Next]_vars,
                    OneSetter', stray' = 0
             PROVE  AgeInv'
  BY DEF AgeWhileAlone
<1>0. AgeInv /\ stray = 0
  BY OnceAlone DEF AgeWhileAlone
<1>1. CASE UNCHANGED vars
  BY <1>0, <1>1 DEF vars, kernelVars, setterVars, readerVars, AgeInv, NotOlder
<1>2. CASE StrayReadUnlock
  BY <1>0, <1>2 DEF StrayReadUnlock, TypeInv, TypeOK
<1>3. CASE Next /\ ~StrayReadUnlock
  BY <1>0, <1>3, AgeInvSetter, AgeInvReader DEF Next
<1> QED
  BY <1>1, <1>2, <1>3

(* As long as one process only, the daemon, has called set_gps_location,   *)
(* no word of a location that get_current_location returns is older than   *)
(* the time it returns (kernel/gps.c:178-184, 302), even when              *)
(* copy_from_user fails half way.                                          *)
THEOREM SnapshotsNotOverdated == Spec => []NoWordOlderThanStamp
<1>1. Init => TypeInv /\ LockInv /\ AgeWhileAlone
  BY TypeInvInit, LockInvInit, AgeInvInit DEF AgeWhileAlone
<1>2. TypeInv /\ LockInv /\ AgeWhileAlone /\ [Next]_vars
        => (TypeInv /\ LockInv /\ AgeWhileAlone)'
  BY TypeInvNext, LockInvNext, AgeInvNext
<1>3. AgeWhileAlone => NoWordOlderThanStamp
  BY DEF AgeWhileAlone, AgeInv, NotOlder, NoWordOlderThanStamp
<1> QED
  BY <1>1, <1>2, <1>3, PTL DEF Spec

-----------------------------------------------------------------------------
(* The location after overlapping calls                                    *)

(* A setter that still has its locked copy to make, or never will.         *)
Pending ==
  \E s \in Setters : spc[s] \in {"copy", "lock", "stamp"} \/ HalfWay(s)

WholeInv ==
  /\ \A s \in Setters : spc[s] # "idle" => sver[s] # 0
  /\ \A s \in Setters : spc[s] \in {"memcpy", "unlock"} => stamp = sver[s]
  /\ ~Pending =>
       /\ \A s \in Setters : spc[s] = "memcpy" =>
            \A w \in Words : w < spos[s] => loc[w] = sver[s]
       /\ \A s \in Setters : spc[s] = "unlock" =>
            \A w \in Words : loc[w] = sver[s]
       /\ QuietLocationIsWhole

LEMMA WholeInvInit == Init => WholeInv
BY DEF Init, WholeInv, QuietLocationIsWhole, HalfWay

LEMMA WholeInvSetter ==
  ASSUME TypeInv, LockInv, WholeInv,
         NEW s \in Setters, SetRejected(s) \/ SetAccepted(s) \/ SetStep(s)
  PROVE  WholeInv'
<1> USE GpsLocationAssumption DEF TypeInv, TypeOK, CopiesInBounds, Words,
        WholeInv, Pending, QuietLocationIsWhole, HalfWay,
        Version, kernelVars, readerVars
<1>0. \A a, b \in Setters : InWrite(a) /\ InWrite(b) => a = b
  BY DEF LockInv, WritersExclude
<1>1. CASE SetRejected(s)
  BY <1>1 DEF SetRejected
<1>2. CASE SetAccepted(s)
  BY <1>2 DEF SetAccepted, NextVersion
<1>3. CASE SetCopyWord(s)
  BY <1>3 DEF SetCopyWord
<1>4. CASE SetCopyFault(s)
  BY <1>4 DEF SetCopyFault
<1>5. CASE SetWriteLock(s)
  BY <1>5 DEF SetWriteLock
<1>6. CASE SetStamp(s)
  BY <1>0, <1>6 DEF SetStamp, InWrite
<1>7. CASE SetMemcpyWord(s)
  BY <1>0, <1>7 DEF SetMemcpyWord, InWrite
<1>8. CASE SetMemcpyFault(s)
  BY <1>8 DEF SetMemcpyFault
<1>9. CASE SetWriteUnlock(s)
  BY <1>9 DEF SetWriteUnlock
<1> QED
  BY <1>1, <1>2, <1>3, <1>4, <1>5, <1>6, <1>7, <1>8, <1>9 DEF SetStep

LEMMA WholeInvNext ==
  TypeInv /\ LockInv /\ WholeInv /\ [Next]_vars => WholeInv'
<1> SUFFICES ASSUME TypeInv, LockInv, WholeInv, [Next]_vars PROVE WholeInv'
  OBVIOUS
<1>1. CASE UNCHANGED <<loc, stamp, spc, sver, spos>>
  BY <1>1 DEF WholeInv, Pending, QuietLocationIsWhole, HalfWay
<1>2. CASE \E s \in Setters : SetRejected(s) \/ SetAccepted(s) \/ SetStep(s)
  BY <1>2, WholeInvSetter
<1>3. CASE StrayReadUnlock
  BY <1>1, <1>3 DEF StrayReadUnlock, setterVars
<1>4. ASSUME NEW r \in Readers, ReadCall(r) \/ ReadStep(r)
      PROVE  UNCHANGED <<loc, stamp, spc, sver, spos>>
  BY <1>4 DEF ReadCall, ReadStep, ReadLock, ReadCopyWord, ReadCopyStamp,
              ReadUnlock, kernelVars, setterVars
<1> QED
  BY <1>1, <1>2, <1>3, <1>4 DEF Next, vars, kernelVars, setterVars

(* However many calls of set_gps_location overlap, the location they leave *)
(* behind is one of theirs with its own time (kernel/gps.c:182-186), if no *)
(* caller's last copy failed half way in copy_from_user: the second copy,  *)
(* under the lock, is what makes the unlocked first one (kernel/gps.c:178) *)
(* harmless here.                                                          *)
THEOREM OverlappingSetsLeaveOneLocation == Spec => []QuietLocationIsWhole
<1>1. Init => TypeInv /\ LockInv /\ WholeInv
  BY TypeInvInit, LockInvInit, WholeInvInit
<1>2. TypeInv /\ LockInv /\ WholeInv /\ [Next]_vars
        => (TypeInv /\ LockInv /\ WholeInv)'
  BY TypeInvNext, LockInvNext, WholeInvNext
<1>3. WholeInv => QuietLocationIsWhole
  BY DEF WholeInv, Pending, QuietLocationIsWhole, HalfWay
<1> QED
  BY <1>1, <1>2, <1>3, PTL DEF Spec

=============================================================================
