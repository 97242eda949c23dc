------------------------ MODULE GetGpsLocationProofs -------------------------
(***************************************************************************)
(* Theorems about GetGpsLocation, for every number of callers and every    *)
(* number of paths and references left behind.                             *)
(***************************************************************************)
EXTENDS GetGpsLocation, TLAPS

-----------------------------------------------------------------------------
(* The lock word                                                           *)

(* A lock operation always leaves a machine word.                          *)
LEMMA WordArithmetic ==
  ASSUME NEW x \in Int
  PROVE  x % (2 * Bit31) \in LockWord
<1> DEFINE m == 2 * Bit31
<1>1. m \in Nat /\ m > 0
  BY Bit31Assumption
<1> HIDE DEF m
<1>2. x % m \in 0 .. (m - 1)
  BY <1>1
<1> QED
  BY <1>2 DEF m, LockWord

(* The constants of the lock are machine words.                            *)
LEMMA LockConstants == Unlocked \in LockWord /\ WriteLocked \in LockWord
BY Bit31Assumption DEF Unlocked, WriteLocked, LockWord

\* Callers that have a path of their own to put.
OwnsPath(c) == pc[c] \in {"inode", "getgps", "pathput"}

\* Callers that can_access_file has let through.
Passed(c) == pc[c] \in {"lookup", "inode", "getgps", "pathput", "copyout"}

(* What a caller holds follows from where it is: the buffer for the name   *)
(* for as long as it is inside, a descriptor only until the next step, and *)
(* one path more than its calls left behind while it works on an inode.    *)
HeldInv ==
  \A c \in Callers :
    /\ kpathname[c] = None <=> pc[c] = "idle"
    /\ kpathname[c] = Zeros <=> pc[c] = "name"
    /\ c \in fds <=> pc[c] = "closedir"
    /\ kpath[c] = IF OwnsPath(c) THEN noloc[c] + 1 ELSE noloc[c]

(* A caller past the access check passed it, and ret is "age" only after   *)
(* vfs_get_gps has filled kloc in.                                         *)
CheckedInv ==
  \A c \in Callers :
    /\ Passed(c) => checked[c] # None
    /\ pc[c] \in {"name", "isdir", "opendir", "access"} => checked[c] = None
    /\ pc[c] \notin {"idle", "pathput", "copyout"} =>
         ret[c] = "none" /\ kloc[c] = None
    /\ OwnsPath(c) => dentry[c] # None
    /\ pc[c] = "copyout" => ret[c] = "age"
    /\ pc[c] \in {"pathput", "copyout"} /\ ret[c] = "age" => kloc[c] # None
    /\ user[c] # None =>
         checked[c] # None /\ ret[c] = "age" /\ pc[c] = "idle"

(* As long as nothing moved where it matters, what the caller will look up *)
(* is what it checks, then what it checked, then what it found.            *)
SameFileInv ==
  \A c \in Callers : c \notin moved =>
    /\ BeforeCheck(c) => kpathname[c] = pathname[c]
    /\ BeforeLookup(c) => checked[c] = bound[kpathname[c]]
    /\ OwnsPath(c) => dentry[c] = checked[c]
    /\ pc[c] \in {"pathput", "copyout"} /\ kloc[c] # None => kloc[c] = checked[c]
    /\ user[c] # None => user[c] = checked[c]

Inv == TypeOK /\ HeldInv /\ CheckedInv /\ SameFileInv

LEMMA InvInit == Init => Inv
BY LockConstants, GetGpsLocationAssumption
   DEF Init, Inv, TypeOK, HeldInv, CheckedInv, SameFileInv, BeforeCheck,
       BeforeLookup, OwnsPath, Passed, State, Error

(* The two ways a call starts.                                             *)
LEMMA InvCall ==
  ASSUME Inv, NEW c \in Callers, CallRefused(c) \/ Call(c)
  PROVE  Inv'
<1> USE GetGpsLocationAssumption DEF Inv, TypeOK, HeldInv, CheckedInv,
        SameFileInv, BeforeCheck, BeforeLookup, OwnsPath, Passed, State, Error,
        nameVars, kernelVars, Goto
<1>1. CASE CallRefused(c)
  BY <1>1 DEF CallRefused
<1>2. CASE Call(c)
  BY <1>2 DEF Call
<1> QED
  BY <1>1, <1>2

(* The steps up to kern_path: the name, and the access check.              *)
LEMMA InvAccess ==
  ASSUME Inv, NEW c \in Callers,
         \/ CopyName(c) \/ IsDirectory(c) \/ CloseDir(c) \/ OpenDir(c)
         \/ Access(c)
  PROVE  Inv'
<1> USE GetGpsLocationAssumption DEF Inv, TypeOK, HeldInv, CheckedInv,
        SameFileInv, BeforeCheck, BeforeLookup, OwnsPath, Passed, State, Error,
        nameVars, kernelVars, Goto, Return
<1>1. CASE CopyName(c)
  BY <1>1 DEF CopyName
<1>2. CASE IsDirectory(c)
  BY <1>2 DEF IsDirectory
<1>3. CASE CloseDir(c)
  BY <1>3 DEF CloseDir
<1>4. CASE OpenDir(c)
  BY <1>4 DEF OpenDir
<1>5. CASE Access(c)
  BY <1>5 DEF Access
<1> QED
  BY <1>1, <1>2, <1>3, <1>4, <1>5

(* The steps from kern_path to path_put.                                   *)
LEMMA InvPath ==
  ASSUME Inv, NEW c \in Callers,
         \/ KernPath(c) \/ NotSupported(c) \/ Supported(c) \/ VfsGetGps(c)
         \/ PathPut(c)
  PROVE  Inv'
<1> USE GetGpsLocationAssumption DEF Inv, TypeOK, HeldInv, CheckedInv,
        SameFileInv, BeforeCheck, BeforeLookup, OwnsPath, Passed, State, Error,
        nameVars, kernelVars, Goto, Return
<1>1. CASE KernPath(c)
  BY <1>1 DEF KernPath
<1>2. CASE NotSupported(c)
  <2>1. noloc' \in [Callers -> 0 .. MaxLeak]
    BY <1>2 DEF NotSupported
  <2> QED
    BY <1>2, <2>1 DEF NotSupported
<1>3. CASE Supported(c)
  BY <1>3 DEF Supported
<1>4. CASE VfsGetGps(c)
  <2>1. pc[c] = "getgps" /\ ret[c] = "none" /\ checked[c] # None /\ user[c] = None
    BY <1>4 DEF VfsGetGps
  <2>2. \A d \in Callers \ {c} :
          ret'[d] = ret[d] /\ kloc'[d] = kloc[d] /\ pc'[d] = pc[d]
    BY <1>4 DEF VfsGetGps
  <2>3. /\ pc'[c] = "pathput" /\ ret'[c] \in {"none", "age"}
        /\ ret'[c] = "age" => kloc'[c] = dentry[c]
        /\ kloc'[c] # None => kloc'[c] = dentry[c]
    BY <1>4, <2>1 DEF VfsGetGps
  <2>4. TypeOK'
    <3>1. irefs' \in 0 .. MaxLeak
      BY <1>4 DEF VfsGetGps
    <3>2. pc' \in [Callers -> State] /\ ret' \in [Callers -> Error \cup {"none", "age"}]
      BY <1>4 DEF VfsGetGps
    <3>3. kloc' \in [Callers -> Files \cup {None}]
      BY <1>4 DEF VfsGetGps
    <3> QED
      BY <1>4, <3>1, <3>2, <3>3 DEF VfsGetGps
  <2>5. HeldInv'
    BY <1>4, <2>1, <2>2, <2>3 DEF VfsGetGps
  <2>6. CheckedInv'
    BY <1>4, <2>1, <2>2, <2>3 DEF VfsGetGps
  <2>7. SameFileInv'
    BY <1>4, <2>1, <2>2, <2>3 DEF VfsGetGps
  <2> QED
    BY <2>4, <2>5, <2>6, <2>7
<1>5. CASE PathPut(c)
  BY <1>5 DEF PathPut
<1> QED
  BY <1>1, <1>2, <1>3, <1>4, <1>5

(* copy_to_user, and the unlock after it has failed.                       *)
LEMMA InvCopy ==
  ASSUME Inv, NEW c \in Callers, CopyFaults(c) \/ CopyOut(c)
  PROVE  Inv'
<1> USE GetGpsLocationAssumption DEF Inv, TypeOK, HeldInv, CheckedInv,
        SameFileInv, BeforeCheck, BeforeLookup, OwnsPath, Passed, State, Error,
        nameVars, kernelVars, Goto, Return
<1>1. CASE CopyFaults(c)
  <2>0. gps_lock - 1 \in Int
    BY Bit31Assumption DEF LockWord
  <2>1. gps_lock' \in LockWord
    BY <1>1, <2>0, WordArithmetic DEF CopyFaults, ReadUnlocked
  <2> QED
    BY <1>1, <2>1 DEF CopyFaults
<1>2. CASE CopyOut(c)
  BY <1>2 DEF CopyOut
<1> QED
  BY <1>1, <1>2

(* What the rest of the system does to the names.                          *)
LEMMA InvNames ==
  ASSUME Inv,
         \/ \E c \in Callers, n \in Names : Overwrite(c, n)
         \/ \E n \in Names, f \in Files : Rebind(n, f)
  PROVE  Inv'
<1> USE GetGpsLocationAssumption DEF Inv, TypeOK, HeldInv, CheckedInv,
        SameFileInv, BeforeCheck, BeforeLookup, OwnsPath, Passed, State, Error,
        kernelVars
<1>1. ASSUME NEW c \in Callers, NEW n \in Names, Overwrite(c, n) PROVE Inv'
  BY <1>1 DEF Overwrite
<1>2. ASSUME NEW n \in Names, NEW f \in Files, Rebind(n, f) PROVE Inv'
  BY <1>2 DEF Rebind
<1> QED
  BY <1>1, <1>2

LEMMA InvNext == Inv /\ [Next]_vars => Inv'
<1> SUFFICES ASSUME Inv, [Next]_vars PROVE Inv'
  OBVIOUS
<1>1. CASE UNCHANGED vars
  BY <1>1 DEF vars, Inv, TypeOK, HeldInv, CheckedInv, SameFileInv,
              BeforeCheck, BeforeLookup, OwnsPath, Passed
<1>2. CASE Next
  BY <1>2, InvCall, InvAccess, InvPath, InvCopy, InvNames DEF Next, Step
<1> QED
  BY <1>1, <1>2

LEMMA InvAlways == Spec => []Inv
BY InvInit, InvNext, PTL DEF Spec

(* However many processes are inside get_gps_location, and however the     *)
(* files change under them, each way out gives back the buffer and the     *)
(* descriptor, and every path but those of the early returns               *)
(* (kernel/gps.c:116-129, 203-211, 278-287, 328-358).                      *)
THEOREM CallersKeepNothing == Spec => []NothingHeld
<1>1. Inv => NothingHeld
  BY DEF Inv, HeldInv, OwnsPath, NothingHeld
<1> QED
  BY <1>1, InvAlways, PTL

(* Whatever the other processes do to the names, the location a process    *)
(* gets is that of the file it was let to see, unless its name changed     *)
(* between the copy and the check, or between the check and the lookup     *)
(* (kernel/gps.c:325, 339, 344).                                           *)
THEOREM UsersSeeCheckedData == Spec => []OnlyCheckedData
<1>1. Inv => OnlyCheckedData
  BY DEF Inv, CheckedInv, SameFileInv, OnlyCheckedData
<1> QED
  BY <1>1, InvAlways, PTL

=============================================================================
