--------------------------- MODULE GetGpsLocation ----------------------------
(***************************************************************************)
(* The system call get_gps_location (kernel/gps.c) and the helpers it      *)
(* calls: can_access_file, is_directory, get_file_gps_location.  Several   *)
(* processes are inside it at once, and what they take (the buffer for the *)
(* name, descriptors of their own, a path, a reference on the inode) is    *)
(* counted, on every way out.                                              *)
(*                                                                         *)
(* The file system changes under the calls: a name may come to name        *)
(* another file at any step, and the answer of every system call made on   *)
(* the way is taken as it comes.  So may the string in user memory, which  *)
(* the call reads once for its own copy and again, inside sys_open and     *)
(* sys_access, for the check.  A location stands for the file it is of.    *)
(***************************************************************************)
EXTENDS ArmRwLock, FiniteSets

CONSTANTS
  Callers,     \* processes that call get_gps_location
  Names,       \* path names
  Files,       \* the files they name
  None,        \* no buffer, no file, no location
  Zeros,       \* what the buffer for the name holds when it is allocated
  MaxLeak      \* bound: references on inodes, and on paths of one caller

ASSUME GetGpsLocationAssumption ==
  /\ MaxLeak \in Nat \ {0}
  /\ None \notin Files \cup Names /\ Zeros \notin Names /\ Zeros # None

VARIABLES
  pc,          \* where each caller is
  ret,         \* what its last call returned
  bound,       \* the file each name names
  pathname,    \* the name in the user memory of each caller
  kpathname,   \* the caller's own copy of it, if the buffer is allocated
  fds,         \* callers with a descriptor open for the directory test
  checked,     \* the file for which can_access_file said yes
  moved,       \* callers whose name changed at a point that matters (history)
  kpath,       \* paths each caller got from kern_path and did not put
  noloc,       \* its calls that ended at a file without locations (history)
  irefs,       \* references taken by ext2_get_gps and not given back
  dentry,      \* the file kern_path found, while the path is taken
  kloc,        \* the file whose location is in the caller's kloc
  user,        \* the file whose location is in its user buffer
  gps_lock     \* the lock word: released by mistake on one way out

vars == <<pc, ret, bound, pathname, kpathname, fds, checked, moved, kpath,
          dentry, noloc, irefs, kloc, user, gps_lock>>
nameVars == <<bound, pathname, moved>>
kernelVars == <<noloc, irefs, gps_lock>>

State == {"idle", "name", "isdir", "closedir", "opendir", "access", "lookup",
          "inode", "getgps", "pathput", "copyout", "free"}
Error == {"EINVAL", "ENOMEM", "EFAULT", "ENAMETOOLONG", "EACCES", "EAGAIN"}

(* Types of what get_gps_location (kernel/gps.c) holds and returns.        *)
TypeOK ==
  /\ pc \in [Callers -> State]
  /\ ret \in [Callers -> Error \cup {"none", "age"}]
  /\ bound \in [Names -> Files]
  /\ pathname \in [Callers -> Names]
  /\ kpathname \in [Callers -> Names \cup {None, Zeros}]
  /\ fds \subseteq Callers
  /\ checked \in [Callers -> Files \cup {None}]
  /\ moved \subseteq Callers
  /\ kpath \in [Callers -> 0 .. MaxLeak]
  /\ noloc \in [Callers -> 0 .. MaxLeak]
  /\ irefs \in 0 .. MaxLeak
  /\ dentry \in [Callers -> Files \cup {None}]
  /\ kloc \in [Callers -> Files \cup {None}]
  /\ user \in [Callers -> Files \cup {None}]
  /\ gps_lock \in LockWord

Init ==
  /\ pc = [c \in Callers |-> "idle"]
  /\ ret = [c \in Callers |-> "none"]
  /\ bound \in [Names -> Files]
  /\ pathname \in [Callers -> Names]
  /\ kpathname = [c \in Callers |-> None]
  /\ fds = {} /\ moved = {}
  /\ checked = [c \in Callers |-> None]
  /\ kpath = [c \in Callers |-> 0]
  /\ noloc = [c \in Callers |-> 0]
  /\ irefs = 0
  /\ dentry = [c \in Callers |-> None]
  /\ kloc = [c \in Callers |-> None]
  /\ user = [c \in Callers |-> None]
  /\ gps_lock = Unlocked

Goto(c, state) == pc' = [pc EXCEPT ![c] = state]

\* kfree(kpathname); return
Return(c, value) ==
  /\ Goto(c, "idle")
  /\ ret' = [ret EXCEPT ![c] = value]
  /\ kpathname' = [kpathname EXCEPT ![c] = None]

-----------------------------------------------------------------------------
\* The call has its copy of the name, and no answer from the check yet.
BeforeCheck(c) ==
  pc[c] \in {"isdir", "closedir", "opendir", "access"} /\ checked[c] = None

\* The check has said yes, and kern_path has not looked the copy up yet.
BeforeLookup(c) == pc[c] \in {"closedir", "lookup"} /\ checked[c] # None

\* Another thread of the caller writes another name into its memory.
Overwrite(c, n) ==
  /\ pathname[c] # n
  /\ pathname' = [pathname EXCEPT ![c] = n]
  /\ moved' = IF BeforeCheck(c) THEN moved \cup {c} ELSE moved
  /\ UNCHANGED <<pc, ret, bound, kpathname, fds, checked, kpath, dentry, kloc,
                 user, kernelVars>>

\* A rename puts another file under the name n.
Rebind(n, f) ==
  /\ bound[n] # f
  /\ bound' = [bound EXCEPT ![n] = f]
  /\ moved' = moved \cup
       {c \in Callers : BeforeLookup(c) /\ kpathname[c] = n}
  /\ UNCHANGED <<pc, ret, pathname, kpathname, fds, checked, kpath, dentry,
                 kloc, user, kernelVars>>

-----------------------------------------------------------------------------
\* NULL arguments, or no memory for the name.
CallRefused(c) ==
  /\ pc[c] = "idle"
  /\ \E err \in {"EINVAL", "ENOMEM"} : ret' = [ret EXCEPT ![c] = err]
  /\ kloc' = [kloc EXCEPT ![c] = None]
  /\ user' = [user EXCEPT ![c] = None]
  /\ UNCHANGED <<pc, kpathname, fds, checked, kpath, dentry, nameVars,
                 kernelVars>>

Call(c) ==
  /\ pc[c] = "idle"
  /\ kpathname' = [kpathname EXCEPT ![c] = Zeros]
  /\ ret' = [ret EXCEPT ![c] = "none"]
  /\ kloc' = [kloc EXCEPT ![c] = None]
  /\ user' = [user EXCEPT ![c] = None]
  /\ checked' = [checked EXCEPT ![c] = None]
  /\ moved' = moved \ {c}
  /\ Goto(c, "name")
  /\ UNCHANGED <<bound, pathname, fds, kpath, dentry, kernelVars>>

\* strncpy_from_user
CopyName(c) ==
  /\ pc[c] = "name"
  /\ \/ \E err \in {"EFAULT", "ENAMETOOLONG"} : Return(c, err)
     \/ /\ kpathname' = [kpathname EXCEPT ![c] = pathname[c]]
        /\ Goto(c, "isdir")
        /\ UNCHANGED ret
  /\ UNCHANGED <<fds, checked, kpath, dentry, kloc, user, nameVars,
                 kernelVars>>

\* is_directory: sys_open(path, O_DIRECTORY) ...
IsDirectory(c) ==
  /\ pc[c] = "isdir"
  /\ \/ Goto(c, "access") /\ UNCHANGED fds
     \/ Goto(c, "closedir") /\ fds' = fds \cup {c}
  /\ UNCHANGED <<ret, kpathname, checked, kpath, dentry, kloc, user, nameVars,
                 kernelVars>>

\* ... and sys_close, for the test and again for the access check.
CloseDir(c) ==
  /\ pc[c] = "closedir"
  /\ fds' = fds \ {c}
  /\ Goto(c, IF checked[c] = None THEN "opendir" ELSE "lookup")
  /\ UNCHANGED <<ret, kpathname, checked, kpath, dentry, kloc, user, nameVars,
                 kernelVars>>

\* can_access_file of a directory: open it once more.
OpenDir(c) ==
  /\ pc[c] = "opendir"
  /\ \/ Return(c, "EACCES") /\ UNCHANGED <<fds, checked>>
     \/ /\ fds' = fds \cup {c}
        /\ checked' = [checked EXCEPT ![c] = bound[pathname[c]]]
        /\ Goto(c, "closedir")
        /\ UNCHANGED <<ret, kpathname>>
  /\ UNCHANGED <<kpath, dentry, kloc, user, nameVars, kernelVars>>

\* can_access_file of anything else: sys_access(file, R_OK)
Access(c) ==
  /\ pc[c] = "access"
  /\ \/ Return(c, "EACCES") /\ UNCHANGED checked
     \/ /\ checked' = [checked EXCEPT ![c] = bound[pathname[c]]]
        /\ Goto(c, "lookup")
        /\ UNCHANGED <<ret, kpathname>>
  /\ UNCHANGED <<fds, kpath, dentry, kloc, user, nameVars, kernelVars>>

\* mutant: the lookup is given the string in user memory, not the copy
KernPath_UserString(c) ==
  /\ pc[c] = "lookup"
  /\ \/ Return(c, "EAGAIN") /\ UNCHANGED <<kpath, dentry>>
     \/ /\ kpath[c] < MaxLeak
        /\ kpath' = [kpath EXCEPT ![c] = @ + 1]
        /\ dentry' = [dentry EXCEPT ![c] = bound[pathname[c]]]
        /\ Goto(c, "inode")
        /\ UNCHANGED <<ret, kpathname>>
  /\ UNCHANGED <<fds, checked, kloc, user, nameVars, kernelVars>>

\* kern_path: the path taken keeps the file, whatever the name names later.
KernPath(c) ==
  /\ pc[c] = "lookup"
  /\ \/ Return(c, "EAGAIN") /\ UNCHANGED <<kpath, dentry>>
     \/ /\ kpath[c] < MaxLeak
        /\ kpath' = [kpath EXCEPT ![c] = @ + 1]
        /\ dentry' = [dentry EXCEPT ![c] = bound[kpathname[c]]]
        /\ Goto(c, "inode")
        /\ UNCHANGED <<ret, kpathname>>
  /\ UNCHANGED <<fds, checked, kloc, user, nameVars, kernelVars>>

\* No inode, or a file system without locations: the path stays taken.
NotSupported(c) ==
  /\ pc[c] = "inode"
  /\ noloc' = [noloc EXCEPT ![c] = @ + 1]
  /\ dentry' = [dentry EXCEPT ![c] = None]
  /\ Return(c, "EAGAIN")
  /\ UNCHANGED <<fds, checked, kpath, kloc, user, irefs, gps_lock, nameVars>>

Supported(c) ==
  /\ pc[c] = "inode"
  /\ Goto(c, "getgps")
  /\ UNCHANGED <<ret, kpathname, fds, checked, kpath, dentry, kloc, user,
                 nameVars, kernelVars>>

\* vfs_get_gps: without the operation, ENOENT and nothing is filled in.
\* ext2_get_gps fills kloc in, keeps a reference, and its age may come out
\* negative, which the caller takes for an error.
VfsGetGps(c) ==
  /\ pc[c] = "getgps"
  /\ \/ UNCHANGED <<irefs, kloc, ret>>
     \/ /\ irefs < MaxLeak
        /\ irefs' = irefs + 1
        /\ kloc' = [kloc EXCEPT ![c] = dentry[c]]
        /\ \E age \in {"age", "none"} : ret' = [ret EXCEPT ![c] = age]
  /\ Goto(c, "pathput")
  /\ UNCHANGED <<kpathname, fds, checked, kpath, dentry, noloc, user, gps_lock,
                 nameVars>>

\* mutant: path_put only after an error
PathPut_OnError(c) ==
  /\ pc[c] = "pathput"
  /\ dentry' = [dentry EXCEPT ![c] = None]
  /\ IF ret[c] = "age"
     THEN Goto(c, "copyout") /\ UNCHANGED <<ret, kpathname, kpath>>
     ELSE Return(c, "EAGAIN") /\ kpath' = [kpath EXCEPT ![c] = @ - 1]
  /\ UNCHANGED <<fds, checked, kloc, user, nameVars, kernelVars>>

PathPut(c) ==
  /\ pc[c] = "pathput"
  /\ kpath' = [kpath EXCEPT ![c] = @ - 1]
  /\ dentry' = [dentry EXCEPT ![c] = None]
  /\ IF ret[c] = "age"
     THEN Goto(c, "copyout") /\ UNCHANGED <<ret, kpathname>>
     ELSE Return(c, "EAGAIN")
  /\ UNCHANGED <<fds, checked, kloc, user, nameVars, kernelVars>>

\* copy_to_user, and read_unlock of a lock that is not held if it faults.
CopyFaults(c) ==
  /\ pc[c] = "copyout"
  /\ gps_lock' = ReadUnlocked(gps_lock)
  /\ Return(c, "EFAULT")
  /\ UNCHANGED <<fds, checked, kpath, dentry, kloc, user, noloc, irefs,
                 nameVars>>

CopyOut(c) ==
  /\ pc[c] = "copyout"
  /\ user' = [user EXCEPT ![c] = kloc[c]]
  /\ Return(c, "age")
  /\ UNCHANGED <<fds, checked, kpath, dentry, kloc, nameVars, kernelVars>>

-----------------------------------------------------------------------------
Step(c) ==
  \/ CopyName(c) \/ IsDirectory(c) \/ CloseDir(c) \/ OpenDir(c) \/ Access(c)
  \/ KernPath(c) \/ NotSupported(c) \/ Supported(c) \/ VfsGetGps(c)
  \/ PathPut(c) \/ CopyFaults(c) \/ CopyOut(c)

Next ==
  \/ \E c \in Callers : CallRefused(c) \/ Call(c) \/ Step(c)
  \/ \E c \in Callers, n \in Names : Overwrite(c, n)
  \/ \E n \in Names, f \in Files : Rebind(n, f)

Spec == Init /\ [][Next]_vars

-----------------------------------------------------------------------------
(* Correctness                                                             *)

(* Every way out of the call gives back the buffer for the name and the    *)
(* descriptor of the directory test (kernel/gps.c:116-129, 203-211,        *)
(* 328-358), and a call that reaches vfs_get_gps "release[s] the path      *)
(* found" (kernel/gps.c:287), however that ends.  The early returns for a  *)
(* file without locations (kernel/gps.c:278-283) keep their path, and      *)
(* nothing releases it later.                                              *)
NothingHeld ==
  \A c \in Callers : pc[c] = "idle" =>
    kpathname[c] = None /\ c \notin fds /\ kpath[c] = noloc[c]

(* A user buffer is written only by a call that reports an age, after     *)
(* can_access_file said yes (kernel/gps.c:339-362).  The location is that  *)
(* of the very file the check was made on, unless the name changed where   *)
(* the call depends on it: the check reads the string in user memory (line *)
(* 339) and the lookup the call's own copy of it (line 344), so another    *)
(* string put there after the copy and before the check, or another file   *)
(* put under the name after the check and before the lookup, may give the  *)
(* location of a file that was not checked.  A change at any other moment  *)
(* does no harm: not before the copy, not during the directory test, and   *)
(* not once kern_path has taken the path.                                  *)
OnlyCheckedData ==
  \A c \in Callers : user[c] # None =>
    /\ ret[c] = "age" /\ pc[c] = "idle"
    /\ checked[c] # None
    /\ user[c] = checked[c] \/ c \in moved

=============================================================================
