------------------------------ MODULE GpsOnDisk ------------------------------
(***************************************************************************)
(* What the location of an ext2 inode looks like on disk, and the age that *)
(* ext2_get_gps computes from it: the byte order conversions of            *)
(* ext2_set_gps, __ext2_write_inode and ext2_iget, and the 32-bit          *)
(* subtraction at the end of ext2_get_gps.                                 *)
(*                                                                         *)
(* A machine word is a pair of digits to the base Base, the low one first. *)
(* A file system may be moved to a machine of another byte order.          *)
(***************************************************************************)
EXTENDS Integers

CONSTANTS
  Orders,        \* the byte orders of the machines: "little", "big"
  Base,          \* values of a byte (256 in the code)
  Coordinates,   \* the coordinates users send, as numbers
  MaxBack        \* bound: how often the clock is set back

ASSUME GpsOnDiskAssumption ==
  /\ Orders \subseteq {"little", "big"} /\ Orders # {}
  /\ Base \in Nat /\ Base > 1
  /\ MaxBack \in Nat
  /\ Coordinates \subseteq 0 .. (Base * Base - 1)

Byte == 0 .. Base - 1
Word == Byte \X Byte
Modulus == Base * Base
Seconds == 0 .. Modulus - 1

Digits(n) == <<n % Base, n \div Base>>
Number(w) == w[1] + Base * w[2]
Swap(w) == <<w[2], w[1]>>

\* What a machine's memory holds, byte by byte, when it stores a word.
Image(order, w) == IF order = "little" THEN w ELSE Swap(w)
Loaded(order, bytes) == IF order = "little" THEN bytes ELSE Swap(bytes)

\* mutant: the macros taken for no-ops
cpu_to_le_Identity(order, w) == w

cpu_to_le(order, w) == IF order = "little" THEN w ELSE Swap(w)
le_to_cpu(order, w) == IF order = "little" THEN w ELSE Swap(w)

\* The value of a word read as a signed integer.
Signed(n) == IF n >= Modulus \div 2 THEN n - Modulus ELSE n

VARIABLES
  order,     \* the byte order of the machine the file system is mounted on
  now,       \* get_seconds()
  back,      \* how often the clock was set back
  k_gps,     \* kernel_gps: the coordinates (one word) and the timestamp
  ram,       \* i_gps in memory
  disk,      \* the bytes in the inode table
  truth,     \* what was recorded with the inode last
  seen       \* byte orders of the machines that had that record in memory

vars == <<order, now, back, k_gps, ram, disk, truth, seen>>

Location == [loc : Word, age : Word]

(* Types of the location in the kernel, in the inode and in the inode      *)
(* table (fs/ext2/ext2.h).                                                 *)
TypeOK ==
  /\ order \in Orders
  /\ now \in Seconds
  /\ back \in 0 .. MaxBack
  /\ k_gps \in [loc : Word, time : Seconds]
  /\ ram \in Location
  /\ disk \in Location
  /\ truth \in [loc : Word, time : Seconds]
  /\ seen \subseteq Orders

\* An inode as mke2fs leaves it; the kernel has the location it booted with.
Init ==
  /\ order \in Orders
  /\ now \in Seconds
  /\ back = 0
  /\ k_gps = [loc |-> Digits(1), time |-> 0]
  /\ ram = [loc |-> Digits(0), age |-> Digits(0)]
  /\ disk = ram
  /\ truth = [loc |-> Digits(0), time |-> 0]
  /\ seen = {order}

Tick ==
  /\ now < Modulus - 1
  /\ now' = now + 1
  /\ UNCHANGED <<order, back, k_gps, ram, disk, truth, seen>>

\* settimeofday
SetClockBack ==
  /\ back < MaxBack
  /\ now > 0
  /\ now' = now - 1
  /\ back' = back + 1
  /\ UNCHANGED <<order, k_gps, ram, disk, truth, seen>>

\* set_gps_location: coordinates of the user's, the time of the kernel's.
NewFix(n) ==
  /\ k_gps' = [loc |-> Digits(n), time |-> now]
  /\ UNCHANGED <<order, now, back, ram, disk, truth, seen>>

\* mutant: the time of the modification instead of the time of the fix
SetGps_StampsNow ==
  /\ ram' = [loc |-> k_gps.loc, age |-> cpu_to_le(order, Digits(now))]
  /\ truth' = k_gps
  /\ seen' = {order}
  /\ UNCHANGED <<order, now, back, k_gps, disk>>

\* ext2_set_gps: the coordinates as they are, the timestamp as le32.
SetGps ==
  /\ ram' = [loc |-> k_gps.loc, age |-> cpu_to_le(order, Digits(k_gps.time))]
  /\ truth' = k_gps
  /\ seen' = {order}
  /\ UNCHANGED <<order, now, back, k_gps, disk>>

\* __ext2_write_inode converts all fields.
OnDisk(loc) ==
  [loc |-> Image(order, cpu_to_le(order, loc.loc)),
   age |-> Image(order, cpu_to_le(order, loc.age))]

WriteInode ==
  /\ disk' = OnDisk(ram)
  /\ UNCHANGED <<order, now, back, k_gps, ram, truth, seen>>

\* ext2_iget, on this or on another machine, of an inode that was written.
Iget(o) ==
  /\ disk = OnDisk(ram)
  /\ order' = o
  /\ ram' = [loc |-> le_to_cpu(o, Loaded(o, disk.loc)),
             age |-> le_to_cpu(o, Loaded(o, disk.age))]
  /\ seen' = seen \cup {o}
  /\ UNCHANGED <<now, back, k_gps, disk, truth>>

Next ==
  \/ Tick \/ SetClockBack \/ SetGps \/ WriteInode
  \/ \E n \in Coordinates : NewFix(n)
  \/ \E o \in Orders : Iget(o)

Spec == Init /\ [][Next]_vars

\* ext2_get_gps: (int) (get_seconds() - age), in words.
ext2_get_gps == Signed((now - Number(ram.age)) % Modulus)

-----------------------------------------------------------------------------
(* "compatible with both big-endian and little endian systems" (README:17):*)
(* the coordinates read back are the ones recorded, on whichever machine.  *)
CoordinatesSurvive == ram.loc = truth.loc

(* The age read back is the time since the fix, as long as that fits and   *)
(* the record was never in the memory of a big-endian machine              *)
(* (fs/ext2/namei.c:189-190, 248-253, fs/ext2/inode.c:1351, 1495).  Those  *)
(* swap the timestamp twice on the way to the disk, ext2_get_gps not at    *)
(* all.  A clock that was set back gives a negative age, which the caller  *)
(* takes for an error (kernel/gps.c:244, 284).                             *)
AgeIsElapsed ==
  seen = {"little"} /\ now - truth.time \in -(Modulus \div 2) .. (Modulus \div 2 - 1)
    => ext2_get_gps = now - truth.time

=============================================================================
