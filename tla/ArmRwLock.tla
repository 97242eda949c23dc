------------------------------ MODULE ArmRwLock ------------------------------
(***************************************************************************)
(* The reader/writer spin lock of the ARM build (arch/arm/include/asm/     *)
(* spinlock.h), which both gps_lock (kernel/gps.c) and the i_gps_lock of   *)
(* every ext2 inode are.  A lock is one machine word.  A writer sets its   *)
(* top bit, each reader adds one, and "negative" means the top bit is set. *)
(*                                                                         *)
(* The word keeps its width: arithmetic is modulo 2 * Bit31, so that an    *)
(* unbalanced unlock wraps exactly as the strex of the code would.         *)
(***************************************************************************)
EXTENDS Integers

CONSTANT Bit31      \* 0x80000000 in the code; any small number for TLC

ASSUME Bit31Assumption == Bit31 \in Nat /\ Bit31 > 1

LockWord == 0 .. (2 * Bit31 - 1)

Unlocked == 0
WriteLocked == Bit31

\* "adds %0, %0, #1": what a reader is about to store.
ReadLocked(word) == (word + 1) % (2 * Bit31)

\* "strexpl": the store happens only if the sum is not negative.
CanReadLock(word) == ReadLocked(word) < Bit31

\* mutant: an unlock that stores zero, as the one for writers does
ReadUnlocked_StoresZero(word) == Unlocked

\* "sub %0, %0, #1", whoever calls it and whatever the word is.
ReadUnlocked(word) == (word - 1) % (2 * Bit31)

\* mutant: a writer that only waits for other writers
CanWriteLock_IgnoresReaders(word) == word < Bit31

\* "teq %0, #0": a writer waits for a word that is exactly zero.
CanWriteLock(word) == word = Unlocked

=============================================================================
