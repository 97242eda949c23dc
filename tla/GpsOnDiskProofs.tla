--------------------------- MODULE GpsOnDiskProofs ---------------------------
(***************************************************************************)
(* Theorems about GpsOnDisk, for machine words of any size and machines of *)
(* either byte order.                                                      *)
(***************************************************************************)
EXTENDS GpsOnDisk, TLAPS

-----------------------------------------------------------------------------
(* Words                                                                   *)

(* Division with remainder, the fact about digits the rest depends on.     *)
LEMMA DivMod ==
  ASSUME NEW n \in Nat, NEW b \in Nat, b > 0
  PROVE  /\ n % b \in 0 .. b - 1
         /\ n \div b \in Nat
         /\ (n % b) + b * (n \div b) = n
OBVIOUS

LEMMA ModulusType == Modulus \in Nat /\ Modulus > 1 /\ Base < Modulus
<1>1. Base \in Nat /\ Base > 1
  BY GpsOnDiskAssumption
<1>2. Base * Base \in Nat /\ Base * Base >= 2 * Base
  BY <1>1
<1> QED
  BY <1>1, <1>2 DEF Modulus

(* A number that fits is two digits, and the digits give it back.          *)
LEMMA DigitsOfNumber ==
  ASSUME NEW n \in Seconds
  PROVE  Digits(n) \in Word /\ Number(Digits(n)) = n
<1>1. n \in Nat /\ n < Base * Base
  BY ModulusType DEF Seconds, Modulus
<1>2. Base \in Nat /\ Base > 0
  BY GpsOnDiskAssumption
<1> DEFINE q == n \div Base
           r == n % Base
<1>3. r \in 0 .. Base - 1 /\ q \in Nat /\ r + Base * q = n
  BY <1>1, <1>2, DivMod
<1> HIDE DEF q, r
<1>4. q < Base
  <2> SUFFICES ASSUME q >= Base PROVE FALSE
    BY <1>2, <1>3
  <2>1. Base * q >= Base * Base
    BY <1>2, <1>3
  <2>2. Base * q \in Nat /\ Base * Base \in Nat
    BY <1>2, <1>3
  <2> QED
    BY <1>1, <1>2, <1>3, <2>1, <2>2
<1>5. Digits(n) = <<r, q>>
  BY DEF Digits, q, r
<1> QED
  BY <1>2, <1>3, <1>4, <1>5 DEF Word, Byte, Number

(* Storing a word as __ext2_write_inode does, and loading it as ext2_iget  *)
(* does, on whichever machine, changes nothing (fs/ext2/inode.c:1348-1351, *)
(* 1492-1495).                                                             *)
LEMMA RoundTrip ==
  ASSUME NEW w \in Word, NEW o \in Orders
  PROVE  Image(o, cpu_to_le(o, w)) = w /\ le_to_cpu(o, Loaded(o, w)) = w
<1>1. w = <<w[1], w[2]>>
  BY DEF Word
<1> QED
  BY <1>1 DEF Image, Loaded, cpu_to_le, le_to_cpu, Swap

LEMMA ConvertedIsWord ==
  ASSUME NEW w \in Word, NEW o \in Orders
  PROVE  cpu_to_le(o, w) \in Word
BY DEF cpu_to_le, Swap, Word

(* The difference of two times, taken modulo the word, is the signed       *)
(* difference if that fits (fs/ext2/namei.c:248-253).                      *)
LEMMA SignedDifference ==
  ASSUME NEW x \in Int, x \in -(Modulus \div 2) .. (Modulus \div 2 - 1)
  PROVE  Signed(x % Modulus) = x
<1> DEFINE m == Modulus
           h == m \div 2
<1>0. Signed(x % m) = IF x % m >= h THEN (x % m) - m ELSE x % m
  BY DEF Signed
<1>1. m \in Nat /\ m > 1 /\ h \in Nat /\ 2 * h <= m /\ m <= 2 * h + 1
  BY ModulusType
<1>2. x >= -h /\ x < h
  BY <1>1
<1> HIDE DEF m, h
<1>3. \A k \in 0 .. m - 1 : k % m = k /\ (k - m) % m = k
  BY <1>1
<1>4. CASE x >= 0
  <2>1. x % m = x
    BY <1>1, <1>2, <1>3, <1>4
  <2> QED
    BY <1>0, <1>1, <1>2, <2>1 DEF m
<1>5. CASE x < 0
  <2>1. x + m \in 0 .. m - 1 /\ (x + m) - m = x
    BY <1>1, <1>2, <1>5
  <2>2. x % m = x + m
    BY <1>3, <2>1
  <2>3. x + m >= h
    BY <1>1, <1>2
  <2> QED
    BY <1>0, <1>1, <2>2, <2>3 DEF m
<1> QED
  BY <1>4, <1>5

-----------------------------------------------------------------------------
(* The inode                                                               *)

(* The coordinates in the inode are the ones recorded; the timestamp is    *)
(* the recorded time, as long as only little-endian machines touched it.   *)
RecordInv ==
  /\ ram.loc = truth.loc
  /\ order \in seen
  /\ seen = {"little"} => ram.age = Digits(truth.time)

Inv == TypeOK /\ RecordInv

LEMMA InvInit == Init => Inv
<1> SUFFICES ASSUME Init PROVE Inv
  OBVIOUS
<1>1. 0 \in Seconds /\ 1 \in Seconds
  BY ModulusType DEF Seconds
<1>2. Digits(0) \in Word /\ Digits(1) \in Word
  BY <1>1, DigitsOfNumber
<1> QED
  BY <1>1, <1>2, GpsOnDiskAssumption DEF Init, Inv, TypeOK, RecordInv, Location

(* ext2_iget of an inode that was written leaves what was in memory.       *)
LEMMA IgetKeepsRam ==
  ASSUME TypeOK, NEW o \in Orders, Iget(o)
  PROVE  ram' = ram
<1>1. ram = [loc |-> ram.loc, age |-> ram.age] /\ ram.loc \in Word /\ ram.age \in Word
  BY DEF TypeOK, Location
<1>2. disk.loc = ram.loc /\ disk.age = ram.age
  BY <1>1, RoundTrip DEF Iget, OnDisk, TypeOK
<1>3. ram' = [loc |-> ram.loc, age |-> ram.age]
  BY <1>1, <1>2, RoundTrip DEF Iget
<1> QED
  BY <1>1, <1>3

LEMMA InvNext == Inv /\ [Next]_vars => Inv'
<1> SUFFICES ASSUME Inv, [Next]_vars PROVE Inv'
  OBVIOUS
<1> USE DEF Inv, TypeOK, RecordInv
<1>0. Modulus \in Nat /\ MaxBack \in Nat
  BY ModulusType, GpsOnDiskAssumption
<1>1. CASE UNCHANGED vars
  BY <1>1 DEF vars
<1>2. CASE Tick
  BY <1>0, <1>2 DEF Tick, Seconds
<1>3. CASE SetClockBack
  BY <1>0, <1>3 DEF SetClockBack, Seconds
<1>4. CASE SetGps
  <2>1. Digits(k_gps.time) \in Word
    BY DigitsOfNumber
  <2>2. ram' \in Location
    BY <1>4, <2>1, ConvertedIsWord DEF SetGps, Location
  <2>3. seen' = {"little"} => ram'.age = Digits(truth'.time)
    BY <1>4 DEF SetGps, cpu_to_le
  <2> QED
    BY <1>4, <2>2, <2>3 DEF SetGps
<1>5. CASE WriteInode
  <2>1. disk' \in Location
    BY <1>5, RoundTrip DEF WriteInode, OnDisk, Location
  <2> QED
    BY <1>5, <2>1 DEF WriteInode
<1>6. ASSUME NEW n \in Coordinates, NewFix(n)
      PROVE  Inv'
  <2>1. Digits(n) \in Word
    BY DigitsOfNumber, GpsOnDiskAssumption DEF Seconds, Modulus
  <2> QED
    BY <1>6, <2>1 DEF NewFix
<1>7. ASSUME NEW o \in Orders, Iget(o)
      PROVE  Inv'
  <2>1. ram' = ram
    BY <1>7, IgetKeepsRam
  <2>2. seen' = {"little"} => seen = {"little"}
    BY <1>7 DEF Iget
  <2> QED
    BY <1>7, <2>1, <2>2 DEF Iget
<1> QED
  BY <1>1, <1>2, <1>3, <1>4, <1>5, <1>6, <1>7 DEF Next

LEMMA InvAlways == Spec => []Inv
BY InvInit, InvNext, PTL DEF Spec

(* An inode moved between machines keeps its coordinates, whatever the     *)
(* byte orders: the conversions of fs/ext2/inode.c:1348-1351 and 1492-1495 *)
(* undo each other (README:17).                                            *)
THEOREM CoordinatesAreKept == Spec => []CoordinatesSurvive
<1>1. Inv => CoordinatesSurvive
  BY DEF Inv, RecordInv, CoordinatesSurvive
<1> QED
  BY <1>1, InvAlways, PTL

(* ext2_get_gps reports the time since the fix on little-endian machines,  *)
(* also when the subtraction wraps (fs/ext2/namei.c:248-253).              *)
THEOREM AgeIsRight == Spec => []AgeIsElapsed
<1>1. Inv => AgeIsElapsed
  <2> SUFFICES ASSUME Inv, seen = {"little"},
                      now - truth.time \in -(Modulus \div 2) .. (Modulus \div 2 - 1)
               PROVE  ext2_get_gps = now - truth.time
    BY DEF AgeIsElapsed
  <2>1. Number(ram.age) = truth.time
    BY DigitsOfNumber DEF Inv, TypeOK, RecordInv
  <2>2. now - truth.time \in Int
    BY ModulusType DEF Inv, TypeOK, Seconds
  <2> QED
    BY <2>1, <2>2, SignedDifference DEF ext2_get_gps
<1> QED
  BY <1>1, InvAlways, PTL

=============================================================================
