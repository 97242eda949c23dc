---------------------------- MODULE Ext2DirProofs ----------------------------
(***************************************************************************)
(* Proofs about the records of a directory, for blocks, pages and          *)
(* directories of any size and any set of names.                           *)
(***************************************************************************)
EXTENDS Ext2Dir, WellFoundedInduction, TLAPS

(* Every set of numbers that is not empty has a least element.             *)
LEMMA LeastExists ==
  ASSUME NEW S, S \subseteq Nat, S # {}
  PROVE  \E x \in S : \A y \in S : x <= y
<1>1. \E x \in S : \A y \in S : ~ (<<y, x>> \in OpToRel(<, Nat))
  BY NatLessThanWellFounded, WFMin
<1>2. \A x, y \in Nat : (<<y, x>> \in OpToRel(<, Nat)) <=> y < x
  BY DEF OpToRel
<1>3. \E x \in S : \A y \in S : ~ (y < x)
  BY <1>1, <1>2, Zenon
<1> QED
  BY <1>3

(* A bounded set of numbers that is not empty has a greatest element.      *)
LEMMA GreatestExists ==
  ASSUME NEW S, S \subseteq Nat, S # {}, NEW b \in Nat, \A y \in S : y <= b
  PROVE  \E x \in S : \A y \in S : x >= y
<1> DEFINE T == {b - y : y \in S}
<1>0. \A y \in S : b - y \in Nat
  OBVIOUS
<1>1. T \subseteq Nat /\ T # {}
  BY <1>0, Zenon
<1>2. PICK t \in T : \A u \in T : t <= u
  BY <1>1, LeastExists
<1>3. PICK x \in S : t = b - x
  OBVIOUS
<1>4. \A y \in S : b - x <= b - y
  BY <1>2, <1>3
<1> QED
  BY <1>4

(* Min is the least element.                                               *)
LEMMA MinIs ==
  ASSUME NEW S, S \subseteq Nat, S # {}
  PROVE  Min(S) \in S /\ \A y \in S : Min(S) <= y
BY LeastExists DEF Min

(* Min of two numbers.                                                     *)
LEMMA MinOfTwo ==
  ASSUME NEW a \in Int, NEW b \in Int
  PROVE  Min({a, b}) = IF a <= b THEN a ELSE b
BY DEF Min

(* Max is the greatest element.                                            *)
LEMMA MaxIs ==
  ASSUME NEW S, S \subseteq Nat, S # {}, NEW b \in Nat, \A y \in S : y <= b
  PROVE  Max(S) \in S /\ \A y \in S : Max(S) >= y
BY GreatestExists DEF Max

(* Max of two numbers.                                                     *)
LEMMA MaxOfTwo ==
  ASSUME NEW a \in Int, NEW b \in Int
  PROVE  Max({a, b}) = IF a <= b THEN b ELSE a
BY DEF Max

-----------------------------------------------------------------------------
(* The walk over records                                                   *)

\* Headers whose lengths are numbers.
Lengths(d) == \A o \in Offsets : d[o].rec_len \in Nat

\* A set of offsets that the walk up to "to" does not leave.
Closed(d, to, S) ==
  \A o \in S : o \in Offsets /\ o <= to /\ d[o].rec_len # 0
    => o + d[o].rec_len \in S

\* The offsets in every closed set that holds o.
Reach(d, to, o) ==
  {x \in Offsets : x <= to /\ \A S \in SUBSET Nat : o \in S /\ Closed(d, to, S) => x \in S}

(* Records begin at numbers.                                               *)
LEMMA OffsetsAreNumbers == Offsets \subseteq Nat
BY Ext2DirAssumption DEF Offsets

(* What can be reached from an offset is the offset itself and what can be *)
(* reached from the next one.                                              *)
LEMMA ReachStep ==
  ASSUME NEW d, Lengths(d), NEW to \in Int, NEW o \in Nat
  PROVE  Reach(d, to, o) =
           IF o \notin Offsets \/ o > to THEN {}
           ELSE {o} \cup IF d[o].rec_len = 0 THEN {} ELSE Reach(d, to, o + d[o].rec_len)
<1> USE OffsetsAreNumbers
<1>1. CASE o \notin Offsets \/ o > to
  <2>1. Closed(d, to, {o}) /\ {o} \in SUBSET Nat
    BY <1>1 DEF Closed
  <2>2. \A x \in Reach(d, to, o) : x \in {o} /\ x \in Offsets /\ x <= to
    BY <2>1 DEF Reach
  <2> QED
    BY <1>1, <2>2
<1>2. CASE o \in Offsets /\ o <= to
  <2> DEFINE next == o + d[o].rec_len
             T == {o} \cup IF d[o].rec_len = 0 THEN {} ELSE Reach(d, to, next)
  <2>0. next \in Nat
    BY <1>2 DEF Lengths
  <2>1. o \in Reach(d, to, o)
    BY <1>2 DEF Reach
  <2>2. ASSUME d[o].rec_len # 0 PROVE Reach(d, to, next) \subseteq Reach(d, to, o)
    <3> SUFFICES ASSUME NEW x \in Reach(d, to, next),
                        NEW S \in SUBSET Nat, o \in S, Closed(d, to, S)
                 PROVE  x \in S
      BY DEF Reach
    <3>1. next \in S
      BY <1>2, <2>2 DEF Closed
    <3> QED
      BY <3>1 DEF Reach
  <2>3. Reach(d, to, o) \subseteq T
    <3> DEFINE U == {o} \cup IF d[o].rec_len = 0 THEN {}
                             ELSE {x \in Nat : \A S \in SUBSET Nat : next \in S /\ Closed(d, to, S) => x \in S}
    <3>1. U \in SUBSET Nat /\ o \in U
      OBVIOUS
    <3>2. Closed(d, to, U)
      <4> SUFFICES ASSUME NEW x \in U, x \in Offsets, x <= to, d[x].rec_len # 0
                   PROVE  x + d[x].rec_len \in U
        BY DEF Closed
      <4>0. x + d[x].rec_len \in Nat
        BY DEF Lengths
      <4>1. CASE x = o
        BY <2>0, <4>1
      <4>2. CASE x # o
        <5>1. d[o].rec_len # 0 /\ \A S \in SUBSET Nat : next \in S /\ Closed(d, to, S) => x \in S
          BY <4>2
        <5>2. \A S \in SUBSET Nat : next \in S /\ Closed(d, to, S) => x + d[x].rec_len \in S
          BY <5>1 DEF Closed
        <5> QED
          BY <4>0, <5>1, <5>2
      <4> QED
        BY <4>1, <4>2
    <3>3. \A x \in Reach(d, to, o) : x \in U /\ x \in Offsets /\ x <= to
      BY <3>1, <3>2 DEF Reach
    <3>4. \A x \in U : x \in Offsets /\ x <= to => x \in T
      BY DEF Reach
    <3> QED
      BY <3>3, <3>4
  <2> QED
    BY <1>2, <2>1, <2>2, <2>3
<1> QED
  BY <1>1, <1>2

(* The recursive definition of Walk has a solution.                        *)
LEMMA WalkStep ==
  ASSUME NEW d, Lengths(d), NEW to \in Int, NEW o \in Nat
  PROVE  Walk(d, o, to) =
           IF o \notin Offsets \/ o > to THEN {}
           ELSE {o} \cup IF d[o].rec_len = 0 THEN {} ELSE Walk(d, o + d[o].rec_len, to)
<1> DEFINE E(f) == [x \in Nat |->
                      IF x \notin Offsets \/ x > to THEN {}
                      ELSE {x} \cup IF d[x].rec_len = 0 THEN {} ELSE f[x + d[x].rec_len]]
           visit == CHOOSE f : f = E(f)
           reach == [x \in Nat |-> Reach(d, to, x)]
<1>1. reach = E(reach)
  <2>1. ASSUME NEW x \in Nat PROVE reach[x] = E(reach)[x]
    <3>1. x \in Offsets => x + d[x].rec_len \in Nat
      BY DEF Lengths
    <3> QED
      BY <3>1, ReachStep
  <2> QED
    BY <2>1
<1>2. visit = E(visit)
  BY <1>1, Zenon
<1>3. \A x : Walk(d, x, to) = visit[x]
  BY DEF Walk
<1> HIDE DEF visit
<1> QED
  BY <1>2, <1>3

-----------------------------------------------------------------------------
(* Arithmetic                                                              *)

(* Division with remainder.                                                *)
LEMMA Division ==
  ASSUME NEW a \in Nat, NEW b \in Nat \ {0}
  PROVE  /\ a \div b \in Nat /\ a % b \in Nat
         /\ a % b < b
         /\ b * (a \div b) + (a % b) = a
<1>1. b \in Int /\ b > 0 /\ a \in Int
  OBVIOUS
<1>2. b * (a \div b) + (a % b) = a
  BY <1>1, Z3
<1>3. a \div b \in Nat /\ a % b \in Nat /\ a % b < b
  OBVIOUS
<1> QED
  BY <1>2, <1>3, Zenon

(* Multiples of a number are as far apart as the number.                   *)
LEMMA MultiplesApart ==
  ASSUME NEW b \in Nat, NEW x \in Nat, NEW y \in Nat, x < y
  PROVE  b * x + b <= b * y
<1>1. PICK z \in Nat : y = x + 1 + z
  <2>1. y - x - 1 \in Nat /\ y = x + 1 + (y - x - 1)
    OBVIOUS
  <2> QED
    BY <2>1
<1>2. b * y = b * x + b + b * z
  BY <1>1
<1>3. b * z \in Nat /\ b * x \in Nat
  OBVIOUS
<1> QED
  BY <1>2, <1>3

(* There is only one quotient and one remainder.                           *)
LEMMA DivisionUnique ==
  ASSUME NEW a \in Nat, NEW b \in Nat \ {0}, NEW q \in Nat, NEW r \in Nat,
         a = b * q + r, r < b
  PROVE  a \div b = q /\ a % b = r
<1> DEFINE q1 == a \div b
           r1 == a % b
<1>1. q1 \in Nat /\ r1 \in Nat /\ r1 < b /\ a = b * q1 + r1
  BY Division
<1> HIDE DEF q1, r1
<1>2. \A x, y \in Nat : x < y => b * x + b <= b * y
  BY MultiplesApart
<1>3. b * q \in Nat /\ b * q1 \in Nat
  BY <1>1
<1>4. ~ (q1 < q)
  BY <1>1, <1>2, <1>3
<1>5. ~ (q < q1)
  BY <1>1, <1>2, <1>3
<1>6. q1 = q
  BY <1>1, <1>4, <1>5
<1> QED
  BY <1>1, <1>3, <1>6 DEF q1, r1

(* A multiple has no remainder.                                            *)
LEMMA Multiple ==
  ASSUME NEW b \in Nat \ {0}, NEW q \in Nat
  PROVE  (b * q) \in Nat /\ (b * q) % b = 0
<1>1. b * q \in Nat /\ b * q = b * q + 0
  OBVIOUS
<1> QED
  BY <1>1, DivisionUnique, 0 < b

(* The sizes of records, chunks and pages.                                 *)
LEMMA Sizes ==
  /\ ChunkSize \in Nat \ {0} /\ PageSize \in Nat \ {0} /\ MaxSize \in Nat \ {0}
  /\ MinRec = 12 /\ ChunkSize >= 24 /\ ChunkSize % 4 = 0
<1>1. MinRec = 12
  BY DEF MinRec, EXT2_DIR_REC_LEN
<1> QED
  BY <1>1, Ext2DirAssumption

(* A record that fits a name is no longer than a chunk, holds the name and *)
(* ends at a multiple of four.                                             *)
LEMMA NeedsBounds ==
  ASSUME NEW n \in Names
  PROVE  /\ NameLen(n) \in Nat \ {0}
         /\ Needs(n) \in Nat /\ Needs(n) % 4 = 0
         /\ Needs(n) >= 8 + NameLen(n) /\ Needs(n) >= MinRec /\ Needs(n) <= ChunkSize
<1>1. NameLen(n) \in Nat \ {0} /\ (NameLen(n) = LongLen \/ NameLen(n) \in {1, 2})
  BY Ext2DirAssumption DEF NameLen
<1>2. ASSUME NEW len \in Nat, len > 0
      PROVE  LET r == EXT2_DIR_REC_LEN(len) IN
             r \in Nat /\ r % 4 = 0 /\ r >= 8 + len /\ r >= 12
  <2> DEFINE k == (len + 8 + 3) \div 4
  <2>1. k \in Nat /\ 4 * k <= len + 11 /\ len + 11 < 4 * k + 4
    BY <1>2
  <2> HIDE DEF k
  <2>2. EXT2_DIR_REC_LEN(len) = k * 4
    BY DEF EXT2_DIR_REC_LEN, k
  <2> QED
    BY <1>2, <2>1, <2>2
<1>3. EXT2_DIR_REC_LEN(2) = 12
  BY DEF EXT2_DIR_REC_LEN
<1>4. Needs(n) <= ChunkSize
  BY <1>1, <1>3, Ext2DirAssumption DEF Needs, MinRec, EXT2_DIR_REC_LEN
<1> QED
  BY <1>1, <1>2, <1>4, Sizes DEF Needs

(* The shortest records are those of "." and "..".                         *)
LEMMA NeedsOfDots == Needs(Dot) = MinRec /\ Needs(DotDot) = MinRec
BY Ext2DirAssumption DEF Needs, NameLen, MinRec, EXT2_DIR_REC_LEN, Dot, DotDot

(* The offsets are the multiples of four up to the bound.                  *)
LEMMA InOffsets ==
  ASSUME NEW x \in Nat
  PROVE  x \in Offsets <=> x % 4 = 0 /\ x <= MaxSize + PageSize
<1> DEFINE top == (MaxSize + PageSize) \div 4
<1>1. top \in Nat /\ 4 * top <= MaxSize + PageSize /\ MaxSize + PageSize < 4 * top + 4
  BY Sizes
<1> HIDE DEF top
<1>2. x \in Offsets <=> \E k \in 0 .. top : x = 4 * k
  BY DEF Offsets, top
<1>3. ASSUME x % 4 = 0, x <= MaxSize + PageSize PROVE \E k \in 0 .. top : x = 4 * k
  <2>1. PICK k \in Nat : x = 4 * k
    <3>1. (x \div 4) \in Nat /\ x = 4 * (x \div 4)
      BY <1>3, Division
    <3> QED
      BY <3>1
  <2> QED
    BY <1>1, <1>3, <2>1, Sizes
<1> QED
  BY <1>1, <1>2, <1>3, Sizes

(* Chunks begin at multiples of four and follow each other.                *)
LEMMA ChunkMultiples ==
  ASSUME NEW c \in Nat, c % ChunkSize = 0
  PROVE  /\ c % 4 = 0
         /\ (c + ChunkSize) % ChunkSize = 0
         /\ \A e \in Nat : e % ChunkSize = 0 /\ c < e => c + ChunkSize <= e
<1>1. PICK k \in Nat : c = ChunkSize * k
  <2>1. (c \div ChunkSize) \in Nat /\ c = ChunkSize * (c \div ChunkSize)
    BY Sizes, Division
  <2> QED
    BY <2>1
<1>2. c % 4 = 0
  <2>1. PICK m \in Nat : ChunkSize = 4 * m
    <3>1. (ChunkSize \div 4) \in Nat /\ ChunkSize = 4 * (ChunkSize \div 4)
      BY Sizes, Division
    <3> QED
      BY <3>1
  <2>2. c = 4 * (m * k) /\ m * k \in Nat
    BY <1>1, <2>1
  <2>3. \A z \in Nat : (4 * z) % 4 = 0
    BY Multiple
  <2> QED
    BY <2>2, <2>3
<1>3. (c + ChunkSize) % ChunkSize = 0
  <2>1. k + 1 \in Nat /\ c + ChunkSize = ChunkSize * (k + 1)
    BY <1>1, Sizes
  <2>2. \A z \in Nat : (ChunkSize * z) % ChunkSize = 0
    BY Multiple, Sizes
  <2>3. (ChunkSize * (k + 1)) % ChunkSize = 0
    BY <2>1, <2>2, Zenon
  <2> QED
    BY <2>1, <2>3, Zenon
<1>4. ASSUME NEW e \in Nat, e % ChunkSize = 0, c < e PROVE c + ChunkSize <= e
  <2>1. PICK j \in Nat : e = ChunkSize * j
    <3>1. (e \div ChunkSize) \in Nat /\ e = ChunkSize * (e \div ChunkSize)
      BY <1>4, Sizes, Division
    <3> QED
      BY <3>1
  <2>2. k < j
    <3>1. j < k => ChunkSize * j + ChunkSize <= ChunkSize * k
      BY MultiplesApart, Sizes
    <3> QED
      BY <1>1, <1>4, <2>1, <3>1, Sizes
  <2> QED
    BY <1>1, <2>1, <2>2, MultiplesApart, Sizes
<1> QED
  BY <1>2, <1>3, <1>4

(* The chunk of an offset.                                                 *)
LEMMA ChunkOfIs ==
  ASSUME NEW o \in Nat
  PROVE  /\ ChunkOf(o) \in Nat /\ ChunkOf(o) % ChunkSize = 0
         /\ ChunkOf(o) <= o /\ o < ChunkOf(o) + ChunkSize
         /\ o % ChunkSize = 0 <=> ChunkOf(o) = o
<1> DEFINE q == o \div ChunkSize
           r == o % ChunkSize
<1>1. q \in Nat /\ r \in Nat /\ r < ChunkSize /\ ChunkSize * q + r = o
  BY Division, Sizes
<1>2. ChunkOf(o) = o - r
  BY DEF ChunkOf
<1> HIDE DEF q, r
<1>3. ChunkSize * q \in Nat /\ (ChunkSize * q) % ChunkSize = 0
  BY <1>1, Multiple, Sizes
<1>4. ChunkOf(o) = ChunkSize * q
  BY <1>1, <1>2, <1>3
<1>5. r = 0 <=> ChunkOf(o) = o
  BY <1>1, <1>2
<1> QED
  BY <1>1, <1>3, <1>4, <1>5, Sizes DEF r

(* Pages begin where chunks do.                                            *)
LEMMA PageStart ==
  ASSUME NEW p \in Nat
  PROVE  p * PageSize \in Nat /\ (p * PageSize) % ChunkSize = 0
<1>1. PICK k \in Nat : PageSize = ChunkSize * k
  <2>1. PageSize % ChunkSize = 0
    BY Ext2DirAssumption
  <2>2. (PageSize \div ChunkSize) \in Nat /\ PageSize = ChunkSize * (PageSize \div ChunkSize)
    BY <2>1, Sizes, Division
  <2> QED
    BY <2>2
<1>2. k * p \in Nat /\ p * PageSize = ChunkSize * (k * p)
  BY <1>1, Sizes
<1> QED
  BY <1>2, Multiple, Sizes

(* Pages follow each other.                                                *)
LEMMA PageOrder ==
  ASSUME NEW p \in Nat
  PROVE  /\ (p + 1) * PageSize = p * PageSize + PageSize
         /\ \A q \in Nat : p < q => p * PageSize + PageSize <= q * PageSize
<1>1. (p + 1) * PageSize = p * PageSize + PageSize
  BY Sizes
<1>2. ASSUME NEW q \in Nat, p < q PROVE p * PageSize + PageSize <= q * PageSize
  <2>1. PageSize * p + PageSize <= PageSize * q
    BY <1>2, MultiplesApart, Sizes
  <2>2. PageSize * p = p * PageSize /\ PageSize * q = q * PageSize
    BY Sizes
  <2> QED
    BY <2>1, <2>2
<1> QED
  BY <1>1, <1>2

(* The page of an offset.                                                  *)
LEMMA PageOfIs ==
  ASSUME NEW o \in Nat
  PROVE  /\ PageOf(o) \in Nat
         /\ PageOf(o) * PageSize <= o /\ o < PageOf(o) * PageSize + PageSize
         /\ \A p \in Nat : p * PageSize <= o /\ o < p * PageSize + PageSize => PageOf(o) = p
         /\ o % PageSize = 0 <=> o = PageOf(o) * PageSize
<1> DEFINE q == o \div PageSize
           r == o % PageSize
<1>1. q \in Nat /\ r \in Nat /\ r < PageSize /\ PageSize * q + r = o
  BY Division, Sizes
<1>2. PageOf(o) = q
  BY DEF PageOf
<1> HIDE DEF q
<1>3. PageSize * q = q * PageSize /\ q * PageSize \in Nat
  BY <1>1, Sizes
<1>4. PageOf(o) * PageSize <= o /\ o < PageOf(o) * PageSize + PageSize
  BY <1>1, <1>2, <1>3, Sizes
<1>5. ASSUME NEW p \in Nat, p * PageSize <= o, o < p * PageSize + PageSize
      PROVE  q = p
  <2>1. p * PageSize \in Nat
    BY PageStart
  <2>2. ~ (p < q) /\ ~ (q < p)
    BY <1>1, <1>2, <1>3, <1>4, <1>5, <2>1, PageOrder, Sizes
  <2> QED
    BY <1>1, <2>2
<1> QED
  BY <1>1, <1>2, <1>3, <1>4, <1>5

-----------------------------------------------------------------------------
(* The records that tile a directory                                       *)

(* A walk meets only offsets of a set that it cannot leave.                *)
LEMMA WalkStays ==
  ASSUME NEW d, Lengths(d), NEW to \in Int,
         NEW S, S \subseteq Nat, Closed(d, to, S), NEW o \in S
  PROVE  \A x \in Walk(d, o, to) : x \in S /\ x \in Offsets /\ x <= to
<1> DEFINE Good(a) == \A x \in Walk(d, a, to) : x \in S /\ x \in Offsets /\ x <= to
           Bad == {a \in S : ~ Good(a)}
<1>0. \A a \in S : a \in Nat /\ (a <= to \/ Good(a))
  BY WalkStep
<1>1. SUFFICES ASSUME Bad # {} PROVE FALSE
  OBVIOUS
<1> HIDE DEF Good
<1>2. Bad \subseteq Nat /\ \A a \in Bad : a <= to
  BY <1>0, Zenon
<1>3. to \in Nat
  BY <1>1, <1>2
<1>4. PICK a \in Bad : \A b \in Bad : a >= b
  BY <1>1, <1>2, <1>3, GreatestExists
<1>5. a \in S /\ a \in Nat /\ a <= to /\ ~ Good(a)
  BY <1>2, <1>4
<1>6. Walk(d, a, to) = IF a \notin Offsets \/ a > to THEN {}
           ELSE {a} \cup IF d[a].rec_len = 0 THEN {} ELSE Walk(d, a + d[a].rec_len, to)
  BY <1>5, WalkStep
<1>7. CASE a \notin Offsets
  BY <1>5, <1>6, <1>7 DEF Good
<1>8. CASE a \in Offsets /\ d[a].rec_len = 0
  BY <1>5, <1>6, <1>8 DEF Good
<1>9. CASE a \in Offsets /\ d[a].rec_len # 0
  <2>1. d[a].rec_len \in Nat /\ a + d[a].rec_len \in S /\ a + d[a].rec_len > a
    BY <1>5, <1>9 DEF Closed, Lengths
  <2>2. a + d[a].rec_len \notin Bad
    BY <1>2, <1>4, <2>1
  <2>3. Good(a + d[a].rec_len)
    BY <2>1, <2>2
  <2> QED
    BY <1>5, <1>6, <1>9, <2>3 DEF Good
<1> QED
  BY <1>7, <1>8, <1>9

(* A walk that meets a record goes on to the one behind it.                *)
LEMMA WalkGoesOn ==
  ASSUME NEW d, Lengths(d), NEW to \in Int, NEW o \in Nat
  PROVE  \A x \in Walk(d, o, to) :
           /\ x \in Offsets
           /\ d[x].rec_len # 0 /\ x + d[x].rec_len \in Offsets /\ x + d[x].rec_len <= to
                => x + d[x].rec_len \in Walk(d, o, to)
<1> DEFINE Good(a) ==
      \A x \in Walk(d, a, to) :
           /\ x \in Offsets
           /\ d[x].rec_len # 0 /\ x + d[x].rec_len \in Offsets /\ x + d[x].rec_len <= to
                => x + d[x].rec_len \in Walk(d, a, to)
           Bad == {a \in Nat : ~ Good(a)}
<1>0. \A a \in Nat : a > to => Good(a)
  BY WalkStep
<1>1. SUFFICES ASSUME Bad # {} PROVE FALSE
  OBVIOUS
<1>2. Bad \subseteq Nat /\ \A a \in Bad : a <= to
  BY <1>0
<1>3. to \in Nat
  BY <1>1, <1>2
<1>4. PICK a \in Bad : \A b \in Bad : a >= b
  BY <1>1, <1>2, <1>3, GreatestExists
<1> HIDE DEF Good
<1>5. a \in Nat /\ a <= to /\ ~ Good(a)
  BY <1>2, <1>4
<1>6. Walk(d, a, to) = IF a \notin Offsets \/ a > to THEN {}
           ELSE {a} \cup IF d[a].rec_len = 0 THEN {} ELSE Walk(d, a + d[a].rec_len, to)
  BY <1>5, WalkStep
<1>7. CASE a \notin Offsets
  BY <1>5, <1>6, <1>7 DEF Good
<1>8. CASE a \in Offsets /\ d[a].rec_len = 0
  BY <1>5, <1>6, <1>8 DEF Good
<1>9. CASE a \in Offsets /\ d[a].rec_len # 0
  <2> DEFINE b == a + d[a].rec_len
  <2>1. b \in Nat /\ b > a
    BY <1>5, <1>9 DEF Lengths
  <2>2. Good(b)
    BY <1>2, <1>4, <2>1
  <2>3. b \in Offsets /\ b <= to => b \in Walk(d, b, to)
    BY <2>1, WalkStep
  <2>4. Walk(d, a, to) = {a} \cup Walk(d, b, to)
    BY <1>5, <1>6, <1>9
  <2>5. SUFFICES Good(a)
    BY <1>5
  <2> HIDE DEF b
  <2>6. ASSUME NEW x \in Walk(d, a, to)
        PROVE  /\ x \in Offsets
               /\ d[x].rec_len # 0 /\ x + d[x].rec_len \in Offsets /\ x + d[x].rec_len <= to
                    => x + d[x].rec_len \in Walk(d, a, to)
    <3>1. CASE x = a
      BY <1>9, <2>3, <2>4, <3>1 DEF b
    <3>2. CASE x \in Walk(d, b, to)
      BY <2>2, <2>4, <3>2 DEF Good
    <3> QED
      BY <2>4, <3>1, <3>2
  <2> QED
    BY <2>6 DEF Good
<1> QED
  BY <1>7, <1>8, <1>9

\* R are the records of a directory of this size: every chunk begins with
\* one, and each ends where the next one begins.
Tiles(d, size, R) ==
  /\ R \subseteq {o \in Offsets : o < size}
  /\ \A c \in Offsets : c < size /\ c % ChunkSize = 0 => c \in R
  /\ \A o \in R :
       /\ d[o].rec_len >= MinRec
       /\ o + d[o].rec_len \in R \cup {size}
       /\ \A x \in R : x > o => x >= o + d[o].rec_len

(* A walk that begins at a record meets the records, up to the end of the  *)
(* directory.                                                              *)
LEMMA WalkMeetsRecords ==
  ASSUME NEW d, Lengths(d), NEW size \in Offsets, NEW R, Tiles(d, size, R),
         NEW from \in R \cup {size}, NEW to \in Int
  PROVE  \A x \in Nat : x <= size =>
           (x \in Walk(d, from, to) <=> x \in R \cup {size} /\ from <= x /\ x <= to)
<1> USE OffsetsAreNumbers, Sizes
<1>0. /\ R \subseteq Nat /\ R \subseteq Offsets /\ \A x \in R : x < size
      /\ from \in Nat /\ from \in Offsets /\ size \in Nat
  BY DEF Tiles
<1>1. \A x \in R : d[x].rec_len \in Nat /\ d[x].rec_len > 0 /\ x + d[x].rec_len \in R \cup {size}
  BY <1>0 DEF Tiles, Lengths
<1>2. ASSUME NEW x \in Walk(d, from, to), x <= size
      PROVE  x \in R \cup {size} /\ from <= x /\ x <= to
  <2> DEFINE S == {y \in Nat : from <= y /\ (y \in R \cup {size} \/ y > size)}
  <2>1. Closed(d, to, S)
    <3> SUFFICES ASSUME NEW y \in S, y \in Offsets, d[y].rec_len # 0
                 PROVE  y + d[y].rec_len \in S
      BY DEF Closed
    <3>1. d[y].rec_len \in Nat
      BY DEF Lengths
    <3>2. CASE y \in R
      BY <1>0, <1>1, <3>1, <3>2
    <3>3. CASE y >= size
      BY <1>0, <3>1, <3>3
    <3> QED
      BY <1>0, <3>2, <3>3
  <2>2. from \in S /\ S \subseteq Nat
    BY <1>0
  <2> HIDE DEF S
  <2>3. x \in S /\ x <= to
    BY <2>1, <2>2, WalkStays
  <2> QED
    BY <1>0, <1>2, <2>3 DEF S
<1>3. ASSUME NEW x \in R \cup {size}, from <= x, x <= to
      PROVE  x \in Walk(d, from, to)
  <2> DEFINE V == {y \in Walk(d, from, to) : y <= x}
  <2>0. x \in Nat /\ x <= size
    BY <1>0
  <2>1. from \in Walk(d, from, to)
    BY <1>0, <1>3, <2>0, WalkStep
  <2>2. \A y \in Walk(d, from, to) : y \in Offsets
    BY <1>0, WalkGoesOn
  <2>3. V \subseteq Nat /\ V # {} /\ \A y \in V : y <= x
    BY <1>3, <2>1, <2>2
  <2>4. PICK y \in V : \A z \in V : y >= z
    BY <2>0, <2>3, GreatestExists
  <2>5. y \in Walk(d, from, to) /\ y <= x /\ y \in Nat /\ y \in R \cup {size}
    BY <1>0, <1>2, <2>0, <2>3, <2>4
  <2>6. CASE y = x
    BY <2>5, <2>6
  <2>7. CASE y < x
    <3>1. y \in R
      BY <1>0, <2>0, <2>5, <2>7
    <3>2. y + d[y].rec_len <= x /\ y + d[y].rec_len > y /\ y + d[y].rec_len \in Offsets
      BY <1>0, <1>1, <2>0, <2>7, <3>1 DEF Tiles
    <3>3. y + d[y].rec_len \in Walk(d, from, to)
      <4>1. y + d[y].rec_len <= to /\ d[y].rec_len # 0
        BY <1>1, <1>3, <2>0, <3>1, <3>2
      <4> QED
        BY <1>0, <2>5, <3>2, <4>1, WalkGoesOn
    <3>4. y + d[y].rec_len \in V
      BY <3>2, <3>3
    <3>5. y >= y + d[y].rec_len
      BY <2>4, <3>4
    <3>6. d[y].rec_len \in Nat /\ d[y].rec_len > 0
      BY <1>1, <3>1
    <3> QED
      BY <2>5, <3>5, <3>6
  <2> QED
    BY <2>0, <2>5, <2>6, <2>7
<1> QED
  BY <1>2, <1>3

(* A walk that ends before the directory does meets records only.          *)
LEMMA WalkIsRecords ==
  ASSUME NEW d, Lengths(d), NEW size \in Offsets, NEW R, Tiles(d, size, R),
         NEW from \in R, NEW to \in Int, to < size
  PROVE  Walk(d, from, to) = {x \in R : from <= x /\ x <= to}
<1>1. R \subseteq Nat /\ size \in Nat /\ from \in Nat /\ \A x \in R : x < size
  BY OffsetsAreNumbers DEF Tiles
<1>2. \A x \in Walk(d, from, to) : x \in Nat /\ x <= to
  <2>1. Closed(d, to, Nat)
    BY OffsetsAreNumbers DEF Closed, Lengths
  <2> QED
    BY <1>1, <2>1, WalkStays
<1>3. \A x \in Walk(d, from, to) : x \in R /\ from <= x /\ x <= to
  BY <1>1, <1>2, WalkMeetsRecords
<1>4. \A x \in R : from <= x /\ x <= to => x \in Walk(d, from, to)
  BY <1>1, WalkMeetsRecords
<1> QED
  BY <1>3, <1>4

(* The records of a directory are what a walk over all of it meets.        *)
LEMMA WalkOverAll ==
  ASSUME NEW d, Lengths(d), NEW size \in Offsets, size > 0, NEW R, Tiles(d, size, R)
  PROVE  Walk(d, 0, size - 1) = R
<1>1. size \in Nat /\ R \subseteq Nat /\ \A x \in R : x < size
  BY OffsetsAreNumbers DEF Tiles
<1>2. 0 \in R
  <2>1. 0 \in Offsets /\ 0 % ChunkSize = 0
    <3>1. 0 \in Nat /\ ChunkSize * 0 = 0
      BY Sizes
    <3>2. (ChunkSize * 0) % ChunkSize = 0
      BY Multiple, Sizes
    <3> QED
      BY <3>1, <3>2, InOffsets, Sizes
  <2> QED
    BY <1>1, <2>1 DEF Tiles
<1>3. size - 1 \in Int /\ size - 1 < size /\ \A x \in R : 0 <= x /\ x <= size - 1
  BY <1>1
<1>4. Walk(d, 0, size - 1) = {x \in R : 0 <= x /\ x <= size - 1}
  <2> DEFINE to == size - 1
  <2>1. to \in Int /\ to < size
    BY <1>3
  <2> HIDE DEF to
  <2>2. Walk(d, 0, to) = {x \in R : 0 <= x /\ x <= to}
    BY <1>2, <2>1, WalkIsRecords
  <2> QED
    BY <2>2 DEF to
<1> QED
  BY <1>3, <1>4, Zenon

(* The sizes a directory may have.                                         *)
LEMMA InSizes ==
  ASSUME NEW s \in Nat
  PROVE  s \in {c * ChunkSize : c \in 1 .. MaxSize \div ChunkSize}
           <=> s % ChunkSize = 0 /\ s > 0 /\ s <= MaxSize
<1> DEFINE top == MaxSize \div ChunkSize
<1>0. MaxSize % ChunkSize = 0
  BY Ext2DirAssumption
<1>1. top \in Nat /\ MaxSize = ChunkSize * top
  <2>1. MaxSize \div ChunkSize \in Nat
          /\ ChunkSize * (MaxSize \div ChunkSize) + (MaxSize % ChunkSize) = MaxSize
    BY Division, Sizes
  <2> HIDE DEF top
  <2>2. top \in Nat /\ ChunkSize * top + 0 = MaxSize
    BY <1>0, <2>1 DEF top
  <2>3. ChunkSize * top \in Nat
    BY <2>2, Sizes
  <2> QED
    BY <2>2, <2>3, Sizes
<1>2. (s \in {c * ChunkSize : c \in 1 .. MaxSize \div ChunkSize})
         <=> \E c \in 1 .. top : s = ChunkSize * c
  <2>1. \A c \in 1 .. top : c * ChunkSize = ChunkSize * c
    BY <1>1, Sizes
  <2> QED
    BY <2>1, Zenon
<1> HIDE DEF top
<1>3. ASSUME NEW c \in 1 .. top, s = ChunkSize * c
      PROVE  s % ChunkSize = 0 /\ s > 0 /\ s <= MaxSize
  <2>1. c \in Nat /\ c > 0 /\ (c = top \/ c < top)
    BY <1>1
  <2>2. s % ChunkSize = 0
    BY <1>3, <2>1, Multiple, Sizes
  <2>3. ChunkSize * 0 + ChunkSize <= ChunkSize * c
    BY <2>1, MultiplesApart, Sizes
  <2>4. s <= MaxSize
    BY <1>1, <1>3, <2>1, MultiplesApart, Sizes
  <2> QED
    BY <1>3, <2>2, <2>3, <2>4, Sizes
<1>4. ASSUME s % ChunkSize = 0, s > 0, s <= MaxSize
      PROVE  \E c \in 1 .. top : s = ChunkSize * c
  <2>1. PICK c \in Nat : s = ChunkSize * c
    <3>1. (s \div ChunkSize) \in Nat /\ s = ChunkSize * (s \div ChunkSize)
      BY <1>4, Division, Sizes
    <3> QED
      BY <3>1
  <2>2. c # 0
    BY <1>4, <2>1, Sizes
  <2>3. ~ (top < c)
    <3>1. top < c => ChunkSize * top + ChunkSize <= ChunkSize * c
      BY <1>1, MultiplesApart, Sizes
    <3> QED
      BY <1>1, <1>4, <2>1, <3>1, Sizes
  <2> QED
    BY <1>1, <2>1, <2>2, <2>3
<1> QED
  BY <1>2, <1>3, <1>4

(* What the type invariant says about the numbers of a directory.          *)
LEMMA TypeFacts ==
  ASSUME TypeOK
  PROVE  /\ Lengths(data)
         /\ i_size \in Nat /\ i_size \in Offsets /\ i_size % ChunkSize = 0
         /\ i_size >= ChunkSize /\ i_size <= MaxSize
<1>1. i_size \in Nat
  BY Sizes DEF TypeOK
<1>2. i_size % ChunkSize = 0 /\ i_size > 0 /\ i_size <= MaxSize
  BY <1>1, InSizes DEF TypeOK
<1>3. i_size \in Offsets
  BY <1>1, <1>2, ChunkMultiples, InOffsets, Sizes
<1>4. i_size >= ChunkSize
  <2>1. 0 \in Nat /\ ChunkSize * 0 = 0 /\ (ChunkSize * 0) % ChunkSize = 0
    BY Multiple, Sizes
  <2>2. 0 % ChunkSize = 0
    BY <2>1, Zenon
  <2>3. 0 + ChunkSize <= i_size
    BY <1>1, <1>2, <2>2, ChunkMultiples
  <2> QED
    BY <2>3, Sizes
<1>5. Lengths(data)
  BY DEF TypeOK, Header, Lengths
<1> QED
  BY <1>1, <1>2, <1>3, <1>4, <1>5

(* dir_pages is the number of pages that hold bytes of the directory.      *)
LEMMA DirPagesIs ==
  ASSUME TypeOK
  PROVE  /\ dir_pages \in Nat \ {0}
         /\ \A p \in Nat : p < dir_pages <=> p * PageSize < i_size
         /\ \A p : p \in Pages <=> p \in Nat /\ p * PageSize < i_size
<1>1. i_size \in Nat /\ i_size > 0
  BY TypeFacts, Sizes
<1>2. dir_pages \in Nat /\ PageSize * dir_pages <= i_size + PageSize - 1
        /\ i_size + PageSize - 1 < PageSize * dir_pages + PageSize
        /\ PageSize * dir_pages \in Nat
  <2> DEFINE a == i_size + PageSize - 1
  <2>1. a \in Nat
    BY <1>1, Sizes
  <2>2. a \div PageSize \in Nat /\ a % PageSize \in Nat /\ a % PageSize < PageSize
          /\ PageSize * (a \div PageSize) + (a % PageSize) = a
    BY <2>1, Division, Sizes
  <2>3. dir_pages = a \div PageSize
    BY DEF dir_pages
  <2> HIDE DEF a
  <2>4. PageSize * dir_pages \in Nat
    BY <2>2, <2>3, Sizes
  <2>5. PageSize * dir_pages <= a /\ a < PageSize * dir_pages + PageSize
    BY <2>1, <2>2, <2>3, <2>4, Sizes
  <2> QED
    BY <2>2, <2>3, <2>4, <2>5 DEF a
<1>3. ASSUME NEW p \in Nat PROVE p < dir_pages <=> p * PageSize < i_size
  <2>0. p * PageSize = PageSize * p /\ PageSize * p \in Nat
    BY Sizes
  <2>1. p < dir_pages => PageSize * p + PageSize <= PageSize * dir_pages
    BY <1>2, MultiplesApart, Sizes
  <2>2. dir_pages < p => PageSize * dir_pages + PageSize <= PageSize * p
    BY <1>2, MultiplesApart, Sizes
  <2> QED
    BY <1>1, <1>2, <2>0, <2>1, <2>2, Sizes
<1>4. dir_pages # 0
  <2>1. 0 * PageSize = 0
    BY Sizes
  <2> QED
    BY <1>1, <1>2, <1>3, <2>1
<1>5. \A p : p \in Pages <=> p \in Nat /\ p < dir_pages
  BY <1>2, <1>4 DEF Pages
<1> QED
  BY <1>2, <1>3, <1>4, <1>5

-----------------------------------------------------------------------------
(* What the searches meet                                                  *)

\* Records in use have a name, and every record is long enough for its name.
Named(d, R) ==
  \A o \in R :
    /\ d[o].inode # 0 => d[o].name # None
    /\ d[o].name # None => d[o].rec_len >= Needs(d[o].name)

\* The records in use.
InUse(d, R) == {o \in R : d[o].inode # 0}

(* Facts about one record of a directory.                                  *)
LEMMA RecordFacts ==
  ASSUME TypeOK, NEW R, Tiles(data, i_size, R), NEW o \in R
  PROVE  /\ o \in Nat /\ o \in Offsets /\ o < i_size /\ o % 4 = 0
         /\ data[o] \in Header /\ data[o].rec_len \in Nat
         /\ data[o].rec_len >= 12 /\ o + data[o].rec_len <= i_size
         /\ o + data[o].rec_len \in R \cup {i_size}
         /\ PageOf(o) \in Pages /\ PageOf(o) * PageSize \in Nat
         /\ PageOf(o) * PageSize <= o
         /\ o + data[o].rec_len <= PageOf(o) * PageSize + PageSize
         /\ o + data[o].rec_len <= ChunkOf(o) + ChunkSize
<1>1. o \in Nat /\ o \in Offsets /\ o < i_size /\ o % 4 = 0
  BY OffsetsAreNumbers, InOffsets DEF Tiles
<1>2. data[o] \in Header /\ data[o].rec_len \in Nat
  BY <1>1 DEF TypeOK, Header
<1>3. i_size \in Nat /\ i_size <= MaxSize /\ i_size % ChunkSize = 0
  BY TypeFacts
<1>4. /\ data[o].rec_len >= 12 /\ o + data[o].rec_len <= i_size
      /\ o + data[o].rec_len \in R \cup {i_size}
  BY <1>1, <1>2, <1>3, Sizes DEF Tiles
<1>5. PageOf(o) \in Nat /\ PageOf(o) * PageSize \in Nat
         /\ PageOf(o) * PageSize <= o /\ o < PageOf(o) * PageSize + PageSize
  BY <1>1, PageOfIs, PageStart
<1>6. PageOf(o) \in Pages
  BY <1>1, <1>3, <1>5, DirPagesIs
<1>7. ASSUME NEW c \in Nat, c % ChunkSize = 0, o < c PROVE o + data[o].rec_len <= c
  <2>1. CASE c < i_size
    <3>1. c \in Offsets
      BY <1>3, <1>7, <2>1, ChunkMultiples, InOffsets, Sizes
    <3>2. c \in R
      BY <1>7, <2>1, <3>1 DEF Tiles
    <3> QED
      BY <1>7, <3>2 DEF Tiles
  <2> QED
    BY <1>1, <1>2, <1>3, <1>4, <2>1
<1>8. o + data[o].rec_len <= PageOf(o) * PageSize + PageSize
  <2> DEFINE c == (PageOf(o) + 1) * PageSize
  <2>1. c \in Nat /\ c % ChunkSize = 0
    BY <1>5, PageStart
  <2>2. c = PageOf(o) * PageSize + PageSize
    BY <1>5, PageOrder
  <2> QED
    BY <1>5, <1>7, <2>1, <2>2
<1>9. o + data[o].rec_len <= ChunkOf(o) + ChunkSize
  <2>1. ChunkOf(o) \in Nat /\ ChunkOf(o) % ChunkSize = 0 /\ o < ChunkOf(o) + ChunkSize
    BY <1>1, ChunkOfIs
  <2>2. (ChunkOf(o) + ChunkSize) \in Nat /\ (ChunkOf(o) + ChunkSize) % ChunkSize = 0
    BY <2>1, ChunkMultiples, Sizes
  <2> QED
    BY <1>7, <2>1, <2>2
<1> QED
  BY <1>1, <1>2, <1>4, <1>5, <1>6, <1>8, <1>9

(* A chunk of the directory begins with a record.                          *)
LEMMA ChunkBegins ==
  ASSUME TypeOK, NEW R, Tiles(data, i_size, R), NEW c \in Nat, c % ChunkSize = 0, c < i_size
  PROVE  c \in R
<1>1. i_size \in Nat /\ i_size <= MaxSize
  BY TypeFacts
<1>2. c \in Offsets
  BY <1>1, ChunkMultiples, InOffsets, Sizes
<1> QED
  BY <1>2 DEF Tiles

(* Where the bytes of a page of the directory end.                         *)
LEMMA LastByteIs ==
  ASSUME TypeOK, NEW p \in Nat
  PROVE  /\ p * PageSize \in Nat /\ ext2_last_byte(p) \in Int
         /\ p * PageSize + ext2_last_byte(p) =
              IF i_size <= p * PageSize + PageSize THEN i_size ELSE p * PageSize + PageSize
<1>1. p * PageSize \in Nat /\ i_size \in Nat /\ PageSize \in Nat
  BY PageStart, TypeFacts, Sizes
<1> DEFINE b == p * PageSize
<1>2. b \in Nat
  BY <1>1
<1>3. ext2_last_byte(p) = Min({i_size - b, PageSize})
  BY DEF ext2_last_byte
<1> HIDE DEF b
<1>4. ext2_last_byte(p) = IF i_size - b <= PageSize THEN i_size - b ELSE PageSize
  BY <1>1, <1>2, <1>3, MinOfTwo
<1>5. ext2_last_byte(p) \in Int /\ b + ext2_last_byte(p) =
              IF i_size <= b + PageSize THEN i_size ELSE b + PageSize
  BY <1>1, <1>2, <1>4
<1> QED
  BY <1>2, <1>5 DEF b

(* The entries of a page are its records that leave the room.              *)
LEMMA EntriesAre ==
  ASSUME TypeOK, NEW R, Tiles(data, i_size, R), NEW p \in Pages, NEW room \in Nat \ {0}
  PROVE  Entries(p, room) =
           {x \in R : /\ p * PageSize <= x
                      /\ x + room <= i_size /\ x + room <= p * PageSize + PageSize}
<1> DEFINE b == p * PageSize
           last == ext2_last_byte(p)
           T == {x \in R : b <= x /\ x + room <= i_size /\ x + room <= b + PageSize}
<1>1. p \in Nat /\ b \in Nat /\ b % ChunkSize = 0 /\ b < i_size
  BY DirPagesIs, PageStart
<1>2. last \in Int /\ b + last = IF i_size <= b + PageSize THEN i_size ELSE b + PageSize
  BY <1>1, LastByteIs
<1>3. i_size \in Nat /\ i_size \in Offsets /\ Lengths(data)
  BY TypeFacts
<1>4. b \in R
  BY <1>1, ChunkBegins
<1>5. R \subseteq Nat
  BY OffsetsAreNumbers DEF Tiles
<1>6. Entries(p, room) = IF last < room THEN {} ELSE Walk(data, b, b + last - room)
  BY DEF Entries
<1> HIDE DEF b, last
<1>7. CASE last < room
  <2>1. \A x \in R : x \notin T
    BY <1>1, <1>2, <1>3, <1>5, <1>7, Sizes
  <2> QED
    BY <1>6, <1>7, <2>1 DEF b
<1>8. CASE last >= room
  <2> DEFINE to == b + last - room
  <2>1. to \in Int /\ to < i_size
    BY <1>1, <1>2, <1>3
  <2>2. \A x \in R : x <= to <=> x + room <= i_size /\ x + room <= b + PageSize
    BY <1>1, <1>2, <1>3, <1>5, Sizes
  <2>3. Entries(p, room) = Walk(data, b, to)
    BY <1>2, <1>6, <1>8
  <2> HIDE DEF to
  <2>4. Walk(data, b, to) = {x \in R : b <= x /\ x <= to}
    BY <1>3, <1>4, <2>1, WalkIsRecords
  <2> QED
    BY <2>2, <2>3, <2>4 DEF b
<1> QED
  BY <1>2, <1>7, <1>8

(* The records in use of a page with a name are those the search stops at. *)
LEMMA HitsAre ==
  ASSUME TypeOK, NEW R, Tiles(data, i_size, R), Named(data, R),
         NEW p \in Pages, NEW n \in Names
  PROVE  Hits(n, p) =
           IF p \in bad THEN {}
           ELSE {x \in InUse(data, R) : data[x].name = n /\ PageOf(x) = p}
<1> DEFINE T == {x \in InUse(data, R) : data[x].name = n /\ PageOf(x) = p}
<1>1. Needs(n) \in Nat \ {0} /\ p \in Nat /\ p * PageSize \in Nat
  BY NeedsBounds, Sizes, DirPagesIs, PageStart
<1>2. Entries(p, Needs(n)) =
           {x \in R : /\ p * PageSize <= x
                      /\ x + Needs(n) <= i_size /\ x + Needs(n) <= p * PageSize + PageSize}
  BY <1>1, EntriesAre
<1>3. None # n
  BY Ext2DirAssumption
<1>4. ASSUME NEW x \in R, data[x].name = n, data[x].inode # 0
      PROVE  x \in Entries(p, Needs(n)) <=> PageOf(x) = p
  <2>1. /\ x \in Nat /\ data[x].rec_len \in Nat /\ data[x].rec_len >= Needs(n)
        /\ x + data[x].rec_len <= i_size
        /\ PageOf(x) * PageSize <= x
        /\ x + data[x].rec_len <= PageOf(x) * PageSize + PageSize
        /\ PageOf(x) * PageSize \in Nat
    BY <1>3, <1>4, RecordFacts DEF Named
  <2>2. ASSUME x \in Entries(p, Needs(n)) PROVE PageOf(x) = p
    <3>1. p * PageSize <= x /\ x < p * PageSize + PageSize
      BY <1>1, <1>2, <2>1, <2>2, Sizes
    <3> QED
      BY <1>1, <2>1, <3>1, PageOfIs
  <2>3. ASSUME PageOf(x) = p PROVE x \in Entries(p, Needs(n))
    <3>1. i_size \in Nat
      BY TypeFacts
    <3>2. x + Needs(n) <= i_size /\ x + Needs(n) <= p * PageSize + PageSize /\ p * PageSize <= x
      BY <1>1, <2>1, <2>3, <3>1, Sizes
    <3> QED
      BY <1>2, <3>2
  <2> QED
    BY <2>2, <2>3
<1>5. CASE p \in bad
  BY <1>5 DEF Hits
<1>6. CASE p \notin bad
  <2>1. Hits(n, p) = {o \in Entries(p, Needs(n)) : data[o].inode # 0 /\ data[o].name = n}
    BY <1>6 DEF Hits, ext2_match
  <2>2. Entries(p, Needs(n)) \subseteq R
    BY <1>2
  <2>3. \A x : x \in Hits(n, p) <=> x \in T
    BY <1>4, <2>1, <2>2 DEF InUse
  <2>4. Hits(n, p) = T
    BY <2>3, Zenon
  <2> QED
    BY <1>6, <2>4
<1> QED
  BY <1>5, <1>6

(* The search visits every page of the directory.                          *)
LEMMA RingVisitsAll ==
  ASSUME TypeOK
  PROVE  /\ \A k \in 0 .. dir_pages - 1 : Ring(k) \in Pages
         /\ \A p \in Pages : \E k \in 0 .. dir_pages - 1 : Ring(k) = p
<1> DEFINE D == dir_pages
           s == IF start >= dir_pages THEN 0 ELSE start
<1>1. D \in Nat \ {0}
  BY DirPagesIs
<1>2. start \in Nat
  BY Sizes DEF TypeOK
<1>3. s \in Nat /\ s < D
  BY <1>1, <1>2
<1>4. \A k : Ring(k) = (s + k) % D
  BY DEF Ring
<1>5. Pages = 0 .. D - 1
  BY DEF Pages
<1> HIDE DEF D, s
<1>6. ASSUME NEW k \in 0 .. D - 1 PROVE Ring(k) \in 0 .. D - 1
  <2>1. s + k \in Nat
    BY <1>3, <1>1
  <2>2. (s + k) % D \in Nat /\ (s + k) % D < D
    BY <1>1, <2>1, Division
  <2> QED
    BY <1>1, <1>4, <2>2
<1>7. ASSUME NEW p \in 0 .. D - 1 PROVE \E k \in 0 .. D - 1 : Ring(k) = p
  <2>1. CASE s <= p
    <3>1. p - s \in 0 .. D - 1 /\ s + (p - s) = p
      BY <1>1, <1>3, <2>1
    <3>2. p \in Nat /\ p < D /\ p = D * 0 + p
      BY <1>1
    <3>3. p % D = p
      BY <1>1, <3>2, DivisionUnique
    <3>4. Ring(p - s) = p
      BY <1>4, <3>1, <3>3
    <3> QED
      BY <3>1, <3>4
  <2>2. CASE p < s
    <3> DEFINE k == p + D - s
    <3>1. k \in 0 .. D - 1 /\ s + k = p + D
      BY <1>1, <1>3, <2>2
    <3>2. p \in Nat /\ p < D /\ p + D \in Nat /\ p + D = D * 1 + p
      BY <1>1
    <3>3. (p + D) % D = p
      BY <1>1, <3>2, DivisionUnique
    <3> HIDE DEF k
    <3>4. Ring(k) = (s + k) % D
      BY <1>4
    <3>5. Ring(k) = p
      BY <3>1, <3>3, <3>4, Zenon
    <3> QED
      BY <3>1, <3>5
  <2> QED
    BY <1>1, <1>3, <2>1, <2>2
<1> QED
  BY <1>5, <1>6, <1>7 DEF D

(* ext2_find_entry finds a readable record with the name if there is one,  *)
(* and finds nothing else.                                                 *)
LEMMA FindEntry ==
  ASSUME TypeOK, NEW R, Tiles(data, i_size, R), Named(data, R), NEW n \in Names
  PROVE  /\ Found(n) <=> \E x \in InUse(data, R) : data[x].name = n /\ Readable(x)
         /\ Found(n) => /\ ext2_find_entry(n) \in InUse(data, R)
                        /\ data[ext2_find_entry(n)].name = n
                        /\ Readable(ext2_find_entry(n))
<1> DEFINE tries == {k \in 0 .. dir_pages - 1 : Hits(n, Ring(k)) # {}}
           found == Min(Hits(n, Ring(Min(tries))))
<1>0. i_size \in Nat /\ i_size <= MaxSize /\ MaxSize \in Nat /\ dir_pages \in Nat
  BY TypeFacts, Sizes, DirPagesIs
<1>1. ext2_find_entry(n) = IF tries = {} THEN MaxSize ELSE found
  BY DEF ext2_find_entry
<1>2. \A p \in Pages : Hits(n, p) =
           IF p \in bad THEN {}
           ELSE {x \in InUse(data, R) : data[x].name = n /\ PageOf(x) = p}
  BY HitsAre
<1>3. ASSUME tries = {}
      PROVE  ~ Found(n) /\ ~ \E x \in InUse(data, R) : data[x].name = n /\ Readable(x)
  <2>1. ~ Found(n)
    BY <1>1, <1>3 DEF Found
  <2>2. ASSUME NEW x \in InUse(data, R), data[x].name = n, Readable(x) PROVE FALSE
    <3>1. PageOf(x) \in Pages
      BY RecordFacts DEF InUse
    <3>2. x \in Hits(n, PageOf(x))
      BY <1>2, <2>2, <3>1 DEF Readable
    <3>3. PICK k \in 0 .. dir_pages - 1 : Ring(k) = PageOf(x)
      BY <3>1, RingVisitsAll
    <3> QED
      BY <1>3, <3>2, <3>3
  <2> QED
    BY <2>1, <2>2
<1>4. ASSUME tries # {}
      PROVE  /\ Found(n) /\ ext2_find_entry(n) \in InUse(data, R)
             /\ data[ext2_find_entry(n)].name = n /\ Readable(ext2_find_entry(n))
  <2>1. tries \subseteq Nat
    BY <1>0
  <2>2. Min(tries) \in tries
    BY <1>4, <2>1, MinIs
  <2> DEFINE p == Ring(Min(tries))
  <2>3. p \in Pages /\ Hits(n, p) # {}
    BY <2>2, RingVisitsAll
  <2> HIDE DEF p
  <2>4. p \notin bad /\ \A x \in Hits(n, p) : x \in InUse(data, R) /\ data[x].name = n /\ PageOf(x) = p
    BY <1>2, <2>3
  <2>5. Hits(n, p) \subseteq Nat
    BY <2>4, RecordFacts DEF InUse
  <2>6. Min(Hits(n, p)) \in Hits(n, p)
    BY <2>3, <2>5, MinIs
  <2>7. ext2_find_entry(n) = Min(Hits(n, p))
    BY <1>1, <1>4 DEF p
  <2>8. ext2_find_entry(n) < i_size
    BY <2>4, <2>6, <2>7, RecordFacts DEF InUse
  <2> QED
    BY <1>0, <2>4, <2>5, <2>6, <2>7, <2>8 DEF Found, Readable
<1> QED
  BY <1>3, <1>4

(* The records in use are those a walk over all pages meets.               *)
LEMMA LiveIs ==
  ASSUME TypeOK, NEW R, Tiles(data, i_size, R)
  PROVE  Live = InUse(data, R)
<1>1. MinRec \in Nat \ {0}
  BY Sizes
<1>2. \A p \in Pages : Entries(p, MinRec) =
           {x \in R : /\ p * PageSize <= x
                      /\ x + MinRec <= i_size /\ x + MinRec <= p * PageSize + PageSize}
  BY <1>1, EntriesAre
<1>3. ASSUME NEW x \in R PROVE x \in Entries(PageOf(x), MinRec) /\ PageOf(x) \in Pages
  <2>1. i_size \in Nat
    BY TypeFacts
  <2>2. /\ PageOf(x) \in Pages /\ PageOf(x) * PageSize \in Nat /\ PageOf(x) * PageSize <= x
        /\ x \in Nat /\ x + MinRec <= i_size /\ x + MinRec <= PageOf(x) * PageSize + PageSize
    BY <2>1, RecordFacts, Sizes
  <2> QED
    BY <1>2, <2>2
<1>4. \A p \in Pages : Entries(p, MinRec) \subseteq R
  BY <1>2
<1>5. UNION {Entries(p, MinRec) : p \in Pages} = R
  BY <1>3, <1>4, Zenon
<1> QED
  BY <1>5 DEF Live, InUse

-----------------------------------------------------------------------------
(* Where a name can be put                                                 *)

(* What Slots holds: i_size, the name itself, or a record with room.       *)
LEMMA SlotsAre ==
  ASSUME TypeOK, NEW R, Tiles(data, i_size, R), NEW n \in Names,
         NEW p \in 0 .. dir_pages, NEW o \in Slots(n, p)
  PROVE  /\ o \in R \cup {i_size} /\ PageOf(o) = p
         /\ o # i_size =>
              \/ ext2_match(n, o)
              \/ data[o].inode = 0 /\ data[o].rec_len >= Needs(n)
              \/ data[o].name # None /\ data[o].rec_len >= Needs(data[o].name) + Needs(n)
<1> DEFINE b == p * PageSize
           to == (p + 1) * PageSize - Needs(n)
           end == b + ext2_last_byte(p)
<1>0. i_size \in Nat /\ i_size \in Offsets /\ Lengths(data) /\ dir_pages \in Nat
  BY TypeFacts, DirPagesIs
<1>1. p \in Nat
  BY <1>0
<1>2. b \in Nat /\ b % ChunkSize = 0 /\ (p + 1) * PageSize = b + PageSize
  BY <1>1, PageStart, PageOrder
<1>3. end = IF i_size <= b + PageSize THEN i_size ELSE b + PageSize
  BY <1>1, LastByteIs
<1>4. Needs(n) \in Nat /\ Needs(n) >= 12
  BY NeedsBounds, Sizes
<1>5. to \in Int /\ to < b + PageSize
  BY <1>2, <1>4, Sizes
<1>6. o \in Walk(data, b, to)
  BY DEF Slots
<1>7. \/ o = end
      \/ /\ o < end
         /\ \/ ext2_match(n, o)
            \/ data[o].inode = 0 /\ data[o].rec_len >= Needs(n)
            \/ data[o].name # None
               /\ data[o].rec_len >= Needs(data[o].name) + Needs(n)
  BY DEF Slots
<1> HIDE DEF b, to, end
<1>8. o \in Nat /\ b <= o /\ o <= to
  <2> DEFINE S == {x \in Nat : b <= x}
  <2>1. Closed(data, to, S)
    BY <1>0, <1>2 DEF Closed, Lengths
  <2>2. b \in S /\ S \subseteq Nat
    BY <1>2
  <2> HIDE DEF S
  <2>3. o \in S /\ o <= to
    BY <1>0, <1>5, <1>6, <2>1, <2>2, WalkStays
  <2> QED
    BY <2>3 DEF S
<1>9. o <= i_size
  BY <1>0, <1>2, <1>3, <1>5, <1>7, <1>8, Sizes
<1>10. b \in R \cup {i_size}
  <2>1. b <= i_size
    BY <1>0, <1>2, <1>8, <1>9
  <2> QED
    BY <1>0, <1>2, <2>1, ChunkBegins
<1>11. o \in R \cup {i_size}
  BY <1>0, <1>5, <1>6, <1>8, <1>9, <1>10, WalkMeetsRecords
<1>12. PageOf(o) = p
  BY <1>1, <1>2, <1>5, <1>8, PageOfIs, Sizes DEF b
<1>13. o # i_size => o # end
  BY <1>0, <1>2, <1>3, <1>5, <1>8, Sizes
<1> QED
  BY <1>7, <1>11, <1>12, <1>13

(* i_size is always a slot.                                                *)
LEMMA EndIsSlot ==
  ASSUME TypeOK, NEW R, Tiles(data, i_size, R), NEW n \in Names
  PROVE  PageOf(i_size) \in 0 .. dir_pages /\ i_size \in Slots(n, PageOf(i_size))
<1> DEFINE p == PageOf(i_size)
           b == p * PageSize
           to == (p + 1) * PageSize - Needs(n)
<1>0. i_size \in Nat /\ i_size \in Offsets /\ Lengths(data) /\ dir_pages \in Nat
        /\ i_size % ChunkSize = 0
  BY TypeFacts, DirPagesIs
<1>1. p \in Nat /\ b \in Nat /\ b <= i_size /\ i_size < b + PageSize
        /\ b % ChunkSize = 0 /\ (p + 1) * PageSize = b + PageSize
  BY <1>0, PageOfIs, PageStart, PageOrder
<1>2. Needs(n) \in Nat /\ Needs(n) <= ChunkSize
  BY NeedsBounds
<1>3. p <= dir_pages
  <2>1. ~ (dir_pages * PageSize < i_size) /\ dir_pages * PageSize \in Nat
    BY <1>0, DirPagesIs, PageStart
  <2>2. dir_pages < p => dir_pages * PageSize + PageSize <= p * PageSize
    BY <1>0, <1>1, PageOrder
  <2> QED
    BY <1>0, <1>1, <2>1, <2>2, Sizes
<1>4. i_size + ChunkSize <= b + PageSize
  <2>1. (b + PageSize) \in Nat /\ (b + PageSize) % ChunkSize = 0
    <3>1. p + 1 \in Nat
      BY <1>1
    <3>2. ((p + 1) * PageSize) \in Nat /\ ((p + 1) * PageSize) % ChunkSize = 0
      BY <3>1, PageStart
    <3> QED
      BY <1>1, <3>2, Zenon
  <2> QED
    BY <1>0, <1>1, <2>1, ChunkMultiples
<1>5. to \in Int /\ i_size <= to
  BY <1>0, <1>1, <1>2, <1>4, Sizes
<1>6. b \in R \cup {i_size}
  BY <1>0, <1>1, ChunkBegins
<1>7. i_size \in Walk(data, b, to)
  <2> HIDE DEF b, to
  <2> QED
    BY <1>0, <1>1, <1>5, <1>6, WalkMeetsRecords
<1>8. b + ext2_last_byte(p) = i_size
  BY <1>0, <1>1, LastByteIs
<1>9. i_size \in Slots(n, p)
  BY <1>7, <1>8 DEF Slots
<1> QED
  BY <1>0, <1>1, <1>3, <1>9

\* What ext2_add_link needs of a slot for a name that is not there.
GoodSlot(n, R, o) ==
  \/ o = i_size
  \/ o \in R /\ data[o].inode = 0 /\ data[o].rec_len >= Needs(n)
  \/ o \in InUse(data, R) /\ data[o].rec_len >= Needs(data[o].name) + Needs(n)

(* The search for a slot ends at one, or at a page that cannot be read,    *)
(* and no unreadable page comes before the slot.                           *)
LEMMA AddSlotIs ==
  ASSUME TypeOK, NEW R, Tiles(data, i_size, R), Named(data, R),
         NEW n \in Names, ~ Found(n), AddSlot(n) # MaxSize
  PROVE  /\ GoodSlot(n, R, AddSlot(n))
         /\ Readable(AddSlot(n))
         /\ \A p \in bad \cap Pages : PageOf(AddSlot(n)) < p
<1> DEFINE E == SearchEnds(n)
           p == Min(E)
<1>0. dir_pages \in Nat
  BY DirPagesIs
<1>1. E = {q \in 0 .. dir_pages : q \in bad \/ Slots(n, q) # {}}
  BY DEF SearchEnds
<1>2. E \subseteq Nat /\ E # {}
  BY <1>0, <1>1, EndIsSlot
<1> HIDE DEF E
<1>3. p \in E /\ \A q \in E : p <= q
  BY <1>2, MinIs
<1>4. AddSlot(n) = IF p \in bad THEN MaxSize ELSE Min(Slots(n, p))
  BY DEF AddSlot, E
<1> HIDE DEF p
<1>5. p \notin bad /\ p \in 0 .. dir_pages /\ Slots(n, p) # {}
  BY <1>1, <1>3, <1>4
<1> DEFINE o == Min(Slots(n, p))
<1>6. Slots(n, p) \subseteq Nat
  <2>1. R \cup {i_size} \subseteq Nat
    BY TypeFacts, RecordFacts
  <2> QED
    BY <1>5, <2>1, SlotsAre
<1>7. o \in Slots(n, p)
  BY <1>5, <1>6, MinIs
<1>8. AddSlot(n) = o
  BY <1>4, <1>5
<1> HIDE DEF o
<1>9. /\ o \in R \cup {i_size} /\ PageOf(o) = p
      /\ o # i_size =>
              \/ ext2_match(n, o)
              \/ data[o].inode = 0 /\ data[o].rec_len >= Needs(n)
              \/ data[o].name # None /\ data[o].rec_len >= Needs(data[o].name) + Needs(n)
  BY <1>5, <1>7, SlotsAre
<1>10. Readable(o)
  BY <1>5, <1>9 DEF Readable
<1>11. ~ (o \in R /\ ext2_match(n, o))
  <2>1. o \in R /\ ext2_match(n, o) => o \in InUse(data, R) /\ data[o].name = n
    BY DEF ext2_match, InUse
  <2> QED
    BY <1>10, <2>1, FindEntry
<1>12. GoodSlot(n, R, o)
  <2>1. CASE o \in R /\ o # i_size /\ data[o].inode = 0 /\ data[o].name # None
              /\ data[o].rec_len >= Needs(data[o].name) + Needs(n)
    <3>1. data[o].name \in Names /\ data[o].rec_len \in Nat
      BY <2>1, RecordFacts DEF Header
    <3>2. Needs(data[o].name) \in Nat /\ Needs(n) \in Nat
      BY <3>1, NeedsBounds
    <3> QED
      BY <2>1, <3>1, <3>2 DEF GoodSlot
  <2> QED
    BY <1>9, <1>11, <2>1 DEF GoodSlot, InUse
<1>13. \A q \in bad \cap Pages : p < q
  <2>1. \A q \in Pages : q \in 0 .. dir_pages
    BY <1>0 DEF Pages
  <2>2. \A q \in bad \cap Pages : q \in E /\ q # p
    BY <1>1, <1>5, <2>1
  <2>3. p \in Nat /\ \A q \in E : q \in Nat
    BY <1>2, <1>3
  <2>4. ASSUME NEW q \in bad \cap Pages PROVE p < q
    <3>1. q \in E /\ q # p /\ q \in Nat /\ p \in Nat
      BY <2>2, <2>3, Zenon
    <3>2. p <= q
      BY <1>3, <3>1
    <3> QED
      BY <3>1, <3>2
  <2> QED
    BY <2>4
<1> QED
  BY <1>8, <1>9, <1>10, <1>12, <1>13

-----------------------------------------------------------------------------
(* Putting a name into a slot                                              *)

(* A written record changes only the bytes of its header and its name.     *)
LEMMA WrittenIs ==
  ASSUME NEW d \in [Offsets -> Header], NEW o \in Offsets, NEW len \in 0 .. ChunkSize,
         NEW n \in Names, NEW i \in Inos
  PROVE  /\ Written(d, o, len, n, i) \in [Offsets -> Header]
         /\ Written(d, o, len, n, i)[o] = [inode |-> i, rec_len |-> len, name |-> n]
         /\ \A x \in Offsets : x < o \/ x >= o + Needs(n) => Written(d, o, len, n, i)[x] = d[x]
<1> DEFINE new == [inode |-> i, rec_len |-> len, name |-> n]
           w == Written(d, o, len, n, i)
<1>1. new \in Header
  BY DEF Header
<1>2. Junk \in Header
  <2>1. (CHOOSE j \in Inos : TRUE) \in Inos
    OBVIOUS
  <2>2. 4 \in 0 .. ChunkSize
    BY Sizes
  <2> QED
    BY <2>1, <2>2 DEF Junk, Header
<1>3. o \in Nat /\ NameLen(n) \in Nat /\ Needs(n) \in Nat /\ Needs(n) >= 8 + NameLen(n) /\ Needs(n) >= 12
  BY OffsetsAreNumbers, NeedsBounds, Sizes
<1>4. w = [x \in Offsets |-> IF x = o THEN new
                             ELSE IF o < x /\ x < o + 8 + NameLen(n) THEN Junk ELSE d[x]]
  BY DEF Written
<1>5. w \in [Offsets -> Header]
  BY <1>1, <1>2, <1>4
<1>6. w[o] = new
  BY <1>4
<1>7. ASSUME NEW x \in Offsets, x < o \/ x >= o + Needs(n) PROVE w[x] = d[x]
  <2>1. x \in Nat
    BY OffsetsAreNumbers
  <2>2. x # o /\ ~ (o < x /\ x < o + 8 + NameLen(n))
    BY <1>3, <1>7, <2>1
  <2> QED
    BY <1>4, <2>2
<1> QED
  BY <1>5, <1>6, <1>7

\* The name n was put at q, and what was there before is still there.
Grown(d, size, R, q, n, i, S) ==
  /\ d \in [Offsets -> Header]
  /\ size \in {c * ChunkSize : c \in 1 .. MaxSize \div ChunkSize} /\ size >= i_size
  /\ Tiles(d, size, S) /\ Named(d, S)
  /\ R \subseteq S
  /\ q \notin InUse(data, R) /\ InUse(d, S) = InUse(data, R) \cup {q}
  /\ d[q].name = n /\ d[q].inode = i
  /\ \A x \in InUse(data, R) : d[x].name = data[x].name /\ d[x].inode = data[x].inode
  /\ \A x \in InUse(data, R) : data[x].rec_len = MinRec => d[x] = data[x]

(* A free record that is long enough takes the name.                       *)
LEMMA ReuseRecord ==
  ASSUME TypeOK, NEW R, Tiles(data, i_size, R), Named(data, R),
         NEW n \in Names, NEW i \in Inos,
         NEW o \in R, data[o].inode = 0, data[o].rec_len >= Needs(n)
  PROVE  Grown(Written(data, o, data[o].rec_len, n, i), i_size, R, o, n, i, R)
<1> DEFINE len == data[o].rec_len
           d == Written(data, o, len, n, i)
<1>0. data \in [Offsets -> Header] /\ i_size \in Nat
        /\ i_size \in {c * ChunkSize : c \in 1 .. MaxSize \div ChunkSize}
  BY TypeFacts DEF TypeOK
<1>1. o \in Nat /\ o \in Offsets /\ len \in 0 .. ChunkSize /\ R \subseteq Offsets
        /\ \A x \in R : x \in Nat
  BY RecordFacts DEF Header
<1>2. /\ d \in [Offsets -> Header]
      /\ d[o] = [inode |-> i, rec_len |-> len, name |-> n]
      /\ \A x \in Offsets : x < o \/ x >= o + Needs(n) => d[x] = data[x]
  <2> HIDE DEF len
  <2>1. data \in [Offsets -> Header] /\ o \in Offsets /\ len \in 0 .. ChunkSize
    BY <1>0, <1>1
  <2> QED
    BY <2>1, WrittenIs
<1>3. Needs(n) \in Nat /\ i # 0 /\ n # None
  BY NeedsBounds, Ext2DirAssumption
<1>4. ASSUME NEW x \in R, x # o PROVE d[x] = data[x]
  <2>1. x < o \/ x >= o + len
    BY <1>1, <1>4, Sizes DEF Tiles
  <2>2. x \in Nat /\ x \in Offsets /\ o \in Nat /\ len \in Nat /\ len >= Needs(n)
          /\ Needs(n) \in Nat
    BY <1>1, <1>3, Sizes
  <2> HIDE DEF d, len
  <2>3. x < o \/ x >= o + Needs(n)
    BY <2>1, <2>2
  <2> QED
    BY <1>2, <2>2, <2>3
<1> HIDE DEF d
<1>5. \A x \in R : d[x].rec_len = data[x].rec_len
  BY <1>2, <1>4
<1>6. Tiles(d, i_size, R)
  BY <1>5 DEF Tiles
<1>7. Named(d, R)
  BY <1>2, <1>3, <1>4 DEF Named
<1>8. InUse(d, R) = InUse(data, R) \cup {o} /\ o \notin InUse(data, R)
  BY <1>2, <1>3, <1>4 DEF InUse
<1>9. \A x \in InUse(data, R) : d[x] = data[x]
  BY <1>4 DEF InUse
<1> QED
  BY <1>0, <1>2, <1>6, <1>7, <1>8, <1>9 DEF Grown, d

(* A record with room behind its name is split.                            *)
LEMMA SplitRecord ==
  ASSUME TypeOK, NEW R, Tiles(data, i_size, R), Named(data, R),
         NEW n \in Names, NEW i \in Inos, NEW o \in InUse(data, R),
         data[o].rec_len >= Needs(data[o].name) + Needs(n)
  PROVE  LET keep == Needs(data[o].name)
             d == Written([data EXCEPT ![o].rec_len = keep],
                          o + keep, data[o].rec_len - keep, n, i)
         IN Grown(d, i_size, R, o + keep, n, i, R \cup {o + keep})
              /\ PageOf(o + keep) = PageOf(o)
<1> DEFINE len == data[o].rec_len
           keep == Needs(data[o].name)
           q == o + keep
           d1 == [data EXCEPT ![o].rec_len = keep]
           d == Written(d1, q, len - keep, n, i)
           S == R \cup {q}
<1>0. data \in [Offsets -> Header] /\ i_size \in Nat /\ i_size <= MaxSize
        /\ i_size \in {c * ChunkSize : c \in 1 .. MaxSize \div ChunkSize}
  BY TypeFacts DEF TypeOK
<1>1. o \in R /\ data[o].inode # 0 /\ data[o].name # None
  BY DEF InUse, Named
<1>2. o \in Nat /\ o \in Offsets /\ o % 4 = 0 /\ len \in 0 .. ChunkSize /\ R \subseteq Offsets
        /\ data[o].name \in Names /\ o + len <= i_size /\ len \in Nat
        /\ o + len \in R \cup {i_size}
  BY <1>1, RecordFacts DEF Header
<1>3. \A x \in R : x \in Nat /\ x % 4 = 0 /\ data[x].rec_len \in Nat /\ data[x].rec_len >= 12
  BY RecordFacts
<1>4. keep \in Nat /\ keep % 4 = 0 /\ keep >= 12
  BY <1>2, NeedsBounds, Sizes
<1>5. Needs(n) \in Nat /\ Needs(n) >= 12 /\ i # 0 /\ n # None
  BY NeedsBounds, Sizes, Ext2DirAssumption
<1> HIDE DEF keep
<1>6. len - keep \in 0 .. ChunkSize /\ len - keep >= Needs(n) /\ keep \in 0 .. ChunkSize
  BY <1>2, <1>4, <1>5, Sizes DEF keep
<1>7. q \in Nat /\ q \in Offsets
  <2>1. q \in Nat /\ q % 4 = 0 /\ q <= MaxSize + PageSize
    BY <1>0, <1>2, <1>4, <1>6, Sizes
  <2> QED
    BY <2>1, InOffsets
<1>8. d1 \in [Offsets -> Header]
  BY <1>0, <1>2, <1>6 DEF Header
<1>9. /\ d1[o].rec_len = keep /\ d1[o].name = data[o].name /\ d1[o].inode = data[o].inode
      /\ \A x \in Offsets : x # o => d1[x] = data[x]
  BY <1>0, <1>2 DEF Header
<1> HIDE DEF d1
<1>10. /\ d \in [Offsets -> Header]
       /\ d[q] = [inode |-> i, rec_len |-> len - keep, name |-> n]
       /\ \A x \in Offsets : x < q \/ x >= q + Needs(n) => d[x] = d1[x]
  BY <1>6, <1>7, <1>8, WrittenIs
<1> HIDE DEF d
<1>11. ASSUME NEW x \in R, x # o PROVE d[x] = data[x] /\ x # q /\ (x < o \/ x >= o + len)
  <2>1. x < o \/ x >= o + len
    BY <1>1, <1>2, <1>3, <1>11 DEF Tiles
  <2>2. x < q \/ x >= q + Needs(n)
    BY <1>2, <1>3, <1>4, <1>5, <1>6, <2>1
  <2>3. d[x] = d1[x] /\ d1[x] = data[x]
    BY <1>2, <1>9, <1>10, <1>11, <2>2
  <2> QED
    BY <1>2, <1>3, <1>4, <1>5, <1>6, <2>1, <2>3
<1>12. d[o] = d1[o] /\ o # q
  BY <1>2, <1>4, <1>10
<1>13. q \notin R
  BY <1>11, <1>12
<1>14. d[o].rec_len = keep /\ d[o].name = data[o].name /\ d[o].inode = data[o].inode
  BY <1>9, <1>12
<1>15. d[q].rec_len = len - keep /\ d[q].name = n /\ d[q].inode = i
  BY <1>10
<1>16. Tiles(d, i_size, S)
  <2>1. S \subseteq {x \in Offsets : x < i_size}
    BY <1>0, <1>2, <1>4, <1>5, <1>6, <1>7 DEF Tiles
  <2>2. \A c \in Offsets : c < i_size /\ c % ChunkSize = 0 => c \in S
    BY DEF Tiles
  <2>3. ASSUME NEW x \in S
        PROVE  /\ d[x].rec_len >= MinRec
               /\ x + d[x].rec_len \in S \cup {i_size}
               /\ \A y \in S : y > x => y >= x + d[x].rec_len
    <3>1. CASE x = o
      <4>1. \A y \in S : y > o => y >= o + keep
        BY <1>2, <1>3, <1>4, <1>5, <1>6, <1>11
      <4> QED
        BY <1>4, <1>14, <3>1, <4>1, Sizes
    <3>2. CASE x = q
      <4>1. q + (len - keep) = o + len
        BY <1>2, <1>4
      <4>2. \A y \in S : y > q => y >= o + len
        BY <1>2, <1>3, <1>4, <1>11
      <4> QED
        BY <1>2, <1>5, <1>6, <1>15, <3>2, <4>1, <4>2, Sizes
    <3>3. CASE x \in R /\ x # o
      <4>1. d[x].rec_len = data[x].rec_len
        BY <1>11, <3>3
      <4>2. x + data[x].rec_len \in R \cup {i_size} /\ data[x].rec_len >= MinRec
        BY <3>3 DEF Tiles
      <4>3. \A y \in R : y > x => y >= x + data[x].rec_len
        BY <3>3 DEF Tiles
      <4>4. q > x => q >= x + data[x].rec_len
        <5>1. CASE x < o
          BY <1>1, <1>2, <1>3, <1>4, <3>3, <4>3, <5>1
        <5>2. CASE x >= o + len
          BY <1>2, <1>3, <1>4, <1>5, <1>6, <3>3, <5>2
        <5> QED
          BY <1>11, <3>3, <5>1, <5>2
      <4> QED
        BY <4>1, <4>2, <4>3, <4>4
    <3> QED
      BY <3>1, <3>2, <3>3
  <2> QED
    BY <2>1, <2>2, <2>3 DEF Tiles
<1>17. Named(d, S)
  <2>1. keep = Needs(data[o].name)
    BY DEF keep
  <2>2. ASSUME NEW x \in S
        PROVE  /\ d[x].inode # 0 => d[x].name # None
               /\ d[x].name # None => d[x].rec_len >= Needs(d[x].name)
    <3>1. CASE x = o
      BY <1>1, <1>4, <1>14, <2>1, <3>1
    <3>2. CASE x = q
      BY <1>5, <1>6, <1>15, <3>2
    <3>3. CASE x \in R /\ x # o
      BY <1>11, <3>3 DEF Named
    <3> QED
      BY <3>1, <3>2, <3>3
  <2> QED
    BY <2>2 DEF Named
<1>18. \A x \in R : d[x].name = data[x].name /\ d[x].inode = data[x].inode
  BY <1>11, <1>14
<1>19. InUse(d, S) = InUse(data, R) \cup {q} /\ q \notin InUse(data, R)
  BY <1>5, <1>13, <1>15, <1>18 DEF InUse
<1>20. \A x \in InUse(data, R) : data[x].rec_len = MinRec => d[x] = data[x]
  <2>1. len # MinRec
    BY <1>2, <1>4, <1>5, <1>6, Sizes
  <2> QED
    BY <1>11, <2>1 DEF InUse
<1>21. PageOf(q) = PageOf(o)
  <2>1. PageOf(o) \in Nat /\ PageOf(o) * PageSize \in Nat
          /\ PageOf(o) * PageSize <= o /\ o + len <= PageOf(o) * PageSize + PageSize
    BY <1>1, RecordFacts, DirPagesIs
  <2>2. PageOf(o) * PageSize <= q /\ q < PageOf(o) * PageSize + PageSize
    BY <1>2, <1>4, <1>5, <1>6, <2>1, Sizes
  <2> QED
    BY <1>7, <2>1, <2>2, PageOfIs
<1>22. Grown(d, i_size, R, q, n, i, S)
  BY <1>0, <1>10, <1>15, <1>16, <1>17, <1>18, <1>19, <1>20 DEF Grown, InUse
<1> QED
  BY <1>21, <1>22 DEF keep, d, d1

(* A new chunk holds one record.                                           *)
LEMMA AppendChunk ==
  ASSUME TypeOK, NEW R, Tiles(data, i_size, R), Named(data, R),
         NEW n \in Names, NEW i \in Inos, i_size < MaxSize
  PROVE  Grown(Written(data, i_size, ChunkSize, n, i), i_size + ChunkSize,
               R, i_size, n, i, R \cup {i_size})
<1> DEFINE d == Written(data, i_size, ChunkSize, n, i)
           S == R \cup {i_size}
           size == i_size + ChunkSize
<1>0. data \in [Offsets -> Header] /\ i_size \in Nat /\ i_size \in Offsets
        /\ i_size % ChunkSize = 0 /\ i_size >= ChunkSize
  BY TypeFacts DEF TypeOK
<1>1. ChunkSize \in 0 .. ChunkSize
  BY Sizes
<1>2. /\ d \in [Offsets -> Header]
      /\ d[i_size] = [inode |-> i, rec_len |-> ChunkSize, name |-> n]
      /\ \A x \in Offsets : x < i_size \/ x >= i_size + Needs(n) => d[x] = data[x]
  BY <1>0, <1>1, WrittenIs
<1> HIDE DEF d
<1>3. \A x \in R : x \in Nat /\ x \in Offsets /\ x < i_size /\ x + data[x].rec_len <= i_size
                   /\ x + data[x].rec_len \in R \cup {i_size} /\ data[x].rec_len \in Nat
  BY RecordFacts
<1>4. \A x \in R : d[x] = data[x]
  BY <1>2, <1>3
<1>5. d[i_size].rec_len = ChunkSize /\ d[i_size].name = n /\ d[i_size].inode = i
  BY <1>2
<1>6. i # 0 /\ n # None /\ Needs(n) <= ChunkSize /\ i_size \notin R
  BY <1>0, <1>3, NeedsBounds, Ext2DirAssumption
<1>7. size \in {c * ChunkSize : c \in 1 .. MaxSize \div ChunkSize} /\ size >= i_size
  <2>0. MaxSize % ChunkSize = 0
    BY Ext2DirAssumption
  <2>1. size \in Nat /\ size % ChunkSize = 0 /\ size <= MaxSize
    BY <1>0, <2>0, ChunkMultiples, Sizes
  <2>2. size > 0 /\ size >= i_size
    BY <1>0, Sizes
  <2> HIDE DEF size
  <2> QED
    BY <2>1, <2>2, InSizes
<1>8. Tiles(d, size, S)
  <2>1. S \subseteq {x \in Offsets : x < size}
    BY <1>0, <1>3, Sizes
  <2>2. ASSUME NEW c \in Offsets, c < size, c % ChunkSize = 0 PROVE c \in S
    <3>1. c \in Nat
      BY OffsetsAreNumbers
    <3>2. c <= i_size
      BY <1>0, <2>2, <3>1, ChunkMultiples, Sizes
    <3> QED
      BY <1>0, <2>2, <3>1, <3>2 DEF Tiles
  <2>3. ASSUME NEW x \in S
        PROVE  /\ d[x].rec_len >= MinRec
               /\ x + d[x].rec_len \in S \cup {size}
               /\ \A y \in S : y > x => y >= x + d[x].rec_len
    <3>1. CASE x = i_size
      BY <1>0, <1>3, <1>5, <3>1, Sizes
    <3>2. CASE x \in R
      <4>1. d[x].rec_len = data[x].rec_len
        BY <1>4, <3>2
      <4>2. \A y \in R : y > x => y >= x + data[x].rec_len
        BY <3>2 DEF Tiles
      <4>3. data[x].rec_len >= MinRec
        BY <3>2 DEF Tiles
      <4> QED
        BY <1>3, <3>2, <4>1, <4>2, <4>3
    <3> QED
      BY <3>1, <3>2
  <2> QED
    BY <2>1, <2>2, <2>3 DEF Tiles
<1>9. Named(d, S)
  BY <1>4, <1>5, <1>6 DEF Named
<1>10. InUse(d, S) = InUse(data, R) \cup {i_size} /\ i_size \notin InUse(data, R)
  BY <1>4, <1>5, <1>6 DEF InUse
<1>11. \A x \in InUse(data, R) : d[x] = data[x]
  BY <1>4 DEF InUse
<1> QED
  BY <1>2, <1>5, <1>7, <1>8, <1>9, <1>10, <1>11 DEF Grown, d

(* What ext2_add_link does with a good slot.                               *)
LEMMA InsertedGrows ==
  ASSUME TypeOK, NEW R, Tiles(data, i_size, R), Named(data, R),
         NEW n \in Names, NEW i \in Inos, NEW o, GoodSlot(n, R, o), o < MaxSize
  PROVE  \E q, S : /\ Grown(Inserted(o, n, i), CommittedSize(o), R, q, n, i, S)
                   /\ PageOf(q) = PageOf(o)
<1>0. i_size \in Nat
  BY TypeFacts
<1>1. CASE o = i_size
  <2>1. CommittedSize(o) = i_size + ChunkSize
    <3>1. CommittedSize(o) = Max({i_size, i_size + ChunkSize})
      BY <1>1 DEF CommittedSize
    <3> QED
      BY <1>0, <3>1, MaxOfTwo, Sizes
  <2>2. Inserted(o, n, i) = Written(data, i_size, ChunkSize, n, i)
    BY <1>1 DEF Inserted
  <2>3. Grown(Inserted(o, n, i), CommittedSize(o), R, i_size, n, i, R \cup {i_size})
    BY <1>1, <2>1, <2>2, AppendChunk, Zenon
  <2> QED
    BY <1>1, <2>3
<1>2. CASE o \in R
  <2>0. o \in Nat /\ o < i_size /\ data[o].rec_len \in Nat /\ o + data[o].rec_len <= i_size
    BY <1>2, RecordFacts
  <2>1. CommittedSize(o) = i_size
    <3>1. CommittedSize(o) = Max({i_size, o + data[o].rec_len})
      <4>1. o # i_size
        BY <1>0, <2>0
      <4>2. (IF o = i_size THEN ChunkSize ELSE data[o].rec_len) = data[o].rec_len
        BY <4>1
      <4> QED
        BY <4>2, Zenon DEF CommittedSize
    <3> QED
      BY <1>0, <2>0, <3>1, MaxOfTwo
  <2>2. CASE data[o].inode = 0
    <3>1. data[o].rec_len >= Needs(n)
      BY <1>0, <2>0, <2>2 DEF GoodSlot, InUse
    <3>2. Inserted(o, n, i) = Written(data, o, data[o].rec_len, n, i)
      BY <1>0, <2>0, <2>2 DEF Inserted
    <3>3. Grown(Inserted(o, n, i), CommittedSize(o), R, o, n, i, R)
      BY <1>2, <2>1, <2>2, <3>1, <3>2, ReuseRecord
    <3> QED
      BY <3>3
  <2>3. CASE data[o].inode # 0
    <3> DEFINE keep == Needs(data[o].name)
    <3>1. o \in InUse(data, R) /\ data[o].rec_len >= Needs(data[o].name) + Needs(n)
      BY <1>0, <2>0, <2>3 DEF GoodSlot, InUse
    <3>2. Inserted(o, n, i) = Written([data EXCEPT ![o].rec_len = keep],
                                      o + keep, data[o].rec_len - keep, n, i)
      BY <1>0, <2>0, <2>3 DEF Inserted
    <3>3. /\ Grown(Inserted(o, n, i), CommittedSize(o), R, o + keep, n, i, R \cup {o + keep})
          /\ PageOf(o + keep) = PageOf(o)
      BY <2>1, <3>1, <3>2, SplitRecord
    <3> QED
      BY <3>3
  <2> QED
    BY <2>2, <2>3
<1> QED
  BY <1>1, <1>2 DEF GoodSlot, InUse

-----------------------------------------------------------------------------
(* Taking a name out                                                       *)

(* ext2_delete_entry and ext2_validate_entry walk from the start of the    *)
(* chunk and stop at the last record before an offset: the record that     *)
(* holds the byte before it.                                               *)
LEMMA RecordBefore ==
  ASSUME NEW d, Lengths(d), NEW size \in Offsets, NEW R, Tiles(d, size, R),
         NEW o \in Offsets, o < size, o # ChunkOf(o)
  PROVE  LET before == Walk(d, ChunkOf(o), o - 4) IN
         /\ before # {} /\ Max(before) \in R /\ Max(before) < o /\ Max(before) >= ChunkOf(o)
         /\ Max(before) + d[Max(before)].rec_len >= o
         /\ Max(before) + d[Max(before)].rec_len \in R \cup {size}
         /\ \A x \in R : x <= Max(before) \/ x >= Max(before) + d[Max(before)].rec_len
<1> DEFINE c == ChunkOf(o)
           before == Walk(d, c, o - 4)
           m == Max(before)
<1>0. size \in Nat /\ o \in Nat /\ o % 4 = 0 /\ R \subseteq Offsets /\ R \subseteq Nat
        /\ o <= MaxSize + PageSize
  BY OffsetsAreNumbers, InOffsets DEF Tiles
<1>1. c \in Nat /\ c % ChunkSize = 0 /\ c < o
  BY <1>0, ChunkOfIs
<1>2. c % 4 = 0 /\ c <= o - 4
  BY <1>0, <1>1, ChunkMultiples
<1>3. c \in Offsets
  BY <1>0, <1>1, <1>2, InOffsets, Sizes
<1>4. c \in R
  BY <1>0, <1>1, <1>3 DEF Tiles
<1>5. before = {x \in R : c <= x /\ x <= o - 4}
  <2> DEFINE to == o - 4
  <2>1. to \in Int /\ to < size
    BY <1>0
  <2> HIDE DEF to, c
  <2>2. Walk(d, c, to) = {x \in R : c <= x /\ x <= to}
    BY <1>4, <2>1, WalkIsRecords
  <2> QED
    BY <2>2 DEF to
<1> HIDE DEF c, before
<1>6. before # {} /\ c \in before /\ before \subseteq Nat /\ \A x \in before : x <= o
  <2>1. c \in before
    BY <1>1, <1>2, <1>4, <1>5
  <2>2. \A x \in before : x \in Nat /\ x <= o - 4
    BY <1>0, <1>5
  <2> QED
    BY <1>0, <2>1, <2>2
<1>7. m \in before /\ \A x \in before : m >= x
  BY <1>0, <1>6, MaxIs
<1> HIDE DEF m
<1>8. m \in R /\ m \in Nat /\ m < o /\ m >= c /\ m <= o - 4
  BY <1>0, <1>5, <1>7
<1>9. /\ d[m].rec_len \in Nat /\ d[m].rec_len >= 12
      /\ m + d[m].rec_len \in R \cup {size}
      /\ \A x \in R : x > m => x >= m + d[m].rec_len
  BY <1>0, <1>8, Sizes DEF Tiles, Lengths
<1>10. m + d[m].rec_len >= o
  <2>1. SUFFICES ASSUME m + d[m].rec_len < o PROVE FALSE
    BY <1>0, <1>8, <1>9
  <2> DEFINE e == m + d[m].rec_len
  <2>2. e \in Nat /\ e < o /\ e > m
    BY <1>8, <1>9, <2>1
  <2>3. e \in R
    BY <1>0, <1>9, <2>1
  <2> HIDE DEF e
  <2>4. e % 4 = 0
    BY <1>0, <2>2, <2>3, InOffsets
  <2>5. e <= o - 4
    BY <1>0, <2>2, <2>4
  <2>6. e \in before
    BY <1>1, <1>5, <1>8, <2>2, <2>3, <2>5
  <2> QED
    BY <1>7, <1>8, <2>2, <2>6
<1>11. \A x \in R : x <= m \/ x >= m + d[m].rec_len
  BY <1>0, <1>8, <1>9
<1> QED
  BY <1>6, <1>8, <1>9, <1>10, <1>11 DEF m, before, c

(* No record crosses the end of its chunk.                                 *)
LEMMA WithinChunk ==
  ASSUME NEW d, Lengths(d), NEW size \in Offsets, size % ChunkSize = 0, size <= MaxSize,
         NEW R, Tiles(d, size, R), NEW o \in R
  PROVE  o + d[o].rec_len <= ChunkOf(o) + ChunkSize
<1> DEFINE e == ChunkOf(o) + ChunkSize
<1>0. size \in Nat /\ o \in Nat /\ o < size /\ d[o].rec_len \in Nat
  BY OffsetsAreNumbers DEF Tiles, Lengths
<1>1. ChunkOf(o) \in Nat /\ ChunkOf(o) % ChunkSize = 0 /\ o < e /\ ChunkOf(o) <= o
  BY <1>0, ChunkOfIs
<1>2. e \in Nat /\ e % ChunkSize = 0 /\ e <= size
  BY <1>0, <1>1, ChunkMultiples, Sizes
<1> HIDE DEF e
<1>3. e \in Offsets
  BY <1>0, <1>2, ChunkMultiples, InOffsets, Sizes
<1>4. CASE e < size
  <2>1. e \in R
    BY <1>2, <1>3, <1>4 DEF Tiles
  <2>2. e >= o + d[o].rec_len
    BY <1>1, <2>1 DEF Tiles
  <2> QED
    BY <1>0, <1>2, <2>2 DEF e
<1>5. CASE e = size
  <2>1. o + d[o].rec_len \in R \cup {size} /\ \A x \in R : x < size
    BY DEF Tiles
  <2> QED
    BY <1>0, <1>5, <2>1 DEF e
<1> QED
  BY <1>0, <1>2, <1>4, <1>5 DEF e

\* The record at o was taken out, and every other one is still there.
Shrunk(d, size, R, o, e, S) ==
  /\ e \in [Offsets -> Header]
  /\ Tiles(e, size, S) /\ Named(e, S)
  /\ S \subseteq R
  /\ InUse(e, S) = InUse(d, R) \ {o}
  /\ \A x \in InUse(e, S) : e[x].name = d[x].name /\ e[x].inode = d[x].inode
  /\ \A x \in R : x # o /\ x + d[x].rec_len # o => e[x] = d[x]

\* The record at o without its inode.
Freed(d, o) == [d EXCEPT ![o].inode = 0]

(* The first record of a chunk stays, without an inode.                    *)
LEMMA FreeFirst ==
  ASSUME NEW d \in [Offsets -> Header], NEW size, NEW R, Tiles(d, size, R), Named(d, R),
         NEW o \in R
  PROVE  Shrunk(d, size, R, o, Freed(d, o), R)
<1> DEFINE e == Freed(d, o)
<1>0. R \subseteq Offsets
  BY DEF Tiles
<1>1. e \in [Offsets -> Header]
  BY <1>0 DEF Header, Freed
<1>2. /\ \A x \in Offsets : x # o => e[x] = d[x]
      /\ e[o].inode = 0 /\ e[o].rec_len = d[o].rec_len /\ e[o].name = d[o].name
  BY <1>0 DEF Header, Freed
<1> HIDE DEF e
<1>3. \A x \in R : e[x].rec_len = d[x].rec_len
  BY <1>0, <1>2
<1>4. Tiles(e, size, R)
  BY <1>3 DEF Tiles
<1>5. Named(e, R)
  BY <1>0, <1>2 DEF Named
<1>6. InUse(e, R) = InUse(d, R) \ {o}
  BY <1>0, <1>2 DEF InUse
<1>7. \A x \in InUse(e, R) : e[x] = d[x]
  BY <1>0, <1>2, <1>6 DEF InUse
<1>8. \A x \in R : x # o => e[x] = d[x]
  BY <1>0, <1>2
<1> QED
  BY <1>1, <1>4, <1>5, <1>6, <1>7, <1>8 DEF Shrunk, e

\* The record at o merged into the one at m.
Merged(d, o, m) ==
  [[d EXCEPT ![o].inode = 0] EXCEPT ![m].rec_len = o + d[o].rec_len - m, ![o].name = None]

(* Any other record is merged into the one before it.                      *)
LEMMA MergeRecord ==
  ASSUME NEW d \in [Offsets -> Header],
         NEW size \in Offsets, size % ChunkSize = 0, size <= MaxSize,
         NEW R, Tiles(d, size, R), Named(d, R), NEW o \in R, o # ChunkOf(o),
         NEW m \in R, m < o, m >= ChunkOf(o), m + d[m].rec_len = o
  PROVE  Shrunk(d, size, R, o, Merged(d, o, m), R \ {o})
<1> DEFINE e == Merged(d, o, m)
           S == R \ {o}
           len == o + d[o].rec_len - m
<1>0. R \subseteq Offsets /\ R \subseteq Nat /\ size \in Nat /\ ChunkOf(o) \in Nat /\ Lengths(d)
        /\ ChunkOf(o) % ChunkSize = 0 /\ (o % ChunkSize = 0 => ChunkOf(o) = o)
        /\ \A x \in R : x < size
  BY OffsetsAreNumbers, ChunkOfIs DEF Tiles, Lengths, Header
<1>1. \A x \in R : d[x].rec_len \in Nat /\ d[x].rec_len >= 12 /\ x + d[x].rec_len \in R \cup {size}
                   /\ \A y \in R : y > x => y >= x + d[x].rec_len
  BY <1>0, Sizes DEF Tiles, Lengths
<1>2. o + d[o].rec_len <= ChunkOf(o) + ChunkSize
  BY <1>0, WithinChunk
<1>3. len \in Nat /\ len \in 0 .. ChunkSize /\ len >= d[m].rec_len /\ m # o
        /\ m + len = o + d[o].rec_len
  BY <1>0, <1>1, <1>2, Sizes
<1> HIDE DEF len
<1>4. e \in [Offsets -> Header]
  BY <1>0, <1>3 DEF Header, len, Merged
<1>5. /\ \A x \in Offsets : x # o /\ x # m => e[x] = d[x]
      /\ e[o].inode = 0
      /\ e[m].inode = d[m].inode /\ e[m].name = d[m].name /\ e[m].rec_len = len
  BY <1>0, <1>3 DEF Header, len, Merged
<1> HIDE DEF e
<1>6. \A x \in S : x # m => e[x] = d[x]
  BY <1>0, <1>5
<1>7. Tiles(e, size, S)
  <2>1. S \subseteq {x \in Offsets : x < size}
    BY DEF Tiles
  <2>2. \A c \in Offsets : c < size /\ c % ChunkSize = 0 => c \in S
    BY <1>0 DEF Tiles
  <2>3. ASSUME NEW x \in S
        PROVE  /\ e[x].rec_len >= MinRec
               /\ x + e[x].rec_len \in S \cup {size}
               /\ \A y \in S : y > x => y >= x + e[x].rec_len
    <3>1. CASE x = m
      <4>1. o + d[o].rec_len \in S \cup {size}
        BY <1>0, <1>1
      <4>2. ASSUME NEW y \in S, y > m PROVE y >= o + d[o].rec_len
        <5>1. y >= o /\ y # o
          BY <1>1, <4>2
        <5> QED
          BY <1>0, <1>1, <5>1
      <4>3. len >= MinRec
        BY <1>1, <1>3, Sizes
      <4> QED
        BY <1>3, <1>5, <3>1, <4>1, <4>2, <4>3
    <3>2. CASE x # m
      <4>1. e[x].rec_len = d[x].rec_len
        BY <1>6, <3>2
      <4>2. x + d[x].rec_len # o
        <5>1. CASE x < m
          BY <1>0, <1>1, <5>1
        <5>2. CASE x > m
          <6>1. x >= o /\ x # o
            BY <1>0, <1>1, <5>2
          <6> QED
            BY <1>0, <1>1, <6>1
        <5> QED
          BY <1>0, <3>2, <5>1, <5>2
      <4> QED
        BY <1>1, <4>1, <4>2, Sizes
    <3> QED
      BY <3>1, <3>2
  <2> QED
    BY <2>1, <2>2, <2>3 DEF Tiles
<1>8. Named(e, S)
  <2>1. ASSUME NEW x \in S
        PROVE  /\ e[x].inode # 0 => e[x].name # None
               /\ e[x].name # None => e[x].rec_len >= Needs(e[x].name)
    <3>1. CASE x = m
      <4>1. d[m].name # None => d[m].name \in Names /\ d[m].rec_len >= Needs(d[m].name)
        BY <1>0 DEF Named, Header
      <4>2. d[m].name # None => len >= Needs(d[m].name)
        BY <1>1, <1>3, <4>1, NeedsBounds
      <4> QED
        BY <1>5, <3>1, <4>2 DEF Named
    <3>2. CASE x # m
      BY <1>6, <3>2 DEF Named
    <3> QED
      BY <3>1, <3>2
  <2> QED
    BY <2>1 DEF Named
<1>9. \A x \in S : e[x].name = d[x].name /\ e[x].inode = d[x].inode
  BY <1>5, <1>6
<1>10. InUse(e, S) = InUse(d, R) \ {o}
  BY <1>9 DEF InUse
<1>11. \A x \in R : x # o /\ x + d[x].rec_len # o => e[x] = d[x]
  BY <1>6
<1> QED
  BY <1>4, <1>7, <1>8, <1>9, <1>10, <1>11 DEF Shrunk, InUse, e

(* ext2_delete_entry takes out one record.                                 *)
LEMMA DeleteShrinks ==
  ASSUME NEW d \in [Offsets -> Header],
         NEW size \in Offsets, size % ChunkSize = 0, size <= MaxSize,
         NEW R, Tiles(d, size, R), Named(d, R), NEW o \in R
  PROVE  \E S : Shrunk(d, size, R, o, ext2_delete_entry(d, o), S)
<1> DEFINE before == IF o = ChunkOf(o) THEN {} ELSE Walk(d, ChunkOf(o), o - 4)
           free == [d EXCEPT ![o].inode = 0]
           m == Max(before)
<1>0. o \in Offsets /\ o < size /\ Lengths(d) /\ o \in Nat
  BY OffsetsAreNumbers DEF Tiles, Lengths, Header
<1>1. ext2_delete_entry(d, o) =
        IF before = {} THEN free
        ELSE [free EXCEPT ![m].rec_len = o + d[o].rec_len - m, ![o].name = None]
  BY DEF ext2_delete_entry
<1>2. CASE o = ChunkOf(o)
  <2>1. ext2_delete_entry(d, o) = Freed(d, o)
    BY <1>1, <1>2 DEF Freed
  <2>2. Shrunk(d, size, R, o, Freed(d, o), R)
    BY FreeFirst
  <2> QED
    BY <2>1, <2>2
<1>3. CASE o # ChunkOf(o)
  <2>1. before = Walk(d, ChunkOf(o), o - 4)
    BY <1>3
  <2> HIDE DEF before
  <2>2. before # {} /\ m \in R /\ m < o /\ m >= ChunkOf(o) /\ m + d[m].rec_len >= o
          /\ \A x \in R : x <= m \/ x >= m + d[m].rec_len
    BY <1>0, <1>3, <2>1, RecordBefore
  <2> HIDE DEF m
  <2>3. m + d[m].rec_len = o
    <3>1. m \in Nat /\ d[m].rec_len \in Nat
      BY <2>2, OffsetsAreNumbers DEF Tiles, Lengths, Header
    <3>2. o >= m + d[m].rec_len
      BY <1>0, <2>2, <3>1
    <3> QED
      BY <1>0, <2>2, <3>1, <3>2
  <2>4. ext2_delete_entry(d, o) = Merged(d, o, m)
    BY <1>1, <2>2 DEF Merged
  <2>5. Shrunk(d, size, R, o, Merged(d, o, m), R \ {o})
    BY <1>3, <2>2, <2>3, MergeRecord
  <2> QED
    BY <2>4, <2>5
<1> QED
  BY <1>2, <1>3

(* ext2_set_link changes nothing but an inode number.                      *)
LEMMA SetLinkKeeps ==
  ASSUME TypeOK, NEW R, Tiles(data, i_size, R), Named(data, R),
         NEW o \in InUse(data, R), NEW i \in Inos
  PROVE  LET d == ext2_set_link(o, i) IN
         /\ d \in [Offsets -> Header] /\ Tiles(d, i_size, R) /\ Named(d, R)
         /\ InUse(d, R) = InUse(data, R)
         /\ \A x \in R : d[x].name = data[x].name /\ d[x].rec_len = data[x].rec_len
         /\ \A x \in R : x # o => d[x].inode = data[x].inode
         /\ d[o].inode = i
<1> DEFINE d == ext2_set_link(o, i)
<1>0. o \in R /\ o \in Offsets /\ R \subseteq Offsets /\ data \in [Offsets -> Header]
        /\ data[o].inode # 0 /\ i # 0
  BY Ext2DirAssumption DEF InUse, Tiles, TypeOK
<1>1. d \in [Offsets -> Header]
  BY <1>0 DEF ext2_set_link, Header
<1>2. /\ \A x \in Offsets : x # o => d[x] = data[x]
      /\ d[o].inode = i /\ d[o].name = data[o].name /\ d[o].rec_len = data[o].rec_len
  BY <1>0 DEF ext2_set_link, Header
<1> HIDE DEF d
<1>3. \A x \in R : d[x].name = data[x].name /\ d[x].rec_len = data[x].rec_len
  BY <1>0, <1>2
<1>4. Tiles(d, i_size, R)
  BY <1>3 DEF Tiles
<1>5. Named(d, R)
  BY <1>0, <1>2 DEF Named
<1>6. InUse(d, R) = InUse(data, R)
  BY <1>0, <1>2 DEF InUse
<1>7. \A x \in R : x # o => d[x].inode = data[x].inode
  BY <1>0, <1>2
<1> QED
  BY <1>1, <1>2, <1>3, <1>4, <1>5, <1>6, <1>7 DEF d

-----------------------------------------------------------------------------
(* The inductive invariant                                                 *)

Records == Walk(data, 0, i_size - 1)

\* "." is the first record and ".." the second.
Heads(d) ==
  /\ d[0].name = Dot /\ d[0].inode # 0 /\ d[0].rec_len = MinRec
  /\ d[MinRec].name = DotDot /\ d[MinRec].inode # 0

\* No name is twice on the pages that can be read.
Distinct(d, R, b) ==
  \A x, y \in InUse(d, R) :
    PageOf(x) \notin b /\ PageOf(y) \notin b /\ d[x].name = d[y].name => x = y

\* What the reader was given lies before its position.
Given(d, R, b, g, pos) ==
  /\ \A n \in g : \E x \in InUse(d, R) : d[x].name = n /\ x < pos
  /\ \A x \in InUse(d, R) : PageOf(x) \notin b /\ d[x].name \in g => x < pos

\* What lies before its position was given to it.
Awaited(d, R, g, st, pos) ==
  /\ st \subseteq {d[x].name : x \in InUse(d, R)}
  /\ \A x \in InUse(d, R) : x < pos /\ d[x].name \in st => d[x].name \in g

\* A position that is used as it is begins a record, or lies behind them all.
Placed == moved \/ f_pos \in Records \/ (f_pos >= i_size /\ f_pos % ChunkSize = 0)

Layout == Tiles(data, i_size, Records) /\ Named(data, Records) /\ Heads(data)

\* The inductive invariant.
IInv ==
  /\ TypeOK
  /\ Layout
  /\ Distinct(data, Records, bad)
  /\ Given(data, Records, bad, gave, f_pos)
  /\ bad = {} => Awaited(data, Records, gave, steady, f_pos)
  /\ Placed
  /\ ~ wrong

(* The first two records.                                                  *)
LEMMA HeadRecords ==
  ASSUME TypeOK, NEW R, Tiles(data, i_size, R), Heads(data)
  PROVE  0 \in InUse(data, R) /\ MinRec \in InUse(data, R)
<1>1. i_size \in Nat /\ i_size >= 24 /\ i_size % ChunkSize = 0
  BY TypeFacts, Sizes
<1>2. 0 \in R
  <2>1. ChunkSize * 0 = 0 /\ (ChunkSize * 0) % ChunkSize = 0
    BY Multiple, Sizes
  <2>2. 0 % ChunkSize = 0
    BY <2>1, Zenon
  <2> QED
    BY <1>1, <2>2, ChunkBegins
<1>3. 0 + data[0].rec_len \in R \cup {i_size}
  BY <1>2 DEF Tiles
<1>4. MinRec \in R
  BY <1>1, <1>3, Sizes DEF Heads
<1> QED
  BY <1>2, <1>4 DEF Heads, InUse

(* Putting in a name keeps the first two records, ...                      *)
LEMMA GrownHeads ==
  ASSUME TypeOK, NEW R, Tiles(data, i_size, R), Heads(data),
         NEW d, NEW size, NEW q, NEW n, NEW i, NEW S, Grown(d, size, R, q, n, i, S)
  PROVE  Heads(d)
<1>1. 0 \in InUse(data, R) /\ MinRec \in InUse(data, R)
  BY HeadRecords
<1>2. d[0] = data[0]
  BY <1>1 DEF Grown, Heads
<1>3. d[MinRec].name = data[MinRec].name /\ d[MinRec].inode = data[MinRec].inode
  BY <1>1 DEF Grown
<1> QED
  BY <1>2, <1>3 DEF Heads

(* ... makes no second record with the name if there was no first one, ... *)
LEMMA GrownDistinct ==
  ASSUME NEW R, NEW d, NEW size, NEW q, NEW n, NEW i, NEW S, Grown(d, size, R, q, n, i, S),
         NEW b, Distinct(data, R, b),
         \A x \in InUse(data, R) : data[x].name = n => PageOf(x) \in b
  PROVE  Distinct(d, S, b)
BY DEF Grown, Distinct

(* ... and leaves the reader where it is.                                  *)
LEMMA GrownGiven ==
  ASSUME NEW R, NEW d, NEW size, NEW q, NEW n, NEW i, NEW S, Grown(d, size, R, q, n, i, S),
         NEW b, NEW g, NEW pos, Given(data, R, b, g, pos), n \in g => q < pos
  PROVE  Given(d, S, b, g, pos)
<1>1. ASSUME NEW k \in g PROVE \E x \in InUse(d, S) : d[x].name = k /\ x < pos
  <2>1. PICK x \in InUse(data, R) : data[x].name = k /\ x < pos
    BY DEF Given
  <2>2. x \in InUse(d, S) /\ d[x].name = k
    BY <2>1 DEF Grown
  <2> QED
    BY <2>1, <2>2
<1>2. ASSUME NEW x \in InUse(d, S), PageOf(x) \notin b, d[x].name \in g PROVE x < pos
  <2>1. CASE x = q
    BY <1>2, <2>1 DEF Grown
  <2>2. CASE x \in InUse(data, R)
    BY <1>2, <2>2 DEF Grown, Given
  <2> QED
    BY <2>1, <2>2 DEF Grown
<1> QED
  BY <1>1, <1>2 DEF Given

(* A name that is new was not there when the scan began.                   *)
LEMMA GrownAwaited ==
  ASSUME NEW R, NEW d, NEW size, NEW q, NEW n, NEW i, NEW S, Grown(d, size, R, q, n, i, S),
         NEW g, NEW st, NEW pos, Awaited(data, R, g, st, pos),
         \A x \in InUse(data, R) : data[x].name # n
  PROVE  Awaited(d, S, g, st, pos)
<1>1. n \notin st
  BY DEF Awaited
<1>2. st \subseteq {d[x].name : x \in InUse(d, S)}
  <2> SUFFICES ASSUME NEW k \in st PROVE \E x \in InUse(d, S) : d[x].name = k
    OBVIOUS
  <2>1. PICK x \in InUse(data, R) : data[x].name = k
    BY DEF Awaited
  <2> QED
    BY <2>1 DEF Grown
<1>3. ASSUME NEW x \in InUse(d, S), x < pos, d[x].name \in st PROVE d[x].name \in g
  <2>1. x # q
    BY <1>1, <1>3 DEF Grown
  <2>2. x \in InUse(data, R) /\ d[x].name = data[x].name
    BY <2>1 DEF Grown
  <2> QED
    BY <1>3, <2>2 DEF Awaited
<1> QED
  BY <1>2, <1>3 DEF Awaited

(* Taking out a name keeps the first two records, ...                      *)
LEMMA ShrunkHeads ==
  ASSUME NEW d, NEW size, NEW R, NEW o, NEW e, NEW S, Shrunk(d, size, R, o, e, S),
         Heads(d), 0 \in InUse(d, R), MinRec \in InUse(d, R),
         d[o].name \notin {Dot, DotDot}
  PROVE  Heads(e)
<1>1. o # 0 /\ o # MinRec
  BY DEF Heads
<1>2. e[0] = d[0]
  <2>1. 0 + d[0].rec_len = MinRec
    BY Sizes DEF Heads
  <2> QED
    BY <1>1, <2>1 DEF Shrunk, InUse
<1>3. e[MinRec].name = d[MinRec].name /\ e[MinRec].inode = d[MinRec].inode
  BY <1>1 DEF Shrunk
<1> QED
  BY <1>2, <1>3 DEF Heads

(* ... and the reader loses only that name.                                *)
LEMMA ShrunkScan ==
  ASSUME NEW d, NEW size, NEW R, NEW o, NEW e, NEW S, Shrunk(d, size, R, o, e, S),
         NEW n, d[o].name = n, NEW b, NEW g, NEW st, NEW pos
  PROVE  /\ Distinct(d, R, b) => Distinct(e, S, b)
         /\ Given(d, R, b, g, pos) => Given(e, S, b, g \ {n}, pos)
         /\ Awaited(d, R, g, st, pos) => Awaited(e, S, g \ {n}, st \ {n}, pos)
<1>0. /\ \A x \in InUse(e, S) : x \in InUse(d, R) /\ x # o /\ e[x].name = d[x].name
      /\ \A x \in InUse(d, R) : x # o => x \in InUse(e, S)
  BY DEF Shrunk
<1>1. ASSUME Distinct(d, R, b) PROVE Distinct(e, S, b)
  BY <1>0, <1>1 DEF Distinct
<1>2. ASSUME Given(d, R, b, g, pos) PROVE Given(e, S, b, g \ {n}, pos)
  <2>1. ASSUME NEW k \in g \ {n} PROVE \E x \in InUse(e, S) : e[x].name = k /\ x < pos
    <3>1. PICK x \in InUse(d, R) : d[x].name = k /\ x < pos
      BY <1>2 DEF Given
    <3>2. x \in InUse(e, S) /\ e[x].name = k
      BY <1>0, <3>1
    <3> QED
      BY <3>1, <3>2
  <2>2. \A x \in InUse(e, S) : PageOf(x) \notin b /\ e[x].name \in g \ {n} => x < pos
    BY <1>0, <1>2 DEF Given
  <2> QED
    BY <2>1, <2>2 DEF Given
<1>3. ASSUME Awaited(d, R, g, st, pos) PROVE Awaited(e, S, g \ {n}, st \ {n}, pos)
  <2>1. ASSUME NEW k \in st \ {n} PROVE \E x \in InUse(e, S) : e[x].name = k
    <3>1. PICK x \in InUse(d, R) : d[x].name = k
      BY <1>3 DEF Awaited
    <3> QED
      BY <1>0, <3>1
  <2>2. \A x \in InUse(e, S) : x < pos /\ e[x].name \in st \ {n} => e[x].name \in g \ {n}
    BY <1>0, <1>3 DEF Awaited
  <2>3. st \ {n} \subseteq {e[x].name : x \in InUse(e, S)}
    BY <2>1
  <2> QED
    BY <2>2, <2>3 DEF Awaited
<1> QED
  BY <1>1, <1>2, <1>3

(* The records of any directory that is tiled.                             *)
LEMMA TiledRecords ==
  ASSUME NEW d \in [Offsets -> Header],
         NEW s \in {c * ChunkSize : c \in 1 .. MaxSize \div ChunkSize},
         NEW S, Tiles(d, s, S)
  PROVE  /\ s \in Nat /\ s \in Offsets /\ s % ChunkSize = 0 /\ s <= MaxSize
         /\ Walk(d, 0, s - 1) = S
<1>1. s \in Nat
  BY Sizes
<1>2. s % ChunkSize = 0 /\ s > 0 /\ s <= MaxSize
  BY <1>1, InSizes
<1>3. s \in Offsets
  BY <1>1, <1>2, ChunkMultiples, InOffsets, Sizes
<1>4. Lengths(d)
  BY DEF Lengths, Header
<1> QED
  BY <1>1, <1>2, <1>3, <1>4, WalkOverAll

(* The page of a record is one that i_dir_start_lookup may name.           *)
LEMMA PageInRange ==
  ASSUME NEW x \in Nat, x <= MaxSize
  PROVE  PageOf(x) \in 0 .. MaxSize \div PageSize
<1>1. PageOf(x) \in Nat /\ PageOf(MaxSize) \in Nat
        /\ PageOf(x) * PageSize <= x /\ MaxSize < PageOf(MaxSize) * PageSize + PageSize
        /\ PageOf(x) * PageSize \in Nat /\ PageOf(MaxSize) * PageSize \in Nat
  BY PageOfIs, PageStart, Sizes
<1>2. ~ (PageOf(MaxSize) < PageOf(x))
  BY <1>1, PageOrder, Sizes
<1>3. PageOf(MaxSize) = MaxSize \div PageSize
  BY DEF PageOf
<1> QED
  BY <1>1, <1>2, <1>3

(* A chunk holds "." and ".." at least.                                    *)
LEMMA SmallOffsets == 0 \in Offsets /\ 12 \in Offsets
<1>1. 0 % ChunkSize = 0
  <2>1. ChunkSize * 0 = 0 /\ (ChunkSize * 0) % ChunkSize = 0
    BY Multiple, Sizes
  <2> QED
    BY <2>1, Zenon
<1>2. MaxSize % ChunkSize = 0
  BY Ext2DirAssumption
<1>3. 0 + ChunkSize <= MaxSize
  BY <1>1, <1>2, ChunkMultiples, Sizes
<1>4. 12 <= MaxSize + PageSize /\ 0 <= MaxSize + PageSize
  BY <1>3, Sizes
<1>5. 12 % 4 = 0 /\ 0 % 4 = 0
  OBVIOUS
<1> QED
  BY <1>4, <1>5, InOffsets

(* A fresh directory.                                                      *)
LEMMA MakeEmpty ==
  ASSUME NEW self \in Inos, NEW parent \in Inos
  PROVE  LET d == ext2_make_empty(self, parent)
             R == {0, MinRec}
         IN /\ d \in [Offsets -> Header] /\ Tiles(d, ChunkSize, R) /\ Named(d, R) /\ Heads(d)
            /\ InUse(d, R) = R
            /\ d[0].inode = self /\ d[MinRec].inode = parent
<1> DEFINE zeroes == [o \in Offsets |-> Zeroes]
           dot == Written(zeroes, 0, MinRec, Dot, self)
           d == Written(dot, MinRec, ChunkSize - MinRec, DotDot, parent)
           R == {0, MinRec}
<1>0. ext2_make_empty(self, parent) = d
  BY DEF ext2_make_empty
<1>1. 0 \in Offsets /\ MinRec \in Offsets /\ Dot \in Names /\ DotDot \in Names /\ Dot # DotDot
  <2>1. 0 \in Offsets /\ 12 \in Offsets
    BY SmallOffsets
  <2>2. Dot \in Names /\ DotDot \in Names /\ Dot # DotDot
    BY DEF Names, Dot, DotDot
  <2> QED
    BY <2>1, <2>2, Sizes
<1>2. zeroes \in [Offsets -> Header]
  BY Sizes DEF Zeroes, Header
<1>3. MinRec \in 0 .. ChunkSize /\ ChunkSize - MinRec \in 0 .. ChunkSize /\ MinRec = 12
  BY Sizes
<1> HIDE DEF zeroes
<1>4. /\ dot \in [Offsets -> Header]
      /\ dot[0] = [inode |-> self, rec_len |-> MinRec, name |-> Dot]
  BY <1>1, <1>2, <1>3, WrittenIs
<1> HIDE DEF dot
<1>5. /\ d \in [Offsets -> Header]
      /\ d[MinRec] = [inode |-> parent, rec_len |-> ChunkSize - MinRec, name |-> DotDot]
      /\ \A x \in Offsets : x < MinRec \/ x >= MinRec + Needs(DotDot) => d[x] = dot[x]
  BY <1>1, <1>3, <1>4, WrittenIs
<1> HIDE DEF d
<1>6. d[0] = [inode |-> self, rec_len |-> MinRec, name |-> Dot]
  BY <1>1, <1>3, <1>4, <1>5
<1>7. /\ d[0].inode = self /\ d[0].rec_len = MinRec /\ d[0].name = Dot
      /\ d[MinRec].inode = parent /\ d[MinRec].rec_len = ChunkSize - MinRec
      /\ d[MinRec].name = DotDot /\ self # 0 /\ parent # 0 /\ Dot # None /\ DotDot # None
  BY <1>1, <1>5, <1>6, Ext2DirAssumption
<1>8. Tiles(d, ChunkSize, R)
  <2>1. R \subseteq {o \in Offsets : o < ChunkSize}
    BY <1>1, Sizes
  <2>2. ASSUME NEW c \in Offsets, c < ChunkSize, c % ChunkSize = 0 PROVE c \in R
    <3>1. c \in Nat /\ c = ChunkSize * 0 + c
      BY OffsetsAreNumbers, Sizes
    <3>2. c % ChunkSize = c
      BY <2>2, <3>1, DivisionUnique, Sizes
    <3> QED
      BY <2>2, <3>2
  <2>3. ASSUME NEW o \in R
        PROVE  /\ d[o].rec_len >= MinRec
               /\ o + d[o].rec_len \in R \cup {ChunkSize}
               /\ \A x \in R : x > o => x >= o + d[o].rec_len
    BY <1>7, Sizes
  <2> QED
    BY <2>1, <2>2, <2>3 DEF Tiles
<1>9. Named(d, R)
  BY <1>7, NeedsOfDots, Sizes DEF Named
<1>10. Heads(d) /\ InUse(d, R) = R
  BY <1>7 DEF Heads, InUse
<1> QED
  BY <1>0, <1>5, <1>7, <1>8, <1>9, <1>10

(* The inductive invariant holds initially.                                *)
LEMMA InitIInv == Init => IInv
<1> SUFFICES ASSUME Init PROVE IInv
  OBVIOUS
<1> DEFINE R == {0, MinRec}
<1>1. PICK self \in Targets[Dot], parent \in Targets[DotDot] : data = ext2_make_empty(self, parent)
  BY DEF Init
<1>2. self \in Inos /\ parent \in Inos /\ Dot \in Names /\ DotDot \in Names
  BY <1>1, Ext2DirAssumption DEF Names
<1>3. /\ data \in [Offsets -> Header] /\ Tiles(data, ChunkSize, R) /\ Named(data, R)
      /\ Heads(data) /\ InUse(data, R) = R
  BY <1>1, <1>2, MakeEmpty
<1>4. i_size = ChunkSize /\ start = 0 /\ bad = {} /\ f_pos = 0 /\ moved = TRUE
        /\ steady = {Dot, DotDot} /\ gave = {} /\ wrong = FALSE
  BY DEF Init
<1>5. ChunkSize \in {c * ChunkSize : c \in 1 .. MaxSize \div ChunkSize}
  <2>1. ChunkSize * 1 = ChunkSize /\ (ChunkSize * 1) % ChunkSize = 0
    BY Multiple, Sizes
  <2>2. ChunkSize % ChunkSize = 0
    BY <2>1, Zenon
  <2>3. ChunkSize <= MaxSize
    <3>1. 0 % ChunkSize = 0
      <4>1. ChunkSize * 0 = 0 /\ (ChunkSize * 0) % ChunkSize = 0
        BY Multiple, Sizes
      <4> QED
        BY <4>1, Zenon
    <3>2. MaxSize % ChunkSize = 0
      BY Ext2DirAssumption
    <3>3. 0 + ChunkSize <= MaxSize
      BY <3>1, <3>2, ChunkMultiples, Sizes
    <3> QED
      BY <3>3, Sizes
  <2> QED
    BY <2>2, <2>3, InSizes, Sizes
<1>6. Records = R
  BY <1>3, <1>4, <1>5, TiledRecords DEF Records
<1>7. TypeOK
  <2>1. 0 \in 0 .. MaxSize \div PageSize
    <3>1. MaxSize \div PageSize \in Nat
      BY Division, Sizes
    <3> QED
      BY <3>1
  <2>2. 0 \in Offsets
    BY InOffsets, Sizes
  <2> QED
    BY <1>2, <1>3, <1>4, <1>5, <2>1, <2>2 DEF TypeOK
<1>8. Distinct(data, R, bad)
  BY <1>3, <1>4 DEF Distinct, Heads, Dot, DotDot
<1>9. Given(data, R, bad, gave, f_pos)
  BY <1>4 DEF Given
<1>10. Awaited(data, R, gave, steady, f_pos)
  <2>1. steady \subseteq {data[x].name : x \in InUse(data, R)}
    BY <1>3, <1>4 DEF Heads
  <2>2. \A x \in InUse(data, R) : ~ (x < 0)
    BY <1>3, Sizes
  <2> QED
    BY <1>4, <2>1, <2>2 DEF Awaited
<1> QED
  BY <1>3, <1>4, <1>6, <1>7, <1>8, <1>9, <1>10 DEF IInv, Layout, Placed

-----------------------------------------------------------------------------
(* The steps preserve the inductive invariant                              *)

(* The layout of a state that satisfies the invariant, for short.          *)
LEMMA InvFacts ==
  ASSUME IInv
  PROVE  /\ TypeOK /\ Tiles(data, i_size, Records) /\ Named(data, Records) /\ Heads(data)
         /\ Distinct(data, Records, bad) /\ Given(data, Records, bad, gave, f_pos)
         /\ bad = {} => Awaited(data, Records, gave, steady, f_pos)
         /\ Placed /\ ~ wrong
         /\ Records \subseteq Offsets /\ Records \subseteq Nat
BY OffsetsAreNumbers DEF IInv, Layout, Tiles

(* What ext2_add_link does for a name that was not found: one record comes *)
(* into use, before those of an unreadable page and so before the ones of  *)
(* that name, if there are any.                                            *)
LEMMA AddEffect ==
  ASSUME IInv, NEW n \in Names, NEW i \in Inos, ~ Found(n), AddSlot(n) < MaxSize
  PROVE  /\ \A x \in InUse(data, Records) : data[x].name = n => PageOf(x) \in bad
         /\ \E q, S :
              /\ Grown(Inserted(AddSlot(n), n, i), CommittedSize(AddSlot(n)),
                       Records, q, n, i, S)
              /\ n \in gave => q < f_pos
<1> DEFINE o == AddSlot(n)
           d == Inserted(o, n, i)
           size == CommittedSize(o)
<1>1. /\ TypeOK /\ Tiles(data, i_size, Records) /\ Named(data, Records)
      /\ Given(data, Records, bad, gave, f_pos) /\ Records \subseteq Nat
  BY InvFacts
<1>2. \A x \in InUse(data, Records) : data[x].name = n => PageOf(x) \in bad
  BY <1>1, FindEntry DEF Readable
<1>3. o # MaxSize
  BY Sizes
<1>4. GoodSlot(n, Records, o) /\ \A p \in bad \cap Pages : PageOf(o) < p
  BY <1>1, <1>3, AddSlotIs
<1> HIDE DEF o
<1>5. o < MaxSize
  BY DEF o
<1>6. PICK q, S : Grown(d, size, Records, q, n, i, S) /\ PageOf(q) = PageOf(o)
  BY <1>1, <1>4, <1>5, InsertedGrows
<1> HIDE DEF d, size
<1>7. ASSUME n \in gave PROVE q < f_pos
  <2>1. PICK x \in InUse(data, Records) : data[x].name = n /\ x < f_pos
    BY <1>1, <1>7 DEF Given
  <2>2. x \in Records /\ x \in Nat /\ PageOf(x) \in bad \cap Pages
    BY <1>1, <1>2, <2>1, RecordFacts DEF InUse
  <2>3. PageOf(q) < PageOf(x)
    BY <1>4, <1>6, <2>2
  <2>4. q \in Nat
    BY <1>6, OffsetsAreNumbers DEF Grown, Tiles, InUse
  <2>5. /\ PageOf(q) \in Nat /\ PageOf(x) \in Nat
        /\ q < PageOf(q) * PageSize + PageSize /\ PageOf(x) * PageSize <= x
        /\ PageOf(q) * PageSize \in Nat /\ PageOf(x) * PageSize \in Nat
    BY <2>2, <2>4, PageOfIs, PageStart
  <2>6. PageOf(q) * PageSize + PageSize <= PageOf(x) * PageSize
    BY <2>3, <2>5, PageOrder
  <2>7. f_pos \in Nat
    BY <1>1, OffsetsAreNumbers DEF TypeOK
  <2> QED
    BY <2>1, <2>2, <2>4, <2>5, <2>6, <2>7, Sizes
<1> QED
  BY <1>2, <1>6, <1>7 DEF o, d, size

(* The place of a record that was found.                                   *)
LEMMA FoundPlace ==
  ASSUME IInv, NEW n \in Names, Found(n)
  PROVE  /\ ext2_find_entry(n) \in InUse(data, Records) /\ ext2_find_entry(n) \in Records
         /\ data[ext2_find_entry(n)].name = n /\ Readable(ext2_find_entry(n))
         /\ data[ext2_find_entry(n)].inode \in Inos
         /\ PageOf(ext2_find_entry(n)) \in 0 .. MaxSize \div PageSize
<1>1. TypeOK /\ Tiles(data, i_size, Records) /\ Named(data, Records)
  BY InvFacts
<1> DEFINE o == ext2_find_entry(n)
<1>2. o \in InUse(data, Records) /\ data[o].name = n /\ Readable(o)
  BY <1>1, FindEntry
<1> HIDE DEF o
<1>3. o \in Records /\ o \in Nat /\ o < i_size /\ data[o] \in Header /\ data[o].inode # 0
  BY <1>1, <1>2, RecordFacts DEF InUse
<1>4. PageOf(o) \in 0 .. MaxSize \div PageSize
  BY <1>1, <1>3, TypeFacts, PageInRange, Sizes
<1>5. data[o].inode \in Inos
  BY <1>3 DEF Header
<1> QED
  BY <1>2, <1>3, <1>4, <1>5 DEF o

LEMMA LookupStep ==
  ASSUME IInv, NEW n \in Names, Lookup(n)
  PROVE  IInv'
<1>1. /\ start' = PageOf(ext2_find_entry(n)) /\ UNCHANGED <<data, i_size, bad, scanVars>>
      /\ Found(n)
  BY DEF Lookup
<1>2. start' \in 0 .. MaxSize \div PageSize
  BY <1>1, FoundPlace
<1>3. TypeOK'
  BY <1>1, <1>2 DEF IInv, TypeOK, scanVars
<1>4. Records' = Records
  BY <1>1 DEF Records
<1> QED
  BY <1>1, <1>3, <1>4 DEF IInv, Layout, Placed, scanVars

(* A state whose records are S after a change that sends the reader to     *)
(* look again.                                                             *)
LEMMA ChangedIInv ==
  ASSUME NEW S, data' \in [Offsets -> Header], Tiles(data', i_size', S), Named(data', S),
         i_size' \in {c * ChunkSize : c \in 1 .. MaxSize \div ChunkSize},
         Heads(data'), Distinct(data', S, bad'), Given(data', S, bad', gave', f_pos'),
         bad' = {} => Awaited(data', S, gave', steady', f_pos'),
         start' \in 0 .. MaxSize \div PageSize, bad' \subseteq 0 .. MaxSize \div PageSize,
         f_pos' \in Offsets, gave' \subseteq steady', steady' \subseteq Names,
         moved' = TRUE, wrong' = FALSE
  PROVE  IInv'
<1>1. Records' = S
  BY TiledRecords DEF Records
<1>2. TypeOK'
  BY DEF TypeOK
<1> QED
  BY <1>1, <1>2 DEF IInv, Layout, Placed

LEMMA AddLinkStep ==
  ASSUME IInv, NEW n \in Names, NEW i \in Inos, AddLink(n, i)
  PROVE  IInv'
<1>1. /\ ~ Found(n) /\ AddSlot(n) < MaxSize
      /\ data' = Inserted(AddSlot(n), n, i) /\ i_size' = CommittedSize(AddSlot(n))
      /\ moved' = TRUE /\ UNCHANGED <<start, bad, f_pos, steady, gave, wrong>>
  BY DEF AddLink
<1>2. /\ TypeOK /\ Tiles(data, i_size, Records) /\ Heads(data)
      /\ Distinct(data, Records, bad) /\ Given(data, Records, bad, gave, f_pos)
      /\ bad = {} => Awaited(data, Records, gave, steady, f_pos)
      /\ ~ wrong
  BY InvFacts
<1>3. \A x \in InUse(data, Records) : data[x].name = n => PageOf(x) \in bad
  BY <1>1, AddEffect
<1>4. PICK q, S : Grown(data', i_size', Records, q, n, i, S) /\ (n \in gave => q < f_pos)
  BY <1>1, AddEffect
<1>5. Heads(data')
  BY <1>2, <1>4, GrownHeads
<1>6. Distinct(data', S, bad)
  BY <1>2, <1>3, <1>4, GrownDistinct
<1>7. Given(data', S, bad, gave, f_pos)
  BY <1>2, <1>4, GrownGiven
<1>8. bad = {} => Awaited(data', S, gave, steady, f_pos)
  BY <1>2, <1>3, <1>4, GrownAwaited
<1>9. /\ data' \in [Offsets -> Header] /\ Tiles(data', i_size', S) /\ Named(data', S)
      /\ i_size' \in {c * ChunkSize : c \in 1 .. MaxSize \div ChunkSize}
  BY <1>4 DEF Grown
<1>10. /\ start' \in 0 .. MaxSize \div PageSize /\ bad' \subseteq 0 .. MaxSize \div PageSize
       /\ f_pos' \in Offsets /\ gave' \subseteq steady' /\ steady' \subseteq Names
       /\ wrong' = FALSE
  BY <1>1, <1>2 DEF TypeOK
<1> QED
  BY <1>1, <1>5, <1>6, <1>7, <1>8, <1>9, <1>10, ChangedIInv

LEMMA DeleteEntryStep ==
  ASSUME IInv, NEW n \in Names, DeleteEntry(n)
  PROVE  IInv'
<1> DEFINE o == ext2_find_entry(n)
<1>1. /\ n \notin {Dot, DotDot} /\ Found(n)
      /\ data' = ext2_delete_entry(data, o) /\ start' = PageOf(o)
      /\ moved' = TRUE /\ steady' = steady \ {n} /\ gave' = gave \ {n}
      /\ UNCHANGED <<i_size, bad, f_pos, wrong>>
  BY DEF DeleteEntry
<1>2. /\ TypeOK /\ Tiles(data, i_size, Records) /\ Named(data, Records) /\ Heads(data)
      /\ Distinct(data, Records, bad) /\ Given(data, Records, bad, gave, f_pos)
      /\ bad = {} => Awaited(data, Records, gave, steady, f_pos)
      /\ ~ wrong
  BY InvFacts
<1>3. o \in Records /\ data[o].name = n /\ start' \in 0 .. MaxSize \div PageSize
  BY <1>1, FoundPlace
<1> HIDE DEF o
<1>4. data \in [Offsets -> Header]
  BY <1>2 DEF TypeOK
<1>5. PICK S : Shrunk(data, i_size, Records, o, data', S)
  BY <1>1, <1>2, <1>3, <1>4, DeleteShrinks, TypeFacts
<1>6. Heads(data')
  BY <1>1, <1>2, <1>3, <1>5, HeadRecords, ShrunkHeads
<1>7. /\ Distinct(data', S, bad) /\ Given(data', S, bad, gave \ {n}, f_pos)
      /\ bad = {} => Awaited(data', S, gave \ {n}, steady \ {n}, f_pos)
  BY <1>2, <1>3, <1>5, ShrunkScan
<1>8. data' \in [Offsets -> Header] /\ Tiles(data', i_size, S) /\ Named(data', S)
  BY <1>5 DEF Shrunk
<1>9. /\ i_size' \in {c * ChunkSize : c \in 1 .. MaxSize \div ChunkSize}
      /\ bad' \subseteq 0 .. MaxSize \div PageSize
      /\ f_pos' \in Offsets /\ gave' \subseteq steady' /\ steady' \subseteq Names
      /\ wrong' = FALSE
  BY <1>1, <1>2 DEF TypeOK
<1> QED
  BY <1>1, <1>3, <1>6, <1>7, <1>8, <1>9, ChangedIInv

(* Giving a record in use another inode changes nothing that the scan or a *)
(* lookup depends on.                                                      *)
LEMMA SetLinkEffect ==
  ASSUME IInv, NEW o \in InUse(data, Records), NEW i \in Inos
  PROVE  LET d == ext2_set_link(o, i) IN
         /\ d \in [Offsets -> Header] /\ Tiles(d, i_size, Records) /\ Named(d, Records)
         /\ Heads(d) /\ Distinct(d, Records, bad) /\ Given(d, Records, bad, gave, f_pos)
         /\ bad = {} => Awaited(d, Records, gave, steady, f_pos)
         /\ InUse(d, Records) = InUse(data, Records)
         /\ \A x \in Records : d[x].name = data[x].name
<1> DEFINE d == ext2_set_link(o, i)
<1>1. /\ TypeOK /\ Tiles(data, i_size, Records) /\ Named(data, Records) /\ Heads(data)
      /\ Distinct(data, Records, bad) /\ Given(data, Records, bad, gave, f_pos)
      /\ bad = {} => Awaited(data, Records, gave, steady, f_pos)
  BY InvFacts
<1>2. /\ d \in [Offsets -> Header] /\ Tiles(d, i_size, Records) /\ Named(d, Records)
      /\ InUse(d, Records) = InUse(data, Records)
      /\ \A x \in Records : d[x].name = data[x].name /\ d[x].rec_len = data[x].rec_len
  BY <1>1, SetLinkKeeps
<1> HIDE DEF d
<1>3. 0 \in InUse(data, Records) /\ MinRec \in InUse(data, Records)
  BY <1>1, HeadRecords
<1>4. Heads(d)
  BY <1>1, <1>2, <1>3 DEF Heads, InUse
<1>5. \A x \in InUse(data, Records) : x \in Records /\ d[x].name = data[x].name
  BY <1>2 DEF InUse
<1>6. Distinct(d, Records, bad)
  BY <1>1, <1>2, <1>5 DEF Distinct
<1>7. Given(d, Records, bad, gave, f_pos)
  BY <1>1, <1>2, <1>5 DEF Given
<1>8. bad = {} => Awaited(d, Records, gave, steady, f_pos)
  BY <1>1, <1>2, <1>5 DEF Awaited
<1> QED
  BY <1>2, <1>4, <1>6, <1>7, <1>8 DEF d

LEMMA SetLinkStep ==
  ASSUME IInv, NEW n \in Names, NEW i \in Inos, SetLink(n, i)
  PROVE  IInv'
<1> DEFINE o == ext2_find_entry(n)
<1>1. /\ Found(n) /\ data' = ext2_set_link(o, i) /\ start' = PageOf(o)
      /\ moved' = TRUE /\ UNCHANGED <<i_size, bad, f_pos, steady, gave, wrong>>
  BY DEF SetLink
<1>2. o \in InUse(data, Records) /\ start' \in 0 .. MaxSize \div PageSize
  BY <1>1, FoundPlace
<1> HIDE DEF o
<1>3. /\ data' \in [Offsets -> Header] /\ Tiles(data', i_size, Records)
      /\ Named(data', Records) /\ Heads(data') /\ Distinct(data', Records, bad)
      /\ Given(data', Records, bad, gave, f_pos)
      /\ bad = {} => Awaited(data', Records, gave, steady, f_pos)
  BY <1>1, <1>2, SetLinkEffect
<1>4. TypeOK /\ ~ wrong
  BY InvFacts
<1> QED
  BY <1>1, <1>2, <1>3, <1>4, ChangedIInv DEF TypeOK

LEMMA SetDotDotStep ==
  ASSUME IInv, NEW i \in Inos, SetDotDot(i)
  PROVE  IInv'
<1>1. TypeOK /\ Tiles(data, i_size, Records) /\ Heads(data) /\ ~ wrong
  BY InvFacts
<1>2. ext2_dotdot \in InUse(data, Records)
  BY <1>1, HeadRecords DEF ext2_dotdot, Heads
<1>3. /\ data' = ext2_set_link(ext2_dotdot, i)
      /\ moved' = TRUE /\ UNCHANGED <<i_size, start, bad, f_pos, steady, gave, wrong>>
  BY DEF SetDotDot
<1>4. /\ data' \in [Offsets -> Header] /\ Tiles(data', i_size, Records)
      /\ Named(data', Records) /\ Heads(data') /\ Distinct(data', Records, bad)
      /\ Given(data', Records, bad, gave, f_pos)
      /\ bad = {} => Awaited(data', Records, gave, steady, f_pos)
  BY <1>2, <1>3, SetLinkEffect
<1> QED
  BY <1>1, <1>3, <1>4, ChangedIInv DEF TypeOK

(* The header of a chunk that could not be added lies behind the records.  *)
LEMMA AddLinkFailsStep ==
  ASSUME IInv, NEW n \in Names, AddLinkFails(n)
  PROVE  IInv'
<1>1. /\ data' = [data EXCEPT ![i_size].rec_len = ChunkSize, ![i_size].inode = 0]
      /\ UNCHANGED <<i_size, start, bad, scanVars>>
  BY DEF AddLinkFails
<1>2. TypeOK /\ Tiles(data, i_size, Records) /\ Named(data, Records) /\ Heads(data)
  BY InvFacts
<1>3. i_size \in Offsets /\ i_size \in Nat
  BY <1>2, TypeFacts
<1>4. data' \in [Offsets -> Header]
  <2>1. ChunkSize \in 0 .. ChunkSize
    BY Sizes
  <2> QED
    BY <1>1, <1>2, <1>3, <2>1 DEF TypeOK, Header
<1>5. \A x \in Records : x \in Offsets /\ x # i_size /\ data'[x] = data[x]
  <2>1. \A x \in Records : x \in Offsets /\ x < i_size
    BY <1>2 DEF Tiles
  <2> QED
    BY <1>1, <1>2, <1>3, <2>1 DEF TypeOK
<1>6. Tiles(data', i_size, Records) /\ Named(data', Records)
  BY <1>2, <1>5 DEF Tiles, Named
<1>7. InUse(data', Records) = InUse(data, Records)
  BY <1>5 DEF InUse
<1>8. \A x \in InUse(data, Records) : data'[x] = data[x]
  BY <1>5 DEF InUse
<1>9. 0 \in InUse(data, Records) /\ MinRec \in InUse(data, Records)
  BY <1>2, HeadRecords
<1>10. Heads(data')
  BY <1>2, <1>8, <1>9 DEF Heads
<1>11. Records' = Records
  <2>1. i_size \in {c * ChunkSize : c \in 1 .. MaxSize \div ChunkSize}
    BY <1>2 DEF TypeOK
  <2>2. Walk(data', 0, i_size - 1) = Records
    BY <1>4, <1>6, <2>1, TiledRecords
  <2> QED
    BY <1>1, <2>2 DEF Records
<1>12. /\ Distinct(data', Records, bad) /\ Given(data', Records, bad, gave, f_pos)
       /\ bad = {} => Awaited(data', Records, gave, steady, f_pos)
  BY <1>7, <1>8 DEF IInv, Distinct, Given, Awaited
<1>13. TypeOK'
  BY <1>1, <1>2, <1>4 DEF TypeOK, scanVars
<1> QED
  BY <1>1, <1>6, <1>10, <1>11, <1>12, <1>13 DEF IInv, Layout, Placed, scanVars

LEMMA LosePageStep ==
  ASSUME IInv, NEW p \in Pages, LosePage(p)
  PROVE  IInv'
<1>1. bad = {} /\ bad' = {p} /\ UNCHANGED <<data, i_size, start, f_pos, moved, steady, gave, wrong>>
  BY DEF LosePage, dirVars, scanVars
<1>2. TypeOK
  BY InvFacts
<1>3. p \in 0 .. MaxSize \div PageSize
  <2>1. p \in Nat /\ p * PageSize < i_size /\ p * PageSize \in Nat
    BY <1>2, DirPagesIs, PageStart
  <2>2. PageOf(p * PageSize) = p
    BY <2>1, PageOfIs, Sizes
  <2>3. p * PageSize <= MaxSize
    BY <1>2, <2>1, TypeFacts, Sizes
  <2> QED
    BY <2>1, <2>2, <2>3, PageInRange
<1>4. TypeOK'
  BY <1>1, <1>2, <1>3 DEF TypeOK
<1>5. Records' = Records
  BY <1>1 DEF Records
<1>6. Distinct(data, Records, {p}) /\ Given(data, Records, {p}, gave, f_pos)
  BY <1>1 DEF IInv, Distinct, Given
<1> QED
  BY <1>1, <1>4, <1>5, <1>6 DEF IInv, Layout, Placed

LEMMA OpenStep ==
  ASSUME IInv, Open
  PROVE  IInv'
<1>1. /\ f_pos' = 0 /\ moved' = TRUE /\ steady' = LiveNames /\ gave' = {}
      /\ UNCHANGED <<data, i_size, start, bad, wrong>>
  BY DEF Open, dirVars
<1>2. TypeOK /\ Tiles(data, i_size, Records) /\ Named(data, Records) /\ Records \subseteq Nat
  BY InvFacts
<1>3. Live = InUse(data, Records)
  BY <1>2, LiveIs
<1>4. LiveNames = {data[x].name : x \in InUse(data, Records)}
  BY <1>3 DEF LiveNames
<1>5. LiveNames \subseteq Names
  <2>1. \A x \in InUse(data, Records) : data[x].name \in Names
    <3>1. \A x \in InUse(data, Records) : data[x] \in Header /\ data[x].name # None
      BY <1>2, RecordFacts DEF InUse, Named
    <3> QED
      BY <3>1 DEF Header
  <2> QED
    BY <1>4, <2>1
<1>6. TypeOK'
  BY <1>1, <1>2, <1>5, SmallOffsets DEF TypeOK
<1>7. Records' = Records
  BY <1>1 DEF Records
<1>8. Given(data, Records, bad, {}, 0)
  BY DEF Given
<1>9. Awaited(data, Records, {}, LiveNames, 0)
  <2>1. \A x \in InUse(data, Records) : ~ (x < 0)
    BY <1>2 DEF InUse
  <2> QED
    BY <1>4, <2>1 DEF Awaited
<1> QED
  BY <1>1, <1>6, <1>7, <1>8, <1>9 DEF IInv, Layout, Placed

(* The last half of ext2_rename: the old record goes, from the directory d *)
(* that the first half left.                                               *)
LEMMA DeleteAfter ==
  ASSUME NEW d \in [Offsets -> Header],
         NEW size \in {c * ChunkSize : c \in 1 .. MaxSize \div ChunkSize},
         NEW R, Tiles(d, size, R), Named(d, R), Heads(d),
         Distinct(d, R, bad), Given(d, R, bad, gave, f_pos),
         bad = {} => Awaited(d, R, gave, steady, f_pos),
         0 \in InUse(d, R), MinRec \in InUse(d, R),
         NEW o \in InUse(d, R), NEW n, d[o].name = n, n \notin {Dot, DotDot}
  PROVE  LET e == ext2_delete_entry(d, o) IN
         \E S : /\ e \in [Offsets -> Header] /\ Tiles(e, size, S) /\ Named(e, S) /\ Heads(e)
                /\ Distinct(e, S, bad) /\ Given(e, S, bad, gave \ {n}, f_pos)
                /\ bad = {} => Awaited(e, S, gave \ {n}, steady \ {n}, f_pos)
<1> DEFINE e == ext2_delete_entry(d, o)
<1>1. size \in Offsets /\ size % ChunkSize = 0 /\ size <= MaxSize /\ o \in R
  BY TiledRecords DEF InUse
<1>2. PICK S : Shrunk(d, size, R, o, e, S)
  BY <1>1, DeleteShrinks
<1> HIDE DEF e
<1>3. Heads(e)
  BY <1>2, ShrunkHeads
<1>4. /\ Distinct(e, S, bad) /\ Given(e, S, bad, gave \ {n}, f_pos)
      /\ bad = {} => Awaited(e, S, gave \ {n}, steady \ {n}, f_pos)
  BY <1>2, ShrunkScan
<1>5. e \in [Offsets -> Header] /\ Tiles(e, size, S) /\ Named(e, S)
  BY <1>2 DEF Shrunk
<1> QED
  BY <1>3, <1>4, <1>5 DEF e

LEMMA RenameStep ==
  ASSUME IInv, NEW n \in Names, NEW k \in Names, Rename(n, k)
  PROVE  IInv'
<1> DEFINE old == ext2_find_entry(n)
           i == data[old].inode
           o == IF Found(k) THEN ext2_find_entry(k) ELSE AddSlot(k)
           d == IF Found(k) THEN ext2_set_link(o, i) ELSE Inserted(o, k, i)
           size == IF Found(k) THEN i_size ELSE CommittedSize(o)
<1>1. /\ n \notin {Dot, DotDot} /\ n # k /\ Found(n) /\ o < MaxSize
      /\ data' = ext2_delete_entry(d, old) /\ i_size' = size
      /\ start' = IF Found(k) THEN PageOf(o) ELSE PageOf(old)
      /\ moved' = TRUE /\ steady' = steady \ {n} /\ gave' = gave \ {n}
      /\ UNCHANGED <<bad, f_pos, wrong>>
  BY DEF Rename
<1>2. /\ TypeOK /\ Tiles(data, i_size, Records) /\ Named(data, Records) /\ Heads(data)
      /\ Distinct(data, Records, bad) /\ Given(data, Records, bad, gave, f_pos)
      /\ bad = {} => Awaited(data, Records, gave, steady, f_pos)
      /\ ~ wrong
  BY InvFacts
<1>3. old \in InUse(data, Records) /\ old \in Records /\ data[old].name = n /\ i \in Inos
        /\ PageOf(old) \in 0 .. MaxSize \div PageSize
  BY <1>1, FoundPlace
<1>4. 0 \in InUse(data, Records) /\ MinRec \in InUse(data, Records)
  BY <1>2, HeadRecords
<1> HIDE DEF old, i
<1>5. \E R : /\ d \in [Offsets -> Header] /\ Tiles(d, size, R) /\ Named(d, R) /\ Heads(d)
             /\ size \in {c * ChunkSize : c \in 1 .. MaxSize \div ChunkSize}
             /\ Distinct(d, R, bad) /\ Given(d, R, bad, gave, f_pos)
             /\ bad = {} => Awaited(d, R, gave, steady, f_pos)
             /\ InUse(data, Records) \subseteq InUse(d, R)
             /\ d[old].name = n
  <2>1. CASE Found(k)
    <3>1. o \in InUse(data, Records) /\ d = ext2_set_link(o, i) /\ size = i_size
      BY <2>1, FoundPlace
    <3> HIDE DEF o, d, size
    <3>2. /\ d \in [Offsets -> Header] /\ Tiles(d, i_size, Records) /\ Named(d, Records)
          /\ Heads(d) /\ Distinct(d, Records, bad) /\ Given(d, Records, bad, gave, f_pos)
          /\ bad = {} => Awaited(d, Records, gave, steady, f_pos)
          /\ InUse(d, Records) = InUse(data, Records)
          /\ \A x \in Records : d[x].name = data[x].name
      BY <1>3, <3>1, SetLinkEffect
    <3>3. i_size \in {c * ChunkSize : c \in 1 .. MaxSize \div ChunkSize}
      BY <1>2 DEF TypeOK
    <3> QED
      BY <1>3, <3>1, <3>2, <3>3
  <2>2. CASE ~ Found(k)
    <3>1. o = AddSlot(k) /\ d = Inserted(o, k, i) /\ size = CommittedSize(o) /\ o < MaxSize
      BY <1>1, <2>2
    <3> HIDE DEF o, d, size
    <3>2. \A x \in InUse(data, Records) : data[x].name = k => PageOf(x) \in bad
      BY <1>3, <2>2, <3>1, AddEffect
    <3>3. PICK q, S : Grown(d, size, Records, q, k, i, S) /\ (k \in gave => q < f_pos)
      BY <1>3, <2>2, <3>1, AddEffect
    <3>4. Heads(d)
      BY <1>2, <3>3, GrownHeads
    <3>5. Distinct(d, S, bad)
      BY <1>2, <3>2, <3>3, GrownDistinct
    <3>6. Given(d, S, bad, gave, f_pos)
      BY <1>2, <3>3, GrownGiven
    <3>7. bad = {} => Awaited(d, S, gave, steady, f_pos)
      BY <1>2, <3>2, <3>3, GrownAwaited
    <3>8. /\ d \in [Offsets -> Header] /\ Tiles(d, size, S) /\ Named(d, S)
          /\ size \in {c * ChunkSize : c \in 1 .. MaxSize \div ChunkSize}
          /\ InUse(data, Records) \subseteq InUse(d, S)
          /\ d[old].name = n
      BY <1>3, <3>3 DEF Grown
    <3> QED
      BY <3>4, <3>5, <3>6, <3>7, <3>8
  <2> QED
    BY <2>1, <2>2
<1>6. start' \in 0 .. MaxSize \div PageSize
  BY <1>1, <1>3, FoundPlace
<1> HIDE DEF d, size, o
<1>7. \E S : /\ data' \in [Offsets -> Header] /\ Tiles(data', size, S) /\ Named(data', S)
             /\ Heads(data')
             /\ Distinct(data', S, bad) /\ Given(data', S, bad, gave \ {n}, f_pos)
             /\ bad = {} => Awaited(data', S, gave \ {n}, steady \ {n}, f_pos)
  BY <1>1, <1>3, <1>4, <1>5, DeleteAfter
<1>8. size \in {c * ChunkSize : c \in 1 .. MaxSize \div ChunkSize}
  BY <1>5
<1>9. /\ bad' \subseteq 0 .. MaxSize \div PageSize /\ f_pos' \in Offsets
      /\ gave' \subseteq steady' /\ steady' \subseteq Names /\ wrong' = FALSE
  BY <1>1, <1>2 DEF TypeOK
<1> QED
  BY <1>1, <1>6, <1>7, <1>8, <1>9, ChangedIInv

-----------------------------------------------------------------------------
(* Reading the directory                                                   *)

(* From a record, NextStop is the next one in use or the first one of an   *)
(* unreadable page, or the end.                                            *)
LEMMA NextStopIs ==
  ASSUME TypeOK, NEW R, Tiles(data, i_size, R), NEW o \in R \cup {i_size}
  PROVE  LET q == NextStop(o) IN
         /\ q \in R \cup {i_size} /\ q \in Nat /\ o \in Nat /\ q >= o
         /\ q # i_size => data[q].inode # 0 \/ ~ Readable(q)
         /\ \A x \in InUse(data, R) : x >= o => x >= q
<1> DEFINE met == IF o + MinRec > i_size THEN {} ELSE Walk(data, o, i_size - MinRec)
           stops == {x \in met : data[x].inode # 0 \/ ~ Readable(x)}
           all == {i_size} \cup stops
<1>1. /\ Lengths(data) /\ i_size \in Nat /\ i_size \in Offsets /\ R \subseteq Nat
      /\ \A x \in R : x + 12 <= i_size /\ x \in Nat
  <2>1. ASSUME NEW x \in R PROVE x + 12 <= i_size /\ x \in Nat
    <3>1. /\ x \in Nat /\ data[x].rec_len \in Nat /\ data[x].rec_len >= 12
          /\ x + data[x].rec_len <= i_size /\ i_size \in Nat
      BY RecordFacts, TypeFacts
    <3> QED
      BY <3>1
  <2> QED
    BY <2>1, TypeFacts
<1>2. o \in Nat /\ o <= i_size
  BY <1>1
<1>3. met = {x \in R : o <= x}
  <2>1. CASE o = i_size
    <3>1. met = {}
      BY <1>1, <2>1, Sizes
    <3>2. \A x \in R : ~ (i_size <= x)
      BY <1>1
    <3> QED
      BY <2>1, <3>1, <3>2
  <2>2. CASE o \in R
    <3>1. ~ (o + MinRec > i_size)
      BY <1>1, <1>2, <2>2, Sizes
    <3>2. i_size - MinRec \in Int /\ i_size - MinRec < i_size
      BY <1>1, Sizes
    <3>3. Walk(data, o, i_size - MinRec) = {x \in R : o <= x /\ x <= i_size - MinRec}
      BY <1>1, <2>2, <3>2, WalkIsRecords
    <3>4. \A x \in R : x <= i_size - MinRec
      BY <1>1, Sizes
    <3>5. {x \in R : o <= x /\ x <= i_size - MinRec} = {x \in R : o <= x}
      BY <3>4
    <3> QED
      BY <3>1, <3>3, <3>5
  <2> QED
    BY <2>1, <2>2
<1>4. NextStop(o) = Min(all)
  BY DEF NextStop
<1> HIDE DEF met
<1>5. all \subseteq Nat /\ all # {} /\ \A x \in all : x >= o
  BY <1>1, <1>2, <1>3
<1>6. Min(all) \in all /\ \A y \in all : Min(all) <= y
  BY <1>5, MinIs
<1>7. \A x \in InUse(data, R) : x >= o => x \in all
  BY <1>1, <1>2, <1>3 DEF InUse
<1>8. Min(all) \in R \cup {i_size} /\ Min(all) \in Nat
        /\ (Min(all) # i_size => data[Min(all)].inode # 0 \/ ~ Readable(Min(all)))
  BY <1>1, <1>3, <1>6
<1>9. InUse(data, R) \subseteq Nat
  BY <1>1 DEF InUse
<1> HIDE DEF all
<1> QED
  BY <1>2, <1>4, <1>5, <1>6, <1>7, <1>8, <1>9

(* On an unreadable page the reader goes nowhere by itself.                *)
LEMMA NextStopUnreadable ==
  ASSUME TypeOK, NEW o \in Offsets, o + MinRec <= i_size, ~ Readable(o)
  PROVE  NextStop(o) = o
<1> DEFINE met == Walk(data, o, i_size - MinRec)
           later == {x \in Nat : x >= o}
           all == {i_size} \cup {x \in met : data[x].inode # 0 \/ ~ Readable(x)}
<1>1. Lengths(data) /\ i_size \in Nat /\ o \in Nat
  BY TypeFacts, OffsetsAreNumbers
<1>2. NextStop(o) = Min(all)
  <2>1. ~ (o + MinRec > i_size)
    BY <1>1, Sizes
  <2> QED
    BY <2>1 DEF NextStop
<1>3. i_size - MinRec \in Int /\ o <= i_size - MinRec /\ o <= i_size
  BY <1>1, Sizes
<1>4. o \in met
  BY <1>1, <1>3, WalkStep
<1>5. Closed(data, i_size - MinRec, later)
  BY <1>1 DEF Closed, Lengths
<1>6. \A x \in met : x \in later
  <2>1. later \subseteq Nat /\ o \in later
    BY <1>1
  <2> HIDE DEF later
  <2> QED
    BY <1>1, <1>3, <1>5, <2>1, WalkStays
<1> HIDE DEF met
<1>7. all \subseteq Nat /\ o \in all /\ \A x \in all : x >= o
  BY <1>1, <1>3, <1>4, <1>6
<1>8. Min(all) \in all /\ Min(all) <= o
  BY <1>7, MinIs
<1> QED
  BY <1>1, <1>2, <1>7, <1>8

(* Where the reader takes up its scan: at the first record from its        *)
(* position on, if it can read there.                                      *)
LEMMA RevalidatedIs ==
  ASSUME IInv, ~ AtEnd
  PROVE  \/ /\ Revalidated \in Records \cup {i_size} /\ Revalidated >= f_pos
            /\ \A x \in Records : x >= f_pos => x >= Revalidated
         \/ Revalidated = f_pos /\ ~ Readable(f_pos)
<1>1. TypeOK /\ Tiles(data, i_size, Records) /\ Placed /\ Records \subseteq Nat
  BY InvFacts
<1>2. /\ Lengths(data) /\ i_size \in Nat /\ i_size \in Offsets
      /\ f_pos \in Offsets /\ f_pos \in Nat /\ f_pos < i_size
  BY <1>1, TypeFacts, OffsetsAreNumbers, Sizes DEF TypeOK, AtEnd
<1>3. ASSUME f_pos \in Records, Revalidated = f_pos
      PROVE  /\ Revalidated \in Records \cup {i_size} /\ Revalidated >= f_pos
             /\ \A x \in Records : x >= f_pos => x >= Revalidated
  BY <1>2, <1>3
<1>4. CASE ~ Readable(f_pos)
  BY <1>4 DEF Revalidated
<1>5. CASE f_pos % PageSize = 0
  <2>1. f_pos = PageOf(f_pos) * PageSize /\ PageOf(f_pos) \in Nat
    BY <1>2, <1>5, PageOfIs
  <2>2. f_pos % ChunkSize = 0
    BY <2>1, PageStart
  <2>3. f_pos \in Records
    BY <1>1, <1>2, <2>2, ChunkBegins
  <2>4. Revalidated = f_pos
    BY <1>5 DEF Revalidated
  <2> QED
    BY <1>3, <2>3, <2>4
<1>6. CASE ~ moved
  <2>1. f_pos \in Records
    BY <1>1, <1>2, <1>6 DEF Placed
  <2>2. Revalidated = f_pos
    BY <1>6 DEF Revalidated
  <2> QED
    BY <1>3, <2>1, <2>2
<1>7. CASE moved /\ Readable(f_pos) /\ f_pos % PageSize # 0
  <2>1. Revalidated = ext2_validate_entry(f_pos)
    BY <1>7 DEF Revalidated
  <2>2. CASE f_pos = ChunkOf(f_pos)
    <3>1. f_pos % ChunkSize = 0
      BY <1>2, <2>2, ChunkOfIs
    <3>2. f_pos \in Records
      BY <1>1, <1>2, <3>1, ChunkBegins
    <3>3. Revalidated = f_pos
      BY <2>1, <2>2 DEF ext2_validate_entry
    <3> QED
      BY <1>3, <3>2, <3>3
  <2>3. CASE f_pos # ChunkOf(f_pos)
    <3> DEFINE before == Walk(data, ChunkOf(f_pos), f_pos - 4)
               m == Max(before)
    <3>1. /\ before # {} /\ m \in Records /\ m < f_pos
          /\ m + data[m].rec_len >= f_pos
          /\ m + data[m].rec_len \in Records \cup {i_size}
          /\ \A x \in Records : x <= m \/ x >= m + data[m].rec_len
      BY <1>1, <1>2, <2>3, RecordBefore
    <3>2. Revalidated = m + data[m].rec_len
      BY <2>1, <2>3, <3>1 DEF ext2_validate_entry
    <3> HIDE DEF m
    <3> QED
      BY <1>1, <1>2, <3>1, <3>2
  <2> QED
    BY <2>2, <2>3
<1> QED
  BY <1>4, <1>5, <1>6, <1>7

(* Skipping an unreadable page leads to the start of a page and past no    *)
(* record that can be read.                                                *)
LEMMA ResumeIs ==
  ASSUME TypeOK, NEW R, Tiles(data, i_size, R), NEW q \in Offsets, q <= i_size,
         q \in R \cup {i_size} \/ ~ Readable(q)
  PROVE  /\ Resume(q) \in Offsets /\ Resume(q) \in Nat /\ Resume(q) >= q
         /\ Resume(q) \in R \/ (Resume(q) >= i_size /\ Resume(q) % ChunkSize = 0)
         /\ \A x \in R : x < Resume(q) => x < q \/ PageOf(x) \in bad
<1>1. /\ q \in Nat /\ i_size \in Nat /\ i_size % ChunkSize = 0 /\ i_size <= MaxSize
      /\ R \subseteq Nat
  BY TypeFacts, OffsetsAreNumbers, RecordFacts
<1>2. CASE q < i_size /\ ~ Readable(q)
  <2> DEFINE p == PageOf(q)
             r == (p + 1) * PageSize
  <2>1. Resume(q) = r
    BY <1>2 DEF Resume
  <2>2. /\ p \in Nat /\ p * PageSize \in Nat /\ p * PageSize <= q
        /\ q < p * PageSize + PageSize /\ r = p * PageSize + PageSize
    BY <1>1, PageOfIs, PageStart, PageOrder
  <2>3. p + 1 \in Nat
    BY <2>2
  <2>4. r \in Nat /\ r % ChunkSize = 0
    BY <2>3, PageStart
  <2> HIDE DEF r
  <2>5. r % 4 = 0
    BY <2>4, ChunkMultiples
  <2>6. r <= MaxSize + PageSize
    BY <1>1, <2>2, <2>4, Sizes
  <2>7. r \in Offsets
    BY <2>4, <2>5, <2>6, InOffsets
  <2>8. r \in R \/ r >= i_size
    BY <1>1, <2>4, ChunkBegins
  <2>9. ASSUME NEW x \in R, x < r PROVE x < q \/ PageOf(x) \in bad
    <3>1. x \in Nat
      BY <1>1
    <3>2. x < q \/ PageOf(x) = p
      <4>1. x < q \/ (p * PageSize <= x /\ x < p * PageSize + PageSize)
        BY <1>1, <2>2, <2>9, <3>1, Sizes
      <4> QED
        BY <2>2, <3>1, <4>1, PageOfIs
    <3> QED
      BY <1>2, <3>2 DEF Readable
  <2>10. r >= q
    BY <1>1, <2>2, Sizes
  <2> QED
    BY <2>1, <2>4, <2>7, <2>8, <2>9, <2>10
<1>3. CASE ~ (q < i_size /\ ~ Readable(q))
  <2>1. Resume(q) = q
    BY <1>3 DEF Resume
  <2>2. q \in R \cup {i_size}
    BY <1>1, <1>3
  <2> QED
    BY <1>1, <2>1, <2>2
<1> QED
  BY <1>2, <1>3

(* The reader moves from f_pos to pos and passes no record in use that it  *)
(* could have read, but those in a set it was given.                       *)
Passes(pos, over) ==
  /\ pos \in Offsets /\ pos \in Nat /\ pos >= f_pos
  /\ pos \in Records \/ (pos >= i_size /\ pos % ChunkSize = 0)
  /\ \A x \in InUse(data, Records) : x >= f_pos /\ x < pos => x \in over \/ PageOf(x) \in bad

(* A call of ext2_readdir that hands nothing over.                         *)
LEMMA ReaddirPasses ==
  ASSUME IInv, ~ AtEnd, NEW e, e = NextStop(Revalidated), e = i_size \/ ~ Readable(e)
  PROVE  Passes(Resume(e), {})
<1>1. TypeOK /\ Tiles(data, i_size, Records) /\ Records \subseteq Nat
        /\ Records \subseteq Offsets
  BY InvFacts
<1>2. /\ i_size \in Nat /\ i_size \in Offsets /\ f_pos \in Offsets /\ f_pos \in Nat
      /\ f_pos + 12 <= i_size
  BY <1>1, TypeFacts, OffsetsAreNumbers, Sizes DEF TypeOK, AtEnd
<1>3. InUse(data, Records) \subseteq Records
  BY DEF InUse
<1>4. /\ e \in Offsets /\ e \in Nat /\ e <= i_size /\ e >= f_pos
      /\ e \in Records \cup {i_size} \/ ~ Readable(e)
      /\ \A x \in InUse(data, Records) : x >= f_pos => x >= e
  <2>1. CASE /\ Revalidated \in Records \cup {i_size} /\ Revalidated >= f_pos
             /\ \A x \in Records : x >= f_pos => x >= Revalidated
    <3>1. /\ e \in Records \cup {i_size} /\ e \in Nat /\ Revalidated \in Nat /\ e >= Revalidated
          /\ \A x \in InUse(data, Records) : x >= Revalidated => x >= e
      BY <1>1, <2>1, NextStopIs
    <3>2. e <= i_size /\ e \in Offsets
      BY <1>1, <1>2, <3>1 DEF Tiles
    <3>3. e >= f_pos
      BY <1>2, <2>1, <3>1
    <3>4. \A x \in InUse(data, Records) : x >= f_pos => x >= e
      BY <1>3, <2>1, <3>1
    <3> QED
      BY <3>1, <3>2, <3>3, <3>4
  <2>2. CASE Revalidated = f_pos /\ ~ Readable(f_pos)
    <3>1. f_pos + MinRec <= i_size
      BY <1>2, Sizes
    <3>2. e = f_pos
      BY <1>1, <1>2, <2>2, <3>1, NextStopUnreadable
    <3>3. e <= i_size
      BY <1>2, <3>2
    <3> QED
      BY <1>2, <2>2, <3>2, <3>3
  <2> QED
    BY <2>1, <2>2, RevalidatedIs
<1>5. /\ Resume(e) \in Offsets /\ Resume(e) \in Nat /\ Resume(e) >= e
      /\ Resume(e) \in Records \/ (Resume(e) >= i_size /\ Resume(e) % ChunkSize = 0)
      /\ \A x \in Records : x < Resume(e) => x < e \/ PageOf(x) \in bad
  BY <1>1, <1>4, ResumeIs
<1>6. \A x \in InUse(data, Records) : x >= f_pos /\ x < Resume(e) => PageOf(x) \in bad
  <2>1. ASSUME NEW x \in InUse(data, Records), x >= f_pos, x < Resume(e)
        PROVE  PageOf(x) \in bad
    <3>1. x \in Records /\ x \in Nat /\ e \in Nat /\ x >= e
      BY <1>1, <1>3, <1>4, <2>1
    <3>2. ~ (x < e)
      BY <3>1
    <3> QED
      BY <1>5, <2>1, <3>1, <3>2
  <2> QED
    BY <2>1
<1>7. Resume(e) >= f_pos
  BY <1>2, <1>4, <1>5
<1> QED
  BY <1>5, <1>6, <1>7 DEF Passes

(* A call that hands over the record at e.                                 *)
LEMMA ReaddirGives ==
  ASSUME IInv, ~ AtEnd, NEW e, e = NextStop(Revalidated), e # i_size, Readable(e)
  PROVE  LET pos == Resume(NextStop(e + data[e].rec_len)) IN
         Passes(pos, {e}) /\ e \in InUse(data, Records) /\ e >= f_pos /\ e < pos
<1> DEFINE e2 == e + data[e].rec_len
           q == NextStop(e2)
           pos == Resume(q)
<1>1. TypeOK /\ Tiles(data, i_size, Records) /\ Records \subseteq Nat
        /\ Records \subseteq Offsets
  BY InvFacts
<1>2. /\ i_size \in Nat /\ i_size \in Offsets /\ f_pos \in Offsets /\ f_pos \in Nat
      /\ f_pos + 12 <= i_size
  BY <1>1, TypeFacts, OffsetsAreNumbers, Sizes DEF TypeOK, AtEnd
<1>3. InUse(data, Records) \subseteq Records
  BY DEF InUse
<1>4. /\ Revalidated \in Records \cup {i_size} /\ Revalidated >= f_pos
      /\ \A x \in Records : x >= f_pos => x >= Revalidated
  <2>1. CASE Revalidated = f_pos /\ ~ Readable(f_pos)
    <3>1. f_pos + MinRec <= i_size
      BY <1>2, Sizes
    <3>2. e = f_pos
      BY <1>1, <1>2, <2>1, <3>1, NextStopUnreadable
    <3> QED
      BY <2>1, <3>2
  <2> QED
    BY <2>1, RevalidatedIs
<1>5. /\ e \in Records \cup {i_size} /\ e \in Nat /\ Revalidated \in Nat /\ e >= Revalidated
      /\ (e # i_size => data[e].inode # 0 \/ ~ Readable(e))
      /\ \A x \in InUse(data, Records) : x >= Revalidated => x >= e
  BY <1>1, <1>4, NextStopIs
<1>6. e \in InUse(data, Records) /\ e \in Records
  BY <1>5 DEF InUse
<1>7. /\ e2 \in Records \cup {i_size} /\ data[e].rec_len \in Nat /\ data[e].rec_len >= 12
      /\ \A x \in Records : x > e => x >= e2
  BY <1>1, <1>6, RecordFacts DEF Tiles
<1>8. e2 \in Nat /\ e < e2
  BY <1>5, <1>7
<1> HIDE DEF e2
<1>9. /\ q \in Records \cup {i_size} /\ q \in Nat /\ q >= e2
      /\ \A x \in InUse(data, Records) : x >= e2 => x >= q
  BY <1>1, <1>7, NextStopIs
<1> HIDE DEF q
<1>10. q \in Offsets /\ q <= i_size
  BY <1>1, <1>2, <1>9 DEF Tiles
<1>11. /\ pos \in Offsets /\ pos \in Nat /\ pos >= q
       /\ pos \in Records \/ (pos >= i_size /\ pos % ChunkSize = 0)
       /\ \A x \in Records : x < pos => x < q \/ PageOf(x) \in bad
  BY <1>1, <1>9, <1>10, ResumeIs
<1> HIDE DEF pos
<1>12. ASSUME NEW x \in InUse(data, Records), x >= f_pos, x < pos, PageOf(x) \notin bad
       PROVE  x = e
  <2>1. x \in Records /\ x \in Nat
    BY <1>1, <1>3
  <2>2. x < q /\ x >= Revalidated
    BY <1>4, <1>11, <1>12, <2>1
  <2>3. x < e2
    BY <1>8, <1>9, <2>1, <2>2
  <2>4. x >= e
    BY <1>5, <2>2
  <2> QED
    BY <1>5, <1>7, <1>8, <2>1, <2>3, <2>4
<1>13. pos >= f_pos /\ e >= f_pos /\ e < pos
  BY <1>2, <1>4, <1>5, <1>8, <1>9, <1>11
<1> QED
  BY <1>6, <1>11, <1>12, <1>13 DEF Passes, pos, q, e2

LEMMA ReaddirStep ==
  ASSUME IInv, Readdir
  PROVE  IInv'
<1> DEFINE e == NextStop(Revalidated)
           n == data[e].name
           pos == f_pos'
<1>1. ~ AtEnd /\ UNCHANGED <<data, i_size, start, bad, steady>>
        /\ moved' = (moved /\ ~ Readable(f_pos))
  BY DEF Readdir, dirVars
<1>2. /\ TypeOK /\ Tiles(data, i_size, Records)
      /\ Distinct(data, Records, bad) /\ Given(data, Records, bad, gave, f_pos)
      /\ bad = {} => Awaited(data, Records, gave, steady, f_pos)
      /\ ~ wrong
  BY InvFacts
<1>3. Records' = Records
  BY <1>1 DEF Records
<1>4. InUse(data, Records) \subseteq Nat /\ f_pos \in Nat
  BY <1>2, OffsetsAreNumbers DEF InUse, Tiles, TypeOK
<1>5. /\ pos \in Offsets /\ pos \in Nat
      /\ pos \in Records \/ (pos >= i_size /\ pos % ChunkSize = 0)
      /\ gave' \subseteq steady /\ wrong' = FALSE
      /\ Given(data, Records, bad, gave', pos)
      /\ bad = {} => Awaited(data, Records, gave', steady, pos)
  <2>1. CASE e = i_size \/ ~ Readable(e)
    <3>1. pos = Resume(e) /\ gave' = gave /\ wrong' = wrong
      BY <2>1 DEF Readdir
    <3>2. Passes(pos, {})
      BY <1>1, <2>1, <3>1, ReaddirPasses
    <3> HIDE DEF pos, e
    <3>3. /\ pos \in Offsets /\ pos \in Nat /\ pos >= f_pos
          /\ pos \in Records \/ (pos >= i_size /\ pos % ChunkSize = 0)
          /\ \A x \in InUse(data, Records) : x >= f_pos /\ x < pos => PageOf(x) \in bad
      BY <3>2 DEF Passes
    <3>4. Given(data, Records, bad, gave, pos)
      BY <1>2, <1>4, <3>3 DEF Given
    <3>5. bad = {} => Awaited(data, Records, gave, steady, pos)
      BY <1>2, <1>4, <3>3 DEF Awaited
    <3>6. gave \subseteq steady /\ wrong = FALSE
      BY <1>2 DEF TypeOK
    <3> QED
      BY <3>1, <3>3, <3>4, <3>5, <3>6
  <2>2. CASE e # i_size /\ Readable(e)
    <3>1. /\ pos = Resume(NextStop(e + data[e].rec_len))
          /\ gave' = gave \cup ({n} \cap steady)
          /\ wrong' = (wrong \/ n \in gave \/ n \notin LiveNames)
      BY <2>2 DEF Readdir
    <3>2. Passes(pos, {e}) /\ e \in InUse(data, Records) /\ e >= f_pos /\ e < pos
      BY <1>1, <2>2, <3>1, ReaddirGives
    <3> HIDE DEF pos, e
    <3>3. /\ pos \in Offsets /\ pos \in Nat /\ pos >= f_pos
          /\ pos \in Records \/ (pos >= i_size /\ pos % ChunkSize = 0)
          /\ \A x \in InUse(data, Records) :
               x >= f_pos /\ x < pos => x = e \/ PageOf(x) \in bad
      BY <3>2 DEF Passes
    <3>4. PageOf(e) \notin bad
      BY <2>2 DEF Readable
    <3>5. n \notin gave
      BY <1>2, <1>4, <3>2, <3>4 DEF Given
    <3>6. n \in LiveNames
      BY <1>2, <3>2, LiveIs DEF LiveNames
    <3>7. Given(data, Records, bad, gave', pos)
      <4>1. ASSUME NEW m \in gave' PROVE \E x \in InUse(data, Records) : data[x].name = m /\ x < pos
        <5>1. CASE m = n
          BY <3>2, <5>1
        <5>2. CASE m \in gave
          BY <1>2, <1>4, <3>3, <5>2 DEF Given
        <5> QED
          BY <3>1, <5>1, <5>2
      <4>2. ASSUME NEW x \in InUse(data, Records), PageOf(x) \notin bad, data[x].name \in gave'
            PROVE  x < pos
        <5>1. CASE data[x].name = n
          <6>1. x = e
            BY <1>2, <3>2, <3>4, <4>2, <5>1 DEF Distinct
          <6> QED
            BY <3>2, <6>1
        <5>2. CASE data[x].name \in gave
          BY <1>2, <1>4, <3>3, <4>2, <5>2 DEF Given
        <5> QED
          BY <3>1, <4>2, <5>1, <5>2
      <4> QED
        BY <4>1, <4>2 DEF Given
    <3>8. bad = {} => Awaited(data, Records, gave', steady, pos)
      <4>1. ASSUME bad = {}, NEW x \in InUse(data, Records), x < pos, data[x].name \in steady
            PROVE  data[x].name \in gave'
        <5>1. CASE x < f_pos
          BY <1>2, <3>1, <4>1, <5>1 DEF Awaited
        <5>2. CASE x >= f_pos
          <6>1. x = e
            BY <3>3, <4>1, <5>2
          <6> QED
            BY <3>1, <4>1, <6>1
        <5> QED
          BY <1>4, <5>1, <5>2
      <4> QED
        BY <1>2, <4>1 DEF Awaited
    <3>9. gave' \subseteq steady /\ wrong' = FALSE
      BY <1>2, <3>1, <3>5, <3>6 DEF TypeOK
    <3> QED
      BY <3>3, <3>7, <3>8, <3>9
  <2> QED
    BY <2>1, <2>2
<1>6. TypeOK'
  BY <1>1, <1>2, <1>5 DEF TypeOK
<1> QED
  BY <1>1, <1>3, <1>5, <1>6 DEF IInv, Layout, Placed

LEMMA NextIInv == IInv /\ [Next]_vars => IInv'
<1> SUFFICES ASSUME IInv, [Next]_vars PROVE IInv'
  OBVIOUS
<1>1. CASE UNCHANGED vars
  BY <1>1 DEF vars, dirVars, scanVars, IInv, TypeOK, Layout, Placed, Records
<1>2. \A n \in Names : Targets[n] \subseteq Inos
  BY Ext2DirAssumption
<1>3. DotDot \in Names
  BY DEF Names
<1>4. ASSUME NEW n \in Names, Lookup(n) PROVE IInv'
  BY <1>4, LookupStep
<1>5. ASSUME NEW n \in Names, AddLinkFails(n) PROVE IInv'
  BY <1>5, AddLinkFailsStep
<1>6. ASSUME NEW n \in Names, DeleteEntry(n) PROVE IInv'
  BY <1>6, DeleteEntryStep
<1>7. ASSUME NEW n \in Names, NEW i \in Targets[n], AddLink(n, i) \/ SetLink(n, i) PROVE IInv'
  BY <1>2, <1>7, AddLinkStep, SetLinkStep
<1>8. ASSUME NEW n \in Names, NEW k \in Names, Rename(n, k) PROVE IInv'
  BY <1>8, RenameStep
<1>9. ASSUME NEW i \in Targets[DotDot], SetDotDot(i) PROVE IInv'
  BY <1>2, <1>3, <1>9, SetDotDotStep
<1>10. ASSUME NEW p \in Pages, LosePage(p) PROVE IInv'
  BY <1>10, LosePageStep
<1>11. ASSUME Open \/ Readdir PROVE IInv'
  BY <1>11, OpenStep, ReaddirStep
<1> QED
  BY <1>1, <1>4, <1>5, <1>6, <1>7, <1>8, <1>9, <1>10, <1>11 DEF Next

LEMMA Invariance == Spec => []IInv
BY InitIInv, NextIInv, PTL DEF Spec

-----------------------------------------------------------------------------
(* What the invariant says of the directory                                *)

(* The chunk of an offset, from any chunk that it lies in.                 *)
LEMMA ChunkUnique ==
  ASSUME NEW y \in Nat, NEW c \in Nat, c % ChunkSize = 0, c <= y, y < c + ChunkSize
  PROVE  ChunkOf(y) = c
<1>1. /\ ChunkOf(y) \in Nat /\ ChunkOf(y) % ChunkSize = 0
      /\ ChunkOf(y) <= y /\ y < ChunkOf(y) + ChunkSize
  BY ChunkOfIs
<1>2. ~ (ChunkOf(y) < c)
  BY <1>1, ChunkMultiples, Sizes
<1>3. ~ (c < ChunkOf(y))
  BY <1>1, ChunkMultiples, Sizes
<1> QED
  BY <1>1, <1>2, <1>3

(* A chunk boundary, counted from another one.                             *)
LEMMA ChunkDifference ==
  ASSUME NEW a \in Nat, NEW b \in Nat, NEW c \in Nat, a = b + c,
         a % ChunkSize = 0, b % ChunkSize = 0
  PROVE  c % ChunkSize = 0
<1> DEFINE x == a \div ChunkSize
           y == b \div ChunkSize
<1>1. x \in Nat /\ y \in Nat /\ ChunkSize * x = a /\ ChunkSize * y = b
  BY Division, Sizes
<1> HIDE DEF x, y
<1>2. ~ (x < y)
  <2>1. x < y => ChunkSize * x + ChunkSize <= ChunkSize * y
    BY <1>1, MultiplesApart, Sizes
  <2> QED
    BY <1>1, <2>1, Sizes
<1>3. PICK k \in Nat : x = y + k
  <2>1. x - y \in Nat /\ x = y + (x - y)
    BY <1>1, <1>2
  <2> QED
    BY <2>1
<1>4. ChunkSize * (y + k) = ChunkSize * y + ChunkSize * k /\ ChunkSize * k \in Nat
  BY <1>1, Sizes
<1>5. c = ChunkSize * k
  BY <1>1, <1>3, <1>4
<1>6. (ChunkSize * k) % ChunkSize = 0
  BY Multiple, Sizes
<1> QED
  BY <1>5, <1>6, Zenon

(* The bytes of page p that belong to the directory.                       *)
PageLimit(p) == IF i_size \div PageSize = p THEN i_size % PageSize ELSE PageSize

LEMMA PageLimitIs ==
  ASSUME TypeOK, NEW p \in Pages
  PROVE  /\ PageLimit(p) \in Nat /\ PageLimit(p) % ChunkSize = 0 /\ PageLimit(p) >= ChunkSize
         /\ p \in Nat /\ p * PageSize \in Nat
         /\ p * PageSize + PageLimit(p) <= i_size
         /\ p * PageSize + PageLimit(p) <= p * PageSize + PageSize
         /\ \/ p * PageSize + PageLimit(p) = i_size
            \/ p * PageSize + PageLimit(p) = p * PageSize + PageSize
<1>1. i_size \in Nat /\ i_size % ChunkSize = 0
  BY TypeFacts
<1>2. p \in Nat /\ p * PageSize \in Nat /\ (p * PageSize) % ChunkSize = 0 /\ p * PageSize < i_size
  BY DirPagesIs, PageStart
<1>3. CASE i_size \div PageSize = p
  <2>1. /\ i_size % PageSize \in Nat /\ i_size % PageSize < PageSize
        /\ PageSize * p + (i_size % PageSize) = i_size
    <3>1. /\ i_size % PageSize \in Nat /\ i_size % PageSize < PageSize
          /\ PageSize * (i_size \div PageSize) + (i_size % PageSize) = i_size
      BY <1>1, Division, Sizes
    <3> QED
      BY <1>3, <3>1, Zenon
  <2>2. PageSize * p = p * PageSize
    BY <1>2, Sizes
  <2>3. PageLimit(p) \in Nat /\ PageLimit(p) < PageSize /\ p * PageSize + PageLimit(p) = i_size
    <3>1. PageLimit(p) = i_size % PageSize
      BY <1>3 DEF PageLimit
    <3> QED
      BY <2>1, <2>2, <3>1, Zenon
  <2>4. PageLimit(p) % ChunkSize = 0
    BY <1>1, <1>2, <2>3, ChunkDifference
  <2>5. (p * PageSize) + ChunkSize <= i_size
    BY <1>1, <1>2, ChunkMultiples
  <2> QED
    BY <1>1, <1>2, <2>3, <2>4, <2>5, Sizes
<1>4. CASE i_size \div PageSize # p
  <2>1. PageLimit(p) = PageSize
    BY <1>4 DEF PageLimit
  <2>2. PageOf(i_size) # p
    BY <1>4 DEF PageOf
  <2>3. ~ (i_size < p * PageSize + PageSize)
    BY <1>1, <1>2, <2>2, PageOfIs
  <2>4. PageSize % ChunkSize = 0
    BY Ext2DirAssumption
  <2>5. 0 % ChunkSize = 0
    <3>1. ChunkSize * 0 = 0 /\ (ChunkSize * 0) % ChunkSize = 0
      BY Multiple, Sizes
    <3> QED
      BY <3>1, Zenon
  <2>6. 0 + ChunkSize <= PageSize
    BY <2>4, <2>5, ChunkMultiples, Sizes
  <2> QED
    BY <1>1, <1>2, <2>1, <2>3, <2>4, <2>6, Sizes
<1> QED
  BY <1>3, <1>4

LEMMA PageChecks ==
  ASSUME TypeOK, NEW R, Tiles(data, i_size, R), Named(data, R), NEW p \in Pages
  PROVE  ext2_check_page(p)
<1> DEFINE limit == PageLimit(p)
           base == p * PageSize
           to == base + limit - MinRec
           recs == IF limit < MinRec THEN {} ELSE Walk(data, base, to)
<1>1. /\ Lengths(data) /\ i_size \in Nat /\ i_size \in Offsets /\ i_size % ChunkSize = 0
      /\ i_size <= MaxSize /\ R \subseteq Nat /\ R \subseteq Offsets
  BY TypeFacts, RecordFacts DEF Tiles
<1>2. /\ limit \in Nat /\ limit % ChunkSize = 0 /\ limit >= 24 /\ p \in Nat /\ base \in Nat
      /\ base + limit <= i_size /\ base + limit <= base + PageSize
      /\ base + limit = i_size \/ base + limit = base + PageSize
  BY PageLimitIs, Sizes
<1>3. base \in R
  <2>1. base % ChunkSize = 0 /\ base < i_size
    BY <1>1, <1>2, PageStart
  <2> QED
    BY <1>2, <2>1, ChunkBegins
<1> HIDE DEF limit, base
<1>4. to \in Int /\ to < i_size /\ ~ (limit < MinRec)
  BY <1>1, <1>2, Sizes
<1>5. Walk(data, base, to) = {x \in R : base <= x /\ x <= to}
  BY <1>1, <1>3, <1>4, WalkIsRecords
<1>6. recs = {x \in R : base <= x /\ x + 12 <= base + limit}
  <2>1. \A x \in R : x <= to <=> x + 12 <= base + limit
    BY <1>1, <1>2, Sizes
  <2> QED
    BY <1>4, <1>5, <2>1
<1> HIDE DEF recs, to
<1>7. ASSUME NEW o \in recs
      PROVE  /\ o \in R /\ o \in Nat /\ data[o].rec_len \in Nat
             /\ data[o].rec_len >= 12
             /\ o + data[o].rec_len \in R \cup {i_size}
             /\ o + data[o].rec_len <= base + limit
  <2>1. /\ o \in R /\ o \in Nat /\ data[o].rec_len \in Nat /\ data[o].rec_len >= 12
        /\ o + data[o].rec_len \in R \cup {i_size} /\ o + data[o].rec_len <= i_size
        /\ o + data[o].rec_len <= PageOf(o) * PageSize + PageSize
    BY <1>6, RecordFacts
  <2>2. base <= o /\ o < base + PageSize
    BY <1>2, <1>6, <2>1, Sizes
  <2>3. PageOf(o) = p
    BY <1>2, <2>1, <2>2, PageOfIs DEF base
  <2>4. o + data[o].rec_len <= base + PageSize
    BY <2>1, <2>3 DEF base
  <2> QED
    BY <1>2, <2>1, <2>4
<1>8. ASSUME NEW o \in recs
      PROVE  LET len == data[o].rec_len IN
               /\ len >= MinRec /\ len % 4 = 0
               /\ data[o].name # None => len >= Needs(data[o].name)
               /\ ChunkOf(o) = ChunkOf(o + len - 1)
  <2> DEFINE len == data[o].rec_len
             y == o + len - 1
  <2>1. o \in R /\ o \in Nat /\ len \in Nat /\ len >= 12 /\ o + len \in R \cup {i_size}
    BY <1>7
  <2> HIDE DEF len
  <2>2. len % 4 = 0
    <3>1. o + len \in Offsets /\ o \in Offsets /\ o + len \in Nat
      BY <1>1, <2>1
    <3>2. (o + len) % 4 = 0 /\ o % 4 = 0
      BY <2>1, <3>1, InOffsets
    <3> QED
      BY <2>1, <3>2
  <2>3. data[o].name # None => len >= Needs(data[o].name)
    BY <2>1 DEF Named, len
  <2>4. o + len <= ChunkOf(o) + ChunkSize
    BY <1>1, <2>1, WithinChunk DEF len
  <2>5. ChunkOf(o) \in Nat /\ ChunkOf(o) % ChunkSize = 0 /\ ChunkOf(o) <= o
    BY <2>1, ChunkOfIs
  <2>6. y \in Nat /\ ChunkOf(o) <= y /\ y < ChunkOf(o) + ChunkSize
    BY <2>1, <2>4, <2>5, Sizes
  <2> HIDE DEF y
  <2>7. ChunkOf(y) = ChunkOf(o)
    BY <2>5, <2>6, ChunkUnique
  <2>8. len >= MinRec
    BY <2>1, Sizes
  <2> QED
    BY <2>2, <2>3, <2>7, <2>8 DEF len, y
<1>9. recs # {} /\ Max(recs) + data[Max(recs)].rec_len = base + limit
  <2> DEFINE m == Max(recs)
             z == m + data[m].rec_len
  <2>1. base \in recs
    BY <1>2, <1>3, <1>6
  <2>2. recs \subseteq Nat /\ \A x \in recs : x <= i_size
    <3>1. ASSUME NEW x \in recs PROVE x \in Nat /\ x <= i_size
      <4>1. x \in Nat /\ data[x].rec_len \in Nat /\ x + data[x].rec_len <= base + limit
        BY <1>7
      <4> QED
        BY <1>1, <1>2, <4>1
    <3> QED
      BY <3>1
  <2>3. m \in recs /\ \A x \in recs : m >= x
    BY <1>1, <2>1, <2>2, MaxIs
  <2> HIDE DEF m
  <2>4. /\ m \in R /\ m \in Nat /\ data[m].rec_len \in Nat /\ data[m].rec_len >= 12
        /\ z \in R \cup {i_size} /\ z <= base + limit
    BY <1>7, <2>3
  <2>5. z \in Nat /\ z > m
    BY <2>4
  <2> HIDE DEF z
  <2>6. ~ (z < base + limit)
    <3> SUFFICES ASSUME z < base + limit PROVE FALSE
      OBVIOUS
    <3>1. z \in R /\ base <= z
      BY <1>1, <1>2, <1>6, <2>3, <2>4, <2>5
    <3>2. /\ data[z].rec_len \in Nat /\ data[z].rec_len >= 12 /\ z + data[z].rec_len <= i_size
          /\ z + data[z].rec_len <= PageOf(z) * PageSize + PageSize
      BY <3>1, RecordFacts
    <3>3. z < base + PageSize
      BY <1>2, <2>5, Sizes
    <3>4. PageOf(z) = p
      BY <1>2, <2>5, <3>1, <3>3, PageOfIs DEF base
    <3>5. z + data[z].rec_len <= base + PageSize
      BY <3>2, <3>4 DEF base
    <3>6. z + 12 <= base + limit
      BY <1>2, <2>5, <3>2, <3>5
    <3>7. z \in recs
      BY <1>6, <3>1, <3>6
    <3> QED
      BY <2>3, <2>4, <2>5, <3>7
  <2>7. z = base + limit
    BY <1>2, <2>4, <2>5, <2>6
  <2> QED
    BY <2>1, <2>7 DEF m, z
<1> QED
  BY <1>2, <1>8, <1>9 DEF ext2_check_page, PageLimit, limit, base, to, recs

(* The names of the records in use.                                        *)
LEMMA LiveNamesAre ==
  ASSUME IInv
  PROVE  /\ Live = InUse(data, Records)
         /\ LiveNames = {data[x].name : x \in InUse(data, Records)}
         /\ LiveNames \subseteq Names
         /\ \A x \in InUse(data, Records) : data[x].name \in Names /\ data[x].inode \in Inos
<1>1. TypeOK /\ Tiles(data, i_size, Records) /\ Named(data, Records)
  BY InvFacts
<1>2. Live = InUse(data, Records)
  BY <1>1, LiveIs
<1>3. \A x \in InUse(data, Records) :
        data[x] \in Header /\ data[x].name # None /\ data[x].inode # 0
  BY <1>1, RecordFacts DEF InUse, Named
<1>4. \A x \in InUse(data, Records) : data[x].name \in Names /\ data[x].inode \in Inos
  BY <1>3 DEF Header
<1> QED
  BY <1>2, <1>4 DEF LiveNames

LEMMA EmptyDirIs ==
  ASSUME IInv, bad = {}
  PROVE  ext2_empty_dir(data[0].inode) <=> LiveNames = {Dot, DotDot}
<1>1. /\ TypeOK /\ Tiles(data, i_size, Records) /\ Heads(data)
      /\ Distinct(data, Records, bad)
  BY InvFacts
<1>2. Live = InUse(data, Records) /\ LiveNames = {data[x].name : x \in InUse(data, Records)}
  BY LiveNamesAre
<1>3. 0 \in InUse(data, Records) /\ MinRec \in InUse(data, Records)
  BY <1>1, HeadRecords
<1>4. ext2_empty_dir(data[0].inode) <=>
        \A o \in InUse(data, Records) :
          data[o].name = DotDot \/ (data[o].name = Dot /\ data[o].inode = data[0].inode)
  BY <1>2 DEF ext2_empty_dir, Live
<1>5. {Dot, DotDot} \subseteq LiveNames
  BY <1>1, <1>2, <1>3 DEF Heads
<1>6. ASSUME ext2_empty_dir(data[0].inode) PROVE LiveNames = {Dot, DotDot}
  BY <1>2, <1>4, <1>5, <1>6
<1>7. ASSUME LiveNames = {Dot, DotDot} PROVE ext2_empty_dir(data[0].inode)
  <2>1. ASSUME NEW o \in InUse(data, Records), data[o].name # DotDot
        PROVE  data[o].name = Dot /\ data[o].inode = data[0].inode
    <3>1. data[o].name = Dot
      BY <1>2, <1>7, <2>1
    <3>2. o = 0
      BY <1>1, <1>3, <3>1 DEF Distinct, Heads
    <3> QED
      BY <3>1, <3>2
  <2> QED
    BY <1>4, <2>1
<1> QED
  BY <1>6, <1>7

LEMMA ScanEnds ==
  ASSUME IInv, bad = {}, AtEnd
  PROVE  gave = steady
<1>1. TypeOK /\ Tiles(data, i_size, Records) /\ Awaited(data, Records, gave, steady, f_pos)
  BY InvFacts
<1>2. i_size \in Nat /\ f_pos \in Nat /\ f_pos + 12 > i_size
  BY <1>1, TypeFacts, OffsetsAreNumbers, Sizes DEF TypeOK, AtEnd
<1>3. ASSUME NEW n \in steady PROVE n \in gave
  <2>1. PICK x \in InUse(data, Records) : data[x].name = n
    BY <1>1 DEF Awaited
  <2>2. /\ x \in Nat /\ data[x].rec_len \in Nat /\ data[x].rec_len >= 12
        /\ x + data[x].rec_len <= i_size
    BY <1>1, RecordFacts DEF InUse
  <2>3. x < f_pos
    BY <1>2, <2>2
  <2> QED
    BY <1>1, <2>1, <2>3 DEF Awaited
<1> QED
  BY <1>1, <1>3 DEF TypeOK

(* Every variable keeps its type: records begin at multiples of four and   *)
(* are no longer than a chunk, and i_dir_start_lookup and f_pos stay where *)
(* the directory can be (fs/ext2/dir.c).                                   *)
THEOREM Typing == Spec => []TypeOK
<1>1. IInv => TypeOK
  BY DEF IInv
<1> QED
  BY <1>1, Invariance, PTL

(* Every page passes ext2_check_page when it is read from the disk again,  *)
(* however records were split, merged and reused (fs/ext2/dir.c:118).      *)
THEOREM ChecksPass == Spec => []PagesPassCheck
<1>1. IInv => PagesPassCheck
  BY InvFacts, PageChecks DEF PagesPassCheck
<1> QED
  BY <1>1, Invariance, PTL

(* ext2_find_entry finds exactly the names in use, wherever                *)
(* i_dir_start_lookup lets it begin (fs/ext2/dir.c:389).                   *)
THEOREM LookupsSucceed == Spec => []LookupFinds
<1>1. IInv => LookupFinds
  <2> SUFFICES ASSUME IInv, bad = {} PROVE {n \in Names : Found(n)} = LiveNames
    BY DEF LookupFinds
  <2>1. LiveNames = {data[x].name : x \in InUse(data, Records)} /\ LiveNames \subseteq Names
    BY LiveNamesAre
  <2>2. \A n \in Names : Found(n) <=> \E x \in InUse(data, Records) : data[x].name = n
    BY InvFacts, FindEntry DEF Readable
  <2> QED
    BY <2>1, <2>2
<1> QED
  BY <1>1, Invariance, PTL

(* The search of ext2_add_link ends before its BUG() (fs/ext2/dir.c:555).  *)
THEOREM SearchEndsSomewhere == Spec => []SlotFound
<1>1. IInv => SlotFound
  BY InvFacts, EndIsSlot DEF SlotFound, SearchEnds
<1> QED
  BY <1>1, Invariance, PTL

(* A directory that ext2_empty_dir lets go has no names but "." and ".."   *)
(* (fs/ext2/dir.c:678).                                                    *)
THEOREM EmptyIsEmpty == Spec => []EmptyMeansEmpty
<1>1. IInv => EmptyMeansEmpty
  BY EmptyDirIs DEF EmptyMeansEmpty
<1> QED
  BY <1>1, Invariance, PTL

(* A reader that saw the end was given every name that was there all the   *)
(* time, once, and none that was not there (fs/ext2/dir.c:321-327).        *)
THEOREM ScansComplete == Spec => []ScanComplete
<1>1. IInv => ScanComplete
  BY InvFacts, ScanEnds DEF ScanComplete
<1> QED
  BY <1>1, Invariance, PTL

-----------------------------------------------------------------------------
(* The records implement a function from names to inodes                   *)

(* The records in use that have the name n.                                *)
Called(d, R, n) == {o \in InUse(d, R) : d[o].name = n}

(* The directory that the records R of d stand for.                        *)
DirOf(d, R) ==
  [n \in Names |-> IF Called(d, R, n) = {} THEN 0 ELSE d[Min(Called(d, R, n))].inode]

LEMMA DirIs == IInv => dir = DirOf(data, Records)
<1> SUFFICES ASSUME IInv PROVE dir = DirOf(data, Records)
  OBVIOUS
<1>1. Live = InUse(data, Records)
  BY LiveNamesAre
<1> QED
  BY <1>1 DEF dir, DirOf, Called

LEMMA DirIsNext == IInv' => dir' = DirOf(data', Records')
<1>1. (IInv => dir = DirOf(data, Records))'
  BY DirIs, PTL
<1> QED
  BY <1>1

(* No name is in use twice, or is none.                                    *)
OneEach(d, R) ==
  /\ R \subseteq Nat /\ Distinct(d, R, {})
  /\ \A x \in InUse(d, R) : d[x].name \in Names

(* The name n is not in use.                                               *)
Unused(d, R, n) == \A x \in InUse(d, R) : d[x].name # n

(* The directory f with the inode i for the name n.                        *)
Put(f, n, i) == [f EXCEPT ![n] = i]

(* The inodes of the records in use, and 0 for a name that is not there.   *)
InodesOf(d, R) == {d[x].inode : x \in InUse(d, R)} \cup {0}

(* The inode of a name whose record is the only one.                       *)
LEMMA DirOfIs ==
  ASSUME NEW d, NEW R, R \subseteq Nat, Distinct(d, R, {})
  PROVE  /\ DirOf(d, R) \in [Names -> InodesOf(d, R)]
         /\ \A x \in InUse(d, R) : d[x].name \in Names => DirOf(d, R)[d[x].name] = d[x].inode
         /\ \A n \in Names :
              (\A x \in InUse(d, R) : d[x].name # n) => DirOf(d, R)[n] = 0
<1>1. ASSUME NEW x \in InUse(d, R) PROVE Called(d, R, d[x].name) = {x} /\ Min({x}) = x
  <2>1. Called(d, R, d[x].name) = {x}
    BY DEF Called, Distinct
  <2>2. x \in Nat
    BY DEF InUse
  <2>3. {x} \subseteq Nat /\ {x} # {}
    BY <2>2
  <2>4. Min({x}) \in {x}
    BY <2>3, MinIs
  <2> QED
    BY <2>1, <2>4
<1>2. ASSUME NEW x \in InUse(d, R), d[x].name \in Names
      PROVE  DirOf(d, R)[d[x].name] = d[x].inode
  BY <1>1, <1>2 DEF DirOf
<1>3. ASSUME NEW n \in Names, \A x \in InUse(d, R) : d[x].name # n
      PROVE  DirOf(d, R)[n] = 0
  BY <1>3 DEF DirOf, Called
<1>4. ASSUME NEW n \in Names PROVE DirOf(d, R)[n] \in InodesOf(d, R)
  <2>1. CASE \A x \in InUse(d, R) : d[x].name # n
    BY <1>3, <2>1 DEF InodesOf
  <2>2. CASE \E x \in InUse(d, R) : d[x].name = n
    BY <1>2, <2>2 DEF InodesOf
  <2> QED
    BY <2>1, <2>2
<1>5. DirOf(d, R) = [n \in Names |-> DirOf(d, R)[n]]
  BY DEF DirOf
<1> QED
  BY <1>2, <1>3, <1>4, <1>5

(* Two directories are the same when every name has the same inode.        *)
LEMMA DirEqual ==
  ASSUME NEW d, NEW R, NEW f, NEW T, f \in [Names -> T],
         \A n \in Names : DirOf(d, R)[n] = f[n]
  PROVE  DirOf(d, R) = f
BY DEF DirOf

(* A name that was not there is added.                                     *)
LEMMA GrownDir ==
  ASSUME NEW R, OneEach(data, R), NEW d, NEW size, NEW q, NEW n \in Names, NEW i, NEW S,
         Grown(d, size, R, q, n, i, S), Unused(data, R, n)
  PROVE  DirOf(d, S) = Put(DirOf(data, R), n, i)
<1> DEFINE f == Put(DirOf(data, R), n, i)
           T == InodesOf(data, R) \cup {i}
<1>0. /\ R \subseteq Nat /\ Distinct(data, R, {})
      /\ \A x \in InUse(data, R) : data[x].name \in Names /\ data[x].name # n
  BY DEF OneEach, Unused
<1>1. S \subseteq Nat /\ Distinct(d, S, {})
  <2>1. Distinct(d, S, {})
    BY <1>0, GrownDistinct
  <2> QED
    BY <2>1, OffsetsAreNumbers DEF Grown, Tiles
<1>2. /\ DirOf(data, R) \in [Names -> InodesOf(data, R)]
      /\ \A x \in InUse(data, R) : DirOf(data, R)[data[x].name] = data[x].inode
      /\ \A k \in Names : (\A x \in InUse(data, R) : data[x].name # k) => DirOf(data, R)[k] = 0
  BY <1>0, DirOfIs
<1>3. /\ \A x \in InUse(d, S) : d[x].name \in Names => DirOf(d, S)[d[x].name] = d[x].inode
      /\ \A k \in Names : (\A x \in InUse(d, S) : d[x].name # k) => DirOf(d, S)[k] = 0
  BY <1>1, DirOfIs
<1>4. f \in [Names -> T] /\ f[n] = i /\ \A k \in Names : k # n => f[k] = DirOf(data, R)[k]
  BY <1>2 DEF Put
<1>5. /\ InUse(d, S) = InUse(data, R) \cup {q} /\ d[q].name = n /\ d[q].inode = i
      /\ \A x \in InUse(data, R) : d[x].name = data[x].name /\ d[x].inode = data[x].inode
  BY DEF Grown
<1> HIDE DEF f, T
<1>6. ASSUME NEW k \in Names PROVE DirOf(d, S)[k] = f[k]
  <2>1. CASE k = n
    BY <1>3, <1>4, <1>5, <2>1
  <2>2. CASE k # n /\ \E x \in InUse(data, R) : data[x].name = k
    <3>1. PICK x \in InUse(data, R) : data[x].name = k
      BY <2>2
    <3>2. DirOf(data, R)[k] = data[x].inode
      BY <1>2, <3>1
    <3>3. x \in InUse(d, S) /\ d[x].name = k /\ d[x].inode = data[x].inode
      BY <1>5, <3>1
    <3>4. DirOf(d, S)[k] = d[x].inode
      BY <1>3, <3>3
    <3> QED
      BY <1>4, <2>2, <3>2, <3>3, <3>4
  <2>3. CASE k # n /\ \A x \in InUse(data, R) : data[x].name # k
    <3>1. \A x \in InUse(d, S) : d[x].name # k
      BY <1>5, <2>3
    <3> QED
      BY <1>2, <1>3, <1>4, <2>3, <3>1
  <2> QED
    BY <2>1, <2>2, <2>3
<1> QED
  <2>1. DirOf(d, S) = f
    BY <1>4, <1>6, DirEqual
  <2> QED
    BY <2>1 DEF f

(* The record of a name goes.                                              *)
LEMMA ShrunkDir ==
  ASSUME NEW d, NEW R, OneEach(d, R),
         NEW size, NEW o \in InUse(d, R), NEW e, NEW S, Shrunk(d, size, R, o, e, S),
         NEW n \in Names, d[o].name = n
  PROVE  DirOf(e, S) = Put(DirOf(d, R), n, 0)
<1> DEFINE f == Put(DirOf(d, R), n, 0)
           T == InodesOf(d, R) \cup {0}
<1>0. /\ R \subseteq Nat /\ Distinct(d, R, {})
      /\ \A x \in InUse(d, R) : d[x].name \in Names
  BY DEF OneEach
<1>1. S \subseteq Nat /\ Distinct(e, S, {})
  <2>1. Distinct(e, S, {})
    BY <1>0, ShrunkScan
  <2> QED
    BY <2>1, OffsetsAreNumbers DEF Shrunk, Tiles
<1>2. /\ DirOf(d, R) \in [Names -> InodesOf(d, R)]
      /\ \A x \in InUse(d, R) : DirOf(d, R)[d[x].name] = d[x].inode
      /\ \A k \in Names : (\A x \in InUse(d, R) : d[x].name # k) => DirOf(d, R)[k] = 0
  BY <1>0, DirOfIs
<1>3. /\ \A x \in InUse(e, S) : e[x].name \in Names => DirOf(e, S)[e[x].name] = e[x].inode
      /\ \A k \in Names : (\A x \in InUse(e, S) : e[x].name # k) => DirOf(e, S)[k] = 0
  BY <1>1, DirOfIs
<1>4. f \in [Names -> T] /\ f[n] = 0 /\ \A k \in Names : k # n => f[k] = DirOf(d, R)[k]
  BY <1>2 DEF Put
<1>5. /\ InUse(e, S) = InUse(d, R) \ {o}
      /\ \A x \in InUse(e, S) : e[x].name = d[x].name /\ e[x].inode = d[x].inode
  BY DEF Shrunk
<1> HIDE DEF f, T
<1>6. ASSUME NEW k \in Names PROVE DirOf(e, S)[k] = f[k]
  <2>1. CASE k = n
    <3>1. \A x \in InUse(e, S) : e[x].name # n
      BY <1>0, <1>5 DEF Distinct
    <3> QED
      BY <1>3, <1>4, <2>1, <3>1
  <2>2. CASE k # n /\ \E x \in InUse(d, R) : d[x].name = k
    <3>1. PICK x \in InUse(d, R) : d[x].name = k
      BY <2>2
    <3>2. DirOf(d, R)[k] = d[x].inode
      BY <1>2, <3>1
    <3>3. x \in InUse(e, S) /\ e[x].name = k /\ e[x].inode = d[x].inode
      BY <1>5, <2>2, <3>1
    <3>4. DirOf(e, S)[k] = e[x].inode
      BY <1>3, <3>3
    <3> QED
      BY <1>4, <2>2, <3>2, <3>3, <3>4
  <2>3. CASE k # n /\ \A x \in InUse(d, R) : d[x].name # k
    <3>1. \A x \in InUse(e, S) : e[x].name # k
      BY <1>5, <2>3
    <3> QED
      BY <1>2, <1>3, <1>4, <2>3, <3>1
  <2> QED
    BY <2>1, <2>2, <2>3
<1> QED
  <2>1. DirOf(e, S) = f
    BY <1>4, <1>6, DirEqual
  <2> QED
    BY <2>1 DEF f

(* A name is given another inode.                                          *)
LEMMA SetDir ==
  ASSUME IInv, bad = {}, NEW o \in InUse(data, Records), NEW i \in Inos
  PROVE  DirOf(ext2_set_link(o, i), Records) =
           Put(DirOf(data, Records), data[o].name, i)
<1> DEFINE d == ext2_set_link(o, i)
           n == data[o].name
           f == Put(DirOf(data, Records), n, i)
           T == InodesOf(data, Records) \cup {i}
<1>1. /\ TypeOK /\ Tiles(data, i_size, Records) /\ Named(data, Records)
      /\ Distinct(data, Records, {}) /\ Records \subseteq Nat
  BY InvFacts
<1>2. n \in Names /\ \A x \in InUse(data, Records) : x \in Records /\ data[x].name \in Names
  BY LiveNamesAre DEF InUse
<1>3. /\ Distinct(d, Records, {}) /\ InUse(d, Records) = InUse(data, Records)
      /\ \A x \in Records : d[x].name = data[x].name
  BY SetLinkEffect
<1>4. d[o].inode = i /\ \A x \in Records : x # o => d[x].inode = data[x].inode
  BY <1>1, SetLinkKeeps
<1> HIDE DEF d
<1>5. /\ DirOf(data, Records) \in [Names -> InodesOf(data, Records)]
      /\ \A x \in InUse(data, Records) : DirOf(data, Records)[data[x].name] = data[x].inode
      /\ \A k \in Names : (\A x \in InUse(data, Records) : data[x].name # k)
                             => DirOf(data, Records)[k] = 0
  BY <1>1, <1>2, DirOfIs
<1>6. /\ \A x \in InUse(d, Records) : d[x].name \in Names
                                        => DirOf(d, Records)[d[x].name] = d[x].inode
      /\ \A k \in Names : (\A x \in InUse(d, Records) : d[x].name # k)
                             => DirOf(d, Records)[k] = 0
  <2>1. Records \subseteq Nat /\ Distinct(d, Records, {})
    BY <1>1, <1>3
  <2> QED
    BY <2>1, DirOfIs
<1>7. f \in [Names -> T] /\ f[n] = i
        /\ \A k \in Names : k # n => f[k] = DirOf(data, Records)[k]
  BY <1>2, <1>5 DEF Put
<1> HIDE DEF f, T
<1>8. ASSUME NEW k \in Names PROVE DirOf(d, Records)[k] = f[k]
  <2>1. CASE k = n
    <3>1. o \in InUse(d, Records) /\ d[o].name = n
      BY <1>2, <1>3
    <3> QED
      BY <1>2, <1>4, <1>6, <1>7, <2>1, <3>1
  <2>2. CASE k # n /\ \E x \in InUse(data, Records) : data[x].name = k
    <3>1. PICK x \in InUse(data, Records) : data[x].name = k
      BY <2>2
    <3>2. DirOf(data, Records)[k] = data[x].inode
      BY <1>5, <3>1
    <3>3. x \in InUse(d, Records) /\ d[x].name = k /\ d[x].inode = data[x].inode
      BY <1>2, <1>3, <1>4, <2>2, <3>1
    <3>4. DirOf(d, Records)[k] = d[x].inode
      BY <1>6, <3>3
    <3> QED
      BY <1>7, <2>2, <3>2, <3>3, <3>4
  <2>3. CASE k # n /\ \A x \in InUse(data, Records) : data[x].name # k
    <3>1. \A x \in InUse(d, Records) : d[x].name # k
      BY <1>2, <1>3, <2>3
    <3> QED
      BY <1>5, <1>6, <1>7, <2>3, <3>1
  <2> QED
    BY <2>1, <2>2, <2>3
<1> QED
  <2>1. DirOf(d, Records) = f
    BY <1>7, <1>8, DirEqual
  <2> QED
    BY <2>1 DEF f, d

(* A fresh directory has "." and "..", and no other name.                  *)
LEMMA InitDir == Init => Abstract!Init
<1> SUFFICES ASSUME Init PROVE Abstract!Init
  OBVIOUS
<1>1. IInv
  BY InitIInv
<1>2. dir = DirOf(data, Records) /\ bad = {}
  BY <1>1, DirIs DEF Init
<1>3. /\ TypeOK /\ Tiles(data, i_size, Records) /\ Heads(data)
      /\ Records \subseteq Nat /\ Distinct(data, Records, {})
      /\ Awaited(data, Records, gave, steady, f_pos)
  BY <1>1, <1>2, InvFacts
<1>4. \A x \in InUse(data, Records) :
        data[x].name \in Names /\ data[x].inode \in Inos /\ data[x].inode # 0
  BY <1>1, LiveNamesAre DEF InUse
<1>5. /\ dir \in [Names -> InodesOf(data, Records)]
      /\ \A x \in InUse(data, Records) : dir[data[x].name] = data[x].inode
      /\ \A n \in Names : (\A x \in InUse(data, Records) : data[x].name # n) => dir[n] = 0
  BY <1>2, <1>3, <1>4, DirOfIs
<1>6. InodesOf(data, Records) \subseteq Inos \cup {0}
  BY <1>4 DEF InodesOf
<1>7. InUse(data, Records) = {0, MinRec}
  <2> DEFINE R == {0, MinRec}
  <2>1. PICK self \in Targets[Dot], parent \in Targets[DotDot] :
          data = ext2_make_empty(self, parent)
    BY DEF Init
  <2>2. self \in Inos /\ parent \in Inos
    BY <2>1, Ext2DirAssumption DEF Names
  <2>3. Tiles(data, ChunkSize, R) /\ InUse(data, R) = R
    BY <2>1, <2>2, MakeEmpty
  <2>4. Records = R
    <3>1. i_size = ChunkSize
      BY DEF Init
    <3>2. data \in [Offsets -> Header]
            /\ ChunkSize \in {c * ChunkSize : c \in 1 .. MaxSize \div ChunkSize}
      BY <1>3, <3>1 DEF TypeOK
    <3>3. Walk(data, 0, ChunkSize - 1) = R
      BY <2>3, <3>2, TiledRecords
    <3> QED
      BY <3>1, <3>3 DEF Records
  <2> QED
    BY <2>3, <2>4
<1>8. \A n \in Names : dir[n] # 0 <=> n \in {Dot, DotDot}
  <2>1. ASSUME NEW n \in Names, n \in {Dot, DotDot} PROVE dir[n] # 0
    BY <1>3, <1>4, <1>5, <1>7, <2>1 DEF Heads
  <2>2. ASSUME NEW n \in Names, n \notin {Dot, DotDot} PROVE dir[n] = 0
    BY <1>3, <1>5, <1>7, <2>2 DEF Heads
  <2> QED
    BY <2>1, <2>2
<1>9. dir \in [Names -> Inos \cup {0}]
  BY <1>5, <1>6
<1> QED
  BY <1>2, <1>8, <1>9 DEF Abstract!Init

(* The directory that the abstract specification sees is of its type.      *)
LEMMA DirTyped == IInv => dir \in [Names -> Inos \cup {0}]
<1> SUFFICES ASSUME IInv PROVE dir \in [Names -> Inos \cup {0}]
  OBVIOUS
<1>1. dir = DirOf(data, Records) /\ Records \subseteq Nat
  BY DirIs, InvFacts
<1>2. \A x \in InUse(data, Records) : data[x].inode \in Inos
  BY LiveNamesAre
<1>3. ASSUME NEW n \in Names PROVE DirOf(data, Records)[n] \in Inos \cup {0}
  <2> DEFINE At == Called(data, Records, n)
  <2>1. At \subseteq InUse(data, Records) /\ At \subseteq Nat
    BY <1>1 DEF Called, InUse
  <2>2. DirOf(data, Records)[n] = IF At = {} THEN 0 ELSE data[Min(At)].inode
    BY DEF DirOf
  <2> HIDE DEF At
  <2>3. At # {} => Min(At) \in At
    BY <2>1, MinIs
  <2> QED
    BY <1>2, <2>1, <2>2, <2>3
<1>4. DirOf(data, Records) = [n \in Names |-> DirOf(data, Records)[n]]
  BY DEF DirOf
<1> QED
  BY <1>1, <1>3, <1>4

LEMMA DirTypedNext == IInv' => dir' \in [Names -> Inos \cup {0}]
<1>1. (IInv => dir \in [Names -> Inos \cup {0}])'
  BY DirTyped, PTL
<1> QED
  BY <1>1

(* The records after a step, from any set that tiles the directory.        *)
LEMMA NewRecords ==
  ASSUME NEW S, data' \in [Offsets -> Header], Tiles(data', i_size', S),
         i_size' \in {c * ChunkSize : c \in 1 .. MaxSize \div ChunkSize}
  PROVE  Records' = S
BY TiledRecords DEF Records

LEMMA AddLinkDir ==
  ASSUME IInv, bad = {}, NEW n \in Names, NEW i \in Inos, AddLink(n, i)
  PROVE  DirOf(data', Records') = Put(DirOf(data, Records), n, i)
<1>1. /\ ~ Found(n) /\ AddSlot(n) < MaxSize
      /\ data' = Inserted(AddSlot(n), n, i) /\ i_size' = CommittedSize(AddSlot(n))
  BY DEF AddLink
<1>2. \A x \in InUse(data, Records) : data[x].name \in Names /\ data[x].name # n
  BY <1>1, AddEffect, LiveNamesAre
<1>3. PICK q, S : Grown(data', i_size', Records, q, n, i, S)
  BY <1>1, AddEffect
<1>4. Records' = S
  BY <1>3, NewRecords DEF Grown
<1>5. OneEach(data, Records) /\ Unused(data, Records, n)
  BY <1>2, InvFacts DEF OneEach, Unused
<1>6. DirOf(data', S) = Put(DirOf(data, Records), n, i)
  BY <1>3, <1>5, GrownDir
<1> QED
  BY <1>4, <1>6

LEMMA DeleteEntryDir ==
  ASSUME IInv, bad = {}, NEW n \in Names, DeleteEntry(n)
  PROVE  DirOf(data', Records') = Put(DirOf(data, Records), n, 0)
<1> DEFINE o == ext2_find_entry(n)
<1>1. Found(n) /\ data' = ext2_delete_entry(data, o) /\ i_size' = i_size
  BY DEF DeleteEntry
<1>2. /\ TypeOK /\ Tiles(data, i_size, Records) /\ Named(data, Records)
      /\ Distinct(data, Records, {}) /\ Records \subseteq Nat
  BY InvFacts
<1>3. o \in Records /\ o \in InUse(data, Records) /\ data[o].name = n
  BY <1>1, FoundPlace
<1> HIDE DEF o
<1>4. data \in [Offsets -> Header]
        /\ i_size \in {c * ChunkSize : c \in 1 .. MaxSize \div ChunkSize}
  BY <1>2 DEF TypeOK
<1>5. PICK S : Shrunk(data, i_size, Records, o, data', S)
  BY <1>1, <1>2, <1>3, <1>4, DeleteShrinks, TypeFacts
<1>6. Records' = S
  BY <1>1, <1>4, <1>5, NewRecords DEF Shrunk
<1>7. OneEach(data, Records)
  BY <1>2, LiveNamesAre DEF OneEach
<1>8. DirOf(data', S) = Put(DirOf(data, Records), n, 0)
  BY <1>3, <1>5, <1>7, ShrunkDir
<1> QED
  BY <1>6, <1>8

LEMMA SetLinkDir ==
  ASSUME IInv, bad = {}, NEW o \in InUse(data, Records), NEW i \in Inos,
         data' = ext2_set_link(o, i), i_size' = i_size
  PROVE  DirOf(data', Records') = Put(DirOf(data, Records), data[o].name, i)
<1>1. data' \in [Offsets -> Header] /\ Tiles(data', i_size, Records)
  BY SetLinkEffect
<1>2. i_size \in {c * ChunkSize : c \in 1 .. MaxSize \div ChunkSize}
  BY InvFacts DEF TypeOK
<1>3. Records' = Records
  BY <1>1, <1>2, NewRecords
<1> QED
  BY <1>3, SetDir

LEMMA RenameDir ==
  ASSUME IInv, bad = {}, NEW n \in Names, NEW k \in Names, Rename(n, k)
  PROVE  /\ DirOf(data, Records)[n] # 0
         /\ DirOf(data', Records') =
              [DirOf(data, Records) EXCEPT ![k] = DirOf(data, Records)[n], ![n] = 0]
<1> DEFINE old == ext2_find_entry(n)
           i == data[old].inode
           o == IF Found(k) THEN ext2_find_entry(k) ELSE AddSlot(k)
           d == IF Found(k) THEN ext2_set_link(o, i) ELSE Inserted(o, k, i)
           size == IF Found(k) THEN i_size ELSE CommittedSize(o)
           D == DirOf(data, Records)
<1>1. /\ n # k /\ Found(n) /\ o < MaxSize
      /\ data' = ext2_delete_entry(d, old) /\ i_size' = size
  BY DEF Rename
<1>2. /\ TypeOK /\ Tiles(data, i_size, Records) /\ Named(data, Records)
      /\ Distinct(data, Records, {}) /\ Records \subseteq Nat
  BY InvFacts
<1>3. old \in InUse(data, Records) /\ old \in Records /\ data[old].name = n /\ i \in Inos
  BY <1>1, FoundPlace
<1>4. \A x \in InUse(data, Records) : data[x].name \in Names
  BY LiveNamesAre
<1> HIDE DEF old
<1>5. D[n] = i /\ D \in [Names -> InodesOf(data, Records)] /\ i # 0
  <2>1. /\ D \in [Names -> InodesOf(data, Records)]
        /\ \A x \in InUse(data, Records) : data[x].name \in Names => D[data[x].name] = data[x].inode
    BY <1>2, DirOfIs
  <2> QED
    BY <1>3, <2>1, Ext2DirAssumption
<1> HIDE DEF i, D
<1>6. \E R : /\ d \in [Offsets -> Header] /\ Tiles(d, size, R) /\ Named(d, R)
             /\ size \in {c * ChunkSize : c \in 1 .. MaxSize \div ChunkSize}
             /\ Distinct(d, R, {}) /\ R \subseteq Nat
             /\ old \in InUse(d, R) /\ d[old].name = n
             /\ \A x \in InUse(d, R) : d[x].name \in Names
             /\ DirOf(d, R) = Put(D, k, i)
  <2>1. CASE Found(k)
    <3>1. o \in InUse(data, Records) /\ data[o].name = k /\ d = ext2_set_link(o, i)
            /\ size = i_size
      BY <2>1, FoundPlace
    <3> HIDE DEF o, d, size
    <3>2. /\ d \in [Offsets -> Header] /\ Tiles(d, i_size, Records) /\ Named(d, Records)
          /\ Distinct(d, Records, {}) /\ InUse(d, Records) = InUse(data, Records)
          /\ \A x \in Records : d[x].name = data[x].name
      BY <1>3, <3>1, SetLinkEffect DEF i
    <3>3. i_size \in {c * ChunkSize : c \in 1 .. MaxSize \div ChunkSize}
      BY <1>2 DEF TypeOK
    <3>4. DirOf(d, Records) = Put(D, k, i)
      BY <1>3, <3>1, SetDir DEF D
    <3>5. \A x \in InUse(d, Records) : d[x].name \in Names
      BY <1>4, <3>2 DEF InUse
    <3> QED
      BY <1>2, <1>3, <3>1, <3>2, <3>3, <3>4, <3>5
  <2>2. CASE ~ Found(k)
    <3>1. o = AddSlot(k) /\ d = Inserted(o, k, i) /\ size = CommittedSize(o) /\ o < MaxSize
      BY <1>1, <2>2
    <3> HIDE DEF o, d, size
    <3>2. \A x \in InUse(data, Records) : data[x].name \in Names /\ data[x].name # k
      BY <1>3, <1>4, <2>2, <3>1, AddEffect
    <3>3. PICK q, S : Grown(d, size, Records, q, k, i, S)
      BY <1>3, <2>2, <3>1, AddEffect
    <3>4. Distinct(d, S, {})
      BY <1>2, <3>2, <3>3, GrownDistinct
    <3>5. DirOf(d, S) = Put(D, k, i)
      <4>1. OneEach(data, Records) /\ Unused(data, Records, k)
        BY <1>2, <3>2 DEF OneEach, Unused
      <4> QED
        BY <3>3, <4>1, GrownDir DEF D
    <3>6. /\ d \in [Offsets -> Header] /\ Tiles(d, size, S) /\ Named(d, S)
          /\ size \in {c * ChunkSize : c \in 1 .. MaxSize \div ChunkSize}
          /\ old \in InUse(d, S) /\ d[old].name = n
          /\ \A x \in InUse(d, S) : d[x].name \in Names
      BY <1>3, <1>4, <3>3 DEF Grown
    <3>7. S \subseteq Nat
      BY <3>6, OffsetsAreNumbers DEF Tiles
    <3> QED
      BY <3>4, <3>5, <3>6, <3>7
  <2> QED
    BY <2>1, <2>2
<1> HIDE DEF o, d, size
<1>7. PICK R : /\ d \in [Offsets -> Header] /\ Tiles(d, size, R) /\ Named(d, R)
               /\ size \in {c * ChunkSize : c \in 1 .. MaxSize \div ChunkSize}
               /\ Distinct(d, R, {}) /\ R \subseteq Nat
               /\ old \in InUse(d, R) /\ d[old].name = n
               /\ \A x \in InUse(d, R) : d[x].name \in Names
               /\ DirOf(d, R) = Put(D, k, i)
  BY <1>6
<1>8. size \in Offsets /\ size % ChunkSize = 0 /\ size <= MaxSize /\ old \in R
  BY <1>7, TiledRecords DEF InUse
<1>9. PICK S : Shrunk(d, size, R, old, data', S)
  BY <1>1, <1>7, <1>8, DeleteShrinks
<1>10. Records' = S
  BY <1>1, <1>7, <1>9, NewRecords DEF Shrunk
<1>11. DirOf(data', S) = Put(DirOf(d, R), n, 0)
  <2>1. OneEach(d, R)
    BY <1>7 DEF OneEach
  <2> QED
    BY <1>7, <1>9, <2>1, ShrunkDir
<1>12. DirOf(data', Records') = Put(Put(D, k, i), n, 0)
  BY <1>7, <1>10, <1>11
<1>13. DirOf(data', Records') = [D EXCEPT ![k] = D[n], ![n] = 0]
  BY <1>5, <1>12 DEF Put
<1> QED
  BY <1>5, <1>13 DEF D

(* A chunk that could not be added leaves the names alone.                 *)
LEMMA AddLinkFailsDir ==
  ASSUME IInv, NEW n \in Names, AddLinkFails(n)
  PROVE  DirOf(data', Records') = DirOf(data, Records)
<1>1. data' = [data EXCEPT ![i_size].rec_len = ChunkSize, ![i_size].inode = 0]
        /\ i_size' = i_size
  BY DEF AddLinkFails
<1>2. TypeOK /\ Tiles(data, i_size, Records)
  BY InvFacts
<1>3. i_size \in Offsets /\ i_size \in Nat
  BY <1>2, TypeFacts
<1>4. data' \in [Offsets -> Header]
  <2>1. ChunkSize \in 0 .. ChunkSize
    BY Sizes
  <2> QED
    BY <1>1, <1>2, <1>3, <2>1 DEF TypeOK, Header
<1>5. \A x \in Records : data'[x] = data[x]
  <2>1. \A x \in Records : x \in Offsets /\ x < i_size
    BY <1>2 DEF Tiles
  <2> QED
    BY <1>1, <1>2, <1>3, <2>1 DEF TypeOK
<1>6. Tiles(data', i_size, Records)
  BY <1>2, <1>5 DEF Tiles
<1>7. i_size \in {c * ChunkSize : c \in 1 .. MaxSize \div ChunkSize}
  BY <1>2 DEF TypeOK
<1>8. Records' = Records
  BY <1>1, <1>4, <1>6, <1>7, NewRecords
<1>9. \A k \in Names : Called(data', Records, k) = Called(data, Records, k)
  BY <1>5 DEF Called, InUse
<1>10. \A k \in Names : Called(data, Records, k) # {} =>
         data'[Min(Called(data, Records, k))] = data[Min(Called(data, Records, k))]
  <2>1. \A k \in Names : Called(data, Records, k) \subseteq Records
    BY DEF Called, InUse
  <2>2. Records \subseteq Nat
    BY InvFacts
  <2>3. \A k \in Names : Called(data, Records, k) # {} =>
          Min(Called(data, Records, k)) \in Called(data, Records, k)
    BY <2>1, <2>2, MinIs
  <2> QED
    BY <1>5, <2>1, <2>3
<1>11. DirOf(data', Records) = DirOf(data, Records)
  BY <1>9, <1>10 DEF DirOf
<1> QED
  BY <1>8, <1>11

(* What the operations of the abstract directory can do.                   *)
LEMMA ResultsHas ==
  ASSUME NEW f, NEW m \in Names
  PROVE  /\ \A i \in Inos : Put(f, m, i) \in Abstract!Results(f)
         /\ m \notin {Dot, DotDot} => Put(f, m, 0) \in Abstract!Results(f)
         /\ \A k \in Names \ {Dot, DotDot} :
              m \notin {Dot, DotDot} /\ f[m] # 0
                => [f EXCEPT ![k] = f[m], ![m] = 0] \in Abstract!Results(f)
<1>1. /\ \A i : Put(f, m, i) = Abstract!Put(f, m, i)
      /\ \A k : [f EXCEPT ![k] = f[m], ![m] = 0] = Abstract!Move(f, m, k)
  BY Zenon DEF Put, Abstract!Put, Abstract!Move
<1>2. \A i \in Inos : Abstract!Put(f, m, i) \in Abstract!Results(f)
  BY DEF Abstract!Results
<1>3. m \notin {Dot, DotDot} => Abstract!Put(f, m, 0) \in Abstract!Results(f)
  BY DEF Abstract!Results
<1>4. \A k \in Names \ {Dot, DotDot} :
        m \notin {Dot, DotDot} /\ f[m] # 0 => Abstract!Move(f, m, k) \in Abstract!Results(f)
  BY DEF Abstract!Results
<1> QED
  BY <1>1, <1>2, <1>3, <1>4, Zenon

(* A step between two states without an unreadable page is an operation    *)
(* of the abstract directory, or changes nothing in it.                    *)
LEMMA OperationDir ==
  ASSUME IInv, Next, bad = {}, bad' = {}
  PROVE  DirOf(data', Records') \in Abstract!Results(DirOf(data, Records))
           \/ DirOf(data', Records') = DirOf(data, Records)
<1> DEFINE D == DirOf(data, Records)
           D1 == DirOf(data', Records')
           Goal == D1 \in Abstract!Results(D) \/ D1 = D
<1> SUFFICES Goal
  OBVIOUS
<1>1. \A n \in Names : Targets[n] \subseteq Inos
  BY Ext2DirAssumption
<1>2. DotDot \in Names
  BY DEF Names
<1>3. ASSUME NEW n \in Names, NEW i \in Inos, D1 = Put(D, n, i) PROVE Goal
  BY <1>3, ResultsHas
<1>4. ASSUME data' = data, i_size' = i_size PROVE Goal
  BY <1>4 DEF Records
<1> HIDE DEF D, D1
<1>5. ASSUME NEW n \in Names, Lookup(n) PROVE Goal
  BY <1>4, <1>5 DEF Lookup
<1>6. ASSUME NEW n \in Names, AddLinkFails(n) PROVE Goal
  BY <1>6, AddLinkFailsDir DEF D, D1
<1>7. ASSUME NEW n \in Names, DeleteEntry(n) PROVE Goal
  <2>1. D1 = Put(D, n, 0)
    BY <1>7, DeleteEntryDir DEF D, D1
  <2>2. n \notin {Dot, DotDot}
    BY <1>7 DEF DeleteEntry
  <2> QED
    BY <2>1, <2>2, ResultsHas
<1>8. ASSUME NEW n \in Names, NEW i \in Targets[n], AddLink(n, i) PROVE Goal
  <2>1. i \in Inos
    BY <1>1
  <2>2. D1 = Put(D, n, i)
    BY <1>8, <2>1, AddLinkDir DEF D, D1
  <2> QED
    BY <1>3, <2>1, <2>2
<1>9. ASSUME NEW n \in Names, NEW i \in Targets[n], SetLink(n, i) PROVE Goal
  <2> DEFINE o == ext2_find_entry(n)
  <2>1. i \in Inos /\ Found(n) /\ data' = ext2_set_link(o, i) /\ i_size' = i_size
    BY <1>1, <1>9 DEF SetLink
  <2>2. o \in InUse(data, Records) /\ data[o].name = n
    BY <2>1, FoundPlace
  <2> HIDE DEF o
  <2>3. D1 = Put(D, n, i)
    BY <2>1, <2>2, SetLinkDir DEF D, D1
  <2> QED
    BY <1>3, <2>1, <2>3
<1>10. ASSUME NEW n \in Names, NEW k \in Names, Rename(n, k) PROVE Goal
  <2>1. D[n] # 0 /\ D1 = [D EXCEPT ![k] = D[n], ![n] = 0]
    BY <1>10, RenameDir DEF D, D1
  <2>2. n \notin {Dot, DotDot} /\ k \notin {Dot, DotDot}
    BY <1>10 DEF Rename
  <2> QED
    BY <2>1, <2>2, ResultsHas
<1>11. ASSUME NEW i \in Targets[DotDot], SetDotDot(i) PROVE Goal
  <2>1. i \in Inos /\ data' = ext2_set_link(ext2_dotdot, i) /\ i_size' = i_size
    BY <1>1, <1>2, <1>11 DEF SetDotDot
  <2>2. ext2_dotdot \in InUse(data, Records) /\ data[ext2_dotdot].name = DotDot
    BY InvFacts, HeadRecords DEF ext2_dotdot, Heads
  <2>3. D1 = Put(D, DotDot, i)
    BY <2>1, <2>2, SetLinkDir DEF D, D1
  <2> QED
    BY <1>2, <1>3, <2>1, <2>3
<1>12. ASSUME NEW p \in Pages, LosePage(p) PROVE Goal
  BY <1>12 DEF LosePage
<1>13. ASSUME Open \/ Readdir PROVE Goal
  BY <1>4, <1>13 DEF Open, Readdir, dirVars
<1> QED
  BY <1>5, <1>6, <1>7, <1>8, <1>9, <1>10, <1>11, <1>12, <1>13 DEF Next

LEMMA StepDir == IInv /\ IInv' /\ [Next]_vars => [Abstract!Next]_(Abstract!vars)
<1> SUFFICES ASSUME IInv, IInv', [Next]_vars PROVE [Abstract!Next]_(Abstract!vars)
  OBVIOUS
<1>1. dir = DirOf(data, Records) /\ dir' = DirOf(data', Records')
  BY DirIs, DirIsNext
<1>2. CASE UNCHANGED vars
  <2>1. data' = data /\ i_size' = i_size /\ bad' = bad
    BY <1>2 DEF vars, dirVars
  <2>2. dir' = dir
    BY <1>1, <2>1 DEF Records
  <2> QED
    BY <2>1, <2>2 DEF Abstract!vars
<1>3. CASE bad' # {}
  BY <1>3, DirTypedNext DEF Abstract!Next, Abstract!Damage
<1>4. CASE Next /\ bad' = {}
  <2>1. bad = {}
    BY <1>4 DEF Next, Lookup, AddLinkFails, DeleteEntry, AddLink, SetLink, Rename, SetDotDot,
                LosePage, Open, Readdir
  <2>2. dir' \in Abstract!Results(dir) \/ dir' = dir
    BY <1>1, <1>4, <2>1, OperationDir
  <2> QED
    BY <1>4, <2>1, <2>2 DEF Abstract!Next, Abstract!Operate, Abstract!vars
<1> QED
  BY <1>2, <1>3, <1>4

(* The records implement a function from names to inodes: no operation     *)
(* loses, duplicates or changes a name it is not about, until a page       *)
(* cannot be read (fs/ext2/dir.c, used by fs/ext2/namei.c).                *)
THEOREM Refines == Spec => ImplementsDirectory
BY InitDir, NextIInv, Invariance, StepDir, PTL DEF Spec, ImplementsDirectory, Abstract!Spec

=============================================================================
