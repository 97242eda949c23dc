----------------------------- MODULE GpsdProofs ------------------------------
(***************************************************************************)
(* Theorems about Gpsd, for any number of locations and any bound on what  *)
(* is kept in memory.                                                      *)
(***************************************************************************)
EXTENDS Gpsd, TLAPS

-----------------------------------------------------------------------------
(* Lines                                                                   *)

LEMMA ConstantTypes ==
  /\ MaxVer \in Nat /\ MaxHeap \in Nat /\ Huge \in Nat
  /\ NO_FIELDS = 3 /\ Field = 1 .. 3
  /\ 0 \in Value /\ Huge \in Value /\ 1 .. MaxVer \subseteq Value
  /\ BadLine \subseteq Line /\ Line \subseteq Int
BY GpsdAssumption
   DEF Huge, NO_FIELDS, Field, Value, BadLine, Line, JunkLine, TinyLine, HugeLine

LEMMA EmptyFile == << >> \in Seq(Line) /\ Len(<< >>) = 0
OBVIOUS

(* A file with one location in its three lines.                            *)
LEMMA WholeFile ==
  ASSUME NEW v \in 1 .. MaxVer
  PROVE  /\ [f \in Field |-> v] \in Seq(Line)
         /\ Len([f \in Field |-> v]) = 3
BY ConstantTypes DEF Line

(* Every line parses to a value, a number to itself and without an error.  *)
LEMMA ParseType ==
  ASSUME NEW line \in Line
  PROVE  /\ Parse(line) \in Value
         /\ SetsErrno(line) \in BOOLEAN
         /\ line \in 1 .. MaxVer => Parse(line) = line /\ ~SetsErrno(line)
BY GpsdAssumption
   DEF Parse, SetsErrno, Value, Huge, Line, BadLine, JunkLine, TinyLine, HugeLine

-----------------------------------------------------------------------------
(* Type correctness, and what the daemon holds                             *)

\* Inside the body of the loop, after the file was opened.
HasFile == dpc \in {"line", "error", "send", "close"}

(* The loop of read_gps stays inside its fields, emu mode inside its       *)
(* bound, and the file is open exactly in the body of the loop.            *)
HoldInv ==
  /\ dpc = "line" => i <= NO_FIELDS
  /\ emu /\ dpc \in {"open", "line", "error", "send"} => emu_i < MaxVer
  /\ fds = IF HasFile THEN 1 ELSE 0

TypeInv == TypeOK /\ HoldInv

LEMMA TypeInvInit == Init => TypeInv
<1> SUFFICES ASSUME Init PROVE TypeInv
  OBVIOUS
<1>1. file \in Seq(Line) /\ Len(file) = 0 /\ inbuf \in Seq(Line) /\ Len(inbuf) = 0
  BY EmptyFile DEF Init
<1>2. {emu, charSigned, atomicApp} \subseteq BOOLEAN
  BY DEF Init
<1>3. location \in [Field -> Value] /\ sent \in [Field -> Value]
  BY ConstantTypes DEF Init
<1>4. HoldInv
  BY ConstantTypes DEF Init, HoldInv, HasFile
<1>5. /\ present \in BOOLEAN /\ should_exit \in BOOLEAN /\ errno \in BOOLEAN
      /\ accuracy \in Value \cup {Uninit} /\ fds \in {0, 1} /\ dpc = "start"
      /\ aver = 0 /\ i = 1 /\ heap = 0 /\ emu_i = 0
  BY DEF Init
<1> QED
  BY <1>1, <1>2, <1>3, <1>4, <1>5, ConstantTypes DEF TypeInv, TypeOK

LEMMA RefilledType ==
  ASSUME TypeOK
  PROVE  Refilled \in Seq(Line) /\ Len(Refilled) <= NO_FIELDS
<1> USE ConstantTypes DEF TypeOK
<1>1. CASE i <= Len(inbuf)
  BY <1>1 DEF Refilled
<1>2. CASE i > Len(inbuf)
  <2> DEFINE rest == SubSeq(file, Len(inbuf) + 1, Len(file))
  <2>1. rest \in Seq(Line)
    BY DEF rest
  <2>2. Len(rest) = IF Len(inbuf) + 1 <= Len(file) THEN Len(file) - Len(inbuf) ELSE 0
    BY DEF rest
  <2>3. Refilled = inbuf \o rest
    BY <1>2 DEF Refilled
  <2> HIDE DEF rest
  <2> QED
    BY <2>1, <2>2, <2>3
<1> QED
  BY <1>1, <1>2

(* One turn of the loop of read_gps, whatever the line.                    *)
LEMMA GotLineType ==
  ASSUME TypeInv, dpc = "line", NEW line \in Line, GotLine(line)
  PROVE  /\ location' \in [Field -> Value]
         /\ errno' \in BOOLEAN
         /\ accuracy' \in Value \cup {Uninit}
         /\ heap' \in 0 .. MaxHeap
         /\ dpc' \in {"line", "error", "send"}
         /\ i' \in 1 .. NO_FIELDS + 1
         /\ dpc' = "line" => i' <= NO_FIELDS
<1>1. Parse(line) \in Value /\ SetsErrno(line) \in BOOLEAN
  BY ParseType
<1>2. i \in 1 .. 3
  BY ConstantTypes DEF TypeInv, TypeOK, HoldInv
<1>3. location' \in [Field -> Value]
  BY <1>1, <1>2 DEF TypeInv, TypeOK, GotLine
<1>4. errno' \in BOOLEAN
  BY <1>1 DEF TypeInv, TypeOK, GotLine
<1>5. accuracy' \in Value \cup {Uninit}
  BY <1>1 DEF TypeInv, TypeOK, GotLine
<1>6. \/ heap' = heap
      \/ heap < MaxHeap /\ heap' = heap + 1
  BY DEF GotLine, Leak, TypeInv, TypeOK
<1>7. \/ dpc' = "error" /\ i' = i
      \/ i' = i + 1 /\ dpc' = IF i = NO_FIELDS THEN "send" ELSE "line"
  BY DEF GotLine
<1> QED
  BY <1>2, <1>3, <1>4, <1>5, <1>6, <1>7, ConstantTypes DEF TypeInv, TypeOK

LEMMA TypeInvApp ==
  ASSUME TypeInv, App
  PROVE  TypeInv'
<1> USE ConstantTypes DEF TypeInv, TypeOK, HoldInv, HasFile, world, daemonVars, readVars
<1>1. CASE AppReplace
  <2>1. aver + 1 \in 1 .. MaxVer
    BY <1>1 DEF AppReplace
  <2>2. file' \in Seq(Line) /\ Len(file') = 3
    BY <1>1, <2>1, WholeFile DEF AppReplace
  <2> QED
    BY <1>1, <2>1, <2>2 DEF AppReplace
<1>2. CASE AppTruncate
  BY <1>2 DEF AppTruncate
<1>3. CASE AppWriteLine
  <2>1. \E line \in Line : file' = Append(file, line)
    BY <1>3 DEF AppWriteLine, Line
  <2>2. file' \in Seq(Line) /\ Len(file') = Len(file) + 1
    BY <2>1
  <2> QED
    BY <1>3, <2>2 DEF AppWriteLine
<1> QED
  BY <1>1, <1>2, <1>3 DEF App

LEMMA TypeInvDaemon ==
  ASSUME TypeInv, Daemon \/ Signal
  PROVE  TypeInv'
<1> USE ConstantTypes DEF TypeInv, TypeOK, HoldInv, HasFile, Ended, fileVars, world, readVars
<1>1. CASE Signal
  BY <1>1 DEF Signal
<1>2. CASE Daemonize
  BY <1>2 DEF Daemonize
<1>3. CASE LoopTop
  BY <1>3 DEF LoopTop
<1>4. CASE LoopExit
  BY <1>4 DEF LoopExit
<1>5. CASE OpenFails
  BY <1>5 DEF OpenFails
<1>6. CASE Open
  <2>1. inbuf' \in Seq(Line) /\ Len(inbuf') = 0
    BY <1>6, EmptyFile DEF Open
  <2>2. fds = 0 /\ fds' = 1 /\ dpc' = "line" /\ i' = 1
    BY <1>6 DEF Open
  <2>3. errno' \in BOOLEAN /\ accuracy' \in Value \cup {Uninit}
    BY <1>6 DEF Open
  <2>4. UNCHANGED <<fileVars, should_exit, location, heap, emu_i, sent>> /\ dpc = "open"
    BY <1>6 DEF Open
  <2> QED
    BY <2>1, <2>2, <2>3, <2>4
<1>7. CASE ReadLine
  <2>1. Refilled \in Seq(Line) /\ Len(Refilled) <= NO_FIELDS /\ Refilled[i] \in Line
    BY <1>7, RefilledType DEF ReadLine
  <2>2. dpc = "line" /\ GotLine(Refilled[i])
    BY <1>7 DEF ReadLine
  <2> QED
    BY <1>7, <2>1, <2>2, GotLineType DEF ReadLine
<1>8. CASE ReadEof
  <2>1. Refilled \in Seq(Line) /\ Len(Refilled) <= NO_FIELDS /\ JunkLine \in Line
    BY RefilledType DEF BadLine
  <2>2. CASE charSigned
    BY <1>8, <2>1, <2>2, GotLineType DEF ReadEof
  <2>3. CASE ~charSigned
    <3>1. heap' \in 0 .. MaxHeap
      BY <1>8, <2>3 DEF ReadEof, Leak
    <3>2. /\ dpc = "line" /\ dpc' = "send" /\ inbuf' = Refilled
          /\ UNCHANGED <<i, accuracy, location>>
          /\ UNCHANGED <<fileVars, should_exit, fds, emu_i, sent>>
      BY <1>8, <2>3 DEF ReadEof
    <3>3. errno' \in BOOLEAN
      BY <1>8, <2>3 DEF ReadEof
    <3> QED
      BY <2>1, <3>1, <3>2, <3>3
  <2> QED
    BY <2>2, <2>3
<1>9. CASE ReadFailed
  BY <1>9 DEF ReadFailed
<1>10. CASE Send
  <2>0. emu_i \in Value
    BY GpsdAssumption DEF Value, Huge
  <2>1. get_random_loc(emu_i) \in [Field -> Value]
    BY <2>0 DEF get_random_loc
  <2>2. location' \in [Field -> Value] /\ sent' \in [Field -> Value]
    BY <1>10, <2>1 DEF Send
  <2> QED
    BY <1>10, <2>2 DEF Send
<1>11. CASE CloseFile
  BY <1>11 DEF CloseFile
<1> QED
  BY <1>1, <1>2, <1>3, <1>4, <1>5, <1>6, <1>7, <1>8, <1>9, <1>10, <1>11 DEF Daemon

LEMMA TypeInvNext == TypeInv /\ [Next]_vars => TypeInv'
<1> SUFFICES ASSUME TypeInv, [Next]_vars PROVE TypeInv'
  OBVIOUS
<1>1. CASE UNCHANGED vars
  BY <1>1 DEF vars, fileVars, world, readVars, TypeInv, TypeOK, HoldInv, HasFile
<1>2. CASE Next
  BY <1>2, TypeInvApp, TypeInvDaemon DEF Next
<1> QED
  BY <1>1, <1>2

-----------------------------------------------------------------------------
(* One location at a time                                                  *)

\* A file, or what stdio has of it: the three lines of location v.
Whole(lines, v) == lines = [f \in Field |-> v]

(* If the application replaces its file in one step, then whatever the     *)
(* daemon has read is the beginning of one location, and no read fails.    *)
AtomicInv ==
  /\ heap = 0 /\ dpc # "error"
  /\ present => aver \in 1 .. MaxVer /\ Whole(file, aver)
  /\ dpc = "line" =>
       /\ present /\ ~errno
       /\ \/ i = 1 /\ inbuf = << >>
          \/ \E v \in 1 .. MaxVer :
               Whole(inbuf, v) /\ \A f \in Field : f < i => location[f] = v
  /\ dpc = "send" => \E v \in 1 .. MaxVer : \A f \in Field : location[f] = v

FixInv == SentIsOneFix /\ (atomicApp => AtomicInv)

LEMMA FixInvInit == Init => FixInv
BY ConstantTypes DEF Init, FixInv, SentIsOneFix, AtomicInv

(* The buffer holds one location, of which the fields so far are read: it  *)
(* is filled once, with the whole file, however often that is replaced     *)
(* later (gpsd.c:225, 103).                                                *)
LEMMA RefilledWhole ==
  ASSUME TypeInv, AtomicInv, dpc = "line"
  PROVE  \E v \in 1 .. MaxVer :
           Whole(Refilled, v) /\ \A f \in Field : f < i => location[f] = v
<1>0. present /\ i \in 1 .. 3
  BY ConstantTypes DEF AtomicInv, TypeInv, TypeOK, HoldInv
<1>1. CASE i = 1 /\ inbuf = << >>
  <2>1. aver \in 1 .. MaxVer /\ Whole(file, aver) /\ file \in Seq(Line) /\ Len(file) = 3
    BY <1>0, WholeFile DEF AtomicInv, Whole
  <2>2. SubSeq(file, 1, Len(file)) = file
    BY <2>1
  <2>3. Refilled = << >> \o SubSeq(file, 1, Len(file))
    BY <1>1, EmptyFile DEF Refilled
  <2>4. Refilled = file
    BY <2>1, <2>2, <2>3
  <2>5. \A f \in Field : ~(f < i)
    BY <1>1, ConstantTypes
  <2> QED
    BY <2>1, <2>4, <2>5
<1>2. CASE \E v \in 1 .. MaxVer :
             Whole(inbuf, v) /\ \A f \in Field : f < i => location[f] = v
  <2>1. Len(inbuf) = 3
    BY <1>2, WholeFile DEF Whole
  <2>2. Refilled = inbuf
    BY <1>0, <2>1 DEF Refilled
  <2> QED
    BY <1>2, <2>2
<1> QED
  BY <1>1, <1>2 DEF AtomicInv

LEMMA FixInvApp ==
  ASSUME TypeInv, FixInv, App
  PROVE  FixInv'
<1> USE DEF FixInv, SentIsOneFix, world, daemonVars, readVars
<1>1. CASE AppReplace
  <2>1. aver' \in 1 .. MaxVer /\ Whole(file', aver') /\ present'
    BY <1>1, ConstantTypes DEF AppReplace, Whole, TypeInv, TypeOK
  <2>2. atomicApp => AtomicInv'
    BY <1>1, <2>1 DEF AppReplace, AtomicInv
  <2>3. SentIsOneFix'
    BY <1>1 DEF AppReplace
  <2>4. atomicApp' = atomicApp
    BY <1>1 DEF AppReplace
  <2> QED
    BY <2>2, <2>3, <2>4
<1>2. CASE AppTruncate \/ AppWriteLine
  BY <1>2 DEF AppTruncate, AppWriteLine
<1> QED
  BY <1>1, <1>2 DEF App

(* The steps of the daemon that read nothing.                              *)
LEMMA FixInvQuiet ==
  ASSUME TypeInv, FixInv,
         \/ Signal \/ Daemonize \/ LoopTop \/ LoopExit \/ OpenFails \/ Open
         \/ ReadFailed \/ CloseFile
  PROVE  FixInv'
<1> USE DEF FixInv, SentIsOneFix, AtomicInv, fileVars, world, readVars
<1>1. CASE Signal
  BY <1>1 DEF Signal
<1>2. CASE Daemonize
  BY <1>2 DEF Daemonize
<1>3. CASE LoopTop
  BY <1>3 DEF LoopTop
<1>4. CASE LoopExit
  BY <1>4 DEF LoopExit
<1>5. CASE OpenFails
  BY <1>5 DEF OpenFails
<1>6. CASE Open
  BY <1>6 DEF Open
<1>7. CASE ReadFailed
  BY <1>7 DEF ReadFailed
<1>8. CASE CloseFile
  BY <1>8 DEF CloseFile
<1> QED
  BY <1>1, <1>2, <1>3, <1>4, <1>5, <1>6, <1>7, <1>8

LEMMA FixInvRead ==
  ASSUME TypeInv, FixInv, ReadLine \/ ReadEof
  PROVE  FixInv'
<1>1. SentIsOneFix'
  BY DEF FixInv, SentIsOneFix, ReadLine, ReadEof, fileVars, world
<1>2. ASSUME atomicApp
      PROVE  AtomicInv'
  <2>1. AtomicInv /\ dpc = "line"
    BY <1>2 DEF FixInv, ReadLine, ReadEof
  <2>2. PICK v \in 1 .. MaxVer :
          Whole(Refilled, v) /\ \A f \in Field : f < i => location[f] = v
    BY <2>1, RefilledWhole
  <2>3. Len(Refilled) = 3 /\ i \in 1 .. 3
    BY <2>1, <2>2, WholeFile, ConstantTypes DEF Whole, TypeInv, TypeOK, HoldInv
  <2>4. ReadLine
    BY <2>3 DEF ReadEof
  <2>5. Refilled[i] = v /\ v \in Line
    BY <2>2, <2>3, ConstantTypes DEF Whole, Line
  <2>6. Parse(v) = v /\ ~SetsErrno(v) /\ ~errno
    BY <2>1, <2>5, ParseType DEF AtomicInv
  <2>7. GotLine(v) /\ inbuf' = Refilled
        /\ UNCHANGED <<fileVars, should_exit, fds, emu_i, sent>>
    BY <2>4, <2>5 DEF ReadLine
  <2>8. /\ location' = [location EXCEPT ![i] = v]
        /\ ~errno'
    BY <2>6, <2>7 DEF GotLine
  <2>9. /\ i' = i + 1 /\ heap' = heap
        /\ dpc' = IF i = NO_FIELDS THEN "send" ELSE "line"
    BY <2>6, <2>7 DEF GotLine
  <2>10. \A f \in Field : f < i' => location'[f] = v
    BY <2>2, <2>3, <2>8, <2>9, ConstantTypes DEF TypeInv, TypeOK
  <2>11. dpc' = "send" => \A f \in Field : location'[f] = v
    BY <2>3, <2>9, <2>10, ConstantTypes
  <2>12. Whole(inbuf', v)
    BY <2>2, <2>7
  <2>13. present' = present /\ file' = file /\ aver' = aver
    BY <2>7 DEF fileVars
  <2> QED
    BY <2>1, <2>8, <2>9, <2>10, <2>11, <2>12, <2>13 DEF AtomicInv, Whole
<1>3. atomicApp' = atomicApp
  BY DEF ReadLine, ReadEof, fileVars, world
<1> QED
  BY <1>1, <1>2, <1>3 DEF FixInv

LEMMA FixInvSend ==
  ASSUME TypeInv, FixInv, Send
  PROVE  FixInv'
<1>1. UNCHANGED <<fileVars, should_exit, fds, readVars, heap>>
      /\ dpc = "send" /\ dpc' = "close"
  BY DEF Send
<1>2. atomicApp => AtomicInv'
  BY <1>1 DEF FixInv, AtomicInv, fileVars
<1>3. atomicApp' = atomicApp /\ emu' = emu
  BY <1>1 DEF fileVars, world
<1>4. ASSUME atomicApp \/ emu, NEW f \in Field, NEW g \in Field
      PROVE  sent'[f] = sent'[g]
  <2>1. CASE emu
    BY <1>4, <2>1 DEF Send, get_random_loc, FixInv, SentIsOneFix
  <2>2. CASE atomicApp /\ ~emu
    <3>1. location[f] = location[g]
      BY <1>1, <2>2 DEF FixInv, AtomicInv
    <3> QED
      BY <1>4, <2>2, <3>1 DEF Send, FixInv, SentIsOneFix
  <2> QED
    BY <1>4, <2>1, <2>2
<1> QED
  BY <1>2, <1>3, <1>4 DEF FixInv, SentIsOneFix

LEMMA FixInvNext == TypeInv /\ FixInv /\ [Next]_vars => FixInv'
<1> SUFFICES ASSUME TypeInv, FixInv, [Next]_vars PROVE FixInv'
  OBVIOUS
<1>1. CASE UNCHANGED vars
  BY <1>1 DEF vars, fileVars, world, readVars, FixInv, SentIsOneFix, AtomicInv
<1>2. CASE Next
  BY <1>2, FixInvApp, FixInvQuiet, FixInvRead, FixInvSend DEF Next, Daemon
<1> QED
  BY <1>1, <1>2

LEMMA InvAlways == Spec => [](TypeInv /\ FixInv)
BY TypeInvInit, TypeInvNext, FixInvInit, FixInvNext, PTL DEF Spec

(* The kernel is never given a mixture of two locations, as long as the    *)
(* application replaces its file in one step or the daemon makes up its    *)
(* own: one stdio buffer per turn (gpsd.c:103-137, 225).                   *)
THEOREM NoMixedFix == Spec => []SentIsOneFix
<1>1. FixInv => SentIsOneFix
  BY DEF FixInv
<1> QED
  BY <1>1, InvAlways, PTL

(* Between two turns the daemon has no stream open and, if the file always *)
(* has its three numbers, no line in memory (gpsd.c:44, 225, 239, 258).    *)
THEOREM TurnsKeepNothing == Spec => []NothingKept
<1>1. TypeInv /\ FixInv => NothingKept
  BY DEF TypeInv, HoldInv, HasFile, FixInv, AtomicInv, NothingKept
<1> QED
  BY <1>1, InvAlways, PTL

=============================================================================
