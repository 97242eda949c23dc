-------------------------------- MODULE Gpsd ---------------------------------
(***************************************************************************)
(* The daemon gpsd (userspace/src/gpsd/gpsd.c): once a second it reads the *)
(* location the Android application keeps in a text file, three lines for  *)
(* latitude, longitude and accuracy, and hands it to set_gps_location.     *)
(*                                                                         *)
(* A number is abstracted to the version of the location it belongs to;    *)
(* zero is what an empty or unreadable line parses to.  The application is *)
(* not part of the repository's source: it is modelled by the file it      *)
(* leaves, which it may rewrite while the daemon reads it.                 *)
(***************************************************************************)
EXTENDS Integers, Sequences

CONSTANTS
  MaxVer,       \* bound: locations the application or emu mode produces
  MaxHeap       \* bound: lines allocated and not freed

ASSUME GpsdAssumption == MaxVer \in Nat /\ MaxHeap \in Nat

VARIABLES
  emu,          \* was the daemon started with the argument "emu"?
  charSigned,   \* is char signed in the build?  (not on ARM)
  atomicApp,    \* does the application replace the file in one step?
  present,      \* does the file exist?
  file,         \* its lines
  aver,         \* the last location the application wrote (external)
  dpc,          \* where the daemon is
  should_exit,  \* set by the signal handler
  fds,          \* streams opened and not closed
  inbuf,        \* the lines stdio has read from the file
  i,            \* the field that is read next
  errno,        \* is errno different from zero?
  accuracy,     \* the local of read_gps: a value, or Uninit
  location,     \* the struct gps_location of main
  heap,         \* lines allocated and not freed
  emu_i,        \* the counter of main
  sent          \* the last location the kernel accepted

world == <<emu, charSigned, atomicApp>>
fileVars == <<world, present, file, aver>>
readVars == <<inbuf, i, errno, accuracy>>
vars == <<fileVars, dpc, should_exit, fds, readVars, location, heap, emu_i, sent>>

Uninit == -1
Huge == MaxVer + 1             \* a number out of range
NO_FIELDS == 3
Field == 1 .. NO_FIELDS        \* LATITUDE, LONGITUDE, ACCURACY

Value == 0 .. Huge
JunkLine == -1                 \* no number, an empty line too
TinyLine == -2                 \* underflows: zero, and errno is set
HugeLine == -3                 \* overflows: not zero, and errno is set
BadLine == {JunkLine, TinyLine, HugeLine}
Line == (1 .. MaxVer) \cup BadLine

\* strtod and strtof: what a line parses to, and whether errno is set.
Parse(line) ==
  CASE line \in {JunkLine, TinyLine} -> 0
    [] line = HugeLine -> Huge
    [] OTHER -> line

SetsErrno(line) == line \in {TinyLine, HugeLine}

\* The ways out of main: the loop ended, no location file, no log file.
Ended == {"exited", "quit", "failed"}

(* Types of the daemon's variables (userspace/src/gpsd/gpsd.c).            *)
TypeOK ==
  /\ {emu, charSigned, atomicApp} \subseteq BOOLEAN
  /\ present \in BOOLEAN
  /\ file \in Seq(Line) /\ Len(file) <= NO_FIELDS
  /\ aver \in 0 .. MaxVer
  /\ dpc \in {"start", "top", "open", "line", "error", "send", "close"} \cup Ended
  /\ should_exit \in BOOLEAN
  /\ fds \in {0, 1}
  /\ inbuf \in Seq(Line) /\ Len(inbuf) <= NO_FIELDS
  /\ i \in 1 .. NO_FIELDS + 1
  /\ errno \in BOOLEAN
  /\ accuracy \in Value \cup {Uninit}
  /\ location \in [Field -> Value]
  /\ heap \in 0 .. MaxHeap
  /\ emu_i \in 0 .. MaxVer
  /\ sent \in [Field -> Value]

Init ==
  /\ emu \in BOOLEAN /\ charSigned \in BOOLEAN /\ atomicApp \in BOOLEAN
  /\ present \in IF atomicApp THEN {FALSE} ELSE BOOLEAN
  /\ file = << >>
  /\ aver = 0
  /\ dpc = "start"
  /\ should_exit = FALSE
  /\ fds = 0
  /\ inbuf = << >>
  /\ i = 1
  /\ errno = FALSE
  /\ accuracy = Uninit
  /\ location = [f \in Field |-> 0]
  /\ heap = 0
  /\ emu_i = 0
  /\ sent = [f \in Field |-> 0]

daemonVars == <<dpc, should_exit, fds, readVars, location, heap, emu_i, sent>>

-----------------------------------------------------------------------------
(* The application                                                         *)

\* The file is replaced by a whole location ...
AppReplace ==
  /\ atomicApp /\ aver < MaxVer
  /\ aver' = aver + 1
  /\ present' = TRUE
  /\ file' = [f \in Field |-> aver + 1]
  /\ UNCHANGED <<world, daemonVars>>

\* ... or truncated first and then written line by line.
AppTruncate ==
  /\ ~atomicApp /\ aver < MaxVer
  /\ Len(file) \in {0, NO_FIELDS}
  /\ aver' = aver + 1
  /\ present' = TRUE
  /\ file' = << >>
  /\ UNCHANGED <<world, daemonVars>>

AppWriteLine ==
  /\ ~atomicApp /\ aver > 0
  /\ Len(file) < NO_FIELDS
  /\ \E line \in {aver} \cup BadLine :
       file' = Append(file, line)
  /\ UNCHANGED <<world, present, aver, daemonVars>>

-----------------------------------------------------------------------------
(* The daemon                                                              *)

\* sighandler, for SIGINT, SIGQUIT and SIGTERM.
Signal ==
  /\ dpc \notin Ended
  /\ should_exit' = TRUE
  /\ UNCHANGED <<fileVars, dpc, fds, readVars, location, heap, emu_i, sent>>

\* daemon(0, 0) and the log file: either may fail.
Daemonize ==
  /\ dpc = "start"
  /\ dpc' \in {"top", "failed"}
  /\ UNCHANGED <<fileVars, should_exit, fds, readVars, location, heap, emu_i, sent>>

\* The head of the loop ...
LoopTop ==
  /\ dpc = "top" /\ ~should_exit
  /\ emu => emu_i < MaxVer
  /\ dpc' = "open"
  /\ UNCHANGED <<fileVars, should_exit, fds, readVars, location, heap, emu_i, sent>>

LoopExit ==
  /\ dpc = "top" /\ should_exit
  /\ dpc' = "exited"
  /\ UNCHANGED <<fileVars, should_exit, fds, readVars, location, heap, emu_i, sent>>

\* ... and its first step, up to the first line of read_gps.  The daemon
\* does not outlive the file.
OpenFails ==
  /\ dpc = "open"
  /\ ~present
  /\ dpc' = "quit"
  /\ UNCHANGED <<fileVars, should_exit, fds, readVars, location, heap, emu_i, sent>>

Open ==
  /\ dpc = "open"
  /\ present
  /\ fds' = fds + 1
  /\ inbuf' = << >>
  /\ i' = 1
  /\ errno' = FALSE
  /\ accuracy' = Uninit
  /\ dpc' = "line"
  /\ UNCHANGED <<fileVars, should_exit, location, heap, emu_i, sent>>

\* mutant: an unbuffered stream, which reads every line when it is asked for
Refilled_Unbuffered == IF i <= Len(file) THEN SubSeq(file, 1, i) ELSE file

\* What stdio has after it read what the file holds by now.
Refilled ==
  IF i <= Len(inbuf) THEN inbuf
  ELSE inbuf \o SubSeq(file, Len(inbuf) + 1, Len(file))

\* A block that nobody will free; the count saturates.
Leak == heap' = IF heap < MaxHeap THEN heap + 1 ELSE heap

\* One turn of the loop of read_gps with a line that was read: parse, store
\* the field, look at errno, free the line.  The test after an error reads
\* the local accuracy, which is not set before the third line.
GotLine(line) ==
  LET value == Parse(line)
      err == errno \/ SetsErrno(line)
      acc == IF i = NO_FIELDS THEN value ELSE accuracy
      accIsZero == IF acc = Uninit THEN BOOLEAN ELSE {acc = 0}
      latlng == IF i = NO_FIELDS THEN location[2] ELSE value
  IN /\ location' = [location EXCEPT ![i] = value]
     /\ errno' = err
     /\ accuracy' = acc
     /\ \E zero \in accIsZero :
          IF err /\ (zero \/ latlng = 0)
          THEN Leak /\ dpc' = "error" /\ UNCHANGED i
          ELSE /\ i' = i + 1
               /\ dpc' = IF i = NO_FIELDS THEN "send" ELSE "line"
               /\ UNCHANGED heap

ReadLine ==
  /\ dpc = "line"
  /\ inbuf' = Refilled
  /\ i <= Len(Refilled)
  /\ GotLine(Refilled[i])
  /\ UNCHANGED <<fileVars, should_exit, fds, emu_i, sent>>

\* The end of the file.  A signed char compares equal to EOF, and the line
\* is empty.  An unsigned one never does: my_get_line grows its buffer until
\* realloc fails, loses it, and returns NULL, which leaves the loop.
ReadEof ==
  /\ dpc = "line"
  /\ inbuf' = Refilled
  /\ i > Len(Refilled)
  /\ IF charSigned
     THEN GotLine(JunkLine)
     ELSE /\ Leak
          /\ errno' = TRUE
          /\ dpc' = "send"
          /\ UNCHANGED <<i, accuracy, location>>
  /\ UNCHANGED <<fileVars, should_exit, fds, emu_i, sent>>

\* The n-th location of emu mode.
get_random_loc(n) == [f \in Field |-> n]

\* The system call: all zero is refused.  emu mode ignores what was read.
Send ==
  /\ dpc = "send"
  /\ LET loc == IF emu THEN get_random_loc(emu_i) ELSE location IN
       /\ location' = loc
       /\ sent' = IF \E f \in Field : loc[f] # 0 THEN loc ELSE sent
  /\ emu_i' = IF emu THEN emu_i + 1 ELSE emu_i
  /\ dpc' = "close"
  /\ UNCHANGED <<fileVars, should_exit, fds, readVars, heap>>

\* mutant: the path of a failed read does not close the file
ReadFailed_NoClose ==
  /\ dpc = "error"
  /\ dpc' = "top"
  /\ UNCHANGED <<fileVars, should_exit, fds, readVars, location, heap, emu_i, sent>>

\* mutant: a failed read is tried again without leaving the loop body
ReadFailed_Retries ==
  /\ dpc = "error"
  /\ dpc' = "line"
  /\ inbuf' = << >>
  /\ i' = 1
  /\ errno' = FALSE
  /\ UNCHANGED <<fileVars, should_exit, fds, accuracy, location, heap,
                 emu_i, sent>>

\* read_gps returned false: fclose(fp), sleep and continue.
ReadFailed ==
  /\ dpc = "error"
  /\ fds' = fds - 1
  /\ dpc' = "top"
  /\ UNCHANGED <<fileVars, should_exit, readVars, location, heap, emu_i, sent>>

\* fclose(fp), and sleep until the next turn.
CloseFile ==
  /\ dpc = "close"
  /\ fds' = fds - 1
  /\ dpc' = "top"
  /\ UNCHANGED <<fileVars, should_exit, readVars, location, heap, emu_i, sent>>

-----------------------------------------------------------------------------
Daemon ==
  \/ Daemonize \/ LoopTop \/ LoopExit \/ OpenFails \/ Open \/ ReadLine \/ ReadEof
  \/ ReadFailed \/ Send \/ CloseFile

App == AppReplace \/ AppTruncate \/ AppWriteLine

Next == App \/ Signal \/ Daemon

(* The daemon keeps running; nobody is obliged to signal it, and the        *)
(* application writes when it likes.                                       *)
Spec == Init /\ [][Next]_vars /\ WF_vars(Daemon)

-----------------------------------------------------------------------------
(* Correctness                                                             *)

(* What the kernel is given is one location of the application's, never a  *)
(* mixture of two, provided that the application replaces its file in one  *)
(* step: the daemon reads it through one stdio buffer (gpsd.c:225,         *)
(* 103-137), and the call that finds no file ends it.                      *)
SentIsOneFix ==
  atomicApp \/ emu => \A f, g \in Field : sent[f] = sent[g]

(* The daemon runs for weeks: between two turns of its loop it has no      *)
(* stream open (gpsd.c:225, 239, 258), and no line in memory ("Caller is   *)
(* responsible for freeing located character string", gpsd.c:44) as long   *)
(* as the file always has its three numbers.  (A line that does not parse  *)
(* is kept, gpsd.c:153, and so is the buffer at the end of a file.)        *)
NothingKept == dpc = "top" => fds = 0 /\ (atomicApp => heap = 0)

(* A signal ends the daemon (gpsd.c:85, 223), whatever the file contains.  *)
SignalEnds == should_exit ~> dpc \in Ended

=============================================================================
