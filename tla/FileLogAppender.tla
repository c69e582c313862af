---------------------------- MODULE FileLogAppender ----------------------------
(***************************************************************************)
(* The stream of a FileLogAppender (sylar/log.cpp): threads log through it *)
(* while others rotate its file, remove its directory and fill the disk.   *)
(*                                                                         *)
(* An appender may be in several loggers, each with a lock of its own, so  *)
(* threads meet here: `now >= m_lastTime + 3' and `m_lastTime = now' are   *)
(* outside of m_mutex. A line is written item by item under m_mutex; here  *)
(* it has two halves. std::ofstream is external: open() of an open stream  *)
(* fails, and a stream that failed writes nothing until an open() succeeds.*)
(***************************************************************************)
EXTENDS FSUtil

CONSTANTS
  Threads,
  LogDir,        \* the directory of m_filename
  None,
  MaxLines,      \* bound: lines logged
  MaxClock,      \* bound: the last second
  MaxMoves,      \* bound: rotations and removals of directories
  MaxFaults      \* bound: times the disk fails

ASSUME FileAssumption ==
  /\ LogDir \in Seq(STRING) /\ LogDir # <<>>
  /\ None \notin Threads
  /\ MaxLines \in Nat /\ MaxClock \in Nat /\ MaxMoves \in Nat /\ MaxFaults \in Nat
  /\ MaxClock >= 3 \* where the clock starts

Period == 3
Inodes == 1 .. MaxMoves + 1
Closed == 0

VARIABLES
  clock,        \* time(0), of which an event takes its time
  dirs,         \* the directories that exist
  path,         \* the file m_filename names, or Closed
  contents,     \* inode -> what was written to it
  retired,      \* inode -> when it lost its name; MaxClock + 1 before
  healthy,      \* whether the disk takes new entries and data
  stream,       \* m_filestream: the file it is open on, or Closed
  bad,          \* ~m_filestream
  m_lastTime,
  m_mutex,      \* the thread that has it, or None
  pc, now,      \* per thread: control point, time of the event
  lines, moves, faults,
  \* History: when the disk last failed or a directory went, and whether a write has
  \* failed on an open stream.
  lastFault, broken

diskVars   == <<clock, dirs, path, retired, healthy, moves, faults, lastFault>>
streamVars == <<stream, bad, m_lastTime, m_mutex>>
lineVars   == <<contents, broken>>
vars == <<diskVars, streamVars, lineVars, pc, now, lines>>

Created == MaxClock + 1 \* of `retired': the file has its name
Disk == [dirs |-> dirs, files |-> {}, readonly |-> IF healthy THEN {} ELSE dirs, unreadable |-> {}]

-----------------------------------------------------------------------------
(* The file system: external, but for Mkdir. *)

\* Files so far: each has had the name, and its directory was not there or it was moved away.
Used == {i \in Inodes : retired[i] < Created \/ i = path}
CanOpen == LogDir \in dirs /\ (path # Closed \/ healthy)

\* open(m_filename, app): the file of that name, or a new one.
Opened ==
  IF path # Closed THEN path
  ELSE CHOOSE i \in Inodes : i \notin Used /\ \A j \in Inodes : j < i => j \in Used

Tick ==
  /\ clock < MaxClock
  /\ clock' = clock + 1
  /\ UNCHANGED <<dirs, path, retired, healthy, moves, faults, lastFault>>

Moved == retired' = IF path = Closed THEN retired ELSE [retired EXCEPT ![path] = clock]

\* Somebody renames the file, and leaves it to the appender to make a new one.
Rotate ==
  /\ path # Closed /\ moves < MaxMoves
  /\ Moved
  /\ path' = Closed /\ moves' = moves + 1
  /\ UNCHANGED <<clock, dirs, healthy, faults, lastFault>>

\* Somebody removes a directory with all that is in it.
RemoveDir ==
  /\ moves < MaxMoves
  /\ \E d \in dirs \ {<<>>} : dirs' = {e \in dirs : e # d /\ ~IsBelow(e, d)}
  /\ Moved
  /\ path' = Closed /\ moves' = moves + 1 /\ lastFault' = clock
  /\ UNCHANGED <<clock, healthy, faults>>

DiskFails ==
  /\ healthy /\ faults < MaxFaults
  /\ healthy' = FALSE /\ faults' = faults + 1 /\ lastFault' = clock
  /\ UNCHANGED <<clock, dirs, path, retired, moves>>

DiskRecovers ==
  /\ ~healthy
  /\ healthy' = TRUE /\ lastFault' = clock
  /\ UNCHANGED <<clock, dirs, path, retired, moves, faults>>

Environment ==
  /\ Tick \/ Rotate \/ RemoveDir \/ DiskFails \/ DiskRecovers
  /\ UNCHANGED <<streamVars, lineVars, pc, now, lines>>

-----------------------------------------------------------------------------
(* log() and reopen(). *)

Goto(t, to) == pc' = [pc EXCEPT ![t] = to]

\* The event is made, with its time, and waits for its logger.
Event(t) ==
  /\ pc[t] = "idle" /\ lines < MaxLines
  /\ now' = [now EXCEPT ![t] = clock] /\ lines' = lines + 1
  /\ Goto(t, "check")
  /\ UNCHANGED <<diskVars, streamVars, lineVars>>

\* Mutated form of Due: the file is kept for a second more.
DueLate(time) == time > m_lastTime + Period
Due(time) == time >= m_lastTime + Period

Check(t) ==
  /\ pc[t] = "check"
  /\ Goto(t, IF Due(now[t]) THEN "reopen" ELSE "write")
  /\ UNCHANGED <<diskVars, streamVars, lineVars, now, lines>>

\* Mutated form of MayReopen: reopen() without the lock.
MayReopenAlways(t) == TRUE
MayReopen(t) == m_mutex = None

\* Mutated form of AfterClose: the stream is not closed first.
AfterCloseNever == stream
\* Only a stream in order is closed.
AfterClose == IF bad THEN stream ELSE Closed

\* The first attempt to open; the lock is kept for a second one.
Reopen(t) ==
  /\ pc[t] = "reopen" /\ MayReopen(t)
  /\ IF AfterClose # Closed
     THEN /\ stream' = AfterClose /\ bad' = TRUE /\ Goto(t, "stamp")
          /\ UNCHANGED <<path, m_mutex>>
     ELSE IF CanOpen
     THEN /\ stream' = Opened /\ path' = Opened /\ bad' = FALSE /\ Goto(t, "stamp")
          /\ UNCHANGED m_mutex
     ELSE /\ stream' = Closed /\ bad' = TRUE /\ m_mutex' = t /\ Goto(t, "mkdir")
          /\ UNCHANGED path
  /\ UNCHANGED <<clock, dirs, retired, healthy, moves, faults, lastFault, m_lastTime, lineVars, now, lines>>

Mkdirs(t) ==
  /\ pc[t] = "mkdir"
  /\ dirs' = Mkdir(Disk, LogDir).dirs
  /\ Goto(t, "again")
  /\ UNCHANGED <<clock, path, retired, healthy, moves, faults, lastFault, streamVars, lineVars, now, lines>>

OpenAgain(t) ==
  /\ pc[t] = "again"
  /\ IF CanOpen
     THEN stream' = Opened /\ path' = Opened /\ bad' = FALSE
     ELSE UNCHANGED <<stream, path, bad>>
  /\ m_mutex' = None
  /\ Goto(t, "stamp")
  /\ UNCHANGED <<clock, dirs, retired, healthy, moves, faults, lastFault, m_lastTime, lineVars, now, lines>>

Stamp(t) ==
  /\ pc[t] = "stamp"
  /\ m_lastTime' = now[t]
  /\ Goto(t, "write")
  /\ UNCHANGED <<diskVars, stream, bad, m_mutex, lineVars, now, lines>>

Usable == stream # Closed /\ ~bad
Half(t, n) == contents' = [contents EXCEPT ![stream] = Append(@, <<t, now[t], n>>)]

\* Nothing is written; a stream in order is no longer so.
Lose(t) ==
  /\ broken' = (broken \/ Usable)
  /\ bad' = TRUE
  /\ Goto(t, "idle") /\ m_mutex' = None
  /\ UNCHANGED contents

WriteBegin(t) ==
  /\ pc[t] = "write" /\ m_mutex = None
  /\ \/ Usable /\ healthy /\ Half(t, 1) /\ m_mutex' = t /\ Goto(t, "half")
        /\ UNCHANGED <<broken, bad>>
     \/ ~(Usable /\ healthy) /\ Lose(t)
  /\ UNCHANGED <<diskVars, stream, m_lastTime, now, lines>>

WriteEnd(t) ==
  /\ pc[t] = "half"
  /\ \/ Usable /\ healthy /\ Half(t, 2) /\ m_mutex' = None /\ Goto(t, "idle")
        /\ UNCHANGED <<broken, bad>>
     \/ ~(Usable /\ healthy) /\ Lose(t)
  /\ UNCHANGED <<diskVars, stream, m_lastTime, now, lines>>

Log(t) ==
  \/ Event(t) \/ Check(t) \/ Reopen(t) \/ Mkdirs(t) \/ OpenAgain(t)
  \/ Stamp(t) \/ WriteBegin(t) \/ WriteEnd(t)

Next == Environment \/ \E t \in Threads : Log(t)

\* The constructor has called reopen(); m_lastTime is 0, long before the first event.
Init ==
  /\ clock = Period
  /\ dirs = Prefixes(LogDir) \cup {<<>>} /\ path = 1 /\ healthy = TRUE
  /\ contents = [i \in Inodes |-> <<>>] /\ retired = [i \in Inodes |-> Created]
  /\ stream = 1 /\ bad = FALSE /\ m_lastTime = 0 /\ m_mutex = None
  /\ pc = [t \in Threads |-> "idle"] /\ now = [t \in Threads |-> 0]
  /\ lines = 0 /\ moves = 0 /\ faults = 0
  /\ lastFault = 0 /\ broken = FALSE

Spec == Init /\ [][Next]_vars

-----------------------------------------------------------------------------
(* Properties. *)

\* The variables have their types, and the lock is with the thread whose control point needs it
\* (log.cpp:503, log.cpp:533).
TypeOK ==
  /\ clock \in 0 .. MaxClock /\ dirs \subseteq Prefixes(LogDir) \cup {<<>>}
  /\ path \in {Closed} \cup Inodes /\ stream \in {Closed} \cup Inodes
  /\ contents \in [Inodes -> Seq(Threads \X (0 .. MaxClock) \X {1, 2})]
  /\ retired \in [Inodes -> 0 .. Created]
  /\ healthy \in BOOLEAN /\ bad \in BOOLEAN /\ broken \in BOOLEAN
  /\ m_lastTime \in 0 .. MaxClock /\ lastFault \in 0 .. MaxClock
  /\ now \in [Threads -> 0 .. MaxClock]
  /\ pc \in [Threads -> {"idle", "check", "reopen", "mkdir", "again", "stamp", "write", "half"}]
  /\ m_mutex \in Threads \cup {None}
  /\ \A t \in Threads : m_mutex = t <=> pc[t] \in {"mkdir", "again", "half"}
  /\ lines \in 0 .. MaxLines /\ moves \in 0 .. MaxMoves /\ faults \in 0 .. MaxFaults

\* The callers of Mkdir, Rm and Mv are told what became of the file system, and the variables have
\* their types (util.cpp:174-297).
AnswersHold == TypeOK /\ MkdirMakes /\ RmMeansGone /\ MvMovesOrKeeps

\* A line is written in one piece, to one file: no other line, and no reopening, comes between
\* its items. Only the last line of a file may be cut short (log.cpp:503-505 against log.cpp:533).
LinesWhole ==
  \A i \in Inodes : \A k \in DOMAIN contents[i] :
    LET item == contents[i][k]
    IN IF item[3] = 2
       THEN k > 1 /\ contents[i][k - 1] = <<item[1], item[2], 1>>
       ELSE k < Len(contents[i]) => contents[i][k + 1] = <<item[1], item[2], 2>>

\* A file that was moved away or removed gets no line of three seconds later or more, whichever
\* thread reopens and however late it stores m_lastTime (log.cpp:498-502).
MovedFileIsLeft ==
  \A i \in Inodes : \A k \in DOMAIN contents[i] : contents[i][k][2] < retired[i] + Period

\* While no write has failed, a line is lost only within three seconds of a failure of the disk
\* or the removal of a directory: the appender makes its directory and its file again
\* (util.cpp:368-378). Once a write has failed nothing is written any more: reopen() does not
\* close a stream that is not in order, and an open stream cannot be opened (log.cpp:534).
LossIsFault ==
  [][\A t \in Threads :
       pc[t] \in {"write", "half"} /\ pc'[t] = "idle" /\ contents' = contents
         => \/ broken \/ ~healthy
            \/ lastFault > now[t] - Period]_vars
=============================================================================
