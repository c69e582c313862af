----------------------------- MODULE FileLogProofs -----------------------------
(***************************************************************************)
(* Proofs about the stream of a FileLogAppender, for any threads, any      *)
(* number of lines, moves and failures of the disk, and any clock; and     *)
(* about Mkdir, Rm and Mv, for file systems over any paths.                *)
(***************************************************************************)
EXTENDS FileLogAppender, ListFacts, FiniteSetTheorems, TLAPS

USE FileAssumption

Line == Threads \X (0 .. MaxClock) \X {1, 2}

\* Nothing is older than it can be.
Times ==
  /\ m_lastTime <= clock /\ \A t \in Threads : now[t] <= clock
  /\ \A i \in Inodes : \A k \in DOMAIN contents[i] : contents[i][k][2] <= clock

\* Inodes are used one after the other, one for each move, and the file that has the name is not retired.
Numbered(n) == /\ \A i \in Inodes : i \in Used <=> i <= n
               /\ n <= moves + (IF path = Closed THEN 0 ELSE 1)
Names == (path # Closed => retired[path] = Created) /\ \E n \in Nat : Numbered(n)

\* The control points of a thread that has the lock say how the stream is.
Held == \A t \in Threads :
  /\ pc[t] \in {"mkdir", "again"} => stream = Closed
  /\ pc[t] = "half" => Usable /\ contents[stream] # <<>>
                       /\ contents[stream][Len(contents[stream])] = <<t, now[t], 1>>

\* A file whose last line is cut short is the one that the stream is open on, and is not written
\* any more, or its writer is about to go on.
Torn(i) == contents[i] # <<>> /\ contents[i][Len(contents[i])][3] = 1
Cut == \A i \in Inodes : Torn(i) => i = stream /\ (bad \/ \E t \in Threads : pc[t] = "half")

WholeIn(s) == \A k \in DOMAIN s :
  IF s[k][3] = 2 THEN k > 1 /\ s[k - 1] = <<s[k][1], s[k][2], 1>>
  ELSE k < Len(s) => s[k + 1] = <<s[k][1], s[k][2], 2>>
Whole == \A i \in Inodes : WholeIn(contents[i])

\* Nobody who is past the test of m_lastTime, or will be because of it, is too late for the file that
\* the stream is open on.
Late(i) ==
  /\ m_lastTime <= retired[i]
  /\ \A t \in Threads : /\ pc[t] = "stamp" => now[t] <= retired[i]
                        /\ pc[t] \in {"write", "half"} => now[t] < retired[i] + Period
InTime == Usable => Late(stream)

IInv == TypeOK /\ Times /\ Names /\ Held /\ Cut /\ Whole /\ InTime /\ MovedFileIsLeft

-----------------------------------------------------------------------------
(* Facts about the file system. *)

\* The next file that open() makes or finds is one that has the name (log.cpp:542).
LEMMA Opening ==
  ASSUME TypeOK, Names
  PROVE  /\ Opened \in Inodes /\ retired[Opened] = Created
         /\ path' = Opened /\ UNCHANGED <<retired, moves>> => Names'
<1>1. PICK n \in Nat : Numbered(n) BY DEF Names
<1>2. CASE path # Closed
  <2>1. Opened = path BY <1>2 DEF Opened
  <2>2. path \in Inodes BY <1>2 DEF TypeOK
  <2> QED BY <1>2, <2>1, <2>2 DEF Names, Numbered, Used
<1>3. CASE path = Closed
  <2>1. n + 1 \in Inodes BY <1>1, <1>3 DEF Numbered, TypeOK, Inodes
  <2>2. Opened = n + 1
    <3>1. \A i \in Inodes : (i \notin Used /\ \A j \in Inodes : j < i => j \in Used) <=> i = n + 1
      BY <1>1, <2>1 DEF Numbered, Inodes
    <3> QED BY <1>3, <2>1, <3>1 DEF Opened
  <2>3. retired[n + 1] = Created
    <3>1. n + 1 \notin Used BY <1>1, <2>1 DEF Numbered
    <3> QED BY <2>1, <3>1 DEF Used, TypeOK, Created
  <2>4. ASSUME path' = Opened, UNCHANGED <<retired, moves>> PROVE Names'
    <3>1. path' = n + 1 /\ path' # Closed BY <2>2, <2>4 DEF Closed
    <3>2. Numbered(n + 1)'
      BY <1>1, <1>3, <2>1, <2>4, <3>1 DEF Numbered, Used, Inodes, TypeOK, Closed
    <3> QED BY <2>2, <2>3, <2>4, <3>1, <3>2 DEF Names
  <2> QED BY <2>1, <2>2, <2>3, <2>4
<1> QED BY <1>2, <1>3

\* The parts of a line that was written.
LEMMA LineType ==
  ASSUME TypeOK, NEW i \in Inodes, NEW k \in DOMAIN contents[i]
  PROVE  /\ contents[i] \in Seq(Line) /\ contents[i][k] \in Line
         /\ contents[i][k][2] \in 0 .. MaxClock /\ contents[i][k][3] \in {1, 2}
<1>1. contents[i] \in Seq(Line) BY DEF TypeOK, Line
<1>2. contents[i][k] \in Line BY <1>1
<1> QED BY <1>1, <1>2 DEF Line

\* Mkdir makes prefixes of the path only (util.cpp:183-214).
LEMMA MkdirType ==
  ASSUME TypeOK PROVE Mkdir(Disk, LogDir).dirs \subseteq Prefixes(LogDir) \cup {<<>>}
BY DEF Mkdir, MkdirMade, Disk, TypeOK

\* What is not younger than the clock is so later.
LEMMA Older ==
  ASSUME TypeOK, Times, clock' \in Nat, clock <= clock', UNCHANGED <<m_lastTime, now, contents>>
  PROVE  Times'
<1>0. clock \in Nat BY DEF TypeOK
<1>1. ASSUME NEW i \in Inodes, NEW k \in DOMAIN contents[i] PROVE contents[i][k][2] <= clock'
  <2>1. contents[i][k][2] \in 0 .. MaxClock BY LineType
  <2>2. contents[i][k][2] <= clock BY DEF Times
  <2> QED BY <1>0, <2>1, <2>2
<1>2. m_lastTime <= clock' BY <1>0 DEF Times, TypeOK
<1>3. ASSUME NEW t \in Threads PROVE now[t] <= clock'
  BY <1>0 DEF Times, TypeOK
<1> QED BY <1>1, <1>2, <1>3 DEF Times

-----------------------------------------------------------------------------
(* The file system and the clock. *)

\* The environment changes neither the stream nor what is written.
LEMMA Surroundings == ASSUME IInv, Environment PROVE IInv'
<1>0. /\ UNCHANGED <<stream, bad, m_lastTime, m_mutex, contents, broken, pc, now, lines>>
      /\ TypeOK /\ Times /\ Names /\ Held /\ Cut /\ Whole /\ InTime /\ MovedFileIsLeft
  BY DEF Environment, IInv, streamVars, lineVars
<1>1. clock <= clock' /\ clock' \in Nat
  BY <1>0 DEF Environment, Tick, Rotate, RemoveDir, DiskFails, DiskRecovers, TypeOK
<1>2. TypeOK'
  <2>1. CASE Tick BY <1>0, <2>1 DEF Tick, TypeOK, Created
  <2>2. ASSUME Moved, clock' = clock PROVE retired' \in [Inodes -> 0 .. Created]
    BY <1>0, <2>2 DEF Moved, TypeOK, Created
  <2>3. CASE Rotate BY <1>0, <2>2, <2>3 DEF Rotate, TypeOK
  <2>4. CASE RemoveDir
    <3>1. dirs' \subseteq dirs BY <2>4 DEF RemoveDir
    <3>2. dirs' \subseteq Prefixes(LogDir) \cup {<<>>} BY <1>0, <3>1 DEF TypeOK
    <3>3. UNCHANGED <<clock, healthy, faults>> /\ path' = Closed /\ lastFault' = clock
          /\ moves < MaxMoves /\ moves' = moves + 1
      BY <2>4 DEF RemoveDir
    <3>4. retired' \in [Inodes -> 0 .. Created] BY <2>2, <2>4 DEF RemoveDir
    <3> QED BY <1>0, <3>2, <3>3, <3>4 DEF TypeOK
  <2>5. CASE DiskFails
    <3>0. healthy' = FALSE /\ faults' = faults + 1 /\ faults < MaxFaults /\ lastFault' = clock
      BY <2>5 DEF DiskFails
    <3>1. faults' \in 0 .. MaxFaults BY <1>0, <3>0 DEF TypeOK
    <3>3. healthy' \in BOOLEAN BY <3>0
    <3>4. lastFault' \in 0 .. MaxClock BY <1>0, <3>0 DEF TypeOK
    <3>2. UNCHANGED <<clock, dirs, path, retired, moves>> BY <2>5 DEF DiskFails
    <3> QED BY <1>0, <3>1, <3>2, <3>3, <3>4 DEF TypeOK
  <2>6. CASE DiskRecovers BY <1>0, <2>6 DEF DiskRecovers, TypeOK
  <2> QED BY <2>1, <2>3, <2>4, <2>5, <2>6 DEF Environment
<1>3. CASE Moved /\ moves' = moves + 1 /\ path' = Closed /\ clock' = clock /\ moves < MaxMoves
  <2>1. PICK n \in Nat : Numbered(n) BY <1>0 DEF Names
  <2>2. retired' \in [Inodes -> 0 .. Created] BY <1>0, <1>3 DEF Moved, TypeOK, Created
  <2>3. Numbered(n)'
    <3>1. ASSUME NEW i \in Inodes PROVE i \in Used' <=> i \in Used
      <4>1. path \in {Closed} \cup Inodes /\ retired \in [Inodes -> 0 .. Created] /\ clock < Created
        BY <1>0 DEF TypeOK, Created
      <4>2. CASE path = Closed
        BY <1>3, <4>1, <4>2 DEF Used, Moved
      <4>3. CASE path # Closed
        <5>1. retired' = [retired EXCEPT ![path] = clock] /\ path \in Inodes /\ path' \notin Inodes
          BY <1>3, <4>1, <4>3 DEF Moved, Closed, Inodes
        <5>2. CASE i = path
          BY <4>1, <5>1, <5>2 DEF Used
        <5>3. CASE i # path
          BY <4>1, <5>1, <5>3 DEF Used
        <5> QED BY <5>2, <5>3
      <4> QED BY <4>2, <4>3
    <3> QED BY <1>0, <1>3, <2>1, <3>1 DEF Numbered, Closed, TypeOK
  <2>4. Names' BY <1>3, <2>3 DEF Names
  <2>5. ASSUME NEW i \in Inodes PROVE retired'[i] = retired[i] \/ retired'[i] = clock
    BY <1>0, <1>3 DEF Moved, TypeOK
  <2>6. ASSUME Usable PROVE Late(stream)'
    <3>1. stream \in Inodes /\ Late(stream) BY <1>0, <2>6 DEF Usable, InTime, TypeOK
    <3>2. retired'[stream] = retired[stream] \/ retired'[stream] = clock BY <2>5, <3>1
    <3>3. m_lastTime <= clock /\ clock \in Nat /\ \A t \in Threads : now[t] <= clock /\ now[t] \in Nat
      BY <1>0 DEF Times, TypeOK
    <3> QED BY <1>0, <3>1, <3>2, <3>3 DEF Late, Period
  <2>7. InTime' BY <1>0, <2>6 DEF InTime, Usable
  <2>8. MovedFileIsLeft'
    <3> SUFFICES ASSUME NEW i \in Inodes, NEW k \in DOMAIN contents[i]
                 PROVE  contents[i][k][2] < retired'[i] + Period
      BY <1>0 DEF MovedFileIsLeft
    <3>1. contents[i][k][2] <= clock /\ contents[i][k][2] < retired[i] + Period
      BY <1>0 DEF Times, MovedFileIsLeft
    <3>4. contents[i][k][2] \in 0 .. MaxClock BY <1>0, LineType
    <3>5. clock \in Nat BY <1>0 DEF TypeOK
    <3> QED BY <2>5, <3>1, <3>4, <3>5 DEF Period
  <2> QED BY <1>0, <1>3, <1>2, <2>4, <2>7, <2>8
      DEF IInv, Held, Cut, Torn, Whole, WholeIn, Times, Usable
<1>4. CASE UNCHANGED <<path, retired, moves>>
  <2>2. Names' BY <1>0, <1>4 DEF Names, Numbered, Used
  <2>3. Times' BY <1>0, <1>1, Older
  <2> QED BY <1>0, <1>4, <1>2, <2>2, <2>3
      DEF IInv, Held, Cut, Torn, Whole, WholeIn, InTime, Late, MovedFileIsLeft, Usable
<1> QED BY <1>0, <1>3, <1>4
    DEF Environment, Tick, Rotate, RemoveDir, DiskFails, DiskRecovers

-----------------------------------------------------------------------------
(* Steps of a thread that leave the stream and the files alone. *)

\* A new event has the present time; the test of m_lastTime lets through who is in time (log.cpp:498).
LEMMA Waiting ==
  ASSUME IInv, NEW t \in Threads, Event(t) \/ Check(t) PROVE IInv'
<1>0. /\ TypeOK /\ Times /\ Names /\ Held /\ Cut /\ Whole /\ InTime /\ MovedFileIsLeft
      /\ UNCHANGED <<diskVars, streamVars, lineVars>>
  BY DEF IInv, Event, Check
<1>1. /\ pc[t] \in {"idle", "check"}
      /\ \E c \in {"check", "reopen", "write"} : pc' = [pc EXCEPT ![t] = c]
      /\ now' = now \/ (pc' = [pc EXCEPT ![t] = "check"] /\ now' = [now EXCEPT ![t] = clock])
  BY DEF Event, Check, Goto
<1>2. TypeOK'
  <2>1. lines' \in 0 .. MaxLines BY <1>0 DEF Event, Check, TypeOK
  <2>2. now' \in [Threads -> 0 .. MaxClock] BY <1>0, <1>1 DEF TypeOK
  <2>3. pc' \in [Threads -> {"idle", "check", "reopen", "mkdir", "again", "stamp", "write", "half"}]
        /\ \A u \in Threads : m_mutex = u <=> pc'[u] \in {"mkdir", "again", "half"}
    BY <1>0, <1>1 DEF TypeOK
  <2> QED BY <1>0, <2>1, <2>2, <2>3 DEF TypeOK, diskVars, streamVars, lineVars
<1>3. Times'
  <2>1. UNCHANGED <<clock, m_lastTime, contents>>
    BY <1>0 DEF diskVars, streamVars, lineVars
  <2>2. \A u \in Threads : now'[u] = now[u] \/ now'[u] = clock
    BY <1>0, <1>1 DEF TypeOK
  <2>3. clock <= clock
    BY <1>0 DEF TypeOK
  <2>4. \A u \in Threads : now'[u] <= clock
    BY <1>0, <2>2, <2>3 DEF Times
  <2> QED BY <1>0, <2>1, <2>4 DEF Times
<1>4. Held'
  <2> SUFFICES ASSUME NEW u \in Threads, pc'[u] \in {"mkdir", "again", "half"}
               PROVE  /\ pc'[u] \in {"mkdir", "again"} => stream = Closed
                      /\ pc'[u] = "half" => Usable /\ contents[stream] # <<>>
                           /\ contents[stream][Len(contents[stream])] = <<u, now'[u], 1>>
    BY <1>0 DEF Held, Usable, streamVars, lineVars
  <2>1. u # t /\ pc'[u] = pc[u] /\ now'[u] = now[u] BY <1>0, <1>1 DEF TypeOK
  <2> QED BY <1>0, <2>1 DEF Held
<1>5. Cut'
  <2>1. ASSUME NEW u \in Threads, pc[u] = "half" PROVE pc'[u] = "half"
    BY <1>0, <1>1, <2>1 DEF TypeOK
  <2> QED BY <1>0, <2>1 DEF Cut, Torn, streamVars, lineVars
<1>6. InTime'
  <2> SUFFICES ASSUME Usable PROVE Late(stream)'
    BY <1>0 DEF InTime, Usable, streamVars, lineVars
  <2>1. Late(stream) /\ stream \in Inodes /\ retired[stream] \in Nat
    BY <1>0 DEF InTime, Usable, TypeOK, Created
  <2>2. ASSUME NEW u \in Threads
        PROVE  /\ pc'[u] = "stamp" => now'[u] <= retired[stream]
               /\ pc'[u] \in {"write", "half"} => now'[u] < retired[stream] + Period
    <3>1. CASE u # t
      <4>1. pc'[u] = pc[u] /\ now'[u] = now[u] BY <1>0, <1>1, <3>1 DEF TypeOK
      <4> QED BY <2>1, <4>1 DEF Late
    <3>2. CASE u = t /\ Event(t) BY <1>0, <3>2 DEF Event, Goto, TypeOK
    <3>3. CASE u = t /\ Check(t)
      <4>1. pc'[t] = IF Due(now[t]) THEN "reopen" ELSE "write" BY <1>0, <3>3 DEF Check, Goto, TypeOK
      <4>2. now' = now /\ now[t] \in Nat /\ m_lastTime \in Nat BY <1>0, <3>3 DEF Check, TypeOK
      <4>3. m_lastTime <= retired[stream] BY <2>1 DEF Late
      <4> QED BY <2>1, <3>3, <4>1, <4>2, <4>3 DEF Due, Period
    <3> QED BY <3>1, <3>2, <3>3
  <2> QED BY <1>0, <2>1, <2>2 DEF Late, diskVars, streamVars
<1>7. Names' BY <1>0 DEF Names, Numbered, Used, diskVars
<1>8. Whole' /\ MovedFileIsLeft'
  BY <1>0 DEF Whole, WholeIn, MovedFileIsLeft, diskVars, streamVars, lineVars
<1> QED BY <1>2, <1>3, <1>4, <1>5, <1>6, <1>7, <1>8 DEF IInv

\* m_lastTime is stored by who was in time for the file the stream is open on (log.cpp:502).
LEMMA Stamping == ASSUME IInv, NEW t \in Threads, Stamp(t) PROVE IInv'
<1>0. /\ TypeOK /\ Times /\ Names /\ Held /\ Cut /\ Whole /\ InTime /\ MovedFileIsLeft
      /\ UNCHANGED <<diskVars, stream, bad, m_mutex, lineVars, now, lines>>
      /\ pc[t] = "stamp" /\ pc' = [pc EXCEPT ![t] = "write"] /\ m_lastTime' = now[t]
  BY DEF IInv, Stamp, Goto
<1>1. TypeOK' BY <1>0 DEF TypeOK, diskVars, lineVars
<1>2. Times' BY <1>0 DEF Times, TypeOK, diskVars, lineVars
<1>3. Names' BY <1>0 DEF Names, Numbered, Used, diskVars
<1>4. ASSUME NEW u \in Threads PROVE u # t => pc'[u] = pc[u]
  BY <1>0 DEF TypeOK
<1>5. Held' BY <1>0, <1>4 DEF Held, Usable, TypeOK, lineVars
<1>6. Cut' BY <1>0, <1>4 DEF Cut, Torn, TypeOK, lineVars
<1>7. InTime'
  <2> SUFFICES ASSUME Usable PROVE Late(stream)'
    BY <1>0 DEF InTime, Usable
  <2>1. Late(stream) /\ stream \in Inodes /\ retired[stream] \in Nat /\ now[t] \in Nat
    BY <1>0 DEF InTime, Usable, TypeOK, Created
  <2> QED BY <1>0, <1>4, <2>1 DEF Late, Period, TypeOK, diskVars
<1>8. Whole' /\ MovedFileIsLeft'
  BY <1>0 DEF Whole, WholeIn, MovedFileIsLeft, diskVars, lineVars
<1> QED BY <1>1, <1>2, <1>3, <1>5, <1>6, <1>7, <1>8 DEF IInv

\* Directories are made by the thread that has the lock (util.cpp:374).
LEMMA Making == ASSUME IInv, NEW t \in Threads, Mkdirs(t) PROVE IInv'
<1>0. /\ TypeOK /\ Times /\ Names /\ Held /\ Cut /\ Whole /\ InTime /\ MovedFileIsLeft
      /\ UNCHANGED <<clock, path, retired, healthy, moves, faults, lastFault, streamVars, lineVars, now, lines>>
      /\ pc[t] = "mkdir" /\ pc' = [pc EXCEPT ![t] = "again"] /\ dirs' = Mkdir(Disk, LogDir).dirs
  BY DEF IInv, Mkdirs, Goto
<1>1. dirs' \subseteq Prefixes(LogDir) \cup {<<>>} BY <1>0, MkdirType
<1>2. TypeOK' BY <1>0, <1>1 DEF TypeOK, streamVars, lineVars
<1>3. ASSUME NEW u \in Threads PROVE u # t => pc'[u] = pc[u]
  BY <1>0 DEF TypeOK
<1>4. Times' BY <1>0 DEF Times, streamVars, lineVars
<1>5. Names' BY <1>0 DEF Names, Numbered, Used
<1>6. Held' BY <1>0, <1>3 DEF Held, Usable, TypeOK, streamVars, lineVars
<1>7. Cut' BY <1>0, <1>3 DEF Cut, Torn, TypeOK, streamVars, lineVars
<1>8. InTime' BY <1>0, <1>3 DEF InTime, Late, Usable, TypeOK, streamVars
<1>9. Whole' /\ MovedFileIsLeft' BY <1>0 DEF Whole, WholeIn, MovedFileIsLeft, lineVars
<1> QED BY <1>2, <1>4, <1>5, <1>6, <1>7, <1>8, <1>9 DEF IInv

-----------------------------------------------------------------------------
(* Reopening. *)

\* While nobody has the lock, nobody is at a control point that needs it.
LEMMA NobodyHalf ==
  ASSUME TypeOK, m_mutex = None, NEW u \in Threads
  PROVE  pc[u] \notin {"mkdir", "again", "half"}
BY DEF TypeOK

\* The stream is on a file that has its name, after no file was left cut short.
LEMMA OpenedWell ==
  ASSUME IInv, NEW t \in Threads, \A i \in Inodes : ~Torn(i),
         stream' = Opened, path' = Opened, bad' = FALSE, m_mutex' = None,
         UNCHANGED <<clock, dirs, retired, healthy, moves, faults, lastFault>>,
         UNCHANGED <<m_lastTime, lineVars, now, lines>>,
         pc[t] \in {"reopen", "again"}, m_mutex \in {None, t}, pc' = [pc EXCEPT ![t] = "stamp"]
  PROVE  IInv'
<1>0. /\ TypeOK /\ Times /\ Names /\ Held /\ Cut /\ Whole /\ InTime /\ MovedFileIsLeft
      /\ contents' = contents /\ broken' = broken
  BY DEF IInv, lineVars
<1>1. Opened \in Inodes /\ retired[Opened] = Created /\ Names' BY <1>0, Opening
<1>2. ASSUME NEW u \in Threads, u # t
      PROVE  pc'[u] = pc[u] /\ pc[u] \notin {"mkdir", "again", "half"}
  BY <1>0, <1>2 DEF TypeOK
<1>3. TypeOK'
  <2>1. \A u \in Threads : m_mutex' = u <=> pc'[u] \in {"mkdir", "again", "half"}
    BY <1>0, <1>2 DEF TypeOK
  <2>2. pc' \in [Threads -> {"idle", "check", "reopen", "mkdir", "again", "stamp", "write", "half"}]
    BY <1>0 DEF TypeOK
  <2>3. bad' \in BOOLEAN OBVIOUS
  <2> QED BY <1>0, <1>1, <2>1, <2>2, <2>3 DEF TypeOK
<1>4. Times' BY <1>0 DEF Times
<1>5. Held' BY <1>0, <1>2 DEF Held, TypeOK
<1>6. Cut' BY <1>0 DEF Cut, Torn
<1>7. InTime'
  <2>1. m_lastTime <= MaxClock /\ \A u \in Threads : now[u] <= MaxClock
    BY <1>0 DEF TypeOK
  <2>2. m_lastTime <= Created /\ \A u \in Threads : now[u] <= Created /\ now[u] < Created + Period
    BY <1>0, <2>1 DEF TypeOK, Created, Period
  <2>3. retired'[stream'] = Created BY <1>1
  <2> QED BY <2>2, <2>3 DEF InTime, Late
<1>8. Whole' /\ MovedFileIsLeft' BY <1>0 DEF Whole, WholeIn, MovedFileIsLeft
<1> QED BY <1>1, <1>3, <1>4, <1>5, <1>6, <1>7, <1>8 DEF IInv

\* The stream is in error from now on, or still; it is closed only if no file is cut short.
LEMMA NotInOrder ==
  ASSUME IInv, NEW t \in Threads, NEW c \in {"stamp", "mkdir", "idle"},
         stream' = stream \/ (stream' = Closed /\ \A i \in Inodes : ~Torn(i)),
         bad' = TRUE, pc' = [pc EXCEPT ![t] = c],
         pc[t] \notin {"mkdir", "again"}, m_mutex \in {None, t},
         c = "mkdir" => stream' = Closed,
         m_mutex' = IF c = "mkdir" THEN t ELSE None,
         broken' \in BOOLEAN,
         UNCHANGED <<diskVars, m_lastTime, contents, now, lines>>
  PROVE  IInv'
<1>0. TypeOK /\ Times /\ Names /\ Held /\ Cut /\ Whole /\ InTime /\ MovedFileIsLeft BY DEF IInv
<1>1. ASSUME NEW u \in Threads, u # t
      PROVE  pc'[u] = pc[u] /\ pc[u] \notin {"mkdir", "again", "half"}
  BY <1>0, <1>1 DEF TypeOK
<1>2. pc'[t] = c BY <1>0 DEF TypeOK
<1>3. TypeOK'
  <2>1. ASSUME NEW u \in Threads PROVE m_mutex' = u <=> pc'[u] \in {"mkdir", "again", "half"}
    <3>1. CASE u = t BY <1>2, <3>1
    <3>2. CASE u # t BY <1>1, <3>2
    <3> QED BY <3>1, <3>2
  <2>2. pc' \in [Threads -> {"idle", "check", "reopen", "mkdir", "again", "stamp", "write", "half"}]
    BY <1>0 DEF TypeOK
  <2>3. bad' \in BOOLEAN OBVIOUS
  <2>4. stream' \in {Closed} \cup Inodes /\ m_mutex' \in Threads \cup {None}
    BY <1>0 DEF TypeOK
  <2> QED BY <1>0, <2>1, <2>2, <2>3, <2>4 DEF TypeOK, diskVars
<1>4. Times' /\ Names' BY <1>0 DEF Times, Names, Numbered, Used, diskVars
<1>5. Held'
  <2> SUFFICES ASSUME NEW u \in Threads, pc'[u] \in {"mkdir", "again", "half"}
               PROVE  u = t /\ c = "mkdir" /\ stream' = Closed
    BY <1>2 DEF Held
  <2> QED BY <1>1, <1>2
<1>6. Cut' BY <1>0 DEF Cut, Torn
<1>7. InTime' BY DEF InTime, Usable
<1>8. Whole' /\ MovedFileIsLeft' BY <1>0 DEF Whole, WholeIn, MovedFileIsLeft, diskVars
<1> QED BY <1>3, <1>4, <1>5, <1>6, <1>7, <1>8 DEF IInv

\* reopen(), up to its first attempt to open (log.cpp:533-542).
LEMMA Reopening == ASSUME IInv, NEW t \in Threads, Reopen(t) PROVE IInv'
<1>0. TypeOK /\ Cut BY DEF IInv
<1>1. m_mutex = None /\ pc[t] = "reopen" BY DEF Reopen, MayReopen
<1>2. ASSUME NEW i \in Inodes, Torn(i) PROVE i = stream /\ bad
  BY <1>0, <1>1, <1>2, NobodyHalf DEF Cut
<1>3. CASE AfterClose # Closed
  <2>1. stream' = stream /\ bad' = TRUE /\ pc' = [pc EXCEPT ![t] = "stamp"] /\ m_mutex' = m_mutex
        /\ UNCHANGED <<path, lineVars>>
    BY <1>3 DEF Reopen, AfterClose, Goto
  <2> QED BY <1>0, <1>1, <2>1, NotInOrder DEF Reopen, TypeOK, lineVars, diskVars
<1>4. CASE AfterClose = Closed
  <2>1. ASSUME NEW i \in Inodes PROVE ~Torn(i)
    BY <1>2, <1>4 DEF AfterClose, Inodes, Closed
  <2>2. CASE CanOpen
    BY <1>1, <1>4, <2>1, <2>2, OpenedWell DEF Reopen, Goto
  <2>3. CASE ~CanOpen
    <3>1. stream' = Closed /\ bad' = TRUE /\ m_mutex' = t /\ pc' = [pc EXCEPT ![t] = "mkdir"]
          /\ UNCHANGED <<path, lineVars>>
      BY <1>4, <2>3 DEF Reopen, Goto
    <3> QED BY <1>0, <1>1, <2>1, <3>1, NotInOrder DEF Reopen, TypeOK, lineVars, diskVars
  <2> QED BY <2>2, <2>3
<1> QED BY <1>3, <1>4

\* The second attempt to open (util.cpp:375-377).
LEMMA OpeningAgain == ASSUME IInv, NEW t \in Threads, OpenAgain(t) PROVE IInv'
<1>0. TypeOK /\ Times /\ Names /\ Held /\ Cut /\ Whole /\ InTime /\ MovedFileIsLeft BY DEF IInv
<1>1. pc[t] = "again" /\ m_mutex' = None /\ pc' = [pc EXCEPT ![t] = "stamp"] BY DEF OpenAgain, Goto
<1>2. m_mutex = t /\ stream = Closed BY <1>0, <1>1 DEF TypeOK, Held
<1>3. ASSUME NEW i \in Inodes PROVE ~Torn(i) BY <1>0, <1>2 DEF Cut, Inodes, Closed
<1>4. CASE CanOpen
  BY <1>1, <1>2, <1>3, <1>4, OpenedWell DEF OpenAgain
<1>5. CASE ~CanOpen
  <2>0. UNCHANGED <<clock, dirs, path, retired, healthy, moves, faults, lastFault, stream, bad, m_lastTime,
                    contents, broken, now, lines>>
    BY <1>5 DEF OpenAgain, lineVars
  <2>1. ASSUME NEW u \in Threads, u # t
        PROVE  pc'[u] = pc[u] /\ pc[u] \notin {"mkdir", "again", "half"}
    BY <1>0, <1>1, <1>2, <2>1 DEF TypeOK
  <2>2. pc'[t] = "stamp" BY <1>0, <1>1 DEF TypeOK
  <2>3. TypeOK'
    <3>1. \A u \in Threads : m_mutex' = u <=> pc'[u] \in {"mkdir", "again", "half"}
      BY <1>1, <2>1, <2>2
    <3>2. pc' \in [Threads -> {"idle", "check", "reopen", "mkdir", "again", "stamp", "write", "half"}]
      BY <1>0, <1>1 DEF TypeOK
    <3> QED BY <1>0, <1>1, <2>0, <3>1, <3>2 DEF TypeOK
  <2>4. Times' /\ Names' BY <1>0, <2>0 DEF Times, Names, Numbered, Used
  <2>5. Held' BY <2>1, <2>2 DEF Held
  <2>6. Cut' BY <1>3, <2>0 DEF Cut, Torn
  <2>7. InTime' BY <1>2, <2>0 DEF InTime, Usable
  <2>8. Whole' /\ MovedFileIsLeft' BY <1>0, <2>0 DEF Whole, WholeIn, MovedFileIsLeft
  <2> QED BY <2>3, <2>4, <2>5, <2>6, <2>7, <2>8 DEF IInv
<1> QED BY <1>4, <1>5

-----------------------------------------------------------------------------
(* Writing. *)

\* Half of a line is added to a file that the other half, or a whole line, is the end of.
LEMMA HalfAdded ==
  ASSUME NEW s \in Seq(Line), WholeIn(s), NEW t \in Threads, NEW n \in 0 .. MaxClock, NEW h \in {1, 2},
         h = 1 => s = <<>> \/ s[Len(s)][3] = 2,
         h = 2 => s # <<>> /\ s[Len(s)] = <<t, n, 1>>
  PROVE  /\ Append(s, <<t, n, h>>) \in Seq(Line)
         /\ WholeIn(Append(s, <<t, n, h>>))
<1> DEFINE e == <<t, n, h>>
           r == Append(s, e)
<1>1. e \in Line BY DEF Line
<1>2. r \in Seq(Line) /\ Len(r) = Len(s) + 1 /\ r[Len(s) + 1] = e
      /\ \A k \in 1 .. Len(s) : r[k] = s[k]
  BY <1>1
<1>3. Len(s) \in Nat /\ DOMAIN s = 1 .. Len(s) /\ DOMAIN r = 1 .. Len(s) + 1 /\ (s # <<>> => Len(s) > 0)
  BY <1>2
<1>4. ASSUME NEW k \in DOMAIN r
      PROVE  IF r[k][3] = 2 THEN k > 1 /\ r[k - 1] = <<r[k][1], r[k][2], 1>>
             ELSE k < Len(r) => r[k + 1] = <<r[k][1], r[k][2], 2>>
  <2>1. CASE k < Len(s)
    <3>1. k \in DOMAIN s /\ r[k] = s[k] /\ r[k + 1] = s[k + 1] /\ (k > 1 => r[k - 1] = s[k - 1])
      BY <1>2, <1>3, <2>1
    <3> QED BY <2>1, <3>1 DEF WholeIn
  <2>2. CASE k = Len(s)
    <3>0. k \in 1 .. Len(s) /\ r[k + 1] = e BY <1>2, <1>3, <2>2
    <3>1. k \in DOMAIN s /\ r[k] = s[k] /\ r[k + 1] = e /\ (k > 1 => r[k - 1] = s[k - 1])
      <4>1. k > 1 => k - 1 \in 1 .. Len(s) BY <3>0
      <4> QED BY <1>2, <1>3, <3>0, <4>1
    <3>2. CASE h = 1
      <4>1. s # <<>> BY <1>3, <3>0
      <4>2. s[k][3] = 2 BY <2>2, <3>2, <4>1
      <4>3. k > 1 /\ s[k - 1] = <<s[k][1], s[k][2], 1>> BY <3>1, <4>2 DEF WholeIn
      <4> QED BY <3>1, <4>2, <4>3
    <3>3. CASE h = 2
      <4>1. r[k] = <<t, n, 1>> /\ r[k + 1] = <<t, n, 2>> BY <2>2, <3>1, <3>3
      <4> QED BY <4>1
    <3> QED BY <3>2, <3>3
  <2>3. CASE k = Len(s) + 1
    <3>1. r[k] = e BY <1>2, <2>3
    <3>2. CASE h = 1
      <4>1. r[k][3] = 1 BY <3>1, <3>2
      <4>2. ~(k < Len(r)) BY <1>2, <1>3, <2>3
      <4> QED BY <4>1, <4>2
    <3>3. CASE h = 2
      <4>1. Len(s) > 0 /\ k - 1 = Len(s) BY <1>3, <2>3, <3>3
      <4>2. r[k - 1] = <<t, n, 1>> BY <1>2, <1>3, <3>3, <4>1
      <4> QED BY <1>3, <3>1, <3>3, <4>1, <4>2
    <3> QED BY <3>2, <3>3
  <2> QED BY <1>3, <2>1, <2>2, <2>3
<1> QED BY <1>2, <1>4 DEF WholeIn

\* Half of a line is written by a thread in time to a stream in order.
LEMMA Writing ==
  ASSUME IInv, NEW t \in Threads, NEW h \in {1, 2}, Usable, Half(t, h),
         pc' = [pc EXCEPT ![t] = IF h = 1 THEN "half" ELSE "idle"],
         m_mutex' = IF h = 1 THEN t ELSE None,
         h = 1 => pc[t] = "write" /\ m_mutex = None,
         h = 2 => pc[t] = "half",
         UNCHANGED <<diskVars, stream, bad, m_lastTime, broken, now, lines>>
  PROVE  IInv'
<1>0. TypeOK /\ Times /\ Names /\ Held /\ Cut /\ Whole /\ InTime /\ MovedFileIsLeft BY DEF IInv
<1>1. /\ stream \in Inodes /\ contents[stream] \in Seq(Line) /\ now[t] \in 0 .. MaxClock
      /\ \A i \in Inodes : contents[i] \in Seq(Line)
  BY <1>0 DEF TypeOK, Usable, Line
<1>2. m_mutex \in {None, t} BY <1>0 DEF TypeOK
<1>3. ASSUME NEW u \in Threads, u # t
      PROVE  pc'[u] = pc[u] /\ pc[u] \notin {"mkdir", "again", "half"}
  BY <1>0, <1>2, <1>3 DEF TypeOK
<1>4. pc'[t] = IF h = 1 THEN "half" ELSE "idle" BY <1>0 DEF TypeOK
<1>5. /\ h = 1 => contents[stream] = <<>> \/ contents[stream][Len(contents[stream])][3] = 2
      /\ h = 2 => contents[stream] # <<>> /\ contents[stream][Len(contents[stream])] = <<t, now[t], 1>>
  <2>1. CASE h = 1
    <3>1. ~Torn(stream) BY <1>0, <1>1, <1>3, <2>1 DEF Cut, Usable
    <3>2. CASE contents[stream] # <<>>
      <4>1. Len(contents[stream]) \in DOMAIN contents[stream] BY <1>1, <3>2
      <4> QED BY <1>0, <1>1, <2>1, <3>1, <4>1, LineType DEF Torn
    <3> QED BY <2>1, <3>2
  <2>2. CASE h = 2 BY <1>0, <2>2 DEF Held
  <2> QED BY <2>1, <2>2
<1> DEFINE s == contents[stream]
           e == <<t, now[t], h>>
<1>6. Append(s, e) \in Seq(Line) /\ WholeIn(Append(s, e))
  BY <1>0, <1>1, <1>5, HalfAdded DEF Whole
<1>7. /\ contents' = [contents EXCEPT ![stream] = Append(s, e)]
      /\ contents'[stream] = Append(s, e)
      /\ \A i \in Inodes : i # stream => contents'[i] = contents[i]
  BY <1>0, <1>1 DEF Half, TypeOK
<1>8. Len(Append(s, e)) = Len(s) + 1 /\ Append(s, e)[Len(s) + 1] = e /\ Append(s, e) # <<>>
      /\ DOMAIN Append(s, e) = 1 .. Len(s) + 1 /\ DOMAIN s = 1 .. Len(s) /\ Len(s) \in Nat
      /\ \A k \in DOMAIN s : Append(s, e)[k] = s[k]
  <2>1. e \in Line /\ s \in Seq(Line) BY <1>1 DEF Line
  <2>2. Len(s) \in Nat /\ DOMAIN s = 1 .. Len(s) BY <2>1
  <2>3. Len(Append(s, e)) = Len(s) + 1 /\ Append(s, e)[Len(s) + 1] = e
        /\ \A k \in 1 .. Len(s) : Append(s, e)[k] = s[k]
    BY <2>1
  <2>4. DOMAIN Append(s, e) = 1 .. Len(s) + 1 BY <2>1
  <2>5. Append(s, e) # <<>> BY <2>1, <2>2, <2>3
  <2> QED BY <2>2, <2>3, <2>4, <2>5
<1>9. TypeOK'
  <2>1. contents' \in [Inodes -> Seq(Line)] BY <1>0, <1>1, <1>6, <1>7 DEF TypeOK, Line
  <2>2. ASSUME NEW u \in Threads PROVE m_mutex' = u <=> pc'[u] \in {"mkdir", "again", "half"}
    <3>1. CASE u = t BY <1>4, <3>1
    <3>2. CASE u # t BY <1>3, <3>2
    <3> QED BY <3>1, <3>2
  <2>3. pc' \in [Threads -> {"idle", "check", "reopen", "mkdir", "again", "stamp", "write", "half"}]
        /\ m_mutex' \in Threads \cup {None}
    BY <1>0 DEF TypeOK
  <2> QED BY <1>0, <2>1, <2>2, <2>3 DEF TypeOK, Line, diskVars
<1>10. Names' BY <1>0 DEF Names, Numbered, Used, diskVars
<1>11. ASSUME NEW i \in Inodes, NEW k \in DOMAIN contents'[i]
       PROVE  (k \in DOMAIN contents[i] /\ contents'[i][k] = contents[i][k])
              \/ (i = stream /\ contents'[i][k] = e)
  BY <1>1, <1>7, <1>8
<1>12. Times'
  <2>1. ASSUME NEW i \in Inodes, NEW k \in DOMAIN contents'[i] PROVE contents'[i][k][2] <= clock
    BY <1>0, <1>11 DEF Times
  <2> QED BY <1>0, <2>1 DEF Times, diskVars
<1>13. MovedFileIsLeft'
  <2>1. now[t] < retired[stream] + Period BY <1>0 DEF InTime, Late
  <2>2. ASSUME NEW i \in Inodes, NEW k \in DOMAIN contents'[i]
        PROVE  contents'[i][k][2] < retired[i] + Period
    BY <1>0, <1>11, <2>1 DEF MovedFileIsLeft
  <2> QED BY <2>2 DEF MovedFileIsLeft, diskVars
<1>14. Held'
  <2> SUFFICES ASSUME NEW u \in Threads, pc'[u] \in {"mkdir", "again", "half"}
               PROVE  /\ u = t /\ h = 1 /\ Usable' /\ contents'[stream] # <<>>
                      /\ contents'[stream][Len(contents'[stream])] = <<t, now[t], 1>>
    BY <1>4 DEF Held
  <2>1. u = t /\ h = 1 BY <1>3, <1>4
  <2> QED BY <1>7, <1>8, <2>1 DEF Usable
<1>15. Cut'
  <2> SUFFICES ASSUME NEW i \in Inodes, Torn(i)' PROVE i = stream /\ pc'[t] = "half"
    BY DEF Cut
  <2>1. CASE i # stream
    <3>1. Torn(i) BY <1>7, <2>1 DEF Torn
    <3> QED BY <1>0, <2>1, <3>1 DEF Cut
  <2>2. CASE i = stream
    <3>1. h = 1 BY <1>7, <1>8, <2>2 DEF Torn
    <3> QED BY <1>4, <2>2, <3>1
  <2> QED BY <2>1, <2>2
<1>16. Whole'
  <2> SUFFICES ASSUME NEW i \in Inodes PROVE WholeIn(contents'[i])
    BY DEF Whole, WholeIn
  <2>1. CASE i = stream BY <1>6, <1>7, <2>1
  <2>2. CASE i # stream
    <3>1. contents'[i] = contents[i] BY <1>7, <2>2
    <3>2. WholeIn(contents[i]) BY <1>0 DEF Whole
    <3> QED BY <3>1, <3>2
  <2> QED BY <2>1, <2>2
<1>17. InTime'
  <2>1. Late(stream) BY <1>0 DEF InTime
  <2> QED BY <1>3, <1>4, <2>1 DEF InTime, Late, diskVars
<1> QED BY <1>9, <1>10, <1>12, <1>13, <1>14, <1>15, <1>16, <1>17 DEF IInv

\* A line is written in two halves, or is lost (log.cpp:503-505).
LEMMA WriteSteps == ASSUME IInv, NEW t \in Threads, WriteBegin(t) \/ WriteEnd(t) PROVE IInv'
<1>0. TypeOK /\ UNCHANGED <<diskVars, stream, m_lastTime, now, lines>>
  BY DEF IInv, WriteBegin, WriteEnd
<1>1. CASE WriteBegin(t) /\ Usable /\ healthy
  <2>1. pc[t] = "write" /\ m_mutex = None /\ Half(t, 1) /\ m_mutex' = t /\ UNCHANGED <<broken, bad>>
        /\ pc' = [pc EXCEPT ![t] = "half"]
    BY <1>1 DEF WriteBegin, Goto
  <2>2. PICK h \in {1, 2} : h = 1 OBVIOUS
  <2>3. Half(t, h) BY <2>1, <2>2
  <2>4. pc' = [pc EXCEPT ![t] = IF h = 1 THEN "half" ELSE "idle"] /\ m_mutex' = IF h = 1 THEN t ELSE None
    BY <2>1, <2>2
  <2>5. /\ h = 1 => pc[t] = "write" /\ m_mutex = None
        /\ h = 2 => pc[t] = "half"
    BY <2>1, <2>2
  <2> QED BY <1>0, <1>1, <2>1, <2>3, <2>4, <2>5, Writing
<1>2. CASE WriteEnd(t) /\ Usable /\ healthy
  <2>1. pc[t] = "half" /\ Half(t, 2) /\ m_mutex' = None /\ UNCHANGED <<broken, bad>>
        /\ pc' = [pc EXCEPT ![t] = "idle"]
    BY <1>2 DEF WriteEnd, Goto
  <2>2. PICK h \in {1, 2} : h = 2 OBVIOUS
  <2>3. Half(t, h) BY <2>1, <2>2
  <2>4. pc' = [pc EXCEPT ![t] = IF h = 1 THEN "half" ELSE "idle"] /\ m_mutex' = IF h = 1 THEN t ELSE None
    BY <2>1, <2>2
  <2>5. /\ h = 1 => pc[t] = "write" /\ m_mutex = None
        /\ h = 2 => pc[t] = "half"
    BY <2>1, <2>2
  <2> QED BY <1>0, <1>2, <2>1, <2>3, <2>4, <2>5, Writing
<1>3. CASE Lose(t)
  <2>1. pc[t] \in {"write", "half"} /\ m_mutex \in {None, t} BY <1>0 DEF WriteBegin, WriteEnd, TypeOK
  <2>2. bad' = TRUE /\ pc' = [pc EXCEPT ![t] = "idle"] /\ m_mutex' = None /\ contents' = contents
        /\ broken' \in BOOLEAN
    BY <1>3 DEF Lose, Goto
  <2> QED BY <1>0, <2>1, <2>2, NotInOrder
<1> QED BY <1>1, <1>2, <1>3 DEF WriteBegin, WriteEnd

-----------------------------------------------------------------------------
(* The theorems. *)

\* The appender's constructor leaves it open on a new file (log.cpp:487-491).
LEMMA Start == Init => IInv
<1> SUFFICES ASSUME Init PROVE IInv OBVIOUS
<1>1. TypeOK
  <2>1. 1 \in Inodes /\ Created \in Nat /\ Period \in 0 .. MaxClock
    BY DEF Inodes, Created, Period
  <2>2. contents \in [Inodes -> Seq(Threads \X (0 .. MaxClock) \X {1, 2})] BY DEF Init
  <2>3. retired \in [Inodes -> 0 .. Created] BY <2>1 DEF Init
  <2>4. \A t \in Threads : m_mutex = t <=> pc[t] \in {"mkdir", "again", "half"} BY DEF Init
  <2>5. /\ healthy \in BOOLEAN /\ bad \in BOOLEAN /\ broken \in BOOLEAN BY DEF Init
  <2>6. clock \in 0 .. MaxClock /\ m_lastTime \in 0 .. MaxClock /\ lastFault \in 0 .. MaxClock
        /\ lines \in 0 .. MaxLines /\ moves \in 0 .. MaxMoves /\ faults \in 0 .. MaxFaults
    BY <2>1 DEF Init
  <2>7. now \in [Threads -> 0 .. MaxClock] BY DEF Init
  <2>8. pc \in [Threads -> {"idle", "check", "reopen", "mkdir", "again", "stamp", "write", "half"}]
    BY DEF Init
  <2>9. dirs \subseteq Prefixes(LogDir) \cup {<<>>} /\ m_mutex \in Threads \cup {None}
        /\ path \in {Closed} \cup Inodes /\ stream \in {Closed} \cup Inodes
    BY <2>1 DEF Init
  <2> QED BY <2>2, <2>3, <2>4, <2>5, <2>6, <2>7, <2>8, <2>9 DEF TypeOK
<1>2. Names
  <2>1. Numbered(1) BY DEF Init, Numbered, Used, Inodes, Created, Closed
  <2> QED BY <2>1 DEF Names, Init, Inodes
<1>3. InTime BY DEF InTime, Late, Init, Period, Inodes, Created, Usable
<1> QED BY <1>1, <1>2, <1>3
    DEF IInv, Init, Times, Held, Cut, Torn, Whole, WholeIn, MovedFileIsLeft, Period

\* IInv is an invariant, for any threads, lines, moves, failures and clock.
LEMMA Inductive == Spec => []IInv
<1>1. IInv /\ [Next]_vars => IInv'
  <2> SUFFICES ASSUME IInv, [Next]_vars PROVE IInv' OBVIOUS
  <2>1. CASE Environment BY <2>1, Surroundings
  <2>2. ASSUME NEW t \in Threads, Log(t) PROVE IInv'
    BY <2>2, Waiting, Reopening, Making, OpeningAgain, Stamping, WriteSteps DEF Log
  <2>3. CASE UNCHANGED vars
    BY <2>3 DEF vars, diskVars, streamVars, lineVars, IInv, TypeOK, Times, Names, Numbered, Used, Held, Cut,
                Torn, Whole, WholeIn, InTime, Late, Usable, MovedFileIsLeft
  <2> QED BY <2>1, <2>2, <2>3 DEF Next
<1> QED BY <1>1, Start, PTL DEF Spec

\* Every variable keeps its type, and the lock is with the thread whose control point needs it
\* (log.cpp:503, log.cpp:533).
THEOREM TypeCorrect == Spec => []TypeOK
<1>1. IInv => TypeOK BY DEF IInv
<1> QED BY <1>1, Inductive, PTL

\* Lines are written in one piece, however many threads write and reopen and whatever happens to the
\* file (log.cpp:503-505 against log.cpp:533).
THEOREM LinesWholeHolds == Spec => []LinesWhole
<1>1. IInv => LinesWhole BY DEF IInv, Whole, WholeIn, LinesWhole
<1> QED BY <1>1, Inductive, PTL

\* A file that has lost its name gets no line of three seconds later, although the test and the store of
\* m_lastTime are outside of the lock (log.cpp:498-502).
THEOREM MovedFileIsLeftHolds == Spec => []MovedFileIsLeft
<1>1. IInv => MovedFileIsLeft BY DEF IInv
<1> QED BY <1>1, Inductive, PTL

-----------------------------------------------------------------------------
(* Lost lines. *)

\* The disk does not work, or has not since some time.
Recent(y) == ~healthy \/ lastFault >= y

\* No line that is to be written with the stream as it is is three seconds after the last fault.
Excused ==
  /\ Recent(m_lastTime)
  /\ \A t \in Threads : /\ pc[t] \in {"mkdir", "again", "stamp"} => Recent(now[t])
                        /\ pc[t] = "write" => Recent(now[t] - 2)

\* A thread that has the lock is about to try once more, and will succeed unless there is a fault.
Trying(t) == pc[t] = "mkdir" \/ (pc[t] = "again" /\ LogDir \in dirs /\ healthy)

\* Unless a write has failed, a stream that is not in order was closed by reopen(), and there is an
\* excuse for every line that finds it so.
Fit == <<>> \in dirs /\ (~broken => /\ bad => stream = Closed
                                    /\ stream = Closed => Excused \/ \E t \in Threads : Trying(t))

\* Mkdir makes the directory of the appender on a disk that works (util.cpp:183-214).
LEMMA MkdirMakesIt ==
  ASSUME TypeOK, healthy, <<>> \in dirs
  PROVE  LogDir \in Mkdir(Disk, LogDir).dirs /\ <<>> \in Mkdir(Disk, LogDir).dirs
<1>1. LogDir \in Prefixes(LogDir)
  <2>1. Len(LogDir) \in Nat /\ Len(LogDir) >= 1 OBVIOUS
  <2>2. SubSeq(LogDir, 1, Len(LogDir)) = LogDir BY SubSeqFull
  <2>3. Len(LogDir) \in 1 .. Len(LogDir) BY <2>1
  <2>4. \E n \in 1 .. Len(LogDir) : LogDir = SubSeq(LogDir, 1, n) BY <2>2, <2>3
  <2> QED BY <2>4 DEF Prefixes
<1>2. Entries(Disk) = dirs /\ Disk.dirs = dirs /\ Disk.readonly = {} BY DEF Entries, Disk
<1>3. ASSUME NEW e \in Prefixes(LogDir) PROVE Dirname(e) \in dirs \cup (Prefixes(LogDir) \ dirs)
  <2>1. PICK n \in 1 .. Len(LogDir) : e = SubSeq(LogDir, 1, n) BY DEF Prefixes
  <2>2. Len(e) = n /\ \A i \in 1 .. n : e[i] = LogDir[i] BY <2>1
  <2>3. CASE n = 1
    <3>1. Dirname(e) = <<>> BY <2>1, <2>2, <2>3 DEF Dirname
    <3> QED BY <3>1
  <2>4. CASE n # 1
    <3>1. n - 1 \in 1 .. Len(LogDir) BY <2>1, <2>4
    <3>2. Dirname(e) = SubSeq(LogDir, 1, n - 1) BY <2>1, <2>2, <3>1 DEF Dirname
    <3> QED BY <3>1, <3>2 DEF Prefixes
  <2> QED BY <2>3, <2>4
<1>4. LogDir \in dirs \/ LogDir \in MkdirMade(Disk, LogDir) BY <1>1, <1>2, <1>3 DEF MkdirMade
<1> QED BY <1>2, <1>4 DEF Mkdir

\* What is excused stays so, however the clock goes on and the disk fails and recovers.
LEMMA FaultsStay ==
  ASSUME TypeOK, Times, Environment, NEW y \in Int, y <= clock, Recent(y)
  PROVE  Recent(y)'
<1>1. clock \in Nat /\ lastFault \in Nat BY DEF TypeOK
<1> QED BY <1>1 DEF Environment, Tick, Rotate, RemoveDir, DiskFails, DiskRecovers, Recent

\* Times are not in the future.
LEMMA NotAhead ==
  ASSUME TypeOK, Times
  PROVE  /\ clock \in Int /\ m_lastTime \in Int /\ m_lastTime <= clock /\ lastFault \in Int
         /\ \A t \in Threads : now[t] \in Int /\ now[t] <= clock /\ now[t] - 2 \in Int /\ now[t] - 2 <= clock
<1>1. \A t \in Threads : now[t] \in 0 .. MaxClock /\ now[t] <= clock BY DEF TypeOK, Times
<1> QED BY <1>1 DEF TypeOK, Times

\* What happens to the disk is an excuse for what it causes.
LEMMA FitSurroundings == ASSUME IInv, Fit, Environment PROVE Fit'
<1>0. /\ UNCHANGED <<stream, bad, m_lastTime, m_mutex, contents, broken, pc, now, lines>>
      /\ TypeOK /\ Times
  BY DEF Environment, IInv, streamVars, lineVars
<1>1. <<>> \in dirs'
  <2>1. CASE RemoveDir
    <3>1. PICK d \in dirs \ {<<>>} : dirs' = {e \in dirs : e # d /\ ~IsBelow(e, d)} BY <2>1 DEF RemoveDir
    <3>2. ~IsBelow(<<>>, d)
      <4>1. d \in Seq(STRING)
        <5>1. d \in Prefixes(LogDir) BY <1>0, <3>1 DEF TypeOK
        <5>2. PICK n \in 1 .. Len(LogDir) : d = SubSeq(LogDir, 1, n) BY <5>1 DEF Prefixes
        <5> QED BY <5>2
      <4>2. Len(<<>>) = 0 /\ Len(d) \in Nat BY <4>1
      <4> QED BY <4>2 DEF IsBelow
    <3> QED BY <3>1, <3>2 DEF Fit
  <2>2. CASE Tick \/ Rotate \/ DiskFails \/ DiskRecovers
    BY <2>2 DEF Tick, Rotate, DiskFails, DiskRecovers, Fit
  <2> QED BY <2>1, <2>2 DEF Environment
<1>2. Excused => Excused' BY <1>0, NotAhead, FaultsStay DEF Excused, IInv
<1>3. ASSUME NEW t \in Threads, Trying(t) PROVE Trying(t)' \/ Excused'
  <2>1. CASE LogDir \in dirs' /\ healthy' BY <1>0, <1>3, <2>1 DEF Trying
  <2>2. CASE pc[t] = "again" /\ ~(LogDir \in dirs' /\ healthy')
    <3>1. healthy /\ LogDir \in dirs BY <1>3, <2>2 DEF Trying
    <3>2. ~healthy' \/ lastFault' = clock
      BY <2>2, <3>1 DEF Environment, Tick, Rotate, RemoveDir, DiskFails, DiskRecovers
    <3>3. \A y \in Int : y <= clock => Recent(y)' BY <1>0, <3>2, NotAhead DEF Recent
    <3> QED BY <1>0, <3>3, NotAhead DEF Excused
  <2>3. CASE pc[t] = "mkdir" BY <1>0, <2>3 DEF Trying
  <2> QED BY <1>3, <2>1, <2>2, <2>3 DEF Trying
<1> QED BY <1>0, <1>1, <1>2, <1>3 DEF Fit

\* A thread gets to write if m_lastTime is less than three seconds old, and then it has its excuse.
LEMMA FitWaiting == ASSUME IInv, Fit, NEW t \in Threads, Event(t) \/ Check(t) PROVE Fit'
<1>0. /\ UNCHANGED <<dirs, healthy, lastFault, stream, bad, broken, m_lastTime>> /\ TypeOK /\ Times
      /\ pc[t] \in {"idle", "check"}
  BY DEF Event, Check, diskVars, streamVars, lineVars, IInv
<1>1. \A u \in Threads \ {t} : pc'[u] = pc[u] /\ now'[u] = now[u] BY <1>0 DEF Event, Check, Goto, TypeOK
<1>2. /\ pc'[t] \in {"check", "reopen", "write"}
      /\ pc'[t] = "write" => now'[t] = now[t] /\ now[t] < m_lastTime + 3
  BY <1>0 DEF Event, Check, Goto, Due, Period, TypeOK
<1>3. Excused => Excused'
  <2>1. ASSUME Recent(m_lastTime), pc'[t] = "write" PROVE Recent(now[t] - 2)'
    BY <1>0, <1>2, <2>1, NotAhead DEF Recent
  <2> QED BY <1>0, <1>1, <1>2, <2>1 DEF Excused, Recent
<1>4. \A u \in Threads : Trying(u) => Trying(u)' BY <1>0, <1>1 DEF Trying
<1> QED BY <1>0, <1>3, <1>4 DEF Fit

\* Storing the time of a line that has opened the stream.
LEMMA FitStamping == ASSUME IInv, Fit, NEW t \in Threads, Stamp(t) PROVE Fit'
<1>0. /\ UNCHANGED <<dirs, healthy, lastFault, stream, bad, broken, now>> /\ TypeOK /\ Times
      /\ pc[t] = "stamp" /\ m_lastTime' = now[t]
  BY DEF Stamp, diskVars, streamVars, lineVars, IInv
<1>1. pc'[t] = "write" /\ \A u \in Threads \ {t} : pc'[u] = pc[u] BY <1>0 DEF Stamp, Goto, TypeOK
<1>2. Excused => Excused'
  <2>1. ASSUME Excused PROVE Recent(now[t])' /\ Recent(now[t] - 2)'
    BY <1>0, <2>1, NotAhead DEF Excused, Recent
  <2> QED BY <1>0, <1>1, <2>1 DEF Excused, Recent
<1>3. \A u \in Threads : Trying(u) => Trying(u)' BY <1>0, <1>1 DEF Trying
<1> QED BY <1>0, <1>2, <1>3 DEF Fit

\* reopen() opens the stream, or tries once more after Mkdir (util.cpp:368-378).
LEMMA FitReopening == ASSUME IInv, Fit, NEW t \in Threads, Reopen(t) PROVE Fit'
<1>0. /\ UNCHANGED <<dirs, healthy, lastFault, broken, m_lastTime, now>> /\ TypeOK /\ Names
  BY DEF Reopen, lineVars, IInv
<1>1. CASE AfterClose # Closed
  <2>1. bad /\ stream # Closed BY <1>1 DEF AfterClose
  <2>2. broken BY <2>1 DEF Fit
  <2> QED BY <1>0, <2>2 DEF Fit
<1>2. CASE AfterClose = Closed /\ CanOpen
  <2>1. stream' # Closed /\ bad' = FALSE BY <1>0, <1>2, Opening DEF Reopen, Closed, Inodes
  <2> QED BY <1>0, <2>1 DEF Fit
<1>3. CASE AfterClose = Closed /\ ~CanOpen
  <2>1. stream' = Closed /\ pc'[t] = "mkdir" BY <1>0, <1>3 DEF Reopen, Goto, TypeOK
  <2>2. Trying(t)' BY <2>1 DEF Trying
  <2> QED BY <1>0, <2>1, <2>2 DEF Fit
<1> QED BY <1>1, <1>2, <1>3

\* Mkdir makes the directory, unless the disk does not work.
LEMMA FitMaking == ASSUME IInv, Fit, NEW t \in Threads, Mkdirs(t) PROVE Fit'
<1>0. /\ UNCHANGED <<healthy, lastFault, stream, bad, broken, m_lastTime, now>> /\ TypeOK /\ <<>> \in dirs
      /\ pc[t] = "mkdir" /\ dirs' = Mkdir(Disk, LogDir).dirs
  BY DEF Mkdirs, streamVars, lineVars, IInv, Fit
<1>1. pc'[t] = "again" /\ \A u \in Threads \ {t} : pc'[u] = pc[u] BY <1>0 DEF Mkdirs, Goto, TypeOK
<1>2. <<>> \in dirs' BY <1>0 DEF Mkdir, Disk
<1>3. CASE healthy
  <2>1. Trying(t)' BY <1>0, <1>1, <1>3, MkdirMakesIt DEF Trying
  <2> QED BY <1>0, <1>2, <2>1 DEF Fit
<1>4. CASE ~healthy
  <2>1. Excused' BY <1>0, <1>4 DEF Excused, Recent
  <2> QED BY <1>0, <1>2, <2>1 DEF Fit
<1> QED BY <1>3, <1>4

\* The second attempt fails only with an excuse.
LEMMA FitOpeningAgain == ASSUME IInv, Fit, NEW t \in Threads, OpenAgain(t) PROVE Fit'
<1>0. /\ UNCHANGED <<dirs, healthy, lastFault, broken, m_lastTime, now>> /\ TypeOK /\ Names
      /\ pc[t] = "again" /\ stream = Closed
  BY DEF OpenAgain, lineVars, IInv, Held
<1>1. CASE CanOpen
  <2>1. stream' # Closed /\ bad' = FALSE BY <1>0, <1>1, Opening DEF OpenAgain, Closed, Inodes
  <2> QED BY <1>0, <2>1 DEF Fit
<1>2. CASE ~CanOpen /\ ~broken
  <2>1. ~(LogDir \in dirs /\ healthy) BY <1>2 DEF CanOpen
  <2>2. \A u \in Threads : ~Trying(u)
    <3>1. m_mutex = t BY <1>0 DEF TypeOK
    <3>2. \A u \in Threads \ {t} : pc[u] \notin {"mkdir", "again"} BY <1>0, <3>1 DEF TypeOK
    <3> QED BY <1>0, <2>1, <3>2 DEF Trying
  <2>3. Excused BY <1>0, <1>2, <2>2 DEF Fit
  <2>4. UNCHANGED <<stream, bad>> /\ pc'[t] = "stamp" /\ \A u \in Threads \ {t} : pc'[u] = pc[u]
    BY <1>0, <1>2 DEF OpenAgain, Goto, TypeOK
  <2>5. Excused' BY <1>0, <2>3, <2>4 DEF Excused, Recent
  <2> QED BY <1>0, <2>4, <2>5 DEF Fit
<1>3. CASE ~CanOpen /\ broken BY <1>0, <1>3 DEF Fit
<1> QED BY <1>1, <1>2, <1>3

\* A line that is lost with a stream in order means that a write has failed.
LEMMA FitWriting ==
  ASSUME IInv, Fit, NEW t \in Threads, WriteBegin(t) \/ WriteEnd(t)
  PROVE  Fit'
<1>0. /\ UNCHANGED <<dirs, healthy, lastFault, stream, m_lastTime, now>> /\ TypeOK
      /\ pc[t] \in {"write", "half"}
  BY DEF WriteBegin, WriteEnd, diskVars, IInv
<1>1. pc'[t] \in {"half", "idle"} /\ \A u \in Threads \ {t} : pc'[u] = pc[u]
  BY <1>0 DEF WriteBegin, WriteEnd, Lose, Goto, TypeOK
<1>2. Excused => Excused' BY <1>0, <1>1 DEF Excused, Recent
<1>3. \A u \in Threads : Trying(u) => Trying(u)' BY <1>0, <1>1 DEF Trying
<1>4. CASE UNCHANGED <<broken, bad>> BY <1>0, <1>2, <1>3, <1>4 DEF Fit
<1>5. CASE Lose(t)
  <2>1. bad' = TRUE /\ (broken' = (broken \/ Usable)) BY <1>5 DEF Lose
  <2>2. ~broken' => ~broken /\ stream = Closed BY <2>1 DEF Usable, Fit
  <2> QED BY <1>0, <1>2, <1>3, <2>2 DEF Fit
<1> QED BY <1>4, <1>5 DEF WriteBegin, WriteEnd

\* While no write has failed, a line is lost only within three seconds of a failure of the disk or the
\* removal of a directory, whatever other threads do to the stream and m_lastTime between its test and
\* its writing (log.cpp:498-505, util.cpp:368-378).
THEOREM LossIsFaultHolds == Spec => LossIsFault
<1>1. Init => Fit BY DEF Init, Fit, Closed
<1>2. IInv /\ Fit /\ [Next]_vars => Fit'
  <2> SUFFICES ASSUME IInv, Fit, [Next]_vars PROVE Fit' OBVIOUS
  <2>1. CASE Environment BY <2>1, FitSurroundings
  <2>2. ASSUME NEW t \in Threads, Log(t) PROVE Fit'
    BY <2>2, FitWaiting, FitReopening, FitMaking, FitOpeningAgain, FitStamping, FitWriting DEF Log
  <2>3. CASE UNCHANGED vars
    BY <2>3 DEF vars, diskVars, streamVars, lineVars, Fit, Excused, Recent, Trying
  <2> QED BY <2>1, <2>2, <2>3 DEF Next
<1>3. IInv /\ Fit /\ [Next]_vars => [\A t \in Threads :
        pc[t] \in {"write", "half"} /\ pc'[t] = "idle" /\ contents' = contents
          => \/ broken \/ ~healthy
             \/ lastFault > now[t] - Period]_vars
  <2> SUFFICES ASSUME IInv, Fit, Next, NEW t \in Threads, pc[t] \in {"write", "half"}, pc'[t] = "idle",
                      contents' = contents, ~broken, healthy
               PROVE  lastFault > now[t] - Period
    OBVIOUS
  <2>0. TypeOK /\ Held /\ pc[t] \in {"write", "half"} BY DEF IInv
  <2>1. WriteBegin(t) \/ WriteEnd(t)
    <3>1. ASSUME Environment PROVE FALSE BY <2>0, <3>1 DEF Environment
    <3>2. ASSUME NEW u \in Threads \ {t}, Log(u) PROVE FALSE
      <4>1. \E c : pc' = [pc EXCEPT ![u] = c]
        BY <3>2 DEF Log, Event, Check, Reopen, Mkdirs, OpenAgain, Stamp, WriteBegin, WriteEnd, Lose, Goto
      <4> QED BY <2>0, <4>1 DEF TypeOK
    <3>3. Log(t) BY <3>1, <3>2 DEF Next
    <3> QED BY <2>0, <3>3 DEF Log, Event, Check, Reopen, Mkdirs, OpenAgain, Stamp
  <2>2. ~Usable
    <3>1. CASE Usable /\ WriteBegin(t)
      <4>1. pc' = [pc EXCEPT ![t] = "half"] BY <3>1 DEF WriteBegin, Goto
      <4> QED BY <2>0, <4>1 DEF TypeOK
    <3>2. CASE Usable /\ WriteEnd(t)
      <4>1. contents' = [contents EXCEPT ![stream] = Append(@, <<t, now[t], 2>>)]
        BY <3>2 DEF WriteEnd, Half
      <4>2. stream \in Inodes /\ contents[stream] \in Seq(Line)
        BY <2>0, <3>2 DEF Usable, TypeOK, Line
      <4>3. contents[stream] = Append(contents[stream], <<t, now[t], 2>>)
        BY <2>0, <4>1, <4>2 DEF TypeOK
      <4>4. Len(Append(contents[stream], <<t, now[t], 2>>)) = Len(contents[stream]) + 1 BY <4>2
      <4>5. Len(contents[stream]) \in Nat BY <4>2
      <4> QED BY <4>3, <4>4, <4>5
    <3> QED BY <2>1, <3>1, <3>2
  <2>3. stream = Closed BY <2>2 DEF Usable, Fit
  <2>4. pc[t] = "write" BY <2>0, <2>2 DEF Held
  <2>5. m_mutex = None BY <2>1, <2>4 DEF WriteBegin, WriteEnd
  <2>6. \A u \in Threads : ~Trying(u) BY <2>0, <2>5 DEF TypeOK, Trying
  <2>7. Recent(now[t] - 2) BY <2>3, <2>4, <2>6 DEF Fit, Excused
  <2>8. now[t] \in 0 .. MaxClock /\ lastFault \in 0 .. MaxClock BY <2>0 DEF TypeOK
  <2> QED BY <2>7, <2>8 DEF Recent, Period
<1> QED BY <1>1, <1>2, <1>3, Inductive, PTL DEF Spec, LossIsFault

-----------------------------------------------------------------------------
(* Paths. *)

HIDE FileAssumption

Path == Seq(STRING)

\* That q is p or a directory that p is in.
Within(p, q) == p = q \/ IsBelow(p, q)

\* Paths are the same if their names are.
LEMMA SamePath ==
  ASSUME NEW p \in Path, NEW q \in Path, Len(p) = Len(q), \A i \in 1 .. Len(p) : p[i] = q[i]
  PROVE  p = q
  BY DEF Path

\* The first names of a path.
LEMMA FirstNames ==
  ASSUME NEW p \in Path, NEW n \in 0 .. Len(p)
  PROVE  /\ SubSeq(p, 1, n) \in Path /\ Len(SubSeq(p, 1, n)) = n
         /\ \A i \in 1 .. n : SubSeq(p, 1, n)[i] = p[i]
  BY DEF Path

\* What is below, name by name.
LEMMA BelowIs ==
  ASSUME NEW p \in Path, NEW q \in Path
  PROVE  /\ IsBelow(p, q) <=> Len(q) < Len(p) /\ \A i \in 1 .. Len(q) : p[i] = q[i]
         /\ Within(p, q) <=> Len(q) <= Len(p) /\ \A i \in 1 .. Len(q) : p[i] = q[i]
         /\ Len(p) \in Nat /\ Len(q) \in Nat
<1>1. Len(p) \in Nat /\ Len(q) \in Nat
  BY DEF Path
<1>2. ASSUME Len(q) < Len(p)
      PROVE  SubSeq(p, 1, Len(q)) = q <=> \A i \in 1 .. Len(q) : p[i] = q[i]
  <2>1. /\ SubSeq(p, 1, Len(q)) \in Path /\ Len(SubSeq(p, 1, Len(q))) = Len(q)
        /\ \A i \in 1 .. Len(q) : SubSeq(p, 1, Len(q))[i] = p[i]
    BY <1>1, <1>2 DEF Path
  <2> DEFINE s == SubSeq(p, 1, Len(q))
  <2>2. s = q => \A i \in 1 .. Len(q) : p[i] = q[i]
    BY <2>1
  <2>3. (\A i \in 1 .. Len(q) : p[i] = q[i]) => s = q
    <3> HIDE DEF s
    <3>1. s \in Path /\ Len(s) = Len(q) /\ \A i \in 1 .. Len(q) : s[i] = p[i]
      BY <2>1 DEF s
    <3> QED BY <3>1, SamePath
  <2> QED BY <2>2, <2>3
<1>3. IsBelow(p, q) <=> Len(q) < Len(p) /\ \A i \in 1 .. Len(q) : p[i] = q[i]
  BY <1>2 DEF IsBelow
<1>4. Len(p) = Len(q) => (p = q <=> \A i \in 1 .. Len(q) : p[i] = q[i])
  BY SamePath
<1> QED BY <1>1, <1>3, <1>4 DEF Within

\* The directory a path is in.
LEMMA DirnameIs ==
  ASSUME NEW p \in Path, p # <<>>
  PROVE  /\ Dirname(p) \in Path /\ Len(Dirname(p)) = Len(p) - 1 /\ Len(p) >= 1
         /\ \A i \in 1 .. Len(p) - 1 : Dirname(p)[i] = p[i]
         /\ IsBelow(p, Dirname(p))
<1>1. Len(p) \in Nat /\ Len(p) >= 1
  BY DEF Path
<1>2. /\ Dirname(p) \in Path /\ Len(Dirname(p)) = Len(p) - 1
      /\ \A i \in 1 .. Len(p) - 1 : Dirname(p)[i] = p[i]
  <2>1. Len(p) - 1 \in 0 .. Len(p)
    BY <1>1
  <2> QED BY <2>1, FirstNames DEF Dirname
<1>3. IsBelow(p, Dirname(p))
  <2> DEFINE d == Dirname(p)
  <2>1. d \in Path /\ Len(d) = Len(p) - 1 /\ \A i \in 1 .. Len(d) : d[i] = p[i]
    BY <1>2
  <2> HIDE DEF d
  <2>2. IsBelow(p, d)
    BY <1>1, <2>1, BelowIs
  <2> QED BY <2>2 DEF d
<1> QED BY <1>1, <1>2, <1>3

\* A child is what has the path as its directory.
LEMMA ChildIs ==
  ASSUME NEW c \in Path, NEW p \in Path
  PROVE  Len(c) = Len(p) + 1 /\ IsBelow(c, p) <=> c # <<>> /\ Dirname(c) = p
<1>1. Len(c) \in Nat /\ Len(p) \in Nat /\ Len(<<>>) = 0
  BY BelowIs
<1>2. ASSUME Len(c) = Len(p) + 1, IsBelow(c, p) PROVE c # <<>> /\ Dirname(c) = p
  <2>1. c # <<>>
    BY <1>1, <1>2
  <2> DEFINE d == Dirname(c)
  <2>2. d \in Path /\ Len(d) = Len(p) /\ \A i \in 1 .. Len(p) : d[i] = c[i]
    BY <1>1, <1>2, <2>1, DirnameIs
  <2> HIDE DEF d
  <2>3. \A i \in 1 .. Len(p) : c[i] = p[i]
    BY <1>2, BelowIs
  <2>4. d = p
    BY <2>2, <2>3, SamePath
  <2> QED BY <2>1, <2>4 DEF d
<1>3. ASSUME c # <<>>, Dirname(c) = p PROVE Len(c) = Len(p) + 1 /\ IsBelow(c, p)
  BY <1>1, <1>3, DirnameIs
<1> QED BY <1>2, <1>3

\* Two paths that something is in are one within the other.
LEMMA OneLine ==
  ASSUME NEW x \in Path, NEW p \in Path, NEW q \in Path, Within(x, p), Within(x, q)
  PROVE  /\ p = q \/ IsBelow(p, q) \/ IsBelow(q, p)
         /\ Len(p) = Len(q) => p = q
<1>1. /\ Len(p) <= Len(x) /\ \A i \in 1 .. Len(p) : x[i] = p[i]
      /\ Len(q) <= Len(x) /\ \A i \in 1 .. Len(q) : x[i] = q[i]
      /\ Len(p) \in Nat /\ Len(q) \in Nat
  BY BelowIs
<1>2. CASE Len(p) = Len(q)
  BY <1>1, <1>2, SamePath
<1>3. CASE Len(p) < Len(q)
  <2>1. \A i \in 1 .. Len(p) : q[i] = p[i]
    BY <1>1, <1>3
  <2> QED BY <1>1, <1>3, <2>1, BelowIs
<1>4. CASE Len(q) < Len(p)
  <2>1. \A i \in 1 .. Len(q) : p[i] = q[i]
    BY <1>1, <1>4
  <2> QED BY <1>1, <1>4, <2>1, BelowIs
<1> QED BY <1>1, <1>2, <1>3, <1>4

\* What is in something that is in a third is in that.
LEMMA WithinTwice ==
  ASSUME NEW x \in Path, NEW y \in Path, NEW z \in Path, Within(x, y), Within(y, z)
  PROVE  Within(x, z)
<1>1. /\ Len(y) <= Len(x) /\ \A i \in 1 .. Len(y) : x[i] = y[i]
      /\ Len(z) <= Len(y) /\ \A i \in 1 .. Len(z) : y[i] = z[i]
      /\ Len(x) \in Nat /\ Len(y) \in Nat /\ Len(z) \in Nat
  BY BelowIs
<1>2. Len(z) <= Len(x) /\ \A i \in 1 .. Len(z) : x[i] = z[i]
  BY <1>1
<1> QED BY <1>2, BelowIs

\* No path of the file systems is longer than all of them.
LEMMA PathsEnd == \E N \in Nat : \A p \in Paths : Len(p) <= N
<1>0. PICK n \in Nat : ExistsSurjection(1 .. n, Paths)
  BY PathsAssumption, FS_NatSurjection
<1>1. PICK f \in Surjection(1 .. n, Paths) : TRUE
  BY <1>0 DEF ExistsSurjection
<1>2. f \in [1 .. n -> Paths] /\ \A p \in Paths : \E i \in 1 .. n : f[i] = p
  BY <1>1 DEF Surjection
<1> DEFINE A == {k \in 0 .. n : \E N \in Nat : \A i \in 1 .. k : Len(f[i]) <= N}
<1>3. 0 \in A
  OBVIOUS
<1>4. ASSUME NEW k \in 0 .. n - 1, k \in A PROVE k + 1 \in A
  <2>1. PICK N \in Nat : \A i \in 1 .. k : Len(f[i]) <= N
    BY <1>4
  <2>2. Len(f[k + 1]) \in Nat
    <3>1. f[k + 1] \in Paths
      BY <1>2
    <3>2. f[k + 1] \in Seq(STRING)
      BY <3>1, PathsAssumption
    <3> QED BY <3>2
  <2>3. \E M \in Nat : N <= M /\ Len(f[k + 1]) <= M
    BY <2>2
  <2>4. PICK M \in Nat : N <= M /\ Len(f[k + 1]) <= M
    BY <2>3
  <2>5. ASSUME NEW i \in 1 .. k + 1 PROVE Len(f[i]) <= M
    <3>1. CASE i = k + 1
      BY <2>4, <3>1
    <3>2. CASE i \in 1 .. k
      <4>1. f[i] \in Paths
        BY <1>2, <3>2
      <4>2. Len(f[i]) \in Nat
        BY <4>1, PathsAssumption
      <4> QED BY <2>1, <2>4, <3>2, <4>2
    <3> QED BY <3>1, <3>2
  <2>6. \E L \in Nat : \A i \in 1 .. k + 1 : Len(f[i]) <= L
    BY <2>5
  <2>7. k + 1 \in 0 .. n
    BY <1>0
  <2> QED BY <2>6, <2>7
<1>5. \A k \in 0 .. n : k \in A
  <2>1. \A k \in 0 .. n - 1 : k \in A => k + 1 \in A
    BY <1>4
  <2> HIDE DEF A
  <2> QED BY <1>1, <1>3, <2>1, Climb
<1>6. n \in A
  <2> HIDE DEF A
  <2> QED BY <1>5
<1>7. PICK N \in Nat : \A i \in 1 .. n : Len(f[i]) <= N
  BY <1>6
<1> QED BY <1>2, <1>7

-----------------------------------------------------------------------------
(* The file systems, and Mkdir. *)

Places == Paths \cup {<<>>}

\* What a file system is.
LEMMA FileSystemIs ==
  ASSUME NEW fs \in FileSystems
  PROVE  /\ fs \in [dirs : SUBSET Places, files : SUBSET Paths,
                    readonly : SUBSET Places, unreadable : SUBSET Places]
         /\ <<>> \in fs.dirs /\ fs.dirs \cap fs.files = {} /\ <<>> \notin fs.files
         /\ \A p \in Entries(fs) \ {<<>>} : p \in Path /\ Dirname(p) \in fs.dirs
         /\ Entries(fs) \subseteq Path
<1>1. PICK ds \in SUBSET Paths :
        fs \in [dirs : {ds \cup {<<>>}}, files : SUBSET (Paths \ ds),
                readonly : {{}} \cup {{d} : d \in ds \cup {<<>>}},
                unreadable : {{}} \cup {{d} : d \in ds}]
  BY DEF FileSystems
<1>2. fs.dirs = ds \cup {<<>>} /\ fs.files \subseteq Paths \ ds
  BY <1>1
<1>3. fs.readonly \subseteq Places /\ fs.unreadable \subseteq Places
  BY <1>1 DEF Places
<1>4. fs \in [dirs : SUBSET Places, files : SUBSET Paths,
              readonly : SUBSET Places, unreadable : SUBSET Places]
  BY <1>1, <1>2, <1>3 DEF Places
<1>5. \A p \in Entries(fs) \ {<<>>} : Dirname(p) \in fs.dirs
  BY DEF FileSystems
<1>6. <<>> \notin Paths /\ Paths \subseteq Path /\ <<>> \in Path
  BY PathsAssumption DEF Path
<1>7. Entries(fs) \subseteq Path
  BY <1>2, <1>6 DEF Entries
<1> QED BY <1>2, <1>4, <1>5, <1>6, <1>7

\* The directory of a part of a path is the root or a part of it.
LEMMA PrefixOf ==
  ASSUME NEW p \in Path, NEW e \in Prefixes(p)
  PROVE  /\ e \in Path /\ e # <<>> /\ Len(Dirname(e)) <= Len(e)
         /\ Dirname(e) = <<>> \/ Dirname(e) \in Prefixes(p)
<1>1. PICK n \in 1 .. Len(p) : e = SubSeq(p, 1, n)
  BY DEF Prefixes
<1>2. Len(p) \in Nat
  BY DEF Path
<1>3. e \in Path /\ Len(e) = n /\ \A i \in 1 .. n : e[i] = p[i]
  BY <1>1, <1>2 DEF Path
<1>4. e # <<>>
  BY <1>1, <1>3
<1> DEFINE d == Dirname(e)
<1>5. d \in Path /\ Len(d) = n - 1 /\ \A i \in 1 .. n - 1 : d[i] = e[i]
  BY <1>3, <1>4, DirnameIs
<1>6. CASE n = 1
  BY <1>3, <1>4, <1>5, <1>6 DEF Path
<1>7. CASE n # 1
  <2> DEFINE s == SubSeq(p, 1, n - 1)
  <2>1. n - 1 \in 1 .. Len(p)
    BY <1>1, <1>7
  <2>2. s \in Path /\ Len(s) = n - 1 /\ \A i \in 1 .. n - 1 : s[i] = p[i]
    BY <1>2, <2>1 DEF Path
  <2>3. s \in Prefixes(p)
    BY <2>1 DEF Prefixes
  <2> HIDE DEF s, d
  <2>4. d = s
    BY <1>3, <1>5, <2>2, SamePath
  <2> QED BY <1>3, <1>4, <1>5, <2>3, <2>4 DEF d
<1> QED BY <1>6, <1>7

\* A path is a part of itself.
LEMMA WholePath ==
  ASSUME NEW p \in Path, p # <<>>
  PROVE  p \in Prefixes(p)
<1>1. Len(p) \in 1 .. Len(p)
  BY DEF Path
<1>2. SubSeq(p, 1, Len(p)) = p
  BY DEF Path
<1> QED BY <1>1, <1>2 DEF Prefixes

\* Mkdir tells what it has made (util.cpp:183-214).
LEMMA MkdirAnswers == MkdirMakes
<1> SUFFICES ASSUME NEW fs \in FileSystems, NEW p \in Paths
             PROVE  LET r == Mkdir(fs, p)
                    IN /\ r.ret <=> p \in r.dirs \cup fs.files
                       /\ \A d \in r.dirs \ {<<>>} : Dirname(d) \in r.dirs
                       /\ ~r.ret => \E q \in Prefixes(p) \cup {<<>>} : q \in fs.files \cup fs.readonly
  BY DEF MkdirMakes
<1> DEFINE r       == Mkdir(fs, p)
           made    == MkdirMade(fs, p)
           missing == Prefixes(p) \ Entries(fs)
<1>0. p \in Path /\ p # <<>>
  BY PathsAssumption DEF Path
<1>1. /\ <<>> \in fs.dirs /\ Entries(fs) = fs.dirs \cup fs.files
      /\ \A e \in fs.dirs \ {<<>>} : Dirname(e) \in fs.dirs
  BY FileSystemIs DEF Entries
<1>2. r.dirs = fs.dirs \cup made /\ (r.ret <=> p \in Entries(fs) \/ p \in made)
  BY DEF Mkdir
<1>3. made = {d \in missing : \A e \in missing : Len(e) <= Len(d) =>
                Dirname(e) \in (fs.dirs \ fs.readonly) \cup missing}
  BY DEF MkdirMade
<1>4. \A e \in missing : /\ Len(e) \in Nat /\ Len(Dirname(e)) \in Nat /\ Len(Dirname(e)) <= Len(e)
                         /\ Dirname(e) = <<>> \/ Dirname(e) \in Prefixes(p)
  <2>1. ASSUME NEW e \in missing
        PROVE  /\ Len(e) \in Nat /\ Len(Dirname(e)) \in Nat /\ Len(Dirname(e)) <= Len(e)
               /\ Dirname(e) = <<>> \/ Dirname(e) \in Prefixes(p)
    <3>1. e \in Prefixes(p)
      OBVIOUS
    <3>2. e \in Path /\ e # <<>> /\ Len(Dirname(e)) <= Len(e) /\ (Dirname(e) = <<>> \/ Dirname(e) \in Prefixes(p))
      BY <1>0, <3>1, PrefixOf
    <3>3. Dirname(e) \in Path
      BY <3>2, DirnameIs
    <3> QED BY <3>2, <3>3 DEF Path
  <2> QED BY <2>1
<1> HIDE DEF r, made, missing
<1>5. \A d \in made : Dirname(d) \in r.dirs
  <2> SUFFICES ASSUME NEW d \in made PROVE Dirname(d) \in r.dirs
    OBVIOUS
  <2>1. d \in missing /\ Dirname(d) \in (fs.dirs \ fs.readonly) \cup missing
    BY <1>3, <1>4
  <2>2. ASSUME Dirname(d) \in missing PROVE Dirname(d) \in made
    <3>1. ASSUME NEW e \in missing, Len(e) <= Len(Dirname(d))
          PROVE  Dirname(e) \in (fs.dirs \ fs.readonly) \cup missing
      <4>1. Len(e) <= Len(d)
        BY <1>4, <2>1, <3>1
      <4> QED BY <1>3, <4>1
    <3> QED BY <1>3, <2>2, <3>1
  <2> QED BY <1>2, <2>1, <2>2
<1>6. \A d \in r.dirs \ {<<>>} : Dirname(d) \in r.dirs
  BY <1>1, <1>2, <1>5
<1>7. r.ret <=> p \in r.dirs \cup fs.files
  BY <1>1, <1>2
<1>8. ASSUME ~r.ret PROVE \E q \in Prefixes(p) \cup {<<>>} : q \in fs.files \cup fs.readonly
  <2>1. p \in missing /\ p \notin made
    BY <1>0, <1>2, <1>8, WholePath DEF missing
  <2>2. PICK e \in missing : Dirname(e) \notin (fs.dirs \ fs.readonly) \cup missing
    BY <1>3, <2>1
  <2>3. Dirname(e) \in Prefixes(p) \cup {<<>>}
    BY <1>4, <2>2
  <2>4. Dirname(e) \in Entries(fs)
    BY <1>1, <2>2, <2>3 DEF missing
  <2> QED BY <1>1, <2>2, <2>3, <2>4
<1> QED BY <1>6, <1>7, <1>8 DEF r

-----------------------------------------------------------------------------
(* Rm. *)

\* What Rm does with one path, when it has done so with those below it.
RmOf(fs, rm, p) ==
  IF p \in fs.files
  THEN [gone |-> IF Writable(fs, p) THEN {p} ELSE {}, rets |-> {Writable(fs, p)}]
  ELSE IF p \in fs.unreadable
  THEN [gone |-> {}, rets |-> {FALSE}]
  ELSE LET kids    == Children(fs, p)
           gone    == UNION {rm[k].gone : k \in kids}
           removed == kids \subseteq gone /\ Writable(fs, p)
       IN [gone |-> gone \cup (IF removed THEN {p} ELSE {}),
           rets |-> RmDir(removed, UNION {rm[k].rets : k \in kids})]

\* It is the same if it is the same with the children.
LEMMA RmOfChildren ==
  ASSUME NEW fs, NEW f, NEW g, NEW p, \A k \in Children(fs, p) : f[k] = g[k]
  PROVE  RmOf(fs, f, p) = RmOf(fs, g, p)
<1>1. {f[k].gone : k \in Children(fs, p)} = {g[k].gone : k \in Children(fs, p)}
  OBVIOUS
<1>2. {f[k].rets : k \in Children(fs, p)} = {g[k].rets : k \in Children(fs, p)}
  OBVIOUS
<1> QED BY <1>1, <1>2 DEF RmOf

\* A child is one of the entries, and longer.
LEMMA ChildrenAre ==
  ASSUME NEW fs \in FileSystems, NEW p \in Entries(fs), NEW c \in Children(fs, p)
  PROVE  /\ c \in Entries(fs) /\ c \in Path /\ p \in Path /\ Len(c) = Len(p) + 1 /\ IsBelow(c, p)
         /\ Len(p) \in Nat /\ c # <<>> /\ Dirname(c) = p
<1>1. c \in Entries(fs) /\ Len(c) = Len(p) + 1 /\ IsBelow(c, p)
  BY DEF Children
<1>2. c \in Path /\ p \in Path
  BY <1>1, FileSystemIs
<1> QED BY <1>1, <1>2, ChildIs, BelowIs

\* So no entry is as long as some number.
LEMMA EntriesEnd ==
  ASSUME NEW fs \in FileSystems
  PROVE  \E N \in Nat : \A p \in Entries(fs) : Len(p) \in Nat /\ Len(p) < N
<1>1. PICK M \in Nat : \A p \in Paths : Len(p) <= M
  BY PathsEnd
<1>2. \A p \in Entries(fs) : p \in Paths \cup {<<>>}
  BY FileSystemIs DEF Entries, Places
<1>3. Len(<<>>) = 0
  OBVIOUS
<1>4. \A p \in Entries(fs) : Len(p) \in Nat
  BY FileSystemIs DEF Path
<1>5. M + 1 \in Nat /\ \A p \in Entries(fs) : Len(p) < M + 1
  BY <1>1, <1>2, <1>3, <1>4
<1> QED BY <1>4, <1>5

\* The recursion of Rm ends: there is what it computes, and RmAll is that.
LEMMA RmAllIs ==
  ASSUME NEW fs \in FileSystems
  PROVE  RmAll(fs) = [p \in Entries(fs) |-> RmOf(fs, RmAll(fs), p)]
<1> DEFINE E == Entries(fs)
           Eq(f) == f = [p \in E |-> RmOf(fs, f, p)]
           U == {}
           H(f) == [p \in E |-> RmOf(fs, f, p)]
<1>1. PICK N \in Nat : \A p \in E : Len(p) \in Nat /\ Len(p) < N
  BY EntriesEnd
\* What n rounds make of nothing.
<1> DEFINE n == N + 2
           Ok(h, k) == /\ DOMAIN h = 0 .. k
                       /\ \A i \in 1 .. k : h[i] = H(h[i - 1])
           A == {k \in 0 .. n : \E h : Ok(h, k)}
<1>2. 0 \in A
  <2>1. Ok([i \in 0 .. 0 |-> U], 0)
    OBVIOUS
  <2> HIDE DEF Ok
  <2> QED BY <1>1, <2>1
<1>3. ASSUME NEW k \in 0 .. n - 1, k \in A PROVE k + 1 \in A
  <2>1. PICK h : Ok(h, k)
    BY <1>3
  <2> DEFINE g == [i \in 0 .. k + 1 |-> IF i = k + 1 THEN H(h[k]) ELSE h[i]]
  <2> HIDE DEF H
  <2>2. ASSUME NEW i \in 1 .. k + 1 PROVE g[i] = H(g[i - 1])
    <3>1. CASE i = k + 1
      <4>1. i - 1 = k /\ k \in 0 .. k + 1 /\ k + 1 \in 0 .. k + 1 /\ k # k + 1
        BY <3>1
      <4>2. g[k] = h[k] /\ g[k + 1] = H(h[k])
        BY <4>1
      <4> QED BY <3>1, <4>1, <4>2
    <3>2. CASE i # k + 1
      <4>1. i \in 1 .. k /\ i - 1 \in 0 .. k + 1 /\ i \in 0 .. k + 1 /\ i - 1 # k + 1
        BY <3>2
      <4>2. g[i] = h[i] /\ g[i - 1] = h[i - 1]
        BY <3>2, <4>1
      <4>3. h[i] = H(h[i - 1])
        BY <2>1, <4>1
      <4> QED BY <4>2, <4>3
    <3> QED BY <3>1, <3>2
  <2>3. DOMAIN g = 0 .. k + 1
    OBVIOUS
  <2> HIDE DEF g
  <2>4. Ok(g, k + 1)
    BY <2>2, <2>3
  <2>5. k + 1 \in 0 .. n
    BY <1>1
  <2> HIDE DEF Ok
  <2> QED BY <2>4, <2>5
<1>4. n \in A
  <2>1. \A k \in 0 .. n - 1 : k \in A => k + 1 \in A
    BY <1>3
  <2>2. n \in Nat /\ n \in 0 .. n
    BY <1>1
  <2> HIDE DEF A, n
  <2> QED BY <1>2, <2>1, <2>2, Climb
<1>5. PICK h : \A i \in 1 .. N + 2 : h[i] = H(h[i - 1])
  BY <1>4
\* From the leaves up, one more round changes nothing.
<1> DEFINE Same(k) == \A p \in E : Len(p) >= N - k => h[k + 2][p] = h[k + 1][p]
           B == {k \in 0 .. N : Same(k)}
<1>6. \A i \in 1 .. N + 2 : \A p \in E : h[i][p] = RmOf(fs, h[i - 1], p)
  <2> SUFFICES ASSUME NEW i \in 1 .. N + 2, NEW p \in E PROVE h[i][p] = RmOf(fs, h[i - 1], p)
    OBVIOUS
  <2>1. h[i] = [q \in E |-> RmOf(fs, h[i - 1], q)]
    BY <1>5
  <2> HIDE DEF E
  <2> QED BY <2>1
<1> HIDE DEF E
<1>7. 0 \in B
  <2>1. \A p \in E : ~(Len(p) >= N - 0)
    BY <1>1
  <2> QED BY <1>1, <2>1
<1>8. ASSUME NEW k \in 0 .. N - 1, k \in B PROVE k + 1 \in B
  <2>1. ASSUME NEW p \in E, Len(p) >= N - (k + 1) PROVE h[k + 3][p] = h[k + 2][p]
    <3>1. \A c \in Children(fs, p) : h[k + 2][c] = h[k + 1][c]
      <4> SUFFICES ASSUME NEW c \in Children(fs, p) PROVE h[k + 2][c] = h[k + 1][c]
        OBVIOUS
      <4>1. c \in E /\ Len(c) = Len(p) + 1
        BY <2>1, ChildrenAre DEF E
      <4>2. Len(c) >= N - k
        BY <1>1, <2>1, <4>1
      <4> QED BY <1>8, <4>1, <4>2
    <3>2. RmOf(fs, h[k + 2], p) = RmOf(fs, h[k + 1], p)
      BY <3>1, RmOfChildren
    <3>3. k + 3 \in 1 .. N + 2 /\ k + 2 \in 1 .. N + 2 /\ (k + 3) - 1 = k + 2 /\ (k + 2) - 1 = k + 1
      BY <1>1
    <3>4. h[k + 3][p] = RmOf(fs, h[k + 2], p) /\ h[k + 2][p] = RmOf(fs, h[k + 1], p)
      BY <1>6, <2>1, <3>3
    <3> QED BY <3>2, <3>4
  <2>2. (k + 1) + 2 = k + 3 /\ (k + 1) + 1 = k + 2 /\ k + 1 \in 0 .. N
    BY <1>1
  <2> QED BY <2>1, <2>2
<1>9. N \in B
  <2>1. \A k \in 0 .. N - 1 : k \in B => k + 1 \in B
    BY <1>8
  <2>2. N \in 0 .. N
    BY <1>1
  <2> HIDE DEF B
  <2> QED BY <1>1, <1>7, <2>1, <2>2, Climb
<1> DEFINE f == h[N + 1]
<1>10. Eq(f)
  <2>1. \A p \in E : f[p] = RmOf(fs, f, p)
    <3> SUFFICES ASSUME NEW p \in E PROVE f[p] = RmOf(fs, f, p)
      OBVIOUS
    <3>1. Len(p) >= N - N /\ N + 2 \in 1 .. N + 2 /\ (N + 2) - 1 = N + 1
      BY <1>1
    <3>2. h[N + 2][p] = h[N + 1][p]
      BY <1>9, <3>1
    <3>3. h[N + 2][p] = RmOf(fs, h[N + 1], p)
      BY <1>6, <3>1
    <3> QED BY <3>2, <3>3
  <2>2. f = [p \in E |-> f[p]]
    <3>1. N + 1 \in 1 .. N + 2
      BY <1>1
    <3>2. f = H(h[(N + 1) - 1])
      BY <1>5, <3>1
    <3> QED BY <3>2 DEF H
  <2>3. [p \in E |-> f[p]] = [p \in E |-> RmOf(fs, f, p)]
    <3> HIDE DEF f
    <3> QED BY <2>1
  <2> HIDE DEF f
  <2> QED BY <2>2, <2>3
<1>11. RmAll(fs) = CHOOSE rm : Eq(rm)
  BY DEF RmAll, RmOf, E
<1>12. \E rm : Eq(rm)
  <2> HIDE DEF Eq
  <2> QED BY <1>10
<1>13. Eq(RmAll(fs))
  <2> HIDE DEF Eq
  <2> QED BY <1>11, <1>12
<1> QED BY <1>13 DEF E

\* What a caller may be told is that all is gone, or that not.
LEMMA RmDirIs ==
  ASSUME NEW removed \in BOOLEAN, NEW answers \in SUBSET BOOLEAN
  PROVE  /\ RmDir(removed, answers) \in SUBSET BOOLEAN
         /\ ~removed => \A a \in RmDir(removed, answers) : a = FALSE
         /\ removed /\ (\A a \in answers : a = TRUE) => \A a \in RmDir(removed, answers) : a = TRUE
<1> DEFINE all == IF answers = {} THEN {TRUE} ELSE answers
<1>1. RmDir(removed, answers) = {removed /\ a : a \in all}
  BY DEF RmDir
<1>2. \A a \in all : a \in BOOLEAN
  OBVIOUS
<1>3. (\A a \in answers : a = TRUE) => \A a \in all : a = TRUE
  OBVIOUS
<1> HIDE DEF all
<1>4. \A r \in RmDir(removed, answers) : \E a \in all : r = (removed /\ a)
  BY <1>1
<1>5. ASSUME NEW r \in RmDir(removed, answers)
      PROVE  /\ r \in BOOLEAN
             /\ ~removed => r = FALSE
             /\ removed /\ (\A a \in answers : a = TRUE) => r = TRUE
  <2>1. PICK a \in all : r = (removed /\ a)
    BY <1>4
  <2>2. a \in BOOLEAN
    BY <1>2
  <2> QED BY <1>3, <2>1, <2>2
<1> QED BY <1>5

\* What Rm does with a path: it removes within the path only, says whether the path itself is gone,
\* and of what is gone everything below is gone.
RmSays(fs, p, r) ==
  /\ r.gone \subseteq {q \in Entries(fs) : Within(q, p)}
  /\ \A ret \in r.rets : ret \in BOOLEAN /\ (ret = TRUE <=> p \in r.gone)
  /\ \A q \in r.gone : Children(fs, q) \subseteq r.gone

\* It does so with a file, which has no children.
LEMMA RmFile ==
  ASSUME NEW fs \in FileSystems, NEW p \in fs.files
  PROVE  /\ Children(fs, p) = {}
         /\ \A f : RmSays(fs, p, RmOf(fs, f, p))
<1>1. p \in Entries(fs) /\ p \notin fs.dirs
  BY FileSystemIs DEF Entries
<1>2. Children(fs, p) = {}
  <2> SUFFICES ASSUME NEW c \in Children(fs, p) PROVE FALSE
    OBVIOUS
  <2>1. c \in Entries(fs) /\ c # <<>> /\ Dirname(c) = p
    BY <1>1, ChildrenAre
  <2> QED BY <1>1, <2>1, FileSystemIs
<1>3. ASSUME NEW f PROVE RmSays(fs, p, RmOf(fs, f, p))
  <2> DEFINE w == Writable(fs, p)
             r == RmOf(fs, f, p)
  <2>1. r = [gone |-> IF w THEN {p} ELSE {}, rets |-> {w}]
    BY DEF RmOf
  <2>2. w \in BOOLEAN
    BY DEF Writable
  <2> HIDE DEF w, r
  <2>3. r.gone = (IF w THEN {p} ELSE {}) /\ r.rets = {w}
    BY <2>1
  <2>4. r.gone \subseteq {q \in Entries(fs) : Within(q, p)}
    BY <1>1, <2>3 DEF Within
  <2>5. \A ret \in r.rets : ret \in BOOLEAN /\ (ret = TRUE <=> p \in r.gone)
    BY <2>2, <2>3
  <2>6. \A q \in r.gone : Children(fs, q) \subseteq r.gone
    BY <1>2, <2>3
  <2> QED BY <2>4, <2>5, <2>6 DEF RmSays, r
<1> QED BY <1>2, <1>3

\* If it did so with the children, it does so with the directory.
LEMMA RmDirectory ==
  ASSUME NEW fs \in FileSystems, NEW f, NEW p \in Entries(fs), p \notin fs.files,
         \A k \in Children(fs, p) : RmSays(fs, k, f[k])
  PROVE  RmSays(fs, p, RmOf(fs, f, p))
<1> DEFINE kids    == Children(fs, p)
           gone    == UNION {f[k].gone : k \in kids}
           answers == UNION {f[k].rets : k \in kids}
           removed == kids \subseteq gone /\ Writable(fs, p)
           all     == gone \cup (IF removed THEN {p} ELSE {})
           r       == RmOf(fs, f, p)
<1>1. CASE p \in fs.unreadable
  <2>1. r.gone = {} /\ r.rets = {FALSE}
    BY <1>1 DEF RmOf
  <2> HIDE DEF r
  <2>2. RmSays(fs, p, r)
    BY <2>1 DEF RmSays
  <2> QED BY <2>2 DEF r
<1>2. CASE p \notin fs.unreadable
  <2>1. r.gone = all /\ r.rets = RmDir(removed, answers)
    BY <1>2 DEF RmOf
  <2>2. \A k \in kids : /\ k \in Entries(fs) /\ k \in Path /\ Len(k) = Len(p) + 1
                        /\ IsBelow(k, p) /\ RmSays(fs, k, f[k])
    BY ChildrenAre
  <2>3. p \in Path
    BY FileSystemIs
  <2>4. removed \in BOOLEAN
    BY DEF Writable
  <2>5. \A q \in gone : \E k \in kids : q \in f[k].gone
    OBVIOUS
  <2>6. \A k \in kids : \A q \in f[k].gone : q \in gone
    OBVIOUS
  <2>7. \A a \in answers : \E k \in kids : a \in f[k].rets
    OBVIOUS
  <2>8. removed => kids \subseteq gone
    OBVIOUS
  <2>9. all = gone \cup (IF removed THEN {p} ELSE {})
    OBVIOUS
  <2> HIDE DEF kids, gone, answers, removed, all, r
  <2>10. \A q \in gone : q \in Entries(fs) /\ q \in Path /\ IsBelow(q, p)
    <3> SUFFICES ASSUME NEW q \in gone PROVE q \in Entries(fs) /\ q \in Path /\ IsBelow(q, p)
      OBVIOUS
    <3>1. PICK k \in kids : q \in f[k].gone
      BY <2>5
    <3>2. q \in Entries(fs) /\ Within(q, k)
      BY <2>2, <3>1 DEF RmSays
    <3>3. q \in Path
      BY <3>2, FileSystemIs
    <3>4. Within(q, p)
      BY <2>2, <2>3, <3>2, <3>3, WithinTwice DEF Within
    <3>5. Len(q) >= Len(k) /\ Len(k) \in Nat /\ Len(q) \in Nat /\ Len(p) \in Nat
      BY <2>2, <2>3, <3>2, <3>3, BelowIs
    <3>6. q # p
      BY <2>2, <3>5
    <3> QED BY <3>2, <3>3, <3>4, <3>6 DEF Within
  <2>11. p \notin gone
    BY <2>3, <2>10, BelowIs
  <2>12. all \subseteq {q \in Entries(fs) : Within(q, p)}
    BY <2>9, <2>10 DEF Within
  <2>13. p \in all <=> removed
    BY <2>9, <2>11
  <2>14. ASSUME removed, NEW a \in answers PROVE a = TRUE
    <3>1. PICK k \in kids : a \in f[k].rets
      BY <2>7
    <3>2. PICK j \in kids : k \in f[j].gone
      BY <2>5, <2>8, <2>14
    <3>3. Within(k, j) /\ Within(k, k)
      BY <2>2, <3>2 DEF RmSays, Within
    <3>4. j = k
      BY <2>2, <3>3, OneLine
    <3> QED BY <2>2, <3>1, <3>2, <3>4 DEF RmSays
  <2>15. answers \in SUBSET BOOLEAN
    BY <2>2, <2>7 DEF RmSays
  <2>16. \A ret \in r.rets : ret \in BOOLEAN /\ (ret = TRUE <=> removed)
    <3>1. CASE removed
      <4>1. \A a \in answers : a = TRUE
        BY <2>14, <3>1
      <4>2. /\ RmDir(removed, answers) \in SUBSET BOOLEAN
            /\ removed /\ (\A a \in answers : a = TRUE) => \A a \in RmDir(removed, answers) : a = TRUE
        BY <2>4, <2>15, RmDirIs, Zenon
      <4>3. r.rets \in SUBSET BOOLEAN /\ \A ret \in r.rets : ret = TRUE
        BY <2>1, <3>1, <4>1, <4>2, Zenon
      <4> QED BY <3>1, <4>3
    <3>2. CASE ~removed
      <4>1. /\ RmDir(removed, answers) \in SUBSET BOOLEAN
            /\ ~removed => \A a \in RmDir(removed, answers) : a = FALSE
        BY <2>4, <2>15, RmDirIs, Zenon
      <4>2. r.rets \in SUBSET BOOLEAN /\ \A ret \in r.rets : ret = FALSE
        BY <2>1, <3>2, <4>1, Zenon
      <4> QED BY <3>2, <4>2
    <3> QED BY <3>1, <3>2
  <2>17. ASSUME NEW q \in all PROVE Children(fs, q) \subseteq all
    <3>1. CASE q \in gone
      <4>1. PICK k \in kids : q \in f[k].gone
        BY <2>5, <3>1
      <4>2. Children(fs, q) \subseteq f[k].gone
        BY <2>2, <4>1 DEF RmSays
      <4> QED BY <2>6, <2>9, <4>2
    <3>2. CASE removed /\ q = p
      BY <2>8, <2>9, <3>2 DEF kids
    <3> QED BY <2>9, <2>17, <3>1, <3>2
  <2> QED BY <2>1, <2>12, <2>13, <2>16, <2>17 DEF RmSays, r
<1> QED BY <1>1, <1>2

\* Rm does so with every entry (util.cpp:253-288).
LEMMA RmAllSays ==
  ASSUME NEW fs \in FileSystems
  PROVE  \A p \in Entries(fs) : RmSays(fs, p, RmAll(fs)[p])
<1> DEFINE E == Entries(fs)
           f == RmAll(fs)
<1>1. \A p \in E : f[p] = RmOf(fs, f, p)
  <2> SUFFICES ASSUME NEW p \in E PROVE f[p] = RmOf(fs, f, p)
    OBVIOUS
  <2>1. f = [q \in E |-> RmOf(fs, f, q)]
    BY RmAllIs
  <2> HIDE DEF f, E
  <2> QED BY <2>1
<1>2. PICK N \in Nat : \A p \in E : Len(p) \in Nat /\ Len(p) < N
  BY EntriesEnd
<1> DEFINE B == {k \in 0 .. N : \A p \in E : Len(p) >= N - k => RmSays(fs, p, f[p])}
<1>3. 0 \in B
  <2>1. \A p \in E : ~(Len(p) >= N - 0)
    BY <1>2
  <2> HIDE DEF E, f
  <2> QED BY <1>2, <2>1
<1>4. ASSUME NEW k \in 0 .. N - 1, k \in B PROVE k + 1 \in B
  <2>1. ASSUME NEW p \in E, Len(p) >= N - (k + 1) PROVE RmSays(fs, p, f[p])
    <3>1. ASSUME NEW c \in Children(fs, p) PROVE RmSays(fs, c, f[c])
      <4>1. c \in E /\ Len(c) = Len(p) + 1
        BY <2>1, ChildrenAre DEF E
      <4>2. Len(c) >= N - k
        BY <1>2, <2>1, <4>1
      <4> HIDE DEF E, f
      <4> QED BY <1>4, <4>1, <4>2
    <3>2. CASE p \in fs.files
      <4>1. RmSays(fs, p, RmOf(fs, f, p))
        BY <3>2, RmFile
      <4> HIDE DEF f
      <4> QED BY <1>1, <2>1, <4>1
    <3>3. CASE p \notin fs.files
      <4>1. RmSays(fs, p, RmOf(fs, f, p))
        <5> HIDE DEF f
        <5> QED BY <2>1, <3>1, <3>3, RmDirectory
      <4> HIDE DEF f
      <4> QED BY <1>1, <2>1, <4>1
    <3> QED BY <3>2, <3>3
  <2>2. k + 1 \in 0 .. N
    BY <1>2
  <2> HIDE DEF E, f
  <2> QED BY <2>1, <2>2
<1>5. N \in B
  <2>1. \A k \in 0 .. N - 1 : k \in B => k + 1 \in B
    BY <1>4
  <2>2. N \in 0 .. N
    BY <1>2
  <2> HIDE DEF B
  <2> QED BY <1>2, <1>3, <2>1, <2>2, Climb
<1>6. \A p \in E : Len(p) >= N - N
  BY <1>2
<1>7. \A p \in E : RmSays(fs, p, f[p])
  <2> HIDE DEF E, f
  <2> QED BY <1>5, <1>6
<1> QED BY <1>7

\* What is left by Rm, of which it tells the truth.
LEMMA RmLeaves ==
  ASSUME NEW fs \in FileSystems, NEW p \in Path
  PROVE  LET r == Rm(fs, p)
             l == Without(fs, r.gone)
         IN /\ l \in [dirs : {fs.dirs \ r.gone}, files : {fs.files \ r.gone},
                      readonly : {fs.readonly}, unreadable : {fs.unreadable}]
            /\ l.dirs = fs.dirs \ r.gone /\ l.files = fs.files \ r.gone
            /\ Entries(l) = Entries(fs) \ r.gone
            /\ r.gone \subseteq {q \in Entries(fs) : Within(q, p)}
            /\ \A ret \in r.rets : ret \in BOOLEAN /\ (ret = TRUE <=> p \notin Entries(fs) \ r.gone)
            /\ \A q \in Entries(fs) \ r.gone : q # <<>> => Dirname(q) \in fs.dirs \ r.gone
<1> DEFINE r == Rm(fs, p)
<1>1. /\ Without(fs, r.gone) \in [dirs : {fs.dirs \ r.gone}, files : {fs.files \ r.gone},
                                 readonly : {fs.readonly}, unreadable : {fs.unreadable}]
      /\ Without(fs, r.gone).dirs = fs.dirs \ r.gone
      /\ Without(fs, r.gone).files = fs.files \ r.gone
  BY FileSystemIs DEF Without
<1>2. Entries(Without(fs, r.gone)) = Entries(fs) \ r.gone
  BY <1>1 DEF Entries
<1>3. /\ r.gone \subseteq {q \in Entries(fs) : Within(q, p)}
      /\ \A ret \in r.rets : ret \in BOOLEAN /\ (ret = TRUE <=> p \notin Entries(fs) \ r.gone)
      /\ \A q \in r.gone : Children(fs, q) \subseteq r.gone
  <2>1. CASE p \in Entries(fs)
    <3>1. r = RmAll(fs)[p]
      BY <2>1 DEF Rm
    <3>2. RmSays(fs, p, r)
      BY <2>1, <3>1, RmAllSays
    <3> QED BY <2>1, <3>2 DEF RmSays
  <2>2. CASE p \notin Entries(fs)
    <3>1. r.gone = {} /\ r.rets = {TRUE}
      BY <2>2 DEF Rm
    <3> QED BY <2>2, <3>1
  <2> QED BY <2>1, <2>2
<1>4. ASSUME NEW q \in Entries(fs) \ r.gone, q # <<>> PROVE Dirname(q) \in fs.dirs \ r.gone
  <2>1. q \in Path /\ Dirname(q) \in fs.dirs
    BY <1>4, FileSystemIs
  <2>2. Dirname(q) \in Path /\ Len(q) = Len(Dirname(q)) + 1 /\ IsBelow(q, Dirname(q))
    BY <1>4, <2>1, DirnameIs, BelowIs, ChildIs
  <2>3. q \in Children(fs, Dirname(q))
    BY <2>2 DEF Children
  <2> QED BY <1>3, <2>1, <2>3
<1> QED BY <1>1, <1>2, <1>3, <1>4

\* Rm tells whether the path is gone (util.cpp:253-288).
LEMMA RmAnswers == RmMeansGone
<1> SUFFICES ASSUME NEW fs \in FileSystems, NEW p \in Paths
             PROVE  LET r == Rm(fs, p)
                    IN /\ \A ret \in r.rets : ret <=> p \notin Entries(Without(fs, r.gone))
                       /\ \A q \in Entries(Without(fs, r.gone)) \ {<<>>} : Dirname(q) \in Without(fs, r.gone).dirs
  BY DEF RmMeansGone
<1> DEFINE r == Rm(fs, p)
<1>1. p \in Path
  BY PathsAssumption DEF Path
<1>2. /\ Without(fs, r.gone).dirs = fs.dirs \ r.gone
      /\ Entries(Without(fs, r.gone)) = Entries(fs) \ r.gone
      /\ \A ret \in r.rets : ret \in BOOLEAN /\ (ret = TRUE <=> p \notin Entries(fs) \ r.gone)
      /\ \A q \in Entries(fs) \ r.gone : q # <<>> => Dirname(q) \in fs.dirs \ r.gone
  BY <1>1, RmLeaves
<1> HIDE DEF r
<1>3. \A ret \in r.rets : ret <=> p \notin Entries(Without(fs, r.gone))
  BY <1>2
<1>4. \A q \in Entries(Without(fs, r.gone)) \ {<<>>} : Dirname(q) \in Without(fs, r.gone).dirs
  BY <1>2
<1> QED BY <1>3, <1>4 DEF r

-----------------------------------------------------------------------------
(* Mv. *)

\* Where a path is after what it is in has another name.
NewName(p, from, to) == to \o SubSeq(p, Len(from) + 1, Len(p))

\* It is within the new name, and is the new name only if it was the old one.
LEMMA NewNameIs ==
  ASSUME NEW p \in Path, NEW from \in Path, NEW to \in Path, Within(p, from)
  PROVE  /\ NewName(p, from, to) \in Path /\ Within(NewName(p, from, to), to)
         /\ p = from => NewName(p, from, to) = to
         /\ IsBelow(p, from) => NewName(p, from, to) # to
<1> DEFINE s == SubSeq(p, Len(from) + 1, Len(p))
           m == to \o s
<1>1. Len(p) \in Nat /\ Len(from) \in Nat /\ Len(to) \in Nat /\ Len(from) <= Len(p)
  BY BelowIs
<1>2. s \in Path /\ Len(s) = Len(p) - Len(from)
  <2>1. \A i \in Len(from) + 1 .. Len(p) : p[i] \in STRING
    BY <1>1 DEF Path
  <2>2. Len(from) + 1 \in Int /\ Len(p) \in Int
    BY <1>1
  <2>3. /\ s \in Seq(STRING)
        /\ Len(s) = IF Len(from) + 1 <= Len(p) THEN Len(p) - (Len(from) + 1) + 1 ELSE 0
    BY <2>1, <2>2, SubSeqProperties
  <2> HIDE DEF s
  <2> QED BY <1>1, <2>3 DEF Path
<1> HIDE DEF s
<1>3. m \in Path /\ Len(m) = Len(to) + Len(s) /\ \A i \in 1 .. Len(to) : m[i] = to[i]
  <2>1. to \in Seq(STRING) /\ s \in Seq(STRING)
    BY <1>2 DEF Path
  <2>2. /\ to \o s \in Seq(STRING) /\ Len(to \o s) = Len(to) + Len(s)
        /\ \A i \in 1 .. Len(to) : (to \o s)[i] = to[i]
    BY <2>1
  <2> QED BY <2>2 DEF Path
<1> HIDE DEF m
<1>4. Within(m, to)
  BY <1>1, <1>2, <1>3, BelowIs
<1>5. ASSUME p = from PROVE m = to
  BY <1>1, <1>2, <1>3, <1>5, SamePath
<1>6. ASSUME IsBelow(p, from) PROVE m # to
  <2>1. Len(from) < Len(p)
    BY <1>6, BelowIs
  <2> QED BY <1>1, <1>2, <1>3, <2>1
<1> QED BY <1>3, <1>4, <1>5, <1>6 DEF NewName, m, s

\* Paths that are apart have nothing within both of them.
Apart(from, to) == from # to /\ ~IsBelow(from, to) /\ ~IsBelow(to, from)

\* What is within one is not within the other.
LEMMA ApartIs ==
  ASSUME NEW from \in Path, NEW to \in Path, Apart(from, to), NEW q \in Path, Within(q, from)
  PROVE  ~Within(q, to)
  BY OneLine DEF Apart

\* A rename onto nothing: the source is gone, all of it is at the target, and the target is what the
\* source was.
LEMMA RenamedIs ==
  ASSUME NEW l, Entries(l) \subseteq Path, l.files \cap l.dirs = {}, NEW A, NEW B, NEW C, NEW D,
         l \in [dirs : {A}, files : {B}, readonly : C, unreadable : D],
         NEW from \in Path, NEW to \in Path, Apart(from, to), to \notin Entries(l)
  PROVE  /\ from \notin Entries(Renamed(l, from, to))
         /\ \A q \in Entries(l) : Within(q, from) => NewName(q, from, to) \in Entries(Renamed(l, from, to))
         /\ to \in Renamed(l, from, to).files <=> from \in l.files
<1> DEFINE Move(p) == IF Within(p, from) THEN NewName(p, from, to) ELSE p
           r == Renamed(l, from, to)
<1>1. r.dirs = {Move(p) : p \in l.dirs} /\ r.files = {Move(p) : p \in l.files}
  BY DEF Renamed, Within, NewName
<1>2. Entries(l) = l.dirs \cup l.files /\ Entries(r) = r.dirs \cup r.files
  BY DEF Entries
<1>3. \A p \in Entries(l) : p \in Path
  OBVIOUS
<1>4. ASSUME NEW p \in Entries(l) PROVE Move(p) # from /\ (Move(p) = to <=> p = from)
  <2>1. p \in Path
    BY <1>3
  <2>2. CASE Within(p, from)
    <3>1. /\ Move(p) = NewName(p, from, to) /\ Move(p) \in Path /\ Within(Move(p), to)
          /\ p = from => Move(p) = to
          /\ IsBelow(p, from) => Move(p) # to
      BY <2>1, <2>2, NewNameIs
    <3>2. Within(from, from) /\ ~Within(from, to)
      BY ApartIs DEF Within
    <3>3. Move(p) # from
      BY <3>1, <3>2
    <3> QED BY <2>2, <3>1, <3>3 DEF Within
  <2>3. CASE ~Within(p, from)
    <3>1. Move(p) = p /\ p # from /\ p # to
      BY <2>3 DEF Within
    <3> QED BY <3>1
  <2> QED BY <2>2, <2>3
<1>5. \A p \in Entries(l) : Within(p, from) => Move(p) = NewName(p, from, to)
  OBVIOUS
<1> HIDE DEF Move, r
<1>6. from \notin Entries(r)
  BY <1>1, <1>2, <1>4
<1>7. \A q \in Entries(l) : Within(q, from) => NewName(q, from, to) \in Entries(r)
  BY <1>1, <1>2, <1>5
<1>8. to \in r.files <=> from \in l.files
  BY <1>1, <1>2, <1>4
<1> QED BY <1>6, <1>7, <1>8 DEF r

\* Mv tells what became of source and target (util.cpp:290-297).
LEMMA MvAnswers == MvMovesOrKeeps
<1> SUFFICES ASSUME NEW fs \in FileSystems, NEW from \in Paths, NEW to \in Paths,
                    from # to, ~IsBelow(from, to), ~IsBelow(to, from), NEW r \in Mv(fs, from, to)
             PROVE  IF r.ret
                    THEN /\ from \notin Entries(r.fs)
                         /\ \A q \in Entries(fs) : IsBelow(q, from) =>
                              to \o SubSeq(q, Len(from) + 1, Len(q)) \in Entries(r.fs)
                         /\ to \in r.fs.files <=> from \in fs.files
                    ELSE \A q \in Entries(fs) : q = from \/ IsBelow(q, from) => q \in Entries(r.fs)
  BY DEF MvMovesOrKeeps
<1>1. from \in Path /\ to \in Path /\ Apart(from, to)
  BY PathsAssumption DEF Path, Apart
<1> DEFINE rm   == Rm(fs, to)
           left == Without(fs, rm.gone)
<1>2. PICK ok \in rm.rets : r = IF ok THEN Rename(left, from, to) ELSE [fs |-> left, ret |-> FALSE]
  BY DEF Mv
<1>3. /\ left \in [dirs : {fs.dirs \ rm.gone}, files : {fs.files \ rm.gone},
                   readonly : {fs.readonly}, unreadable : {fs.unreadable}]
      /\ left.dirs = fs.dirs \ rm.gone /\ left.files = fs.files \ rm.gone
      /\ Entries(left) = Entries(fs) \ rm.gone
      /\ rm.gone \subseteq {q \in Entries(fs) : Within(q, to)}
      /\ ok \in BOOLEAN /\ (ok = TRUE <=> to \notin Entries(left))
  <2>1. rm = Rm(fs, to) /\ ok \in rm.rets
    BY <1>2
  <2>2. /\ left \in [dirs : {fs.dirs \ rm.gone}, files : {fs.files \ rm.gone},
                   readonly : {fs.readonly}, unreadable : {fs.unreadable}]
        /\ left.dirs = fs.dirs \ rm.gone /\ left.files = fs.files \ rm.gone
        /\ Entries(left) = Entries(fs) \ rm.gone
        /\ rm.gone \subseteq {q \in Entries(fs) : Within(q, to)}
        /\ \A ret \in rm.rets : ret \in BOOLEAN /\ (ret = TRUE <=> to \notin Entries(fs) \ rm.gone)
    BY <1>1, RmLeaves
  <2> HIDE DEF rm, left
  <2> QED BY <2>1, <2>2
<1> HIDE DEF rm, left
<1>4. \A q \in Entries(fs) : Within(q, from) => q \in Entries(left)
  <2> SUFFICES ASSUME NEW q \in Entries(fs), Within(q, from) PROVE q \in Entries(left)
    OBVIOUS
  <2>1. q \in Path
    BY FileSystemIs
  <2>2. ~Within(q, to)
    BY <1>1, <2>1, ApartIs
  <2> QED BY <1>3, <2>2
<1>5. CASE ok = FALSE
  <2>1. r.ret = FALSE /\ r.fs = left
    BY <1>2, <1>5
  <2> QED BY <1>4, <2>1 DEF Within
<1>6. CASE ok = TRUE
  <2>1. r = Rename(left, from, to)
    BY <1>2, <1>6
  <2>2. CASE ~MayRename(left, from, to)
    <3>1. r.ret = FALSE /\ r.fs = left
      BY <2>1, <2>2 DEF Rename
    <3> QED BY <1>4, <3>1 DEF Within
  <2>3. CASE MayRename(left, from, to)
    <3>1. r.ret = TRUE /\ r.fs = Renamed(left, from, to)
      BY <2>1, <2>3 DEF Rename
    <3>2. /\ from \notin Entries(r.fs)
          /\ \A q \in Entries(left) : Within(q, from) => NewName(q, from, to) \in Entries(r.fs)
          /\ to \in r.fs.files <=> from \in left.files
      <4>1. Entries(left) \subseteq Path /\ left.files \cap left.dirs = {} /\ to \notin Entries(left)
        BY <1>3, <1>6, FileSystemIs
      <4>2. left \in [dirs : {fs.dirs \ rm.gone}, files : {fs.files \ rm.gone},
                      readonly : {fs.readonly}, unreadable : {fs.unreadable}]
        BY <1>3
      <4> DEFINE n == Renamed(left, from, to)
      <4>3. /\ from \notin Entries(n)
            /\ \A q \in Entries(left) : Within(q, from) => NewName(q, from, to) \in Entries(n)
            /\ to \in n.files <=> from \in left.files
        BY <1>1, <4>1, <4>2, RenamedIs, Zenon
      <4>4. r.fs = n
        BY <3>1
      <4> HIDE DEF n
      <4> QED BY <4>3, <4>4
    <3>3. from \in left.files <=> from \in fs.files
      <4>1. Within(from, from) /\ fs.files \subseteq Entries(fs)
        BY DEF Within, Entries
      <4>2. from \in fs.files => from \in Entries(left)
        BY <1>4, <4>1
      <4> QED BY <1>3, <4>2
    <3>4. \A q \in Entries(fs) : IsBelow(q, from) => NewName(q, from, to) \in Entries(r.fs)
      BY <1>4, <3>2 DEF Within
    <3> QED BY <3>1, <3>2, <3>3, <3>4 DEF NewName
  <2> QED BY <2>2, <2>3
<1> QED BY <1>3, <1>5, <1>6

\* Mkdir, Rm and Mv tell their callers what became of the file system, whatever paths it is over and
\* however deep they are (util.cpp:174-297); and the variables of the appender keep their types.
THEOREM AnswersHoldAlways == Spec => []AnswersHold
<1>1. TypeOK => AnswersHold
  BY MkdirAnswers, RmAnswers, MvAnswers DEF AnswersHold
<1> QED BY <1>1, TypeCorrect, PTL
=============================================================================
