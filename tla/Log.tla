---------------------------------- MODULE Log ----------------------------------
(***************************************************************************)
(* The loggers of sylar/log.cpp: lines logged by any thread, appenders     *)
(* added and removed, formatters that appenders inherit, and the listener   *)
(* of the configuration `logs', which rebuilds loggers one step at a time. *)
(*                                                                         *)
(* A step is a critical section of the spinlock of a logger, a part of one *)
(* at whose end another object is used, or an access outside of any.  The  *)
(* lock of an appender is held within a step only.  A logger that was not  *)
(* looked up yet is as its constructor makes it.  Formatting, files and    *)
(* what a line says are left out.                                          *)
(***************************************************************************)
EXTENDS LogDefine, LogPattern

CONSTANTS Threads,
          Loaders,     \* the threads that load the configuration
          Names, Root, \* of the loggers
          Appenders,   \* objects
          Own,         \* those of them that the program makes
          OutRoot, ErrRoot,      \* those of the root logger
          Formatters, DefaultFormatter,
          Invalid,     \* a pattern that does not parse
          PatternOf,   \* formatter -> its pattern
          Levels,      \* that the program logs at and sets
          Documents,   \* texts of the configuration
          MaxCalls,    \* bound on the calls of the threads
          Free

Elems(s) == {s[i] : i \in DOMAIN s}

\* Definitions of loggers, by name.
Definitions(new) ==
  /\ DOMAIN new \subseteq Names
  /\ \A n \in DOMAIN new :
       LET ds == new[n].appenders IN
       /\ new[n].level \in UNKNOW .. 5 /\ ds \in Seq(Elems(ds))
       /\ \A i \in DOMAIN ds : /\ ds[i].type \in {"FileLogAppender", "StdoutLogAppender"}
                               /\ ds[i].level \in UNKNOW .. 5

\* What YAML gives as definitions: nodes, of loggers, whose appenders are a list.
IsDocument(doc) ==
  /\ doc \in Seq(Elems(doc))
  /\ \A i \in DOMAIN doc :
       /\ "name" \in DOMAIN doc[i] => doc[i].name \in Names
       /\ "appenders" \in DOMAIN doc[i] => doc[i].appenders \in Seq(Elems(doc[i].appenders))

ASSUME LogAssumption ==
  /\ Loaders \subseteq Threads /\ Root \in Names /\ Levels \subseteq UNKNOW .. 5
  /\ {OutRoot, ErrRoot} \subseteq Appenders \ Own /\ OutRoot # ErrRoot /\ Own \subseteq Appenders
  /\ DefaultFormatter \in Formatters /\ {NoText, Invalid} \cap Formatters = {}
  /\ isError(PatternOf[Invalid]) /\ \A f \in Formatters : ~isError(PatternOf[f])
  /\ \A doc \in Documents : IsDocument(doc) /\ (Throws(doc) \/ CastAll(doc) # Free)
  /\ MaxCalls \in Nat /\ Free \notin Threads \cup Names \cup Appenders

VARIABLES
  flagged,                      \* the program was started with -d
  m_level, m_formatter, m_appenders, mutex,   \* of each logger
  app,                          \* appenders: [type, file, level, formatter, has]
  value,                        \* m_val of g_log_defines
  pc,                           \* control of a thread
  name, at,                     \* the logger called, and that or its root, where the call is
  event, rest,                  \* level of the line; the appenders still to write it
  arg,                          \* the appender that addAppender adds
  new, todo, gone, defs,        \* the listener: new value, names to go, appenders to make
  calls,
  adds,                         \* history: how often an appender was added
  touched,                      \* history: the loggers the program has changed, and what
  last                          \* history: the definition a logger was last rebuilt for

loggerVars == <<flagged, m_level, m_formatter, m_appenders, mutex>>
lineVars   == <<name, at, event, rest>>
reloadVars == <<new, todo, gone, defs>>
vars == <<loggerVars, app, value, pc, lineVars, arg, reloadVars, calls, adds, touched, last>>

Nothing  == [n \in {} |-> n]
Gone     == [level |-> UNKNOW, formatter |-> NoText, appenders |-> <<>>]

LoggerTypeOK ==
  /\ flagged \in BOOLEAN
  /\ m_level \in [Names -> UNKNOW .. 5] /\ m_formatter \in [Names -> Formatters]
  /\ m_appenders \in [Names -> Seq(Appenders)] /\ mutex \in [Names -> Threads \cup {Free}]

IsAppender(r) ==
  /\ DOMAIN r = {"type", "file", "level", "formatter", "has"}
  /\ r.type \in {"FileLogAppender", "StdoutLogAppender"} /\ r.level \in UNKNOW .. 5
  /\ r.formatter \in Formatters \cup {NoText} /\ r.has \in BOOLEAN

AppTypeOK ==
  /\ DOMAIN app = Appenders /\ adds \in [Appenders -> 0 .. 2]
  /\ \A a \in Appenders : IsAppender(app[a])

ThreadTypeOK ==
  /\ pc \in [Threads -> {"idle", "log", "write", "next", "reformat", "clear", "make", "add",
                         "inherit", "clearGone", "store"}]
  /\ arg \in [Threads -> Appenders \cup {Free}]
  /\ calls \in 0 .. MaxCalls /\ touched \subseteq Names \X {"settings", "appenders"}

LineTypeOK ==
  /\ name \in [Threads -> Names \cup {Free}] /\ at \in [Threads -> Names \cup {Free}]
  /\ event \in [Threads -> UNKNOW .. 5] /\ rest \in [Threads -> Seq(Appenders)]

ReloadTypeOK ==
  /\ Definitions(value) /\ DOMAIN value \subseteq DOMAIN last /\ DOMAIN last \subseteq Names
  /\ \A n \in DOMAIN last : last[n].level \in UNKNOW .. 5
  /\ DOMAIN new = Threads /\ DOMAIN defs = Threads
  /\ \A t \in Threads : new[t] = Free \/ Definitions(new[t])
  /\ todo \in [Threads -> SUBSET Names] /\ gone \in [Threads -> SUBSET Names]

TypeOK == LoggerTypeOK /\ AppTypeOK /\ ThreadTypeOK /\ LineTypeOK /\ ReloadTypeOK

\* new StdoutLogAppender, new FileLogAppender
Fresh(type, file, level) ==
  [type |-> type, file |-> file, level |-> level, formatter |-> NoText, has |-> FALSE]

\* The root logger has two appenders, one for errors.
Init ==
  /\ flagged \in BOOLEAN
  /\ m_level = [n \in Names |-> 1] /\ m_formatter = [n \in Names |-> DefaultFormatter]
  /\ m_appenders = [n \in Names |-> IF n = Root THEN <<OutRoot, ErrRoot>> ELSE <<>>]
  /\ mutex = [n \in Names |-> Free]
  /\ app = [a \in Appenders |->
              [(IF a = ErrRoot THEN Fresh("FileLogAppender", "root_error.log", ERROR)
                               ELSE Fresh("StdoutLogAppender", NoText, 1))
                 EXCEPT !.formatter = IF a \in {OutRoot, ErrRoot} THEN DefaultFormatter ELSE NoText]]
  /\ value = Nothing
  /\ pc = [t \in Threads |-> "idle"]
  /\ name = [t \in Threads |-> Free] /\ at = [t \in Threads |-> Free]
  /\ event = [t \in Threads |-> UNKNOW] /\ rest = [t \in Threads |-> <<>>]
  /\ arg = [t \in Threads |-> Free]
  /\ new = [t \in Threads |-> Free] /\ todo = [t \in Threads |-> {}]
  /\ gone = [t \in Threads |-> {}] /\ defs = [t \in Threads |-> <<>>]
  /\ calls = 0 /\ adds = [a \in Appenders |-> IF a \in {OutRoot, ErrRoot} THEN 1 ELSE 0]
  /\ touched = {} /\ last = Nothing

-----------------------------------------------------------------------------
Goto(t, here) == pc' = [pc EXCEPT ![t] = here]
MayCall(t) == pc[t] = "idle" /\ calls < MaxCalls /\ calls' = calls + 1
Reloading(t) == new[t] # Free
Unlocked(t) == mutex' = [n \in Names |-> IF mutex[n] = t THEN Free ELSE mutex[n]]
Be(t, n) == name' = [name EXCEPT ![t] = n] /\ at' = [at EXCEPT ![t] = n]

-----------------------------------------------------------------------------
(* A line.  Logger::log keeps the lock of the logger, and of its root, while appenders write. *)

\* The level is looked at before the lock.
BeginLine(t, n, v, after) ==
  IF v >= m_level[n]
  THEN Goto(t, "log") /\ Be(t, n) /\ event' = [event EXCEPT ![t] = v]
  ELSE Goto(t, after) /\ UNCHANGED <<name, at, event>>

EndLine(t) == /\ Goto(t, IF Reloading(t) THEN "next" ELSE "idle")
              /\ Be(t, Free)
              /\ event' = [event EXCEPT ![t] = UNKNOW]

LogCall(t, n, v) ==
  /\ MayCall(t)
  /\ BeginLine(t, n, v, "idle")
  /\ UNCHANGED <<loggerVars, app, value, rest, arg, reloadVars, adds, touched, last>>

\* Mutated form of Asks: the root has a root.
AsksRootToo(n) == m_appenders[n] = <<>>
\* A logger without appenders leaves the line to the root.
Asks(n) == n # Root /\ m_appenders[n] = <<>>

LogEnter(t) ==
  LET n == at[t] IN
  /\ pc[t] = "log" /\ mutex[n] = Free
  /\ \/ /\ ~Asks(n) /\ m_appenders[n] # <<>>
        /\ mutex' = [mutex EXCEPT ![n] = t]
        /\ rest' = [rest EXCEPT ![t] = m_appenders[n]]
        /\ Goto(t, "write")
        /\ UNCHANGED <<name, at, event>>
     \/ /\ Asks(n) /\ event[t] >= m_level[Root]
        /\ mutex' = [mutex EXCEPT ![n] = t]
        /\ at' = [at EXCEPT ![t] = Root]
        /\ UNCHANGED <<pc, name, event, rest>>
     \/ /\ IF Asks(n) THEN event[t] < m_level[Root] ELSE m_appenders[n] = <<>>
        /\ Unlocked(t) /\ EndLine(t)
        /\ UNCHANGED rest
  /\ UNCHANGED <<flagged, m_level, m_formatter, m_appenders, app, value, arg, reloadVars, calls, adds,
                 touched, last>>

\* The next appender writes the line, unless it is below its level.
LogWrite(t) ==
  /\ pc[t] = "write"
  /\ rest' = [rest EXCEPT ![t] = Tail(@)]
  /\ IF Len(rest[t]) > 1
     THEN UNCHANGED <<pc, mutex, name, at, event>>
     ELSE Unlocked(t) /\ EndLine(t)
  /\ UNCHANGED <<flagged, m_level, m_formatter, m_appenders, app, value, arg, reloadVars, calls, adds,
                 touched, last>>

-----------------------------------------------------------------------------
(* The program changes a logger, or an appender of its own. *)

\* Mutated form of MayLock: clearAppenders does not take the lock.
MayLockAlways(n) == TRUE
MayLock(n) == mutex[n] = Free

Change(t, n, what) == /\ MayCall(t) /\ t \notin Loaders
                      /\ touched' = touched \cup {<<n, what>>}

SetLevel(t, n, v) ==
  /\ Change(t, n, "settings")
  /\ m_level' = [m_level EXCEPT ![n] = v]
  /\ UNCHANGED <<flagged, m_formatter, m_appenders, mutex, app, value, pc, lineVars, arg, reloadVars,
                 adds, last>>

\* Mutated form of Inherits: setFormatter changes every appender.
InheritsAlways(a) == TRUE
Inherits(a) == ~app[a].has

\* setFormatter: the logger, and those of its appenders that have no formatter of their own.
Reformatted(n, f) ==
  /\ m_formatter' = [m_formatter EXCEPT ![n] = f]
  /\ app' = [a \in Appenders |-> IF a \in Elems(m_appenders[n]) /\ Inherits(a)
                                  THEN [app[a] EXCEPT !.formatter = f]
                                  ELSE app[a]]

\* A pattern that does not parse is refused.
Accepted(f) == ~isError(PatternOf[f])

SetFormatter(t, n, f) ==
  /\ Change(t, n, "settings")
  /\ IF Accepted(f) THEN MayLock(n) /\ Reformatted(n, f) ELSE UNCHANGED <<m_formatter, app>>
  /\ UNCHANGED <<flagged, m_level, m_appenders, mutex, value, pc, lineVars, arg, reloadVars, adds,
                 last>>

\* delAppender takes out the first.
Without(s, a) ==
  IF a \in Elems(s)
  THEN LET k == CHOOSE i \in DOMAIN s : s[i] = a /\ \A j \in 1 .. i - 1 : s[j] # a
       IN SubSeq(s, 1, k - 1) \o SubSeq(s, k + 1, Len(s))
  ELSE s

DelAppender(t, n, a) ==
  /\ Change(t, n, "appenders") /\ MayLock(n)
  /\ m_appenders' = [m_appenders EXCEPT ![n] = Without(@, a)]
  /\ UNCHANGED <<flagged, m_level, m_formatter, mutex, app, value, pc, lineVars, arg, reloadVars, adds,
                 last>>

Cleared(n) == MayLock(n) /\ m_appenders' = [m_appenders EXCEPT ![n] = <<>>]

ClearAppenders(t, n) ==
  /\ Change(t, n, "appenders") /\ Cleared(n)
  /\ UNCHANGED <<flagged, m_level, m_formatter, mutex, app, value, pc, lineVars, arg, reloadVars, adds,
                 last>>

\* LogAppender::setFormatter, also of an appender that is being added.
AppenderSetFormatter(t, a, f) ==
  /\ MayCall(t) /\ t \notin Loaders
  /\ app' = [app EXCEPT ![a].formatter = f, ![a].has = TRUE]
  /\ UNCHANGED <<loggerVars, value, pc, lineVars, arg, reloadVars, adds, touched, last>>

-----------------------------------------------------------------------------
(* addAppender: an appender without a formatter gets that of the logger. *)

AddAppender(t, n, a) ==
  /\ Change(t, n, "appenders")
  /\ Goto(t, "add") /\ Be(t, n) /\ arg' = [arg EXCEPT ![t] = a]
  /\ UNCHANGED <<loggerVars, app, value, event, rest, reloadVars, adds, last>>

\* push_back, and the return.
Pushed(t) ==
  /\ m_appenders' = [m_appenders EXCEPT ![at[t]] = Append(@, arg[t])]
  /\ adds' = [adds EXCEPT ![arg[t]] = IF @ = 0 THEN 1 ELSE 2]
  /\ arg' = [arg EXCEPT ![t] = Free]
  /\ Unlocked(t)
  /\ IF Reloading(t) THEN Goto(t, "make") /\ UNCHANGED <<name, at>> ELSE Goto(t, "idle") /\ Be(t, Free)

\* Mutated form of HasOne: addAppender leaves the formatter alone.
HasOneAlways(a) == TRUE
HasOne(a) == app[a].formatter # NoText

AddEnter(t) ==
  /\ pc[t] = "add" /\ mutex[at[t]] = Free
  /\ IF HasOne(arg[t])
     THEN Pushed(t)
     ELSE /\ mutex' = [mutex EXCEPT ![at[t]] = t]
          /\ Goto(t, "inherit")
          /\ UNCHANGED <<m_appenders, adds, arg, name, at>>
  /\ UNCHANGED <<flagged, m_level, m_formatter, app, value, event, rest, reloadVars, calls, touched,
                 last>>

AddInherit(t) ==
  /\ pc[t] = "inherit"
  /\ app' = [app EXCEPT ![arg[t]].formatter = m_formatter[at[t]]]
  /\ Pushed(t)
  /\ UNCHANGED <<flagged, m_level, m_formatter, value, event, rest, reloadVars, calls, touched, last>>

-----------------------------------------------------------------------------
(* The configuration is loaded: fromString, setValue and the listener. *)

Load(t, doc) ==
  /\ t \in Loaders /\ MayCall(t)
  /\ \/ /\ Throws(doc)
        /\ BeginLine(t, Root, ERROR, "idle")
        /\ UNCHANGED reloadVars
     \/ /\ ~Throws(doc) /\ SameSet(value, CastAll(doc))
        /\ UNCHANGED <<pc, name, at, event, reloadVars>>
     \/ /\ ~Throws(doc) /\ ~SameSet(value, CastAll(doc))
        /\ new' = [new EXCEPT ![t] = CastAll(doc)]
        /\ todo' = [todo EXCEPT ![t] = DOMAIN CastAll(doc)]
        /\ gone' = [gone EXCEPT ![t] = DOMAIN value \ DOMAIN CastAll(doc)]
        /\ BeginLine(t, Root, INFO, "next")
        /\ UNCHANGED defs
  /\ UNCHANGED <<loggerVars, app, value, rest, arg, adds, touched, last>>

\* One of the definitions: nothing if it is as before, or else its level first.
Redefine(t) ==
  \E n \in todo[t] :
    /\ pc[t] = "next"
    /\ todo' = [todo EXCEPT ![t] = @ \ {n}]
    /\ IF n \in DOMAIN value /\ SameDefine(new[t][n], value[n])
       THEN UNCHANGED <<m_level, pc, name, at>>
       ELSE /\ m_level' = [m_level EXCEPT ![n] = new[t][n].level]
            /\ Be(t, n) /\ Goto(t, "reformat")
    /\ UNCHANGED <<flagged, m_formatter, m_appenders, mutex, app, value, event, rest, arg, new, gone,
                   defs, calls, adds, touched, last>>

Reformat(t) ==
  LET f == new[t][name[t]].formatter IN
  /\ pc[t] = "reformat"
  /\ IF f \in Formatters
     THEN MayLock(name[t]) /\ Reformatted(name[t], f)
     ELSE UNCHANGED <<m_formatter, app>>
  /\ Goto(t, "clear")
  /\ UNCHANGED <<flagged, m_level, m_appenders, mutex, value, lineVars, arg, reloadVars, calls, adds,
                 touched, last>>

Clear(t) ==
  /\ pc[t] = "clear" /\ Cleared(name[t])
  /\ defs' = [defs EXCEPT ![t] = new[t][name[t]].appenders]
  /\ Goto(t, "make")
  /\ UNCHANGED <<flagged, m_level, m_formatter, mutex, app, value, lineVars, arg, new, todo, gone,
                 calls, adds, touched, last>>

\* With -d there is no output to the terminal.
Skipped(d) == flagged /\ d.type = "StdoutLogAppender"
Places(ds) == {i \in DOMAIN ds : ~Skipped(ds[i])}

Unused ==
  Appenders \ (Own \cup UNION {Elems(m_appenders[n]) : n \in Names} \cup {arg[t] : t \in Threads})

\* A formatter that does not parse leaves the appender without one.
Made(d) == [type |-> d.type, file |-> d.file, level |-> d.level,
            formatter |-> IF d.formatter \in Formatters THEN d.formatter ELSE NoText,
            has |-> d.formatter \in Formatters]

\* Appenders is a bound: there is one left to make.
Make(t) ==
  LET d == Head(defs[t])
      a == CHOOSE a \in Unused : TRUE
  IN
  /\ pc[t] = "make" /\ defs[t] # <<>> /\ (Skipped(d) \/ Unused # {})
  /\ defs' = [defs EXCEPT ![t] = Tail(@)]
  /\ IF Skipped(d)
     THEN UNCHANGED <<app, adds, arg, pc>>
     ELSE /\ app' = [app EXCEPT ![a] = Made(d)]
          /\ adds' = [adds EXCEPT ![a] = 0]
          /\ arg' = [arg EXCEPT ![t] = a]
          /\ Goto(t, "add")
  /\ UNCHANGED <<loggerVars, value, lineVars, new, todo, gone, calls, touched, last>>

MadeAll(t) ==
  /\ pc[t] = "make" /\ defs[t] = <<>>
  /\ Goto(t, "next") /\ Be(t, Free)
  /\ UNCHANGED <<loggerVars, app, value, event, rest, arg, reloadVars, calls, adds, touched, last>>

\* A logger whose definition is gone: lines go to the root, whatever their level.
Undefine(t) ==
  \E n \in gone[t] :
    /\ pc[t] = "next" /\ todo[t] = {}
    /\ gone' = [gone EXCEPT ![t] = @ \ {n}]
    /\ m_level' = [m_level EXCEPT ![n] = UNKNOW]
    /\ Be(t, n) /\ Goto(t, "clearGone")
    /\ UNCHANGED <<flagged, m_formatter, m_appenders, mutex, app, value, event, rest, arg, new, todo,
                   defs, calls, adds, touched, last>>

ClearGone(t) ==
  /\ pc[t] = "clearGone" /\ Cleared(name[t])
  /\ Goto(t, "next") /\ Be(t, Free)
  /\ UNCHANGED <<flagged, m_level, m_formatter, mutex, app, value, event, rest, arg, reloadVars, calls,
                 adds, touched, last>>

\* What the loggers were rebuilt for: definitions are told apart by level and formatter.
Rebuilt(t) ==
  [n \in DOMAIN last \cup DOMAIN new[t] \cup DOMAIN value |->
     IF n \in DOMAIN new[t] /\ ~(n \in DOMAIN value /\ value[n].level = new[t][n].level
                                                 /\ value[n].formatter = new[t][n].formatter)
     THEN new[t][n]
     ELSE IF n \in DOMAIN value \ DOMAIN new[t] THEN Gone ELSE last[n]]

\* The listener returns; setValue writes once no other is reading.
Heard(t) ==
  /\ pc[t] = "next" /\ todo[t] = {} /\ gone[t] = {} /\ Reloading(t)
  /\ Goto(t, "store")
  /\ UNCHANGED <<loggerVars, app, value, lineVars, arg, reloadVars, calls, adds, touched, last>>

Store(t) ==
  /\ pc[t] = "store"
  /\ \A u \in Threads \ {t} : Reloading(u) => pc[u] = "store"
  /\ value' = new[t] /\ last' = Rebuilt(t)
  /\ new' = [new EXCEPT ![t] = Free]
  /\ Goto(t, "idle")
  /\ UNCHANGED <<loggerVars, app, lineVars, arg, todo, gone, defs, calls, adds, touched>>

\* toYamlString gives the formatter of an appender if it is its own.
Exported(a) == IF a.has THEN a.formatter ELSE NoText

-----------------------------------------------------------------------------
Begin(t) ==
  \/ \E n \in Names, v \in Levels : LogCall(t, n, v) \/ SetLevel(t, n, v)
  \/ \E n \in Names, f \in Formatters \cup {Invalid} : SetFormatter(t, n, f)
  \/ \E n \in Names, a \in Own : AddAppender(t, n, a) \/ DelAppender(t, n, a)
  \/ \E n \in Names : ClearAppenders(t, n)
  \/ \E a \in Own, f \in Formatters : AppenderSetFormatter(t, a, f)
  \/ \E doc \in Documents : Load(t, doc)

Proceed(t) ==
  \/ LogEnter(t) \/ LogWrite(t) \/ AddEnter(t) \/ AddInherit(t)
  \/ Redefine(t) \/ Reformat(t) \/ Clear(t) \/ Make(t) \/ MadeAll(t)
  \/ Undefine(t) \/ ClearGone(t) \/ Heard(t) \/ Store(t)

Next == \E t \in Threads : Begin(t) \/ Proceed(t)

Spec == Init /\ [][Next]_vars

-----------------------------------------------------------------------------
(* Properties. *)

\* Whatever is added, reloaded or reformatted meanwhile, the appenders that log() goes through are
\* those of the logger, and those of the root only as long as the logger has none (log.cpp:547-564):
\* no line is cut off, written twice, or sent to an appender that is being taken away.
LinesHold ==
  \A t \in Threads :
    /\ pc[t] = "write" => \E k \in 0 .. Len(m_appenders[at[t]]) :
                            rest[t] = SubSeq(m_appenders[at[t]], k + 1, Len(m_appenders[at[t]]))
    /\ pc[t] \in {"log", "write"} /\ at[t] # name[t] => m_appenders[name[t]] = <<>>

\* An appender that a line can reach has a formatter: log() uses it without a test (log.cpp:465, 505).
CanFormat == \A n \in Names : \A a \in Elems(m_appenders[n]) : app[a].formatter # NoText

\* An appender without a formatter of its own, added once, uses the formatter that its logger has
\* now, whichever of addAppender and setFormatter came first (log.cpp:567-576, 598-611).
FormatterShared ==
  \A n \in Names : mutex[n] = Free =>
    \A a \in Elems(m_appenders[n]) : ~app[a].has /\ adds[a] = 1 => app[a].formatter = m_formatter[n]

\* An appender is as a definition says.
Is(r, d) == /\ r.type = d.type /\ r.file = d.file /\ r.level = d.level
            /\ r.has <=> d.formatter \in Formatters
            /\ r.has => r.formatter = d.formatter

\* The appenders of a logger are, in order, those of a list of definitions at some of its places.
Matches(n, ds, places) ==
  \E of \in [DOMAIN m_appenders[n] -> places] :
    /\ \A k \in places : \E i \in DOMAIN m_appenders[n] : of[i] = k
    /\ \A i, j \in DOMAIN m_appenders[n] : i < j => of[i] < of[j]
    /\ \A i \in DOMAIN m_appenders[n] : Is(app[m_appenders[n][i]], ds[of[i]])

\* Any line finds the formatter it should (log.cpp:454-465, 567-611).
FormattersHold == CanFormat /\ FormatterShared

\* When the configuration is loaded, the appenders, level and formatter of a logger are, as far as
\* the program left them alone, those of the definition with which its level or formatter last
\* changed, and it has no appenders if its definition is gone (log.cpp:889-948), whatever was logged
\* meanwhile.  A formatter of the logger does not replace an appender's own.  One thread loads.
ReloadApplies ==
  (\A t \in Loaders : pc[t] = "idle") =>
    \A n \in DOMAIN last :
      /\ <<n, "settings">> \notin touched =>
           /\ m_level[n] = last[n].level
           /\ last[n].formatter \in Formatters => m_formatter[n] = last[n].formatter
      /\ <<n, "appenders">> \notin touched =>
             Matches(n, last[n].appenders, Places(last[n].appenders))

\* What toYamlString says of a logger is a definition that makes the same logger
\* (log.cpp:469-485, 512-529, 628-648 against 759-828).
ExportsItself ==
  \A n \in Names : mutex[n] = Free =>
    LET d == Cast(LoggerYaml(n, m_level[n], m_formatter[n],
                    [i \in DOMAIN m_appenders[n] |->
                       LET a == app[m_appenders[n][i]] IN
                       [type |-> a.type, file |-> a.file, level |-> a.level,
                        formatter |-> Exported(a)]]))
    IN d.level = m_level[n] /\ d.formatter = m_formatter[n] /\ Matches(n, d.appenders, DOMAIN d.appenders)

\* Locks are taken from a logger to its root and nowhere back (log.cpp:547-564), and whoever does
\* not wait goes on: so no two calls wait for each other, and none for itself.
LockOrder ==
  \A n \in Names, t \in Threads :
    mutex[n] = t => \/ pc[t] \in {"write", "inherit"}
                    \/ pc[t] = "log" /\ at[t] = Root /\ n # Root

\* A formatter has the items that its pattern says, and the variables have their types (log.cpp:291-438).
PatternsHold == TypeOK /\ PatternKept /\ Grammar
=============================================================================
