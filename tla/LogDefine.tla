------------------------------- MODULE LogDefine -------------------------------
(***************************************************************************)
(* The definitions of loggers in the configuration `logs' (sylar/log.cpp): *)
(* LogDefine and LogAppenderDefine, the conversions from and to YAML, and  *)
(* the comparison that decides what a reload changes.                      *)
(*                                                                         *)
(* A YAML map is a function from the keys that are defined; a text is one  *)
(* of the words below or a model value; the empty text is NoText.          *)
(***************************************************************************)
EXTENDS Lists

CONSTANT NoText

UNKNOW == 0
INFO   == 2
ERROR  == 4
LevelNames == <<"DEBUG", "INFO", "WARN", "ERROR", "FATAL">>
LevelWords == <<"debug", "info", "warn", "error", "fatal">>

\* The empty text names no level and no kind of appender.
ASSUME TextAssumption ==
  /\ \A v \in 1 .. 5 : NoText \notin {LevelNames[v], LevelWords[v]}
  /\ NoText \notin {"FileLogAppender", "StdoutLogAppender"}

\* LogLevel::FromString: a level in capitals or not; any other text is UNKNOW.
FromString(s) ==
  IF \E v \in 1 .. 5 : s \in {LevelNames[v], LevelWords[v]}
  THEN CHOOSE v \in 1 .. 5 : s \in {LevelNames[v], LevelWords[v]}
  ELSE UNKNOW

Get(node, field) == IF field \in DOMAIN node THEN node[field] ELSE NoText

-----------------------------------------------------------------------------
(* From YAML. *)

\* An appender is passed over unless it has a type that exists, and a file one its file.
Usable(a) == \/ Get(a, "type") = "StdoutLogAppender"
             \/ Get(a, "type") = "FileLogAppender" /\ "file" \in DOMAIN a

\* Mutated form of CastAppender: the file of an appender is lost.
CastAppenderNoFile(a) ==
  [type |-> a.type, level |-> FromString(Get(a, "level")), formatter |-> Get(a, "formatter"), file |-> NoText]
CastAppender(a) ==
  [type |-> a.type, level |-> FromString(Get(a, "level")), formatter |-> Get(a, "formatter"),
   file |-> IF a.type = "FileLogAppender" THEN a.file ELSE NoText]

Cast(node) ==
  LET all    == IF "appenders" \in DOMAIN node THEN node.appenders ELSE <<>>
      usable == Picked(all, {i \in DOMAIN all : Usable(all[i])}) IN
  [level     |-> FromString(Get(node, "level")),
   formatter |-> Get(node, "formatter"),
   appenders |-> [i \in DOMAIN usable |-> CastAppender(usable[i])]]

\* A document, a sequence of nodes: one without a name makes it throw, of two of one name
\* std::set keeps the first.
Throws(doc) == \E i \in DOMAIN doc : "name" \notin DOMAIN doc[i]
CastAll(doc) ==
  LET First(n) == CHOOSE i \in DOMAIN doc : doc[i].name = n /\ \A j \in 1 .. i - 1 : doc[j].name # n
  IN [n \in {doc[i].name : i \in DOMAIN doc} |-> Cast(doc[First(n)])]

-----------------------------------------------------------------------------
(* To YAML: what is unknown or empty is left out. *)

Defined(node, unset) ==
  [f \in {g \in DOMAIN node : g \in DOMAIN unset => node[g] # unset[g]} |-> node[f]]
LevelText(v) == IF v = UNKNOW THEN NoText ELSE LevelNames[v]

AppenderYaml(a) ==
  Defined([type |-> a.type, file |-> a.file, level |-> LevelText(a.level), formatter |-> a.formatter],
          [f \in {"level", "formatter"} \cup (IF a.type = "FileLogAppender" THEN {} ELSE {"file"}) |-> NoText])

LoggerYaml(n, level, formatter, appenders) ==
  Defined([name |-> n, level |-> LevelText(level), formatter |-> formatter,
           appenders |-> [i \in DOMAIN appenders |-> AppenderYaml(appenders[i])]],
          [level |-> NoText, formatter |-> NoText, appenders |-> <<>>])

-----------------------------------------------------------------------------
\* LogDefine::operator==, of two definitions of one name; it compares appenders with itself.
SameDefine(d, e) == d.level = e.level /\ d.formatter = e.formatter

\* std::set<LogDefine>::operator==
SameSet(c, d) == DOMAIN c = DOMAIN d /\ \A n \in DOMAIN c : SameDefine(c[n], d[n])
=============================================================================
