------------------------------- MODULE LogProofs -------------------------------
(***************************************************************************)
(* Proofs about the loggers: the types, who holds which lock, that a line  *)
(* goes through the appenders of its logger, that those have formatters,   *)
(* and that a reload makes the loggers what the definitions say.           *)
(*                                                                         *)
(* Each part of the invariant has a lemma for each group of steps that     *)
(* touches it; the steps that leave it alone are together in a frame.      *)
(***************************************************************************)
EXTENDS Log, ListFacts

(***************************************************************************)
(* The invariant.                                                          *)
(***************************************************************************)

\* Who holds the lock of a logger, and where that is.
Holding ==
  \A n \in Names, t \in Threads :
    mutex[n] = t => \/ pc[t] = "write" /\ n \in {name[t], at[t]}
                    \/ pc[t] = "inherit" /\ n = at[t]
                    \/ pc[t] = "log" /\ n = name[t] /\ at[t] = Root /\ n # Root

\* The appenders still to write are the last ones of a logger.
IsRest(r, s) == \E k \in 0 .. Len(s) : r = SubSeq(s, k + 1, Len(s))

\* A line is at the logger it was logged to, or at the root.
InLine ==
  \A t \in Threads :
    /\ pc[t] \in {"log", "write"} => name[t] \in Names /\ at[t] \in {name[t], Root}
    /\ pc[t] = "write" => /\ mutex[at[t]] = t /\ rest[t] # <<>>
                          /\ IsRest(rest[t], m_appenders[at[t]])
    /\ pc[t] \in {"log", "write"} /\ at[t] # name[t] =>
         mutex[name[t]] = t /\ m_appenders[name[t]] = <<>>

\* Definitions of appenders.
IsDefs(ds) ==
  /\ ds \in Seq(Elems(ds))
  /\ \A i \in DOMAIN ds : /\ ds[i].type \in {"FileLogAppender", "StdoutLogAppender"}
                          /\ ds[i].level \in UNKNOW .. 5

Rebuilding == {"next", "reformat", "clear", "make", "clearGone", "store"}

\* What a thread that adds an appender, or rebuilds loggers, is at.
InCall ==
  \A t \in Threads :
    /\ pc[t] \in {"add", "inherit"} => arg[t] \in Appenders /\ name[t] \in Names
    /\ pc[t] = "inherit" => mutex[at[t]] = t
    /\ pc[t] \in Rebuilding => Reloading(t)
    /\ pc[t] = "idle" => ~Reloading(t)
    /\ Reloading(t) => t \in Loaders /\ todo[t] \subseteq DOMAIN new[t]
    /\ pc[t] \in {"reformat", "clear"} => name[t] \in DOMAIN new[t]
    /\ pc[t] \in {"make", "clearGone"} => name[t] \in Names
    /\ pc[t] \in {"add", "inherit", "reformat", "clear", "make", "clearGone"} => at[t] = name[t]
    /\ IsDefs(defs[t])

IInv == TypeOK /\ Holding /\ InLine /\ InCall

\* An appender in use was added; one added once is with one logger, and uses its formatter unless
\* it has one of its own; one that was never added has no other.
Sharing ==
  /\ \A n \in Names : \A a \in Elems(m_appenders[n]) :
       /\ app[a].formatter # NoText /\ adds[a] # 0
       /\ adds[a] = 1 /\ ~app[a].has => app[a].formatter = m_formatter[n]
  /\ \A n, m \in Names : \A a \in Elems(m_appenders[n]) \cap Elems(m_appenders[m]) :
       adds[a] = 1 => n = m
  /\ \A a \in Appenders : adds[a] = 0 /\ ~app[a].has => app[a].formatter = NoText

(***************************************************************************)
(* The reload, by one thread l.                                            *)
(***************************************************************************)

\* Appenders of the program and those of the definitions are not mixed up.
Apart(l) ==
  /\ \A t \in Threads \ {l} :
       pc[t] \in {"add", "inherit"} => arg[t] \in Own /\ <<at[t], "appenders">> \in touched
  /\ \A n \in Names : <<n, "appenders">> \notin touched => Elems(m_appenders[n]) \cap Own = {}
  /\ pc[l] \in {"add", "inherit"} => /\ arg[l] \notin Own /\ Reloading(l)
                                     /\ \A n \in Names : arg[l] \notin Elems(m_appenders[n])
  /\ pc[l] = "inherit" => ~app[arg[l]].has

\* Unless the program changed them, the level and the formatter are those of a definition.
HasLevel(n, d) == <<n, "settings">> \notin touched => m_level[n] = d.level
HasFormatter(n, d) ==
  <<n, "settings">> \notin touched /\ d.formatter \in Formatters => m_formatter[n] = d.formatter

\* Matches, with what it depends on: a list, the appenders, definitions and places among them.
MatchList(s, objects, ds, places) ==
  \E of \in [DOMAIN s -> places] :
    /\ \A k \in places : \E i \in DOMAIN s : of[i] = k
    /\ \A i, j \in DOMAIN s : i < j => of[i] < of[j]
    /\ \A i \in DOMAIN s : Is(objects[s[i]], ds[of[i]])

\* The places, up to one, of the definitions that are not skipped.
Rows(ds, f) == {i \in DOMAIN ds : ~(f /\ ds[i].type = "StdoutLogAppender")}
Upto(ds, f, k) == {i \in Rows(ds, f) : i <= k}

\* Unless the program changed them, the appenders are those of a list, or of its first places.
HasSome(n, ds, k) ==
  <<n, "appenders">> \notin touched => MatchList(m_appenders[n], app, ds, Upto(ds, flagged, k))
HasAll(n, d) ==
  <<n, "appenders">> \notin touched =>
    MatchList(m_appenders[n], app, d.appenders, Rows(d.appenders, flagged))

\* The loggers that are being rebuilt, and that are still to be.
Current(l) == IF pc[l] \in {"reformat", "clear", "make", "add", "inherit", "clearGone"}
              THEN {name[l]} ELSE {}
Left(l) == todo[l] \cup gone[l]

\* What a logger was last rebuilt for, and what it is to be once the load is over.
Before(l, n) == n \in DOMAIN last \ Current(l) /\ (Reloading(l) => n \in Left(l))
After(l, n)  == Reloading(l) /\ n \in DOMAIN Rebuilt(l) \ (Current(l) \cup Left(l))

\* A definition that is new, or not the same as before.
Differs(t, n) == n \in DOMAIN new[t] /\ ~(n \in DOMAIN value /\ SameDefine(new[t][n], value[n]))

\* Which loggers are left to rebuild, and where the loader is among them.
Order(l) ==
  /\ Reloading(l) => gone[l] \subseteq DOMAIN value \ DOMAIN new[l]
  /\ pc[l] = "store" => Left(l) = {}
  /\ \A n \in Current(l) :
       /\ n \notin Left(l) /\ Reloading(l)
       /\ IF pc[l] = "clearGone" THEN n \in DOMAIN value \ DOMAIN new[l]
          ELSE Differs(l, n)

\* Settled loggers: what they were, or what they are to be.
IsAs(n, d) == HasLevel(n, d) /\ HasFormatter(n, d) /\ HasAll(n, d)
Settled(l) ==
  \A n \in Names : /\ Before(l, n) => IsAs(n, last[n])
                   /\ After(l, n) => IsAs(n, Rebuilt(l)[n])

\* How many definitions of appenders of the logger the loader has taken.
Taken(l) == Len(new[l][name[l]].appenders) - Len(defs[l])

\* The definitions that are left are the last ones, and the one that was made is that before.
Making(l) ==
  LET ds == new[l][name[l]].appenders IN
  /\ pc[l] \in {"make", "add", "inherit"} =>
       /\ Len(defs[l]) <= Len(ds)
       /\ \A i \in DOMAIN defs[l] : defs[l][i] = ds[Taken(l) + i]
  /\ pc[l] \in {"add", "inherit"} => Taken(l) \in Rows(ds, flagged) /\ Is(app[arg[l]], ds[Taken(l)])

\* The logger that is being rebuilt: level, formatter and the first of the appenders.
UnderWay(l) ==
  LET n == name[l]
      d == new[l][n]
  IN
  /\ pc[l] = "clearGone" => HasLevel(n, Gone)
  /\ pc[l] \in {"reformat", "clear", "make", "add", "inherit"} => HasLevel(n, d)
  /\ pc[l] \in {"clear", "make", "add", "inherit"} => HasFormatter(n, d)
  /\ pc[l] = "make" => HasSome(n, d.appenders, Taken(l))
  /\ pc[l] \in {"add", "inherit"} => HasSome(n, d.appenders, Taken(l) - 1)

Reloads(l) == Apart(l) /\ Order(l) /\ Settled(l) /\ Making(l) /\ UnderWay(l)

(***************************************************************************)
(* The steps of a thread, whatever their arguments.                        *)
(***************************************************************************)

LogCalls(t) == \E n \in Names, v \in Levels : LogCall(t, n, v)
SetLevels(t) == \E n \in Names, v \in Levels : SetLevel(t, n, v)
SetFormatters(t) == \E n \in Names, f \in Formatters \cup {Invalid} : SetFormatter(t, n, f)
AddAppenders(t) == \E n \in Names, a \in Own : AddAppender(t, n, a)
DelAppenders(t) == \E n \in Names, a \in Own : DelAppender(t, n, a)
ClearsAppenders(t) == \E n \in Names : ClearAppenders(t, n)
AppenderSetFormatters(t) == \E a \in Own, f \in Formatters : AppenderSetFormatter(t, a, f)
Loads(t) == \E doc \in Documents : Load(t, doc)

\* A step of the loggers is one of these.
LEMMA Cases ==
  ASSUME NEW t \in Threads, Begin(t) \/ Proceed(t)
  PROVE  \/ LogCalls(t) \/ SetLevels(t) \/ SetFormatters(t) \/ AddAppenders(t) \/ DelAppenders(t)
         \/ ClearsAppenders(t) \/ AppenderSetFormatters(t) \/ Loads(t)
         \/ LogEnter(t) \/ LogWrite(t) \/ AddEnter(t) \/ AddInherit(t)
         \/ Redefine(t) \/ Reformat(t) \/ Clear(t) \/ Make(t) \/ MadeAll(t)
         \/ Undefine(t) \/ ClearGone(t) \/ Heard(t) \/ Store(t)
  <1>1. CASE Begin(t)
    BY <1>1 DEF Begin, LogCalls, SetLevels, SetFormatters, AddAppenders, DelAppenders,
                ClearsAppenders, AppenderSetFormatters, Loads
  <1>2. CASE Proceed(t)
    BY <1>2 DEF Proceed
  <1> QED BY <1>1, <1>2

(***************************************************************************)
(* Lemmas about sequences.                                                 *)
(***************************************************************************)

\* What the appenders of a sequence are once one is added at the end.
LEMMA Appended ==
  ASSUME NEW S, NEW s \in Seq(S), NEW a \in S
  PROVE  Append(s, a) \in Seq(S) /\ Elems(Append(s, a)) = Elems(s) \cup {a}
  <1>1. Append(s, a) \in Seq(S) /\ Len(Append(s, a)) = Len(s) + 1
    OBVIOUS
  <1>2. \A i \in 1 .. Len(s) : Append(s, a)[i] = s[i]
    OBVIOUS
  <1>3. Append(s, a)[Len(s) + 1] = a
    OBVIOUS
  <1>4. ASSUME NEW x \in Elems(Append(s, a))  PROVE x \in Elems(s) \cup {a}
    BY <1>1, <1>2, <1>3 DEF Elems
  <1>5. ASSUME NEW x \in Elems(s)  PROVE x \in Elems(Append(s, a))
    BY <1>1, <1>2, <1>3 DEF Elems
  <1>6. a \in Elems(Append(s, a))
    BY <1>1, <1>3 DEF Elems
  <1> QED BY <1>1, <1>4, <1>5, <1>6

\* Taking one out of a sequence leaves a sequence of the others.
LEMMA TakenOut ==
  ASSUME NEW S, NEW s \in Seq(S), NEW a
  PROVE  Without(s, a) \in Seq(S) /\ Elems(Without(s, a)) \subseteq Elems(s)
  <1>1. CASE a \notin Elems(s)
    BY <1>1 DEF Without
  <1>2. CASE a \in Elems(s)
    <2> DEFINE k == CHOOSE i \in DOMAIN s : s[i] = a /\ \A j \in 1 .. i - 1 : s[j] # a
               K == {i \in DOMAIN s : s[i] = a}
    <2>1. k \in DOMAIN s
      <3>1. K # {} /\ K \in SUBSET Nat
        BY <1>2 DEF Elems
      <3>2. PICK i \in K : \A j \in K : i <= j
        BY <3>1, LeastOf
      <3>3. s[i] = a /\ \A j \in 1 .. i - 1 : s[j] # a
        BY <3>2
      <3> QED BY <3>2, <3>3
    <2> HIDE DEF k
    <2>2. Without(s, a) = SubSeq(s, 1, k - 1) \o SubSeq(s, k + 1, Len(s))
      BY <1>2 DEF Without, k
    <2>3. SubSeq(s, 1, k - 1) \in Seq(S) /\ SubSeq(s, k + 1, Len(s)) \in Seq(S)
      BY <2>1
    <2>4. Elems(SubSeq(s, 1, k - 1)) \subseteq Elems(s)
      BY <2>1, <2>3 DEF Elems
    <2>5. Elems(SubSeq(s, k + 1, Len(s))) \subseteq Elems(s)
      BY <2>1, <2>3 DEF Elems
    <2>6. Elems(Without(s, a)) \subseteq Elems(s)
      <3>1. ASSUME NEW u \in Seq(S), NEW v \in Seq(S)
            PROVE  Elems(u \o v) = Elems(u) \cup Elems(v)
        <4>1. Range(u \o v) = Range(u) \cup Range(v)
          BY <3>1, RangeConcatenation
        <4> QED BY <4>1 DEF Elems, Range
      <3> QED BY <2>2, <2>3, <2>4, <2>5, <3>1
    <2> QED BY <2>2, <2>3, <2>6
  <1> QED BY <1>1, <1>2

(***************************************************************************)
(* The types.                                                              *)
(***************************************************************************)

\* What the constants are, without the documents.
LEMMA Constants ==
  /\ Loaders \subseteq Threads /\ Root \in Names /\ Levels \subseteq UNKNOW .. 5
  /\ OutRoot \in Appenders \ Own /\ ErrRoot \in Appenders \ Own /\ OutRoot # ErrRoot
  /\ Own \subseteq Appenders /\ DefaultFormatter \in Formatters
  /\ NoText \notin Formatters /\ Invalid \notin Formatters
  /\ MaxCalls \in Nat /\ Free \notin Threads /\ Free \notin Names /\ Free \notin Appenders
  /\ UNKNOW \in UNKNOW .. 5 /\ INFO \in UNKNOW .. 5 /\ ERROR \in UNKNOW .. 5
  BY LogAssumption DEF LogAssumption, UNKNOW, INFO, ERROR

\* A formatter that setFormatter accepts is one that parses.
LEMMA AcceptedIsOne ==
  ASSUME NEW f \in Formatters \cup {Invalid}, Accepted(f)
  PROVE  f \in Formatters
  BY LogAssumption DEF LogAssumption, Accepted

\* A level's text is read as that level, and no other as one (log.cpp:20-58).
LEMMA LevelRead ==
  /\ \A s : FromString(s) \in UNKNOW .. 5
  /\ \A v \in UNKNOW .. 5 : FromString(LevelText(v)) = v
  <1>1. ASSUME NEW s  PROVE FromString(s) \in UNKNOW .. 5
    BY DEF FromString, UNKNOW
  <1>2. ASSUME NEW v \in 1 .. 5, NEW w \in 1 .. 5, LevelNames[v] \in {LevelNames[w], LevelWords[w]}
        PROVE  v = w
    BY <1>2 DEF LevelNames, LevelWords
  <1>3. ASSUME NEW v \in 1 .. 5  PROVE FromString(LevelText(v)) = v
    <2>1. LevelText(v) = LevelNames[v]
      BY DEF LevelText, UNKNOW
    <2>2. LevelNames[v] \in {LevelNames[v], LevelWords[v]}
      OBVIOUS
    <2>3. (CHOOSE w \in 1 .. 5 : LevelNames[v] \in {LevelNames[w], LevelWords[w]}) = v
      BY <1>2, <2>2
    <2>4. FromString(LevelNames[v]) = v
      BY <2>2, <2>3 DEF FromString
    <2> QED BY <2>1, <2>4
  <1>4. FromString(LevelText(UNKNOW)) = UNKNOW
    BY TextAssumption DEF TextAssumption, LevelText, FromString
  <1>5. UNKNOW .. 5 = {UNKNOW} \cup 1 .. 5
    BY DEF UNKNOW
  <1> QED BY <1>1, <1>3, <1>4, <1>5

\* The definitions of appenders of a node, whatever its list of appenders: those that can be used.
LEMMA CastTypes ==
  ASSUME NEW node, "appenders" \in DOMAIN node => node.appenders \in Seq(Elems(node.appenders))
  PROVE  LET ds == Cast(node).appenders
         IN /\ Cast(node).level \in UNKNOW .. 5 /\ ds \in Seq(Elems(ds))
            /\ \A i \in DOMAIN ds : /\ ds[i].type \in {"FileLogAppender", "StdoutLogAppender"}
                                    /\ ds[i].level \in UNKNOW .. 5
                                    /\ ds[i].type = "StdoutLogAppender" => ds[i].file = NoText
  <1> DEFINE all == IF "appenders" \in DOMAIN node THEN node.appenders ELSE <<>>
             ok == {i \in DOMAIN all : Usable(all[i])}
             usable == Picked(all, ok)
             ds == [i \in DOMAIN usable |-> CastAppender(usable[i])]
  <1>1. /\ Cast(node).appenders = ds /\ Cast(node).level = FromString(Get(node, "level"))
    BY DEF Cast
  <1>2. all \in Seq(Elems(all))
    BY DEF Elems
  <1>3. /\ usable \in Seq(Elems(all))
        /\ \E h \in [1 .. Len(usable) -> {i \in 1 .. Len(all) : i \in ok}] :
             \A i \in 1 .. Len(usable) : usable[i] = all[h[i]]
    <2> HIDE DEF all, ok
    <2> QED BY <1>2, PickedFrom
  <1> HIDE DEF usable
  <1>4. \A i \in 1 .. Len(usable) : Usable(usable[i])
    <2> HIDE DEF all
    <2> QED BY <1>3
  <1>5. DOMAIN usable = 1 .. Len(usable) /\ Len(usable) \in Nat
    BY <1>3
  <1>6. ASSUME NEW i \in DOMAIN usable
        PROVE  /\ ds[i].type \in {"FileLogAppender", "StdoutLogAppender"}
               /\ ds[i].level \in UNKNOW .. 5
               /\ ds[i].type = "StdoutLogAppender" => ds[i].file = NoText
    <2>1. ds[i] = CastAppender(usable[i]) /\ Usable(usable[i])
      BY <1>4, <1>5
    <2>2. /\ ds[i].type = usable[i].type /\ ds[i].level = FromString(Get(usable[i], "level"))
          /\ ds[i].file = IF usable[i].type = "FileLogAppender" THEN usable[i].file ELSE NoText
      BY <2>1 DEF CastAppender
    <2>3. usable[i].type \in {"FileLogAppender", "StdoutLogAppender"}
      BY <2>1, TextAssumption DEF TextAssumption, Usable, Get
    <2> QED BY <2>2, <2>3, LevelRead
  <1>7. ds \in Seq(Elems(ds))
    <2>1. \A i \in 1 .. Len(usable) : ds[i] \in Elems(ds)
      BY <1>5 DEF Elems
    <2>2. ds = [i \in 1 .. Len(usable) |-> ds[i]]
      BY <1>5
    <2> HIDE DEF ds
    <2>3. ds \in [1 .. Len(usable) -> Elems(ds)]
      BY <2>1, <2>2
    <2> QED BY <1>5, <2>3, SeqDef
  <1>8. DOMAIN ds = DOMAIN usable
    OBVIOUS
  <1> HIDE DEF ds
  <1> QED BY <1>1, <1>6, <1>7, <1>8, LevelRead

\* The definitions of a document that does not throw (config.h:181-196, log.cpp:759-831).
LEMMA Read ==
  ASSUME NEW doc \in Documents, ~Throws(doc)
  PROVE  /\ Definitions(CastAll(doc)) /\ CastAll(doc) # Free
         /\ \A n \in DOMAIN CastAll(doc) : \A i \in DOMAIN CastAll(doc)[n].appenders :
              CastAll(doc)[n].appenders[i].type = "StdoutLogAppender"
                => CastAll(doc)[n].appenders[i].file = NoText
  <1> DEFINE First(n) == CHOOSE i \in DOMAIN doc : doc[i].name = n /\ \A j \in 1 .. i - 1 : doc[j].name # n
             given == {doc[i].name : i \in DOMAIN doc}
  <1>1. IsDocument(doc) /\ CastAll(doc) # Free
    BY LogAssumption DEF LogAssumption
  <1>2. DOMAIN doc = 1 .. Len(doc) /\ Len(doc) \in Nat
    BY <1>1 DEF IsDocument
  <1>3. CastAll(doc) = [n \in given |-> Cast(doc[First(n)])]
    BY DEF CastAll
  <1>4. ASSUME NEW n \in given  PROVE First(n) \in DOMAIN doc
    <2> DEFINE K == {i \in DOMAIN doc : doc[i].name = n}
    <2>1. K # {} /\ K \in SUBSET Nat
      BY <1>2
    <2>2. PICK i \in K : \A j \in K : i <= j
      BY <2>1, LeastOf
    <2>3. ASSUME NEW j \in 1 .. i - 1  PROVE doc[j].name # n
      <3>1. j \in DOMAIN doc /\ ~(i <= j)
        BY <1>2, <2>2
      <3> QED BY <2>2, <3>1
    <2> QED BY <2>2, <2>3
  <1>5. given \subseteq Names
    BY <1>1 DEF IsDocument, Throws
  <1> HIDE DEF First, given
  <1>6. ASSUME NEW n \in given
        PROVE  LET ds == CastAll(doc)[n].appenders
               IN /\ CastAll(doc)[n].level \in UNKNOW .. 5 /\ ds \in Seq(Elems(ds))
                  /\ \A i \in DOMAIN ds : /\ ds[i].type \in {"FileLogAppender", "StdoutLogAppender"}
                                          /\ ds[i].level \in UNKNOW .. 5
                                          /\ ds[i].type = "StdoutLogAppender" => ds[i].file = NoText
    <2> DEFINE node == doc[First(n)]
    <2>1. CastAll(doc)[n] = Cast(node)
      BY <1>3
    <2>2. "appenders" \in DOMAIN node => node.appenders \in Seq(Elems(node.appenders))
      BY <1>1, <1>4 DEF IsDocument
    <2> HIDE DEF node
    <2> QED BY <2>1, <2>2, CastTypes
  <1>7. DOMAIN CastAll(doc) = given
    BY <1>3
  <1> QED BY <1>1, <1>5, <1>6, <1>7 DEF Definitions

\* Loggers, locks and appenders have their types at the start.
LEMMA InitTypes ==
  ASSUME Init
  PROVE  TypeOK
  <1> USE Constants
  <1>1. LoggerTypeOK
    <2>1. <<OutRoot, ErrRoot>> \in Seq(Appenders) /\ <<>> \in Seq(Appenders)
      OBVIOUS
    <2>2. 1 \in UNKNOW .. 5
      BY DEF UNKNOW
    <2> QED BY <2>1, <2>2 DEF Init, LoggerTypeOK
  <1>2. AppTypeOK
    <2>1. 1 \in UNKNOW .. 5
      BY DEF UNKNOW
    <2>2. DOMAIN app = Appenders /\ adds \in [Appenders -> 0 .. 2]
      BY DEF Init
    <2>3. ASSUME NEW a \in Appenders
          PROVE  IsAppender(app[a])
      <3> DEFINE formatter == IF a \in {OutRoot, ErrRoot} THEN DefaultFormatter ELSE NoText
      <3>1. formatter \in Formatters \cup {NoText}
        OBVIOUS
      <3>0. app[a] = [(IF a = ErrRoot THEN Fresh("FileLogAppender", "root_error.log", ERROR)
                                      ELSE Fresh("StdoutLogAppender", NoText, 1))
                       EXCEPT !.formatter = formatter]
        BY DEF Init
      <3> HIDE DEF formatter
      <3>2. CASE a = ErrRoot
        <4>1. app[a] = [type |-> "FileLogAppender", file |-> "root_error.log", level |-> ERROR,
                        formatter |-> formatter, has |-> FALSE]
          <5>1. app[a] = [Fresh("FileLogAppender", "root_error.log", ERROR) EXCEPT !.formatter = formatter]
            BY <3>0, <3>2
          <5> QED BY <5>1 DEF Fresh
        <4> QED BY <3>1, <4>1 DEF IsAppender
      <3>3. CASE a # ErrRoot
        <4>1. app[a] = [type |-> "StdoutLogAppender", file |-> NoText, level |-> 1,
                        formatter |-> formatter, has |-> FALSE]
          <5>1. app[a] = [Fresh("StdoutLogAppender", NoText, 1) EXCEPT !.formatter = formatter]
            BY <3>0, <3>3
          <5> QED BY <5>1 DEF Fresh
        <4> QED BY <2>1, <3>1, <4>1 DEF IsAppender
      <3> QED BY <3>2, <3>3
    <2> QED BY <2>2, <2>3 DEF AppTypeOK
  <1>3. ThreadTypeOK
    BY DEF Init, ThreadTypeOK
  <1>5. LineTypeOK
    BY DEF Init, LineTypeOK
  <1>4. ReloadTypeOK
    BY DEF Init, ReloadTypeOK, Definitions, Nothing
  <1> QED BY <1>1, <1>2, <1>3, <1>4, <1>5 DEF TypeOK

\* The loggers keep their types.
LEMMA LoggerTypes ==
  ASSUME IInv, NEW t \in Threads, Begin(t) \/ Proceed(t)
  PROVE  LoggerTypeOK'
  <1> USE Constants
  <1>0. /\ LoggerTypeOK /\ ThreadTypeOK /\ LineTypeOK /\ ReloadTypeOK /\ InCall
    BY DEF IInv, TypeOK
  <1>1. CASE \/ LogCalls(t) \/ AddAppenders(t) \/ AppenderSetFormatters(t) \/ Loads(t) \/ Make(t)
             \/ MadeAll(t) \/ Heard(t) \/ Store(t)
    <2>1. UNCHANGED loggerVars
      BY <1>1 DEF LogCalls, LogCall, AddAppenders, AddAppender, AppenderSetFormatters,
                  AppenderSetFormatter, Loads, Load, Make, MadeAll, Heard, Store
    <2> QED BY <1>0, <2>1 DEF LoggerTypeOK, loggerVars
  <1>2. CASE LogEnter(t) \/ LogWrite(t)
    <2>1. mutex' \in [Names -> Threads \cup {Free}]
      BY <1>0, <1>2 DEF LogEnter, LogWrite, Unlocked, LoggerTypeOK
    <2> QED BY <1>0, <1>2, <2>1 DEF LogEnter, LogWrite, LoggerTypeOK
  <1>3. CASE SetLevels(t)
    BY <1>0, <1>3 DEF SetLevels, SetLevel, LoggerTypeOK
  <1>4. CASE SetFormatters(t) \/ Reformat(t)
    <2>1. m_formatter' \in [Names -> Formatters]
      BY <1>0, <1>4, AcceptedIsOne DEF SetFormatters, SetFormatter, Reformat, Reformatted, LoggerTypeOK
    <2> QED BY <1>0, <1>4, <2>1 DEF SetFormatters, SetFormatter, Reformat, LoggerTypeOK
  <1>5. CASE DelAppenders(t)
    BY <1>0, <1>5, TakenOut DEF DelAppenders, DelAppender, LoggerTypeOK
  <1>6. CASE ClearsAppenders(t) \/ Clear(t) \/ ClearGone(t)
    <2>1. <<>> \in Seq(Appenders)
      OBVIOUS
    <2>2. m_appenders' \in [Names -> Seq(Appenders)]
      BY <1>0, <1>6, <2>1 DEF ClearsAppenders, ClearAppenders, Clear, ClearGone, Cleared, LoggerTypeOK
    <2> QED BY <1>0, <1>6, <2>2 DEF ClearsAppenders, ClearAppenders, Clear, ClearGone, LoggerTypeOK
  <1>7. CASE AddEnter(t) \/ AddInherit(t)
    <2>1. at[t] \in Names /\ arg[t] \in Appenders
      BY <1>0, <1>7 DEF InCall, AddEnter, AddInherit
    <2>2. m_appenders[at[t]] \in Seq(Appenders)
      BY <1>0, <2>1 DEF LoggerTypeOK
    <2>3. Append(m_appenders[at[t]], arg[t]) \in Seq(Appenders)
      BY <2>1, <2>2, Appended
    <2>4. m_appenders' \in [Names -> Seq(Appenders)]
      BY <1>0, <1>7, <2>3 DEF AddEnter, AddInherit, Pushed, LoggerTypeOK
    <2>5. mutex' \in [Names -> Threads \cup {Free}]
      BY <1>0, <1>7 DEF AddEnter, AddInherit, Pushed, Unlocked, LoggerTypeOK
    <2> QED BY <1>0, <1>7, <2>4, <2>5 DEF AddEnter, AddInherit, LoggerTypeOK
  <1>8. CASE Redefine(t) \/ Undefine(t)
    <2>1. m_level' \in [Names -> UNKNOW .. 5]
      <3>1. CASE Redefine(t)
        <4>1. PICK n \in todo[t] : m_level' \in {m_level, [m_level EXCEPT ![n] = new[t][n].level]}
          BY <3>1 DEF Redefine
        <4>2. n \in Names /\ n \in DOMAIN new[t] /\ Definitions(new[t])
          BY <1>0, <3>1 DEF Redefine, InCall, Rebuilding, Reloading, ReloadTypeOK
        <4> QED BY <1>0, <4>1, <4>2 DEF Definitions, LoggerTypeOK
      <3>2. CASE Undefine(t)
        BY <1>0, <3>2 DEF Undefine, LoggerTypeOK
      <3> QED BY <1>8, <3>1, <3>2
    <2> QED BY <1>0, <1>8, <2>1 DEF Redefine, Undefine, LoggerTypeOK
  <1> QED BY <1>1, <1>2, <1>3, <1>4, <1>5, <1>6, <1>7, <1>8, Cases

\* An appender whose formatter changes keeps the rest.
LEMMA Formatted ==
  ASSUME NEW r, IsAppender(r), NEW f
  PROVE  LET s == [r EXCEPT !.formatter = f] IN
         /\ DOMAIN s = DOMAIN r /\ s.formatter = f
         /\ s.type = r.type /\ s.file = r.file /\ s.level = r.level /\ s.has = r.has
  BY DEF IsAppender

\* An appender that is given a formatter of its own.
LEMMA GivenOne ==
  ASSUME NEW r, IsAppender(r), NEW f
  PROVE  LET s == [r EXCEPT !.formatter = f, !.has = TRUE] IN
         DOMAIN s = DOMAIN r /\ s.formatter = f /\ s.type = r.type /\ s.level = r.level /\ s.has = TRUE
  BY DEF IsAppender

\* An appender made from a definition.
LEMMA MadeOne ==
  ASSUME NEW d, d.type \in {"FileLogAppender", "StdoutLogAppender"}, d.level \in UNKNOW .. 5
  PROVE  /\ IsAppender(Made(d))
         /\ Made(d).type = d.type /\ Made(d).file = d.file /\ Made(d).level = d.level
         /\ Made(d).has <=> d.formatter \in Formatters
         /\ Made(d).has => Made(d).formatter = d.formatter
         /\ ~Made(d).has => Made(d).formatter = NoText
  <1>1. CASE d.formatter \in Formatters
    <2>1. Made(d) = [type |-> d.type, file |-> d.file, level |-> d.level, formatter |-> d.formatter,
                     has |-> TRUE]
      <3>1. (d.formatter \in Formatters) = TRUE
        BY <1>1
      <3> QED BY <1>1, <3>1 DEF Made
    <2> QED BY <1>1, <2>1 DEF IsAppender
  <1>2. CASE d.formatter \notin Formatters
    <2>1. Made(d) = [type |-> d.type, file |-> d.file, level |-> d.level, formatter |-> NoText,
                     has |-> FALSE]
      <3>1. (d.formatter \in Formatters) = FALSE
        BY <1>2
      <3> QED BY <1>2, <3>1 DEF Made
    <2> QED BY <1>2, <2>1 DEF IsAppender
  <1> QED BY <1>1, <1>2

\* Which appenders Reformatted changes, and how.
LEMMA ReformattedOnes ==
  ASSUME AppTypeOK, NEW n \in Names, NEW f \in Formatters, Reformatted(n, f), NEW a \in Appenders
  PROVE  /\ DOMAIN app' = Appenders /\ IsAppender(app'[a])
         /\ app'[a].type = app[a].type /\ app'[a].file = app[a].file /\ app'[a].level = app[a].level
         /\ app'[a].has = app[a].has
         /\ a \in Elems(m_appenders[n]) /\ ~app[a].has => app'[a].formatter = f
         /\ ~(a \in Elems(m_appenders[n]) /\ ~app[a].has) => app'[a] = app[a]
  <1>1. IsAppender(app[a]) /\ DOMAIN app' = Appenders
    BY DEF AppTypeOK, Reformatted
  <1>2. CASE a \in Elems(m_appenders[n]) /\ ~app[a].has
    <2>1. app'[a] = [app[a] EXCEPT !.formatter = f]
      BY <1>2 DEF Reformatted, Inherits
    <2> QED BY <1>1, <1>2, <2>1, Formatted DEF IsAppender
  <1>3. CASE ~(a \in Elems(m_appenders[n]) /\ ~app[a].has)
    <2>1. app'[a] = app[a]
      BY <1>3 DEF Reformatted, Inherits
    <2> QED BY <1>1, <1>3, <2>1
  <1> QED BY <1>2, <1>3

\* The program gives an appender a formatter of its own.
Given(b, f) == app' = [app EXCEPT ![b].formatter = f, ![b].has = TRUE]

\* What a program's change of an appender's formatter does.
LEMMA GivenOnes ==
  ASSUME AppTypeOK, NEW b \in Appenders, NEW f \in Formatters, Given(b, f), NEW a \in Appenders
  PROVE  /\ DOMAIN app' = Appenders /\ IsAppender(app'[a])
         /\ a # b => app'[a] = app[a]
         /\ a = b => app'[a].has = TRUE /\ app'[a].formatter = f
  <1>1. IsAppender(app[a]) /\ IsAppender(app[b]) /\ DOMAIN app = Appenders
    BY DEF AppTypeOK
  <1>2. DOMAIN app' = Appenders /\ (a # b => app'[a] = app[a])
    BY <1>1 DEF Given
  <1>3. CASE a = b
    <2>1. app'[a] = [app[b] EXCEPT !.formatter = f, !.has = TRUE]
      BY <1>1, <1>3 DEF Given
    <2> QED BY <1>1, <1>2, <1>3, <2>1, GivenOne DEF IsAppender
  <1> QED BY <1>1, <1>2, <1>3

\* addAppender gives an appender the formatter of the logger.
Inherited(b, f) == app' = [app EXCEPT ![b].formatter = f]

\* What the formatter that addAppender gives does.
LEMMA InheritedOnes ==
  ASSUME AppTypeOK, NEW b \in Appenders, NEW f \in Formatters, Inherited(b, f), NEW a \in Appenders
  PROVE  /\ DOMAIN app' = Appenders /\ IsAppender(app'[a])
         /\ app'[a].type = app[a].type /\ app'[a].file = app[a].file /\ app'[a].level = app[a].level
         /\ app'[a].has = app[a].has
         /\ a # b => app'[a] = app[a]
         /\ a = b => app'[a].formatter = f
  <1>1. IsAppender(app[a]) /\ IsAppender(app[b]) /\ DOMAIN app = Appenders
    BY DEF AppTypeOK
  <1>2. DOMAIN app' = Appenders /\ (a # b => app'[a] = app[a])
    BY <1>1 DEF Inherited
  <1>3. CASE a = b
    <2>1. app'[a] = [app[b] EXCEPT !.formatter = f]
      BY <1>1, <1>3 DEF Inherited
    <2> QED BY <1>1, <1>2, <1>3, <2>1, Formatted DEF IsAppender
  <1> QED BY <1>1, <1>2, <1>3

\* An appender to be made is one of the objects that are not in use.
LEMMA UnusedOne ==
  ASSUME Unused # {}
  PROVE  (CHOOSE a \in Unused : TRUE) \in Unused
  OBVIOUS

\* What Make does: it passes a definition over, or makes an unused object an appender.
LEMMA MakeFacts ==
  ASSUME IInv, NEW t \in Threads, Make(t)
  PROVE  LET d == Head(defs[t]) IN
         /\ defs[t] # <<>> /\ d = defs[t][1] /\ pc[t] = "make"
         /\ d.type \in {"FileLogAppender", "StdoutLogAppender"} /\ d.level \in UNKNOW .. 5
         /\ defs' = [defs EXCEPT ![t] = Tail(@)]
         /\ \/ Skipped(d) /\ UNCHANGED <<app, adds, arg, pc>>
            \/ \E a \in Unused : /\ ~Skipped(d) /\ app' = [app EXCEPT ![a] = Made(d)]
                                 /\ adds' = [adds EXCEPT ![a] = 0]
                                 /\ arg' = [arg EXCEPT ![t] = a]
                                 /\ pc' = [pc EXCEPT ![t] = "add"]
  <1>1. IsDefs(defs[t])
    BY DEF IInv, InCall
  <1>2. defs[t] # <<>> /\ Head(defs[t]) = defs[t][1] /\ 1 \in DOMAIN defs[t]
    BY <1>1 DEF Make, IsDefs
  <1>3. CASE Skipped(Head(defs[t]))
    BY <1>1, <1>2, <1>3 DEF Make, IsDefs
  <1>4. CASE ~Skipped(Head(defs[t]))
    BY <1>1, <1>2, <1>4, UnusedOne DEF Make, IsDefs, Goto
  <1> QED BY <1>3, <1>4

\* The appenders keep their types.
LEMMA AppTypes ==
  ASSUME IInv, NEW t \in Threads, Begin(t) \/ Proceed(t)
  PROVE  AppTypeOK'
  <1> USE Constants
  <1>0. /\ LoggerTypeOK /\ AppTypeOK /\ ThreadTypeOK /\ LineTypeOK /\ ReloadTypeOK /\ InCall
    BY DEF IInv, TypeOK
  <1>1. CASE \/ LogCalls(t) \/ SetLevels(t) \/ DelAppenders(t) \/ ClearsAppenders(t)
             \/ AddAppenders(t) \/ Loads(t) \/ LogEnter(t) \/ LogWrite(t) \/ Redefine(t) \/ Clear(t)
             \/ MadeAll(t) \/ Undefine(t) \/ ClearGone(t) \/ Heard(t) \/ Store(t)
    <2>1. UNCHANGED <<app, adds>>
      BY <1>1 DEF LogCalls, LogCall, SetLevels, SetLevel, DelAppenders, DelAppender, ClearsAppenders,
                  ClearAppenders, AddAppenders, AddAppender, Loads, Load, LogEnter, LogWrite, Redefine,
                  Clear, MadeAll, Undefine, ClearGone, Heard, Store
    <2> QED BY <1>0, <2>1 DEF AppTypeOK
  <1>2. CASE SetFormatters(t) \/ Reformat(t)
    <2>1. UNCHANGED adds
      BY <1>2 DEF SetFormatters, SetFormatter, Reformat
    <2>2. \/ UNCHANGED app
          \/ \E n \in Names, f \in Formatters : Reformatted(n, f)
      <3>1. CASE SetFormatters(t)
        BY <3>1, AcceptedIsOne DEF SetFormatters, SetFormatter
      <3>2. CASE Reformat(t)
        <4>1. name[t] \in Names
          BY <1>0, <3>2 DEF InCall, Reformat, ReloadTypeOK, Definitions, Reloading, Rebuilding
        <4> QED BY <3>2, <4>1 DEF Reformat
      <3> QED BY <1>2, <3>1, <3>2
    <2>3. CASE UNCHANGED app
      BY <1>0, <2>1, <2>3 DEF AppTypeOK
    <2>4. CASE \E n \in Names, f \in Formatters : Reformatted(n, f)
      <3>1. PICK n \in Names, f \in Formatters : Reformatted(n, f)
        BY <2>4
      <3>2. DOMAIN app' = Appenders
        BY <3>1 DEF Reformatted
      <3>3. \A a \in Appenders : IsAppender(app'[a])
        BY <1>0, <3>1, ReformattedOnes
      <3> QED BY <1>0, <2>1, <3>2, <3>3 DEF AppTypeOK, IsAppender
    <2> QED BY <2>2, <2>3, <2>4
  <1>3. CASE AppenderSetFormatters(t)
    <2>1. PICK a \in Own, f \in Formatters : AppenderSetFormatter(t, a, f)
      BY <1>3 DEF AppenderSetFormatters
    <2>2. Given(a, f) /\ UNCHANGED adds
      BY <2>1 DEF AppenderSetFormatter, Given
    <2>3. \A b \in Appenders : DOMAIN app' = Appenders /\ IsAppender(app'[b])
      <3>1. a \in Appenders
        BY Constants
      <3> QED BY <1>0, <2>2, <3>1, GivenOnes
    <2> QED BY <1>0, <2>2, <2>3 DEF AppTypeOK, IsAppender
  <1>4. CASE AddEnter(t)
    <2>1. arg[t] \in Appenders /\ UNCHANGED app
      BY <1>0, <1>4 DEF InCall, AddEnter
    <2>2. adds' \in [Appenders -> 0 .. 2]
      BY <1>0, <1>4, <2>1 DEF AddEnter, Pushed, AppTypeOK
    <2> QED BY <1>0, <2>1, <2>2 DEF AppTypeOK
  <1>5. CASE AddInherit(t)
    <2>1. arg[t] \in Appenders /\ m_formatter[at[t]] \in Formatters
      BY <1>0, <1>5 DEF InCall, AddInherit, LoggerTypeOK
    <2>2. adds' \in [Appenders -> 0 .. 2]
      BY <1>0, <1>5, <2>1 DEF AddInherit, Pushed, AppTypeOK
    <2>3. Inherited(arg[t], m_formatter[at[t]])
      BY <1>5 DEF AddInherit, Inherited
    <2>4. \A b \in Appenders : DOMAIN app' = Appenders /\ IsAppender(app'[b])
      BY <1>0, <2>1, <2>3, InheritedOnes
    <2> QED BY <2>1, <2>2, <2>4 DEF AppTypeOK, IsAppender
  <1>6. CASE Make(t)
    <2>1. CASE UNCHANGED <<app, adds>>
      BY <1>0, <2>1 DEF AppTypeOK
    <2>2. CASE ~UNCHANGED <<app, adds>>
      <3>1. PICK a \in Unused : /\ app' = [app EXCEPT ![a] = Made(Head(defs[t]))]
                                /\ adds' = [adds EXCEPT ![a] = 0]
        BY <1>6, <2>2, MakeFacts
      <3>2. IsAppender(Made(Head(defs[t])))
        BY <1>6, MakeFacts, MadeOne
      <3>3. a \in Appenders
        BY DEF Unused
      <3>4. DOMAIN app' = Appenders /\ \A b \in Appenders : IsAppender(app'[b])
        BY <1>0, <3>1, <3>2, <3>3 DEF AppTypeOK
      <3>5. adds' \in [Appenders -> 0 .. 2]
        BY <1>0, <3>1, <3>3 DEF AppTypeOK
      <3> QED BY <3>4, <3>5 DEF AppTypeOK, IsAppender
    <2> QED BY <2>1, <2>2
  <1> QED BY <1>1, <1>2, <1>3, <1>4, <1>5, <1>6, Cases

\* The rest of a sequence of appenders is one.
LEMMA TailOfOne ==
  ASSUME NEW s \in Seq(Appenders), s # <<>>
  PROVE  Tail(s) \in Seq(Appenders)
  OBVIOUS

\* Where a thread goes is a place.
LEMMA ThreadTypes ==
  ASSUME IInv, NEW t \in Threads, Begin(t) \/ Proceed(t)
  PROVE  ThreadTypeOK'
  <1> USE Constants
  <1>0. /\ ThreadTypeOK /\ InCall /\ InLine
    BY DEF IInv, TypeOK
  <1>1. CASE LogCalls(t)
    <2>1. UNCHANGED <<arg, touched>> /\ calls' \in 0 .. MaxCalls
      BY <1>0, <1>1 DEF LogCalls, LogCall, MayCall, ThreadTypeOK
    <2>2. pc' \in {[pc EXCEPT ![t] = "log"], [pc EXCEPT ![t] = "idle"]}
      BY <1>1 DEF LogCalls, LogCall, BeginLine, Goto
    <2> QED BY <1>0, <2>1, <2>2 DEF ThreadTypeOK
  <1>2. CASE \/ SetLevels(t) \/ SetFormatters(t) \/ DelAppenders(t) \/ ClearsAppenders(t)
    <2>1. UNCHANGED <<pc, arg>>
      BY <1>2 DEF SetLevels, SetLevel, SetFormatters, SetFormatter, DelAppenders, DelAppender,
                  ClearsAppenders, ClearAppenders
    <2>2. \E n \in Names, what \in {"settings", "appenders"} : Change(t, n, what)
      BY <1>2 DEF SetLevels, SetLevel, SetFormatters, SetFormatter, DelAppenders, DelAppender,
                  ClearsAppenders, ClearAppenders
    <2> QED BY <1>0, <2>1, <2>2 DEF ThreadTypeOK, Change, MayCall
  <1>9. CASE AppenderSetFormatters(t)
    <2>1. UNCHANGED <<pc, arg, touched>> /\ MayCall(t)
      BY <1>9 DEF AppenderSetFormatters, AppenderSetFormatter
    <2> QED BY <1>0, <2>1 DEF ThreadTypeOK, MayCall
  <1>3. CASE AddAppenders(t)
    <2>1. calls' \in 0 .. MaxCalls /\ pc' = [pc EXCEPT ![t] = "add"]
      BY <1>0, <1>3 DEF AddAppenders, AddAppender, Change, MayCall, Goto, ThreadTypeOK
    <2>2. touched' \subseteq Names \X {"settings", "appenders"}
      BY <1>0, <1>3 DEF AddAppenders, AddAppender, Change, ThreadTypeOK
    <2>3. arg' \in [Threads -> Appenders \cup {Free}]
      BY <1>0, <1>3 DEF AddAppenders, AddAppender, ThreadTypeOK
    <2> QED BY <1>0, <2>1, <2>2, <2>3 DEF ThreadTypeOK
  <1>4. CASE Loads(t)
    <2>1. UNCHANGED <<arg, touched>> /\ calls' \in 0 .. MaxCalls
      BY <1>0, <1>4 DEF Loads, Load, MayCall, ThreadTypeOK
    <2>2. pc' \in {pc} \cup {[pc EXCEPT ![t] = p] : p \in {"log", "idle", "next"}}
      BY <1>4 DEF Loads, Load, BeginLine, Goto
    <2> QED BY <1>0, <2>1, <2>2 DEF ThreadTypeOK
  <1>5. CASE LogEnter(t) \/ LogWrite(t)
    <2>1. UNCHANGED <<arg, calls, touched>>
      BY <1>5 DEF LogEnter, LogWrite
    <2>2. pc' \in {pc} \cup {[pc EXCEPT ![t] = p] : p \in {"write", "idle", "next"}}
      BY <1>5 DEF LogEnter, LogWrite, EndLine, Goto
    <2> QED BY <1>0, <2>1, <2>2 DEF ThreadTypeOK
  <1>6. CASE AddEnter(t) \/ AddInherit(t)
    <2>1. UNCHANGED <<calls, touched>>
      BY <1>6 DEF AddEnter, AddInherit
    <2>2. pc' \in {[pc EXCEPT ![t] = p] : p \in {"inherit", "make", "idle"}}
      BY <1>6 DEF AddEnter, AddInherit, Pushed, Goto
    <2>3. arg' \in {arg, [arg EXCEPT ![t] = Free]}
      BY <1>6 DEF AddEnter, AddInherit, Pushed
    <2> QED BY <1>0, <2>1, <2>2, <2>3 DEF ThreadTypeOK
  <1>7. CASE \/ Redefine(t) \/ Undefine(t) \/ Reformat(t) \/ Clear(t) \/ Heard(t) \/ Store(t)
             \/ MadeAll(t) \/ ClearGone(t)
    <2>1. UNCHANGED <<arg, calls, touched>>
      BY <1>7 DEF Redefine, Undefine, Reformat, Clear, Heard, Store, MadeAll, ClearGone
    <2>2. pc' \in {pc} \cup {[pc EXCEPT ![t] = p] :
                               p \in {"reformat", "clearGone", "clear", "make", "store", "idle", "next"}}
      BY <1>7 DEF Redefine, Undefine, Reformat, Clear, Heard, Store, MadeAll, ClearGone, Goto
    <2> QED BY <1>0, <2>1, <2>2 DEF ThreadTypeOK
  <1>8. CASE Make(t)
    <2>1. UNCHANGED <<calls, touched>>
      BY <1>8 DEF Make
    <2>2. pc' \in {pc, [pc EXCEPT ![t] = "add"]}
      BY <1>8 DEF Make, Goto
    <2>3. arg' \in [Threads -> Appenders \cup {Free}]
      BY <1>0, <1>8, MakeFacts DEF ThreadTypeOK, Unused
    <2> QED BY <1>0, <2>1, <2>2, <2>3 DEF ThreadTypeOK
  <1> QED BY <1>1, <1>2, <1>3, <1>4, <1>5, <1>6, <1>7, <1>8, <1>9, Cases

\* A step that changes the line of one thread keeps the types.
LEMMA LineTypesKept ==
  ASSUME LineTypeOK, NEW t \in Threads,
         NEW n \in Names \cup {Free}, NEW m \in Names \cup {Free}, NEW v \in UNKNOW .. 5,
         NEW r \in Seq(Appenders),
         name' \in {name, [name EXCEPT ![t] = n]}, at' \in {at, [at EXCEPT ![t] = m]},
         event' \in {event, [event EXCEPT ![t] = v]}, rest' \in {rest, [rest EXCEPT ![t] = r]}
  PROVE  LineTypeOK'
  <1>1. name' \in [Threads -> Names \cup {Free}]
    BY DEF LineTypeOK
  <1>2. at' \in [Threads -> Names \cup {Free}]
    BY DEF LineTypeOK
  <1>3. event' \in [Threads -> UNKNOW .. 5]
    BY DEF LineTypeOK
  <1>4. rest' \in [Threads -> Seq(Appenders)]
    BY DEF LineTypeOK
  <1> QED BY <1>1, <1>2, <1>3, <1>4 DEF LineTypeOK

\* The line that a thread logs, and the logger it is at, have their types.
LEMMA LineTypes ==
  ASSUME IInv, NEW t \in Threads, Begin(t) \/ Proceed(t)
  PROVE  LineTypeOK'
  <1> USE Constants
  <1>0. /\ LoggerTypeOK /\ LineTypeOK /\ ReloadTypeOK /\ InCall /\ InLine
    BY DEF IInv, TypeOK
  <1>1. CASE \/ SetLevels(t) \/ SetFormatters(t) \/ DelAppenders(t) \/ ClearsAppenders(t)
             \/ AppenderSetFormatters(t) \/ Reformat(t) \/ Clear(t) \/ Heard(t) \/ Store(t) \/ Make(t)
    <2>1. UNCHANGED lineVars
      BY <1>1 DEF SetLevels, SetLevel, SetFormatters, SetFormatter, DelAppenders, DelAppender,
                  ClearsAppenders, ClearAppenders, AppenderSetFormatters, AppenderSetFormatter,
                  Reformat, Clear, Heard, Store, Make
    <2> QED BY <1>0, <2>1 DEF LineTypeOK, lineVars
  <1>2. CASE \/ AddAppenders(t) \/ AddEnter(t) \/ AddInherit(t) \/ Redefine(t) \/ Undefine(t)
             \/ MadeAll(t) \/ ClearGone(t)
    <2>1. UNCHANGED <<event, rest>>
      BY <1>2 DEF AddAppenders, AddAppender, AddEnter, AddInherit, Redefine, Undefine, MadeAll,
                  ClearGone
    <2>2. \/ UNCHANGED <<name, at>>
          \/ \E n \in Names \cup {Free} : Be(t, n)
      <3>1. CASE AddAppenders(t) \/ AddEnter(t) \/ AddInherit(t) \/ MadeAll(t) \/ ClearGone(t)
        BY <3>1 DEF AddAppenders, AddAppender, AddEnter, AddInherit, Pushed, MadeAll, ClearGone
      <3>2. CASE Redefine(t) \/ Undefine(t)
        BY <1>0, <3>2 DEF Redefine, Undefine, ReloadTypeOK
      <3> QED BY <1>2, <3>1, <3>2
    <2> QED BY <1>0, <2>1, <2>2, LineTypesKept DEF LineTypeOK, Be
  <1>3. CASE LogCalls(t) \/ Loads(t)
    <2>1. UNCHANGED rest
      BY <1>3 DEF LogCalls, LogCall, Loads, Load
    <2>2. \/ UNCHANGED <<name, at, event>>
          \/ \E n \in Names, v \in UNKNOW .. 5 : Be(t, n) /\ event' = [event EXCEPT ![t] = v]
      BY <1>3 DEF LogCalls, LogCall, Loads, Load, BeginLine
    <2> QED BY <1>0, <2>1, <2>2, LineTypesKept DEF LineTypeOK, Be
  <1>4. CASE LogEnter(t)
    <2>1. at[t] \in Names
      BY <1>0, <1>4 DEF InLine, LogEnter
    <2>2. m_appenders[at[t]] \in Seq(Appenders)
      BY <1>0, <2>1 DEF LoggerTypeOK
    <2>3. rest' \in {rest, [rest EXCEPT ![t] = m_appenders[at[t]]]}
      BY <1>4 DEF LogEnter
    <2>4. \/ UNCHANGED <<name, at, event>>
          \/ UNCHANGED <<name, event>> /\ at' = [at EXCEPT ![t] = Root]
          \/ Be(t, Free) /\ event' = [event EXCEPT ![t] = UNKNOW]
      BY <1>4 DEF LogEnter, EndLine
    <2> QED BY <1>0, <2>2, <2>3, <2>4, LineTypesKept DEF LineTypeOK, Be
  <1>5. CASE LogWrite(t)
    <2>1. Tail(rest[t]) \in Seq(Appenders)
      BY <1>0, <1>5, TailOfOne DEF LineTypeOK, InLine, LogWrite
    <2>2. rest' = [rest EXCEPT ![t] = Tail(@)]
      BY <1>5 DEF LogWrite
    <2>3. \/ UNCHANGED <<name, at, event>>
          \/ Be(t, Free) /\ event' = [event EXCEPT ![t] = UNKNOW]
      BY <1>5 DEF LogWrite, EndLine
    <2> QED BY <1>0, <2>1, <2>2, <2>3, LineTypesKept DEF LineTypeOK, Be
  <1> QED BY <1>1, <1>2, <1>3, <1>4, <1>5, Cases

\* What the loggers are rebuilt for.
LEMMA RebuiltIs ==
  ASSUME NEW t, ReloadTypeOK, NEW n \in DOMAIN Rebuilt(t)
  PROVE  /\ Differs(t, n) => Rebuilt(t)[n] = new[t][n]
         /\ n \in DOMAIN value \ DOMAIN new[t] => Rebuilt(t)[n] = Gone
         /\ ~Differs(t, n) /\ n \notin DOMAIN value \ DOMAIN new[t] =>
              n \in DOMAIN last /\ Rebuilt(t)[n] = last[n]
  <1>1. n \in DOMAIN last \cup DOMAIN new[t] \cup DOMAIN value /\ DOMAIN value \subseteq DOMAIN last
    BY DEF Rebuilt, ReloadTypeOK
  <1>2. CASE Differs(t, n)
    BY <1>1, <1>2 DEF Differs, SameDefine, Rebuilt
  <1>3. CASE n \in DOMAIN value \ DOMAIN new[t]
    BY <1>1, <1>3 DEF Differs, Rebuilt
  <1>4. CASE ~Differs(t, n) /\ n \notin DOMAIN value \ DOMAIN new[t]
    BY <1>1, <1>4 DEF Differs, SameDefine, Rebuilt
  <1> QED BY <1>2, <1>3, <1>4

\* The definitions that are loaded keep their types.
LEMMA ReloadTypes ==
  ASSUME IInv, NEW t \in Threads, Begin(t) \/ Proceed(t)
  PROVE  ReloadTypeOK'
  <1> USE Constants
  <1>0. /\ LoggerTypeOK /\ AppTypeOK /\ ThreadTypeOK /\ LineTypeOK /\ ReloadTypeOK /\ InCall
    BY DEF IInv, TypeOK
  <1>1. CASE \/ LogCalls(t) \/ SetLevels(t) \/ SetFormatters(t) \/ DelAppenders(t)
             \/ ClearsAppenders(t) \/ AppenderSetFormatters(t) \/ AddAppenders(t)
             \/ LogEnter(t) \/ LogWrite(t) \/ AddEnter(t) \/ AddInherit(t)
             \/ Reformat(t) \/ MadeAll(t) \/ ClearGone(t) \/ Heard(t)
    <2>1. UNCHANGED <<value, last, reloadVars>>
      BY <1>1 DEF LogCalls, LogCall, SetLevels, SetLevel, SetFormatters, SetFormatter, DelAppenders,
                  DelAppender, ClearsAppenders, ClearAppenders, AppenderSetFormatters,
                  AppenderSetFormatter, AddAppenders, AddAppender, LogEnter, LogWrite, AddEnter,
                  AddInherit, Reformat, MadeAll, ClearGone, Heard
    <2> QED BY <1>0, <2>1 DEF ReloadTypeOK, Definitions, reloadVars
  <1>2. CASE Loads(t)
    <2>1. PICK doc \in Documents : Load(t, doc)
      BY <1>2 DEF Loads
    <2>2. UNCHANGED <<value, last, defs>>
      BY <2>1 DEF Load, reloadVars
    <2>3. CASE UNCHANGED reloadVars
      BY <1>0, <2>2, <2>3 DEF ReloadTypeOK, Definitions, reloadVars
    <2>4. CASE ~UNCHANGED reloadVars
      <3>1. /\ ~Throws(doc)
            /\ new' = [new EXCEPT ![t] = CastAll(doc)]
            /\ todo' = [todo EXCEPT ![t] = DOMAIN CastAll(doc)]
            /\ gone' = [gone EXCEPT ![t] = DOMAIN value \ DOMAIN CastAll(doc)]
        BY <2>1, <2>4 DEF Load, reloadVars
      <3>2. Definitions(CastAll(doc)) /\ DOMAIN CastAll(doc) \subseteq Names
        BY <3>1, Read DEF Definitions
      <3> DEFINE D == CastAll(doc)
      <3> HIDE DEF D
      <3>3. new' = [new EXCEPT ![t] = D] /\ todo' = [todo EXCEPT ![t] = DOMAIN D]
            /\ gone' = [gone EXCEPT ![t] = DOMAIN value \ DOMAIN D]
            /\ Definitions(D) /\ DOMAIN D \subseteq Names
        BY <3>1, <3>2 DEF D
      <3>4. DOMAIN new' = Threads /\ \A u \in Threads : new'[u] \in {new[u], D}
        BY <1>0, <3>3 DEF ReloadTypeOK
      <3>5. \A u \in Threads : new'[u] = Free \/ Definitions(new'[u])
        BY <1>0, <3>3, <3>4 DEF ReloadTypeOK
      <3>6. todo' \in [Threads -> SUBSET Names]
        BY <1>0, <3>3 DEF ReloadTypeOK
      <3>7. gone' \in [Threads -> SUBSET Names]
        <4>1. DOMAIN value \subseteq Names
          BY <1>0 DEF ReloadTypeOK, Definitions
        <4> QED BY <1>0, <3>3, <4>1 DEF ReloadTypeOK
      <3> QED BY <1>0, <2>2, <3>4, <3>5, <3>6, <3>7 DEF ReloadTypeOK, Definitions
    <2> QED BY <2>3, <2>4
  <1>3. CASE Redefine(t) \/ Undefine(t)
    <2>1. UNCHANGED <<value, last, new, defs>>
      BY <1>3 DEF Redefine, Undefine
    <2>2. todo' \in [Threads -> SUBSET Names] /\ gone' \in [Threads -> SUBSET Names]
      BY <1>0, <1>3 DEF Redefine, Undefine, ReloadTypeOK
    <2> QED BY <1>0, <2>1, <2>2 DEF ReloadTypeOK, Definitions
  <1>4. CASE Clear(t) \/ Make(t)
    <2>1. UNCHANGED <<value, last, new, todo, gone>> /\ DOMAIN defs' = DOMAIN defs
      BY <1>4 DEF Clear, Make
    <2> QED BY <1>0, <2>1 DEF ReloadTypeOK, Definitions
  <1>5. CASE Store(t)
    <2>1. /\ value' = new[t] /\ last' = Rebuilt(t) /\ new' = [new EXCEPT ![t] = Free]
          /\ UNCHANGED <<todo, gone, defs>>
      BY <1>5 DEF Store
    <2>2. Definitions(new[t]) /\ new[t] # Free
      BY <1>0, <1>5 DEF Store, InCall, Rebuilding, Reloading, ReloadTypeOK
    <2>3. DOMAIN Rebuilt(t) \subseteq Names
      BY <1>0, <2>2 DEF Rebuilt, ReloadTypeOK, Definitions
    <2>4. ASSUME NEW n \in DOMAIN Rebuilt(t)  PROVE Rebuilt(t)[n].level \in UNKNOW .. 5
      <3>1. CASE Differs(t, n)
        BY <1>0, <2>2, <3>1, RebuiltIs DEF Definitions, Differs
      <3>2. CASE n \in DOMAIN value \ DOMAIN new[t]
        BY <1>0, <3>2, RebuiltIs DEF Gone
      <3>3. CASE ~Differs(t, n) /\ n \notin DOMAIN value \ DOMAIN new[t]
        BY <1>0, <3>3, RebuiltIs DEF ReloadTypeOK
      <3> QED BY <3>1, <3>2, <3>3
    <2>5. Definitions(value')
      BY <2>1, <2>2
    <2>6. DOMAIN new' = Threads /\ \A u \in Threads : new'[u] = Free \/ Definitions(new'[u])
      BY <1>0, <2>1 DEF ReloadTypeOK
    <2>7. DOMAIN value' \subseteq DOMAIN last'
      BY <2>1 DEF Rebuilt
    <2> QED BY <1>0, <2>1, <2>3, <2>4, <2>5, <2>6, <2>7 DEF ReloadTypeOK, Definitions
  <1> QED BY <1>1, <1>2, <1>3, <1>4, <1>5, Cases

(***************************************************************************)
(* Locks and lines.                                                        *)
(***************************************************************************)

\* A step changes where one thread is.
LEMMA OthersStay ==
  ASSUME IInv, NEW t \in Threads, Begin(t) \/ Proceed(t), NEW u \in Threads \ {t}
  PROVE  /\ pc'[u] = pc[u] /\ arg'[u] = arg[u]
         /\ name'[u] = name[u] /\ at'[u] = at[u] /\ event'[u] = event[u] /\ rest'[u] = rest[u]
         /\ new'[u] = new[u] /\ todo'[u] = todo[u] /\ gone'[u] = gone[u] /\ defs'[u] = defs[u]
  <1>0. ThreadTypeOK /\ LineTypeOK /\ ReloadTypeOK
    BY DEF IInv, TypeOK
  <1>1. CASE LogCalls(t) \/ Loads(t)
    BY <1>0, <1>1 DEF LogCalls, LogCall, Loads, Load, BeginLine, Goto, Be, lineVars, reloadVars,
                      ThreadTypeOK, LineTypeOK, ReloadTypeOK
  <1>2. CASE \/ SetLevels(t) \/ SetFormatters(t) \/ DelAppenders(t) \/ ClearsAppenders(t)
             \/ AppenderSetFormatters(t)
    <2>1. UNCHANGED <<pc, arg, lineVars, reloadVars>>
      BY <1>2 DEF SetLevels, SetLevel, SetFormatters, SetFormatter, DelAppenders, DelAppender,
                  ClearsAppenders, ClearAppenders, AppenderSetFormatters, AppenderSetFormatter
    <2> QED BY <2>1 DEF lineVars, reloadVars
  <1>3. CASE AddAppenders(t)
    BY <1>0, <1>3 DEF AddAppenders, AddAppender, Goto, Be, reloadVars, ThreadTypeOK, LineTypeOK
  <1>4. CASE LogEnter(t) \/ LogWrite(t)
    BY <1>0, <1>4 DEF LogEnter, LogWrite, EndLine, Goto, Be, reloadVars, ThreadTypeOK, LineTypeOK
  <1>5. CASE AddEnter(t) \/ AddInherit(t)
    BY <1>0, <1>5 DEF AddEnter, AddInherit, Pushed, Goto, Be, reloadVars, ThreadTypeOK, LineTypeOK
  <1>6. CASE Redefine(t) \/ Undefine(t)
    BY <1>0, <1>6 DEF Redefine, Undefine, Goto, Be, ThreadTypeOK, LineTypeOK, ReloadTypeOK
  <1>7. CASE Reformat(t) \/ Clear(t) \/ Heard(t) \/ Store(t)
    BY <1>0, <1>7 DEF Reformat, Clear, Heard, Store, Goto, lineVars, reloadVars, ThreadTypeOK,
                      ReloadTypeOK
  <1>8. CASE Make(t)
    <2>1. UNCHANGED <<lineVars, new, todo, gone>>
      BY <1>8 DEF Make
    <2>2. defs'[u] = defs[u] /\ pc'[u] = pc[u] /\ arg'[u] = arg[u]
      BY <1>0, <1>8, MakeFacts DEF ThreadTypeOK, ReloadTypeOK
    <2> QED BY <2>1, <2>2 DEF lineVars
  <1>9. CASE MadeAll(t) \/ ClearGone(t)
    BY <1>0, <1>9 DEF MadeAll, ClearGone, Goto, Be, reloadVars, ThreadTypeOK, LineTypeOK
  <1> QED BY <1>1, <1>2, <1>3, <1>4, <1>5, <1>6, <1>7, <1>8, <1>9, Cases

\* The steps that leave the locks alone.
LEMMA LocksStay ==
  ASSUME NEW t \in Threads, Begin(t) \/ Proceed(t),
         ~LogEnter(t), ~LogWrite(t), ~AddEnter(t), ~AddInherit(t)
  PROVE  UNCHANGED mutex
  BY Cases DEF LogCalls, LogCall, SetLevels, SetLevel, SetFormatters, SetFormatter, AddAppenders,
               AddAppender, DelAppenders, DelAppender, ClearsAppenders, ClearAppenders,
               AppenderSetFormatters, AppenderSetFormatter, Loads, Load, Redefine, Reformat, Clear,
               Make, MadeAll, Undefine, ClearGone, Heard, Store, loggerVars

\* What a step does to a lock: it takes a free one, where the thread is, or gives its own back.
LEMMA LockSteps ==
  ASSUME IInv, NEW t \in Threads, Begin(t) \/ Proceed(t), NEW n \in Names
  PROVE  \/ mutex'[n] = mutex[n]
         \/ mutex[n] = Free /\ mutex'[n] = t /\ n = at[t]
         \/ mutex[n] = t /\ mutex'[n] = Free
  <1>0. LoggerTypeOK
    BY DEF IInv, TypeOK
  <1>1. CASE LogEnter(t)
    BY <1>0, <1>1 DEF LogEnter, Unlocked, LoggerTypeOK
  <1>2. CASE LogWrite(t)
    BY <1>0, <1>2 DEF LogWrite, Unlocked, LoggerTypeOK
  <1>3. CASE AddEnter(t)
    BY <1>0, <1>3 DEF AddEnter, Pushed, Unlocked, LoggerTypeOK
  <1>4. CASE AddInherit(t)
    BY <1>0, <1>4 DEF AddInherit, Pushed, Unlocked, LoggerTypeOK
  <1> QED BY <1>1, <1>2, <1>3, <1>4, LocksStay

\* What a step does to the appenders of a logger: it has or takes the lock.
LEMMA ListSteps ==
  ASSUME IInv, NEW t \in Threads, Begin(t) \/ Proceed(t), NEW n \in Names
  PROVE  \/ m_appenders'[n] = m_appenders[n]
         \/ mutex[n] = Free
         \/ mutex[n] = t /\ pc[t] = "inherit"
  <1>0. LoggerTypeOK /\ InCall
    BY DEF IInv, TypeOK
  <1>1. CASE DelAppenders(t) \/ ClearsAppenders(t) \/ Clear(t) \/ ClearGone(t)
    BY <1>0, <1>1 DEF DelAppenders, DelAppender, ClearsAppenders, ClearAppenders, Clear, ClearGone,
                      Cleared, MayLock, LoggerTypeOK
  <1>2. CASE AddEnter(t)
    BY <1>0, <1>2 DEF AddEnter, Pushed, LoggerTypeOK
  <1>3. CASE AddInherit(t)
    BY <1>0, <1>3 DEF AddInherit, Pushed, InCall, LoggerTypeOK
  <1>4. CASE ~(\/ DelAppenders(t) \/ ClearsAppenders(t) \/ Clear(t) \/ ClearGone(t) \/ AddEnter(t)
               \/ AddInherit(t))
    BY <1>4, Cases DEF LogCalls, LogCall, SetLevels, SetLevel, SetFormatters, SetFormatter,
               AddAppenders, AddAppender, AppenderSetFormatters, AppenderSetFormatter, Loads, Load,
               Redefine, Reformat, LogEnter, LogWrite, Make, MadeAll, Undefine, Heard, Store, loggerVars
  <1> QED BY <1>1, <1>2, <1>3, <1>4

\* Nobody takes the lock of another, nor the appenders of the logger.
LEMMA HeldStays ==
  ASSUME IInv, NEW t \in Threads, Begin(t) \/ Proceed(t), NEW n \in Names, NEW u \in Threads \ {t},
         mutex[n] = u
  PROVE  mutex'[n] = u /\ m_appenders'[n] = m_appenders[n]
  <1>1. u # Free
    BY Constants
  <1> QED BY <1>1, LockSteps, ListSteps

\* Only the calls of log() and addAppender are ever stopped with a lock.
LEMMA LocksHeld ==
  ASSUME IInv, NEW t \in Threads, Begin(t) \/ Proceed(t)
  PROVE  Holding'
  <1> SUFFICES ASSUME NEW n \in Names, NEW u \in Threads, mutex'[n] = u
               PROVE  \/ pc'[u] = "write" /\ n \in {name'[u], at'[u]}
                      \/ pc'[u] = "inherit" /\ n = at'[u]
                      \/ pc'[u] = "log" /\ n = name'[u] /\ at'[u] = Root /\ n # Root
    BY DEF Holding
  <1>0. /\ LoggerTypeOK /\ ThreadTypeOK /\ LineTypeOK /\ Holding /\ InLine /\ InCall
        /\ t # Free /\ u # Free
    BY Constants DEF IInv, TypeOK
  <1>1. CASE u # t
    <2>1. mutex[n] = u
      BY <1>0, <1>1, LockSteps
    <2> QED BY <1>0, <1>1, <2>1, OthersStay DEF Holding
  <1>2. CASE u = t /\ LogEnter(t)
    <2>1. pc[t] = "log" /\ name[t] \in Names /\ at[t] \in {name[t], Root}
      BY <1>0, <1>2 DEF LogEnter, InLine
    <2>2. mutex[n] = t => n = name[t] /\ at[t] = Root /\ n # Root
      BY <1>0, <2>1 DEF Holding
    <2>3. CASE ~Asks(at[t]) /\ m_appenders[at[t]] # <<>>
      <3>1. mutex' = [mutex EXCEPT ![at[t]] = t] /\ pc' = [pc EXCEPT ![t] = "write"]
            /\ UNCHANGED <<name, at>>
        BY <1>2, <2>3 DEF LogEnter, Goto
      <3> QED BY <1>0, <1>2, <2>1, <2>2, <3>1 DEF LoggerTypeOK, ThreadTypeOK
    <2>4. CASE Asks(at[t]) /\ event[t] >= m_level[Root]
      <3>1. mutex' = [mutex EXCEPT ![at[t]] = t] /\ at' = [at EXCEPT ![t] = Root]
            /\ UNCHANGED <<pc, name>>
        BY <1>0, <1>2, <2>4, Constants DEF LogEnter, Asks, LineTypeOK, LoggerTypeOK
      <3>2. at[t] # Root
        BY <2>4 DEF Asks
      <3> QED BY <1>0, <1>2, <2>1, <2>2, <3>1, <3>2 DEF LoggerTypeOK, LineTypeOK
    <2>5. CASE ~(\/ ~Asks(at[t]) /\ m_appenders[at[t]] # <<>>
                 \/ Asks(at[t]) /\ event[t] >= m_level[Root])
      <3>1. Unlocked(t)
        BY <1>2, <2>5 DEF LogEnter
      <3> QED BY <1>0, <1>2, <3>1 DEF Unlocked
    <2> QED BY <2>3, <2>4, <2>5
  <1>3. CASE u = t /\ LogWrite(t)
    <2>1. CASE Len(rest[t]) > 1
      BY <1>0, <1>3, <2>1 DEF LogWrite, Holding
    <2>2. CASE ~(Len(rest[t]) > 1)
      BY <1>0, <1>3, <2>2 DEF LogWrite, Unlocked
    <2> QED BY <2>1, <2>2
  <1>4. CASE u = t /\ AddEnter(t)
    <2>1. pc[t] = "add" /\ mutex[n] # t
      BY <1>0, <1>4 DEF AddEnter, Holding
    <2>2. CASE HasOne(arg[t])
      BY <1>0, <1>4, <2>1, <2>2 DEF AddEnter, Pushed, Unlocked
    <2>3. CASE ~HasOne(arg[t])
      BY <1>0, <1>4, <2>1, <2>3 DEF AddEnter, Goto, LoggerTypeOK, ThreadTypeOK
    <2> QED BY <2>2, <2>3
  <1>5. CASE u = t /\ AddInherit(t)
    BY <1>0, <1>5 DEF AddInherit, Pushed, Unlocked
  <1>6. CASE u = t /\ ~LogEnter(t) /\ ~LogWrite(t) /\ ~AddEnter(t) /\ ~AddInherit(t)
    <2>1. mutex[n] = t
      BY <1>6, LocksStay
    <2>2. pc[t] \in {"write", "inherit", "log"}
      BY <1>0, <2>1 DEF Holding
    <2>3. FALSE
      BY <1>6, <2>2, Cases DEF LogCalls, LogCall, SetLevels, SetLevel, SetFormatters, SetFormatter,
         AddAppenders, AddAppender, DelAppenders, DelAppender, ClearsAppenders, ClearAppenders,
         AppenderSetFormatters, AppenderSetFormatter, Loads, Load, Change, MayCall, Redefine, Reformat,
         Clear, Make, MadeAll, Undefine, ClearGone, Heard, Store
    <2> QED BY <2>3
  <1> QED BY <1>1, <1>2, <1>3, <1>4, <1>5, <1>6

\* What follows the first of the last appenders are the last ones as well.
LEMMA RestOfRest ==
  ASSUME NEW s \in Seq(Appenders), NEW r, IsRest(r, s), Len(r) > 1
  PROVE  IsRest(Tail(r), s) /\ Tail(r) # <<>>
  <1>1. PICK k \in 0 .. Len(s) : r = SubSeq(s, k + 1, Len(s))
    BY DEF IsRest
  <1>2. Len(r) = Len(s) - k /\ k + 1 \in 0 .. Len(s)
    BY <1>1
  <1>3. k + 1 \in 1 .. Len(s) /\ Len(s) \in (k + 1) .. Len(s)
    BY <1>2
  <1>4. Tail(r) = SubSeq(s, (k + 1) + 1, Len(s))
    BY <1>1, <1>3, HeadTailOfSubSeq
  <1>5. Len(SubSeq(s, (k + 1) + 1, Len(s))) # 0
    BY <1>2
  <1>6. Tail(r) # <<>>
    <2>1. Len(Tail(r)) # 0
      BY <1>4, <1>5, Zenon
    <2>2. Len(<<>>) = 0
      OBVIOUS
    <2> QED BY <2>1, <2>2, Zenon
  <1> QED BY <1>2, <1>4, <1>6 DEF IsRest

\* All the appenders are the last ones.
LEMMA AllOfThem ==
  ASSUME NEW s \in Seq(Appenders)
  PROVE  IsRest(s, s)
  <1>1. s = SubSeq(s, 0 + 1, Len(s)) /\ 0 \in 0 .. Len(s)
    OBVIOUS
  <1> QED BY <1>1 DEF IsRest

\* A line goes through the appenders of its logger, or of the root.
LEMMA LinesKept ==
  ASSUME IInv, NEW t \in Threads, Begin(t) \/ Proceed(t)
  PROVE  InLine'
  <1> DEFINE L(u) == /\ pc[u] \in {"log", "write"} => name[u] \in Names /\ at[u] \in {name[u], Root}
                     /\ pc[u] = "write" => /\ mutex[at[u]] = u /\ rest[u] # <<>>
                                           /\ IsRest(rest[u], m_appenders[at[u]])
                     /\ pc[u] \in {"log", "write"} /\ at[u] # name[u] =>
                          mutex[name[u]] = u /\ m_appenders[name[u]] = <<>>
  <1>0. /\ LoggerTypeOK /\ ThreadTypeOK /\ LineTypeOK /\ Holding /\ InLine /\ InCall
        /\ t # Free
    BY Constants DEF IInv, TypeOK
  <1>1. ASSUME NEW u \in Threads \ {t}  PROVE L(u)'
    <2>1. L(u)
      BY <1>0 DEF InLine
    <2>2. pc[u] \in {"log", "write"} => name[u] \in Names /\ at[u] \in Names
      BY <2>1, Constants
    <2>3. /\ pc'[u] = pc[u] /\ name'[u] = name[u] /\ at'[u] = at[u] /\ rest'[u] = rest[u]
      BY OthersStay
    <2>4. pc[u] = "write" => mutex'[at[u]] = u /\ m_appenders'[at[u]] = m_appenders[at[u]]
      BY <2>1, <2>2, HeldStays
    <2>5. pc[u] \in {"log", "write"} /\ at[u] # name[u] =>
            mutex'[name[u]] = u /\ m_appenders'[name[u]] = m_appenders[name[u]]
      BY <2>1, <2>2, HeldStays
    <2>6. pc[u] = "write" => IsRest(rest'[u], m_appenders'[at'[u]])
      BY <2>1, <2>3, <2>4
    <2> QED BY <2>1, <2>3, <2>4, <2>5, <2>6
  <1>2. L(t)'
    <2>1. CASE LogCalls(t) \/ Loads(t)
      <3>1. \/ pc'[t] = "log" /\ name'[t] \in Names /\ at'[t] = name'[t]
            \/ pc'[t] \in {"idle", "next"}
        BY <1>0, <2>1, Constants DEF LogCalls, LogCall, Loads, Load, MayCall, BeginLine, Goto, Be,
                                     ThreadTypeOK, LineTypeOK
      <3> QED BY <3>1
    <2>2. CASE LogEnter(t)
      <3>1. pc[t] = "log" /\ name[t] \in Names /\ at[t] \in {name[t], Root} /\ at[t] \in Names
        BY <1>0, <2>2, Constants DEF LogEnter, InLine
      <3>2. at[t] # name[t] => mutex[name[t]] = t /\ m_appenders[name[t]] = <<>>
        BY <1>0, <3>1 DEF InLine
      <3>3. UNCHANGED m_appenders
        BY <2>2 DEF LogEnter
      <3>4. CASE ~Asks(at[t]) /\ m_appenders[at[t]] # <<>>
        <4>1. /\ mutex' = [mutex EXCEPT ![at[t]] = t] /\ pc'[t] = "write"
              /\ rest'[t] = m_appenders[at[t]] /\ UNCHANGED <<name, at>>
          BY <1>0, <2>2, <3>4 DEF LogEnter, Goto, ThreadTypeOK, LineTypeOK
        <4>2. mutex'[at[t]] = t /\ (mutex[name[t]] = t => mutex'[name[t]] = t)
          BY <1>0, <3>1, <4>1 DEF LoggerTypeOK
        <4>3. IsRest(rest'[t], m_appenders'[at'[t]]) /\ rest'[t] # <<>>
          BY <1>0, <3>1, <3>3, <3>4, <4>1, AllOfThem DEF LoggerTypeOK
        <4> QED BY <3>1, <3>2, <3>3, <4>1, <4>2, <4>3
      <3>5. CASE Asks(at[t]) /\ event[t] >= m_level[Root]
        <4>1. /\ mutex' = [mutex EXCEPT ![at[t]] = t] /\ pc'[t] = "log" /\ at'[t] = Root
              /\ UNCHANGED name
          BY <1>0, <2>2, <3>1, <3>5, Constants DEF LogEnter, Asks, LineTypeOK, LoggerTypeOK
        <4>2. name[t] = at[t] /\ m_appenders[at[t]] = <<>>
          BY <3>1, <3>5 DEF Asks
        <4>3. mutex'[name[t]] = t
          BY <1>0, <3>1, <4>1, <4>2 DEF LoggerTypeOK
        <4> QED BY <3>1, <3>3, <4>1, <4>2, <4>3
      <3>6. CASE ~(\/ ~Asks(at[t]) /\ m_appenders[at[t]] # <<>>
                   \/ Asks(at[t]) /\ event[t] >= m_level[Root])
        <4>1. pc'[t] \in {"next", "idle"}
          BY <1>0, <2>2, <3>6 DEF LogEnter, EndLine, Goto, ThreadTypeOK
        <4> QED BY <4>1
      <3> QED BY <3>4, <3>5, <3>6
    <2>3. CASE LogWrite(t)
      <3>1. CASE Len(rest[t]) > 1
        <4>1. UNCHANGED <<pc, mutex, name, at, m_appenders>> /\ rest'[t] = Tail(rest[t]) /\ pc[t] = "write"
          BY <1>0, <2>3, <3>1 DEF LogWrite, LineTypeOK
        <4>2. L(t) /\ at[t] \in Names
          BY <1>0, <4>1, Constants DEF InLine
        <4>3. IsRest(rest'[t], m_appenders[at[t]]) /\ rest'[t] # <<>>
          BY <1>0, <3>1, <4>1, <4>2, RestOfRest DEF LoggerTypeOK
        <4> QED BY <4>1, <4>2, <4>3
      <3>2. CASE ~(Len(rest[t]) > 1)
        <4>1. pc'[t] \in {"next", "idle"}
          BY <1>0, <2>3, <3>2 DEF LogWrite, EndLine, Goto, ThreadTypeOK
        <4> QED BY <4>1
      <3> QED BY <3>1, <3>2
    <2>4. CASE AddAppenders(t) \/ AddEnter(t) \/ AddInherit(t)
      <3>1. pc'[t] \in {"add", "inherit", "make", "idle"}
        BY <1>0, <2>4 DEF AddAppenders, AddAppender, AddEnter, AddInherit, Pushed, Goto, ThreadTypeOK
      <3> QED BY <3>1
    <2>5. CASE \/ SetLevels(t) \/ SetFormatters(t) \/ DelAppenders(t) \/ ClearsAppenders(t)
               \/ AppenderSetFormatters(t)
      <3>1. pc'[t] = "idle"
        BY <2>5 DEF SetLevels, SetLevel, SetFormatters, SetFormatter, DelAppenders, DelAppender,
                    ClearsAppenders, ClearAppenders, AppenderSetFormatters, AppenderSetFormatter,
                    Change, MayCall
      <3> QED BY <3>1
    <2>6. CASE \/ Redefine(t) \/ Reformat(t) \/ Clear(t) \/ MadeAll(t) \/ Undefine(t) \/ ClearGone(t)
               \/ Heard(t) \/ Store(t)
      <3>1. pc'[t] \in {"next", "reformat", "clear", "make", "clearGone", "store", "idle"}
        BY <1>0, <2>6 DEF Redefine, Reformat, Clear, MadeAll, Undefine, ClearGone, Heard, Store, Goto,
                          ThreadTypeOK
      <3> QED BY <3>1
    <2>7. CASE Make(t)
      <3>1. pc'[t] \in {"make", "add"}
        BY <1>0, <2>7, MakeFacts DEF ThreadTypeOK
      <3> QED BY <3>1
    <2> QED BY <2>1, <2>2, <2>3, <2>4, <2>5, <2>6, <2>7, Cases
  <1> HIDE DEF L
  <1>3. \A u \in Threads : L(u)'
    BY <1>1, <1>2
  <1> QED BY <1>3 DEF InLine, L

\* A sequence is one of whatever its elements are.
LEMMA SeqOfOthers ==
  ASSUME NEW S, NEW T, NEW s \in Seq(S), \A i \in 1 .. Len(s) : s[i] \in T
  PROVE  s \in Seq(T)
  OBVIOUS

\* The rest of a list of definitions is one.
LEMMA RestOfDefs ==
  ASSUME NEW ds, IsDefs(ds), ds # <<>>
  PROVE  IsDefs(Tail(ds)) /\ Len(Tail(ds)) = Len(ds) - 1
         /\ \A i \in DOMAIN Tail(ds) : i + 1 \in DOMAIN ds /\ Tail(ds)[i] = ds[i + 1]
  <1>1. ds \in Seq(Elems(ds)) /\ Len(ds) > 0
    BY DEF IsDefs
  <1>2. /\ Tail(ds) \in Seq(Elems(ds)) /\ Len(Tail(ds)) = Len(ds) - 1
        /\ DOMAIN Tail(ds) = 1 .. Len(ds) - 1
        /\ \A i \in 1 .. Len(ds) - 1 : Tail(ds)[i] = ds[i + 1]
    BY <1>1
  <1>3. \A i \in DOMAIN Tail(ds) : i + 1 \in DOMAIN ds /\ Tail(ds)[i] = ds[i + 1]
    BY <1>1, <1>2
  <1>4. Tail(ds) \in Seq(Elems(Tail(ds)))
    <2>1. \A i \in 1 .. Len(Tail(ds)) : Tail(ds)[i] \in Elems(Tail(ds))
      BY <1>1, <1>2 DEF Elems
    <2> QED BY <1>2, <2>1, SeqOfOthers
  <1> QED BY <1>2, <1>3, <1>4 DEF IsDefs

\* A thread is at something, and has what it takes for it.
LEMMA CallsKept ==
  ASSUME IInv, NEW t \in Threads, Begin(t) \/ Proceed(t)
  PROVE  InCall'
  <1> DEFINE C(u) == /\ pc[u] \in {"add", "inherit"} => arg[u] \in Appenders /\ name[u] \in Names
                     /\ pc[u] = "inherit" => mutex[at[u]] = u
                     /\ pc[u] \in Rebuilding => Reloading(u)
                     /\ pc[u] = "idle" => ~Reloading(u)
                     /\ Reloading(u) => u \in Loaders /\ todo[u] \subseteq DOMAIN new[u]
                     /\ pc[u] \in {"reformat", "clear"} => name[u] \in DOMAIN new[u]
                     /\ pc[u] \in {"make", "clearGone"} => name[u] \in Names
                     /\ pc[u] \in {"add", "inherit", "reformat", "clear", "make", "clearGone"} =>
                          at[u] = name[u]
                     /\ IsDefs(defs[u])
  <1> USE Constants
  <1>0. /\ LoggerTypeOK /\ ThreadTypeOK /\ LineTypeOK /\ ReloadTypeOK /\ Holding /\ InLine
    BY DEF IInv, TypeOK
  <1>a. \A u \in Threads : C(u)
    BY DEF IInv, InCall
  <1>1. ASSUME NEW u \in Threads \ {t}  PROVE C(u)'
    <2>1. C(u)
      BY <1>a
    <2>2. /\ pc'[u] = pc[u] /\ name'[u] = name[u] /\ at'[u] = at[u] /\ arg'[u] = arg[u]
          /\ new'[u] = new[u] /\ todo'[u] = todo[u] /\ defs'[u] = defs[u]
      BY OthersStay
    <2>3. pc[u] = "inherit" => mutex'[at[u]] = u
      BY <2>1, HeldStays
    <2>4. IsDefs(defs'[u])
      BY <2>1, <2>2
    <2> QED BY <2>1, <2>2, <2>3, <2>4 DEF Reloading
  <1>2. C(t)'
    <2>1. C(t)
      BY <1>a
    <2>2. CASE ~Clear(t) /\ ~Make(t)
      <3>0. UNCHANGED defs /\ IsDefs(defs'[t])
        <4>1. UNCHANGED defs
          BY <2>2, Cases DEF LogCalls, LogCall, SetLevels, SetLevel, SetFormatters, SetFormatter,
             AddAppenders, AddAppender, DelAppenders, DelAppender, ClearsAppenders, ClearAppenders,
             AppenderSetFormatters, AppenderSetFormatter, Loads, Load, LogEnter, LogWrite, AddEnter,
             AddInherit, Redefine, Reformat, MadeAll, Undefine, ClearGone, Heard, Store, reloadVars
        <4> QED BY <2>1, <4>1
      <3>1. CASE LogCalls(t)
        <4>1. pc[t] = "idle" /\ pc'[t] \in {"log", "idle"} /\ UNCHANGED <<new, todo>>
          BY <1>0, <3>1 DEF LogCalls, LogCall, MayCall, BeginLine, Goto, reloadVars, ThreadTypeOK
        <4> QED BY <2>1, <3>0, <4>1 DEF Reloading, Rebuilding
      <3>2. CASE \/ SetLevels(t) \/ SetFormatters(t) \/ DelAppenders(t) \/ ClearsAppenders(t)
                 \/ AppenderSetFormatters(t)
        <4>1. pc[t] = "idle" /\ UNCHANGED <<pc, new, todo>>
          BY <3>2 DEF SetLevels, SetLevel, SetFormatters, SetFormatter, DelAppenders, DelAppender,
                      ClearsAppenders, ClearAppenders, AppenderSetFormatters, AppenderSetFormatter,
                      Change, MayCall, reloadVars
        <4> QED BY <2>1, <3>0, <4>1 DEF Reloading, Rebuilding
      <3>3. CASE AddAppenders(t)
        <4>1. /\ pc[t] = "idle" /\ pc'[t] = "add" /\ UNCHANGED <<new, todo>>
              /\ arg'[t] \in Appenders /\ name'[t] \in Names /\ at'[t] = name'[t]
          BY <1>0, <3>3 DEF AddAppenders, AddAppender, Change, MayCall, Goto, Be, reloadVars,
                            ThreadTypeOK, LineTypeOK
        <4> QED BY <2>1, <3>0, <4>1 DEF Reloading, Rebuilding
      <3>4. CASE Loads(t)
        <4>1. PICK doc \in Documents : Load(t, doc)
          BY <3>4 DEF Loads
        <4>2. pc[t] = "idle" /\ t \in Loaders /\ ~Reloading(t)
          BY <2>1, <4>1 DEF Load, MayCall
        <4>3. CASE UNCHANGED <<new, todo>>
          <5>1. CASE Throws(doc) \/ SameSet(value, CastAll(doc))
            <6>1. pc'[t] \in {"log", "idle"}
              BY <1>0, <4>1, <4>2, <5>1 DEF Load, MayCall, BeginLine, Goto, ThreadTypeOK
            <6> QED BY <2>1, <3>0, <4>2, <4>3, <6>1 DEF Reloading, Rebuilding
          <5>2. CASE ~(Throws(doc) \/ SameSet(value, CastAll(doc)))
            <6>1. new' = [new EXCEPT ![t] = CastAll(doc)] /\ CastAll(doc) # Free
              BY <4>1, <5>2, Read DEF Load
            <6>2. new'[t] # new[t]
              BY <1>0, <4>2, <6>1 DEF Reloading, ReloadTypeOK
            <6> QED BY <4>3, <6>2
          <5> QED BY <5>1, <5>2
        <4>4. CASE ~UNCHANGED <<new, todo>>
          <5>1. /\ ~Throws(doc) /\ new' = [new EXCEPT ![t] = CastAll(doc)]
                /\ todo' = [todo EXCEPT ![t] = DOMAIN CastAll(doc)]
                /\ pc'[t] \in {"log", "next"}
            BY <1>0, <4>1, <4>4 DEF Load, BeginLine, Goto, reloadVars, ThreadTypeOK
          <5>2. CastAll(doc) # Free
            BY <5>1, Read
          <5>3. new'[t] # Free /\ todo'[t] \subseteq DOMAIN new'[t]
            BY <1>0, <5>1, <5>2 DEF ReloadTypeOK
          <5> QED BY <3>0, <4>2, <5>1, <5>3 DEF Reloading, Rebuilding
        <4> QED BY <4>3, <4>4
      <3>5. CASE LogEnter(t) \/ LogWrite(t)
        <4>1. /\ UNCHANGED <<new, todo>>
              /\ \/ pc'[t] \in {"log", "write"}
                 \/ pc'[t] = (IF Reloading(t) THEN "next" ELSE "idle")
          BY <1>0, <3>5 DEF LogEnter, LogWrite, EndLine, Goto, reloadVars, ThreadTypeOK
        <4> QED BY <2>1, <3>0, <4>1 DEF Reloading, Rebuilding
      <3>6. CASE AddEnter(t) /\ ~HasOne(arg[t])
        <4>1. /\ pc[t] = "add" /\ pc'[t] = "inherit" /\ UNCHANGED <<new, todo, arg, name, at>>
              /\ mutex' = [mutex EXCEPT ![at[t]] = t]
          BY <1>0, <3>6 DEF AddEnter, Goto, reloadVars, ThreadTypeOK
        <4>2. mutex'[at[t]] = t
          BY <1>0, <2>1, <4>1 DEF LoggerTypeOK
        <4> QED BY <2>1, <3>0, <4>1, <4>2 DEF Reloading, Rebuilding
      <3>7. CASE AddInherit(t) \/ (AddEnter(t) /\ HasOne(arg[t]))
        <4>1. /\ pc[t] \in {"add", "inherit"} /\ UNCHANGED <<new, todo>>
              /\ \/ Reloading(t) /\ pc'[t] = "make" /\ UNCHANGED <<name, at>>
                 \/ ~Reloading(t) /\ pc'[t] = "idle"
          BY <1>0, <3>7 DEF AddEnter, AddInherit, Pushed, Goto, reloadVars, ThreadTypeOK
        <4> QED BY <2>1, <3>0, <4>1 DEF Reloading, Rebuilding
      <3>8. CASE Redefine(t)
        <4>1. PICK n \in todo[t] :
                /\ pc[t] = "next" /\ todo' = [todo EXCEPT ![t] = @ \ {n}] /\ UNCHANGED new
                /\ \/ UNCHANGED <<pc, name, at>>
                   \/ Be(t, n) /\ Goto(t, "reformat")
          BY <3>8 DEF Redefine
        <4>2. todo'[t] \subseteq todo[t]
          BY <1>0, <4>1 DEF ReloadTypeOK
        <4>3. CASE UNCHANGED <<pc, name, at>>
          BY <2>1, <3>0, <4>1, <4>2, <4>3 DEF Reloading, Rebuilding
        <4>4. CASE Be(t, n) /\ Goto(t, "reformat")
          <5>1. pc'[t] = "reformat" /\ name'[t] = n /\ at'[t] = n
            BY <1>0, <4>4 DEF Be, Goto, ThreadTypeOK, LineTypeOK
          <5>2. Reloading(t) /\ n \in DOMAIN new[t]
            BY <2>1, <4>1 DEF Rebuilding
          <5> QED BY <2>1, <3>0, <4>1, <4>2, <5>1, <5>2 DEF Reloading, Rebuilding
        <4> QED BY <4>1, <4>3, <4>4
      <3>9. CASE Undefine(t)
        <4>1. PICK n \in gone[t] :
                /\ pc[t] = "next" /\ UNCHANGED <<new, todo>> /\ Be(t, n) /\ Goto(t, "clearGone")
          BY <3>9 DEF Undefine
        <4>2. pc'[t] = "clearGone" /\ name'[t] = n /\ at'[t] = n /\ n \in Names
          BY <1>0, <4>1 DEF Be, Goto, ThreadTypeOK, LineTypeOK, ReloadTypeOK
        <4> QED BY <2>1, <3>0, <4>1, <4>2 DEF Reloading, Rebuilding
      <3>10. CASE Reformat(t)
        <4>1. pc[t] = "reformat" /\ pc'[t] = "clear" /\ UNCHANGED <<new, todo, name, at>>
          BY <1>0, <3>10 DEF Reformat, Goto, lineVars, reloadVars, ThreadTypeOK
        <4> QED BY <2>1, <3>0, <4>1 DEF Reloading, Rebuilding
      <3>11. CASE MadeAll(t) \/ ClearGone(t)
        <4>1. pc[t] \in {"make", "clearGone"} /\ pc'[t] = "next" /\ UNCHANGED <<new, todo>>
          BY <1>0, <3>11 DEF MadeAll, ClearGone, Goto, reloadVars, ThreadTypeOK
        <4> QED BY <2>1, <3>0, <4>1 DEF Reloading, Rebuilding
      <3>12. CASE Heard(t)
        <4>1. pc[t] = "next" /\ pc'[t] = "store" /\ UNCHANGED <<new, todo>>
          BY <1>0, <3>12 DEF Heard, Goto, reloadVars, ThreadTypeOK
        <4> QED BY <2>1, <3>0, <4>1 DEF Reloading, Rebuilding
      <3>13. CASE Store(t)
        <4>1. pc'[t] = "idle" /\ new'[t] = Free
          BY <1>0, <3>13 DEF Store, Goto, ThreadTypeOK, ReloadTypeOK
        <4> QED BY <2>1, <3>0, <4>1 DEF Reloading, Rebuilding
      <3>14. CASE AddEnter(t)
        BY <3>6, <3>7, <3>14
      <3>15. CASE AddInherit(t)
        BY <3>7, <3>15
      <3> HIDE DEF C
      <3> QED BY <2>2, <3>1, <3>2, <3>3, <3>4, <3>5, <3>8, <3>9, <3>10, <3>11, <3>12, <3>13, <3>14,
                 <3>15, Cases
    <2>3. CASE Clear(t)
      <3>1. /\ pc[t] = "clear" /\ pc'[t] = "make" /\ UNCHANGED <<new, todo, name, at>>
            /\ defs'[t] = new[t][name[t]].appenders
        BY <1>0, <2>3 DEF Clear, Goto, lineVars, ThreadTypeOK, ReloadTypeOK
      <3>2. Definitions(new[t]) /\ name[t] \in DOMAIN new[t] /\ name[t] \in Names
        BY <1>0, <2>1, <3>1 DEF ReloadTypeOK, Definitions, Rebuilding, Reloading
      <3>3. IsDefs(defs'[t])
        BY <3>1, <3>2 DEF Definitions, IsDefs
      <3> QED BY <2>1, <3>1, <3>2, <3>3 DEF Reloading, Rebuilding
    <2>4. CASE Make(t)
      <3>1. pc[t] = "make" /\ UNCHANGED <<new, todo, name, at>>
        BY <2>4 DEF Make, lineVars
      <3>2. IsDefs(defs'[t])
        <4>1. defs'[t] = Tail(defs[t]) /\ defs[t] # <<>>
          BY <1>0, <2>4, MakeFacts DEF ReloadTypeOK
        <4> QED BY <2>1, <4>1, RestOfDefs
      <3>3. \/ pc'[t] = "make"
            \/ pc'[t] = "add" /\ arg'[t] \in Appenders
        BY <1>0, <2>4, <3>1, MakeFacts DEF ThreadTypeOK, Unused
      <3> QED BY <2>1, <3>1, <3>2, <3>3 DEF Reloading, Rebuilding
    <2> QED BY <2>2, <2>3, <2>4
  <1> HIDE DEF C
  <1>3. \A u \in Threads : C(u)'
    BY <1>1, <1>2
  <1> QED BY <1>3 DEF InCall, C

(***************************************************************************)
(* The types, the locks and the lines.                                     *)
(***************************************************************************)

\* The invariant holds at the start.
LEMMA InitInvariant ==
  ASSUME Init
  PROVE  IInv
  <1>1. TypeOK
    BY InitTypes
  <1>2. Holding /\ InLine
    BY Constants DEF Init, Holding, InLine
  <1>3. InCall
    <2>1. IsDefs(<<>>)
      BY DEF IsDefs, Elems
    <2> QED BY <2>1, Constants DEF Init, InCall, Rebuilding, Reloading
  <1> QED BY <1>1, <1>2, <1>3 DEF IInv

\* A step keeps the invariant.
LEMMA NextInvariant ==
  ASSUME IInv, [Next]_vars
  PROVE  IInv'
  <1>1. CASE Next
    <2>1. PICK t \in Threads : Begin(t) \/ Proceed(t)
      BY <1>1 DEF Next
    <2>2. TypeOK'
      BY <2>1, LoggerTypes, AppTypes, ThreadTypes, LineTypes, ReloadTypes DEF TypeOK
    <2>3. Holding' /\ InLine' /\ InCall'
      BY <2>1, LocksHeld, LinesKept, CallsKept
    <2> QED BY <2>2, <2>3 DEF IInv
  <1>2. CASE UNCHANGED vars
    <2> USE <1>2 DEF vars, loggerVars, lineVars, reloadVars
    <2>1. LoggerTypeOK' /\ AppTypeOK'
      BY DEF IInv, TypeOK, LoggerTypeOK, AppTypeOK, IsAppender
    <2>2. ThreadTypeOK' /\ LineTypeOK'
      BY DEF IInv, TypeOK, ThreadTypeOK, LineTypeOK
    <2>3. ReloadTypeOK'
      BY DEF IInv, TypeOK, ReloadTypeOK, Definitions
    <2>4. Holding'
      BY DEF IInv, Holding
    <2>5. InLine'
      BY DEF IInv, InLine, IsRest
    <2>6. InCall'
      BY DEF IInv, InCall, IsDefs, Reloading
    <2> QED BY <2>1, <2>2, <2>3, <2>4, <2>5, <2>6 DEF IInv, TypeOK
  <1> QED BY <1>1, <1>2

\* In every state, types, locks, lines and calls are as the invariant says.
THEOREM Invariant == Spec => []IInv
  <1>1. Init => IInv
    BY InitInvariant
  <1>2. IInv /\ [Next]_vars => IInv'
    BY NextInvariant
  <1> QED BY <1>1, <1>2, PTL DEF Spec

\* The variables have their types.
THEOREM TypeCorrect == Spec => []TypeOK
  <1>1. IInv => TypeOK
    BY DEF IInv
  <1> QED BY <1>1, Invariant, PTL

\* Locks are taken from a logger to its root, and given back by whoever does not wait.
THEOREM LockOrderHolds == Spec => []LockOrder
  <1>1. IInv => LockOrder
    BY DEF IInv, Holding, LockOrder
  <1> QED BY <1>1, Invariant, PTL

\* A line goes through the appenders of its logger, or through those of the root.
THEOREM LinesHoldAlways == Spec => []LinesHold
  <1>1. IInv => LinesHold
    BY DEF IInv, InLine, IsRest, LinesHold
  <1> QED BY <1>1, Invariant, PTL

(***************************************************************************)
(* Formatters.                                                             *)
(***************************************************************************)

\* A thread that ends addAppender.
Pushes(t) == AddInherit(t) \/ (AddEnter(t) /\ HasOne(arg[t]))

\* What addAppender does to the lists, and to the count of what was added.
LEMMA PushFacts ==
  ASSUME IInv, NEW t \in Threads, Pushes(t)
  PROVE  /\ at[t] \in Names /\ at[t] = name[t] /\ arg[t] \in Appenders /\ UNCHANGED m_formatter
         /\ DOMAIN m_appenders' = Names
         /\ m_appenders'[at[t]] = Append(m_appenders[at[t]], arg[t])
         /\ Elems(m_appenders'[at[t]]) = Elems(m_appenders[at[t]]) \cup {arg[t]}
         /\ \A n \in Names \ {at[t]} : m_appenders'[n] = m_appenders[n]
         /\ DOMAIN adds' = Appenders /\ (adds'[arg[t]] = IF adds[arg[t]] = 0 THEN 1 ELSE 2)
         /\ \A a \in Appenders \ {arg[t]} : adds'[a] = adds[a]
  <1>0. LoggerTypeOK /\ AppTypeOK
    BY DEF IInv, TypeOK
  <1>1. pc[t] \in {"add", "inherit"} /\ Pushed(t) /\ UNCHANGED m_formatter
    BY DEF Pushes, AddEnter, AddInherit
  <1>2. at[t] \in Names /\ at[t] = name[t] /\ arg[t] \in Appenders
    BY <1>1 DEF IInv, InCall
  <1>3. /\ m_appenders' = [m_appenders EXCEPT ![at[t]] = Append(@, arg[t])]
        /\ adds' = [adds EXCEPT ![arg[t]] = IF @ = 0 THEN 1 ELSE 2]
    BY <1>1 DEF Pushed
  <1>4. m_appenders[at[t]] \in Seq(Appenders)
    BY <1>0, <1>2 DEF LoggerTypeOK
  <1>5. Elems(Append(m_appenders[at[t]], arg[t])) = Elems(m_appenders[at[t]]) \cup {arg[t]}
    BY <1>2, <1>4, Appended
  <1>6. /\ DOMAIN m_appenders' = Names
        /\ m_appenders'[at[t]] = Append(m_appenders[at[t]], arg[t])
        /\ \A n \in Names \ {at[t]} : m_appenders'[n] = m_appenders[n]
    BY <1>0, <1>2, <1>3 DEF LoggerTypeOK
  <1>7. /\ DOMAIN adds' = Appenders /\ (adds'[arg[t]] = IF adds[arg[t]] = 0 THEN 1 ELSE 2)
        /\ \A a \in Appenders \ {arg[t]} : adds'[a] = adds[a]
    BY <1>0, <1>2, <1>3 DEF AppTypeOK
  <1> QED BY <1>1, <1>2, <1>5, <1>6, <1>7

\* What addAppender does to the appender: it gives it a formatter if it has none.
LEMMA PushedOnes ==
  ASSUME IInv, NEW t \in Threads, Pushes(t), NEW a \in Appenders
  PROVE  /\ app'[a].type = app[a].type /\ app'[a].file = app[a].file /\ app'[a].level = app[a].level
         /\ app'[a].has = app[a].has
         /\ a # arg[t] => app'[a] = app[a]
         /\ AddInherit(t) => app'[arg[t]].formatter = m_formatter[at[t]]
         /\ ~AddInherit(t) => app'[a] = app[a] /\ app[arg[t]].formatter # NoText
  <1>0. LoggerTypeOK /\ AppTypeOK /\ at[t] \in Names /\ arg[t] \in Appenders
    BY PushFacts DEF IInv, TypeOK
  <1>1. CASE AddInherit(t)
    <2>1. Inherited(arg[t], m_formatter[at[t]]) /\ m_formatter[at[t]] \in Formatters
      BY <1>0, <1>1 DEF AddInherit, LoggerTypeOK, Inherited
    <2> QED BY <1>0, <1>1, <2>1, InheritedOnes
  <1>2. CASE ~AddInherit(t)
    BY <1>2 DEF Pushes, AddEnter, HasOne
  <1> QED BY <1>1, <1>2

\* What a step does to the list of a logger: unless addAppender ends, it only takes appenders out.
LEMMA ListShrinks ==
  ASSUME IInv, NEW t \in Threads, Begin(t) \/ Proceed(t), ~Pushes(t), NEW n \in Names
  PROVE  Elems(m_appenders'[n]) \subseteq Elems(m_appenders[n])
  <1>0. LoggerTypeOK
    BY DEF IInv, TypeOK
  <1>1. CASE DelAppenders(t)
    <2>1. PICK m \in Names, a \in Own : m_appenders' = [m_appenders EXCEPT ![m] = Without(@, a)]
      BY <1>1 DEF DelAppenders, DelAppender
    <2>2. Elems(Without(m_appenders[m], a)) \subseteq Elems(m_appenders[m])
      BY <1>0, TakenOut DEF LoggerTypeOK
    <2> QED BY <1>0, <2>1, <2>2 DEF LoggerTypeOK
  <1>2. CASE ClearsAppenders(t) \/ Clear(t) \/ ClearGone(t)
    <2>1. m_appenders'[n] \in {m_appenders[n], <<>>}
      BY <1>0, <1>2 DEF ClearsAppenders, ClearAppenders, Clear, ClearGone, Cleared, LoggerTypeOK
    <2>2. Elems(<<>>) = {}
      BY DEF Elems
    <2> QED BY <2>1, <2>2
  <1>3. CASE AddEnter(t)
    <2>1. UNCHANGED m_appenders
      BY <1>3 DEF AddEnter, Pushes
    <2> QED BY <2>1
  <1>4. CASE ~(\/ DelAppenders(t) \/ ClearsAppenders(t) \/ Clear(t) \/ ClearGone(t) \/ AddEnter(t))
    <2>1. UNCHANGED m_appenders
      BY <1>4, Cases DEF LogCalls, LogCall, SetLevels, SetLevel, SetFormatters, SetFormatter,
         AddAppenders, AddAppender, AppenderSetFormatters, AppenderSetFormatter, Loads, Load,
         Redefine, Reformat, LogEnter, LogWrite, Make, MadeAll, Undefine, Heard, Store, loggerVars, Pushes
    <2> QED BY <2>1
  <1> QED BY <1>1, <1>2, <1>3, <1>4

\* A step that only takes appenders out, and changes neither them nor formatters.
LEMMA SharingShrinks ==
  ASSUME Sharing, UNCHANGED <<app, adds, m_formatter>>,
         \A n \in Names : Elems(m_appenders'[n]) \subseteq Elems(m_appenders[n])
  PROVE  Sharing'
  BY DEF Sharing

\* Whatever is added, reformatted or rebuilt, appenders have the formatters they should.
LEMMA SharingKept ==
  ASSUME IInv, Sharing, NEW t \in Threads, Begin(t) \/ Proceed(t)
  PROVE  Sharing'
  <1>0. /\ LoggerTypeOK /\ AppTypeOK /\ ReloadTypeOK /\ InCall
        /\ \A n \in Names : Elems(m_appenders[n]) \subseteq Appenders
    <2>1. LoggerTypeOK
      BY DEF IInv, TypeOK
    <2>2. \A n \in Names : Elems(m_appenders[n]) \subseteq Appenders
      BY <2>1 DEF LoggerTypeOK, Elems
    <2> QED BY <2>2 DEF IInv, TypeOK
  <1>1. CASE \/ LogCalls(t) \/ SetLevels(t) \/ AddAppenders(t) \/ Loads(t) \/ LogEnter(t) \/ LogWrite(t)
             \/ Redefine(t) \/ MadeAll(t) \/ Undefine(t) \/ Heard(t) \/ Store(t)
             \/ DelAppenders(t) \/ ClearsAppenders(t) \/ Clear(t) \/ ClearGone(t)
    <2>1. UNCHANGED <<app, adds, m_formatter>> /\ ~Pushes(t)
      <3>1. UNCHANGED <<app, adds, m_formatter>>
        BY <1>1 DEF LogCalls, LogCall, SetLevels, SetLevel, AddAppenders, AddAppender, Loads, Load,
           LogEnter, LogWrite, Redefine, MadeAll, Undefine, Heard, Store, DelAppenders, DelAppender,
           ClearsAppenders, ClearAppenders, Clear, ClearGone, loggerVars
      <3>2. pc[t] \notin {"add", "inherit"}
        BY <1>1 DEF LogCalls, LogCall, SetLevels, SetLevel, AddAppenders, AddAppender, Loads, Load,
           LogEnter, LogWrite, Redefine, MadeAll, Undefine, Heard, Store, DelAppenders, DelAppender,
           ClearsAppenders, ClearAppenders, Clear, ClearGone, Change, MayCall
      <3> QED BY <3>1, <3>2 DEF Pushes, AddEnter, AddInherit
    <2> QED BY <2>1, ListShrinks, SharingShrinks
  <1>2. CASE SetFormatters(t) \/ Reformat(t)
    <2>1. UNCHANGED <<adds, m_appenders>>
      BY <1>2 DEF SetFormatters, SetFormatter, Reformat
    <2>2. \/ UNCHANGED <<m_formatter, app>>
          \/ \E n \in Names, f \in Formatters : Reformatted(n, f)
      <3>1. CASE SetFormatters(t)
        BY <3>1, AcceptedIsOne DEF SetFormatters, SetFormatter
      <3>2. CASE Reformat(t)
        <4>1. name[t] \in Names
          BY <1>0, <3>2 DEF InCall, Reformat, ReloadTypeOK, Definitions, Reloading, Rebuilding
        <4> QED BY <3>2, <4>1 DEF Reformat
      <3> QED BY <1>2, <3>1, <3>2
    <2>3. CASE UNCHANGED <<m_formatter, app>>
      BY <2>1, <2>3, SharingShrinks
    <2>4. CASE \E n \in Names, f \in Formatters : Reformatted(n, f)
      <3>1. PICK m \in Names, f \in Formatters : Reformatted(m, f)
        BY <2>4
      <3>2. m_formatter'[m] = f /\ \A n \in Names \ {m} : m_formatter'[n] = m_formatter[n]
        BY <1>0, <3>1 DEF Reformatted, LoggerTypeOK
      <3>3. f # NoText
        BY Constants
      <3>4. \A a \in Appenders :
              /\ app'[a].has = app[a].has
              /\ a \in Elems(m_appenders[m]) /\ ~app[a].has => app'[a].formatter = f
              /\ ~(a \in Elems(m_appenders[m]) /\ ~app[a].has) => app'[a] = app[a]
        BY <1>0, <3>1, ReformattedOnes
      <3>5. ASSUME NEW n \in Names, NEW a \in Elems(m_appenders[n])
            PROVE  /\ app'[a].formatter # NoText /\ adds[a] # 0
                   /\ adds[a] = 1 /\ ~app'[a].has => app'[a].formatter = m_formatter'[n]
        BY <1>0, <3>2, <3>3, <3>4 DEF Sharing
      <3>6. ASSUME NEW a \in Appenders, adds[a] = 0, ~app'[a].has
            PROVE  app'[a].formatter = NoText
        BY <3>1, <3>4, <3>6 DEF Sharing
      <3> QED BY <2>1, <3>5, <3>6 DEF Sharing
    <2> QED BY <2>2, <2>3, <2>4
  <1>3. CASE AppenderSetFormatters(t)
    <2>1. PICK b \in Own, f \in Formatters : AppenderSetFormatter(t, b, f)
      BY <1>3 DEF AppenderSetFormatters
    <2>2. Given(b, f) /\ UNCHANGED <<adds, loggerVars>>
      BY <2>1 DEF AppenderSetFormatter, Given
    <2>3. \A a \in Appenders : /\ a # b => app'[a] = app[a]
                               /\ a = b => app'[a].has = TRUE /\ app'[a].formatter = f
      <3>1. b \in Appenders
        BY Constants
      <3>2. AppTypeOK /\ Given(b, f)
        BY <1>0, <2>2
      <3>3. ASSUME NEW a \in Appenders
            PROVE  /\ a # b => app'[a] = app[a]
                   /\ a = b => app'[a].has = TRUE /\ app'[a].formatter = f
        BY <3>1, <3>2, GivenOnes
      <3> QED BY <3>3
    <2>4. f # NoText
      BY Constants
    <2>5. ASSUME NEW n \in Names, NEW a \in Elems(m_appenders[n])
          PROVE  /\ app'[a].formatter # NoText /\ adds[a] # 0
                 /\ adds[a] = 1 /\ ~app'[a].has => app'[a].formatter = m_formatter[n]
      BY <1>0, <2>3, <2>4 DEF Sharing
    <2>6. ASSUME NEW a \in Appenders, adds[a] = 0, ~app'[a].has
          PROVE  app'[a].formatter = NoText
      BY <2>3, <2>6 DEF Sharing
    <2>7. UNCHANGED <<adds, m_appenders, m_formatter>>
      BY <2>2 DEF loggerVars
    <2> QED BY <2>5, <2>6, <2>7 DEF Sharing
  <1>4. CASE Pushes(t)
    <2> DEFINE b == arg[t]
    <2>1. \A n \in Names : \A a \in Elems(m_appenders'[n]) :
            a \in Elems(m_appenders[n]) \/ (a = b /\ n = at[t])
      BY <1>4, PushFacts
    <2>2. /\ UNCHANGED m_formatter /\ b \in Appenders /\ at[t] \in Names
          /\ (adds'[b] = IF adds[b] = 0 THEN 1 ELSE 2)
          /\ \A a \in Appenders \ {b} : adds'[a] = adds[a]
      BY <1>4, PushFacts
    <2>3. \A a \in Appenders : app'[a].has = app[a].has /\ (a # b => app'[a] = app[a])
      BY <1>4, PushedOnes
    <2>4. app'[b].formatter # NoText
      <3>1. m_formatter[at[t]] # NoText
        BY <1>0, <2>2, Constants DEF LoggerTypeOK
      <3> QED BY <1>4, <2>2, <3>1, PushedOnes
    <2>5. adds[b] = 0 /\ ~app[b].has => app'[b].formatter = m_formatter[at[t]]
      <3>1. adds[b] = 0 /\ ~app[b].has => app[b].formatter = NoText
        BY <2>2 DEF Sharing
      <3> QED BY <1>4, <2>2, <3>1, PushedOnes
    <2>6. \A n \in Names : b \in Elems(m_appenders[n]) => adds'[b] = 2
      BY <2>2 DEF Sharing
    <2> HIDE DEF b
    <2>7. ASSUME NEW n \in Names, NEW a \in Elems(m_appenders'[n])
          PROVE  /\ app'[a].formatter # NoText /\ adds'[a] # 0
                 /\ adds'[a] = 1 /\ ~app'[a].has => app'[a].formatter = m_formatter'[n]
      <3>1. CASE a # b
        <4>1. a \in Elems(m_appenders[n]) /\ a \in Appenders
          BY <1>0, <2>1, <3>1
        <4> QED BY <2>2, <2>3, <3>1, <4>1 DEF Sharing
      <3>2. CASE a = b
        <4>1. adds'[b] # 0 /\ (adds'[b] = 1 => adds[b] = 0)
          BY <2>2
        <4>2. adds'[b] = 1 => n = at[t]
          BY <2>1, <2>6, <3>2
        <4> QED BY <2>2, <2>3, <2>4, <2>5, <3>2, <4>1, <4>2
      <3> QED BY <3>1, <3>2
    <2>8. ASSUME NEW n \in Names, NEW m \in Names,
                 NEW a \in Elems(m_appenders'[n]) \cap Elems(m_appenders'[m]), adds'[a] = 1
          PROVE  n = m
      <3>1. CASE a # b
        <4>1. a \in Elems(m_appenders[n]) \cap Elems(m_appenders[m]) /\ a \in Appenders
          BY <1>0, <2>1, <3>1
        <4> QED BY <2>2, <2>8, <3>1, <4>1 DEF Sharing
      <3>2. CASE a = b
        BY <2>1, <2>6, <2>8, <3>2
      <3> QED BY <3>1, <3>2
    <2>9. ASSUME NEW a \in Appenders, adds'[a] = 0, ~app'[a].has
          PROVE  app'[a].formatter = NoText
      BY <2>2, <2>3, <2>9 DEF Sharing
    <2> QED BY <2>7, <2>8, <2>9 DEF Sharing
  <1>5. CASE AddEnter(t) /\ ~Pushes(t)
    <2>1. UNCHANGED <<app, adds, m_formatter>>
      BY <1>5 DEF AddEnter, Pushes
    <2> QED BY <1>5, <2>1, ListShrinks, SharingShrinks
  <1>6. CASE Make(t)
    <2>1. UNCHANGED <<m_formatter, m_appenders>>
      BY <1>6 DEF Make, loggerVars
    <2>2. CASE UNCHANGED <<app, adds>>
      BY <2>1, <2>2, SharingShrinks
    <2>3. CASE ~UNCHANGED <<app, adds>>
      <3>1. PICK b \in Unused : /\ app' = [app EXCEPT ![b] = Made(Head(defs[t]))]
                                /\ adds' = [adds EXCEPT ![b] = 0]
        BY <1>6, <2>3, MakeFacts
      <3>2. b \in Appenders /\ \A n \in Names : b \notin Elems(m_appenders[n])
        BY DEF Unused
      <3>3. app'[b] = Made(Head(defs[t])) /\ adds'[b] = 0
        BY <1>0, <3>1, <3>2 DEF AppTypeOK
      <3>4. \A a \in Appenders \ {b} : app'[a] = app[a] /\ adds'[a] = adds[a]
        BY <1>0, <3>1, <3>2 DEF AppTypeOK
      <3>5. ~app'[b].has => app'[b].formatter = NoText
        BY <1>6, <3>3, MakeFacts, MadeOne
      <3>6. \A n \in Names : \A a \in Elems(m_appenders[n]) : a \in Appenders \ {b}
        BY <1>0, <3>2
      <3>7. ASSUME NEW n \in Names, NEW a \in Elems(m_appenders[n])
            PROVE  /\ app'[a].formatter # NoText /\ adds'[a] # 0
                   /\ adds'[a] = 1 /\ ~app'[a].has => app'[a].formatter = m_formatter[n]
        BY <3>4, <3>6 DEF Sharing
      <3>8. ASSUME NEW n \in Names, NEW m \in Names,
                   NEW a \in Elems(m_appenders[n]) \cap Elems(m_appenders[m]), adds'[a] = 1
            PROVE  n = m
        BY <3>4, <3>6, <3>8 DEF Sharing
      <3>9. ASSUME NEW a \in Appenders, adds'[a] = 0, ~app'[a].has
            PROVE  app'[a].formatter = NoText
        BY <3>4, <3>5, <3>9 DEF Sharing
      <3> QED BY <2>1, <3>7, <3>8, <3>9 DEF Sharing
    <2> QED BY <2>2, <2>3
  <1> QED BY <1>1, <1>2, <1>3, <1>4, <1>5, <1>6, Cases DEF Pushes

\* At the start only the root has appenders, with the formatter of the root.
LEMMA InitSharing ==
  ASSUME Init
  PROVE  Sharing
  <1> USE Constants
  <1>1. ASSUME NEW n \in Names, NEW a \in Elems(m_appenders[n])
        PROVE  n = Root /\ a \in {OutRoot, ErrRoot}
    <2>1. CASE n = Root
      <3>1. m_appenders[n] = <<OutRoot, ErrRoot>>
        BY <2>1 DEF Init
      <3> QED BY <2>1, <3>1 DEF Elems
    <2>2. CASE n # Root
      <3>1. m_appenders[n] = <<>>
        BY <2>2 DEF Init
      <3> QED BY <3>1 DEF Elems
    <2> QED BY <2>1, <2>2
  <1>2. \A a \in Appenders : app[a].formatter = IF a \in {OutRoot, ErrRoot} THEN DefaultFormatter ELSE NoText
    <2> SUFFICES ASSUME NEW a \in Appenders
                 PROVE  app[a].formatter = IF a \in {OutRoot, ErrRoot} THEN DefaultFormatter ELSE NoText
      OBVIOUS
    <2> DEFINE formatter == IF a \in {OutRoot, ErrRoot} THEN DefaultFormatter ELSE NoText
    <2>0. app[a] = [(IF a = ErrRoot THEN Fresh("FileLogAppender", "root_error.log", ERROR)
                                    ELSE Fresh("StdoutLogAppender", NoText, 1))
                     EXCEPT !.formatter = formatter]
      BY DEF Init
    <2> HIDE DEF formatter
    <2>1. CASE a = ErrRoot
      <3>1. app[a] = [Fresh("FileLogAppender", "root_error.log", ERROR) EXCEPT !.formatter = formatter]
        BY <2>0, <2>1
      <3> QED BY <3>1 DEF Fresh, formatter
    <2>2. CASE a # ErrRoot
      <3>1. app[a] = [Fresh("StdoutLogAppender", NoText, 1) EXCEPT !.formatter = formatter]
        BY <2>0, <2>2
      <3> QED BY <3>1 DEF Fresh, formatter
    <2> QED BY <2>1, <2>2
  <1>3. \A a \in Appenders : adds[a] = IF a \in {OutRoot, ErrRoot} THEN 1 ELSE 0
    BY DEF Init
  <1>4. \A n \in Names : m_formatter[n] = DefaultFormatter
    BY DEF Init
  <1>5. \A n \in Names : \A a \in Elems(m_appenders[n]) :
          app[a].formatter = DefaultFormatter /\ adds[a] = 1
    BY <1>1, <1>2, <1>3
  <1>6. \A a \in Appenders : adds[a] = 0 => app[a].formatter = NoText
    BY <1>2, <1>3
  <1> QED BY <1>1, <1>4, <1>5, <1>6 DEF Sharing

\* An appender that a line can reach has a formatter, and unless it has one of its own it is that
\* of its logger.
THEOREM FormattersHoldAlways == Spec => []FormattersHold
  <1>1. Init => IInv /\ Sharing
    BY InitInvariant, InitSharing
  <1>2. IInv /\ Sharing /\ [Next]_vars => (IInv /\ Sharing)'
    <2>1. ASSUME IInv, Sharing, Next  PROVE Sharing'
      BY <2>1, SharingKept DEF Next
    <2>2. ASSUME Sharing, UNCHANGED vars  PROVE Sharing'
      BY <2>2 DEF Sharing, vars, loggerVars
    <2> QED BY <2>1, <2>2, NextInvariant
  <1>3. Sharing => FormattersHold
    BY DEF Sharing, FormattersHold, CanFormat, FormatterShared
  <1> QED BY <1>1, <1>2, <1>3, PTL DEF Spec

(***************************************************************************)
(* Lists of appenders and lists of definitions.                            *)
(***************************************************************************)

\* Two appenders that no definition tells apart.
SameOne(r, q) == /\ r.type = q.type /\ r.file = q.file /\ r.level = q.level /\ r.has = q.has
                 /\ r.has => r.formatter = q.formatter

\* No appenders are those of no places.
LEMMA NoneMatch ==
  ASSUME NEW objects, NEW ds
  PROVE  MatchList(<<>>, objects, ds, {})
  <1> DEFINE of == [i \in {} |-> i]
  <1>1. of \in [DOMAIN <<>> -> {}]
    OBVIOUS
  <1>2. DOMAIN <<>> = {}
    OBVIOUS
  <1> HIDE DEF of
  <1> QED BY <1>1, <1>2 DEF MatchList

\* What a list matches does not depend on more of the appenders than definitions tell.
LEMMA SameMatch ==
  ASSUME NEW s, NEW A, NEW B, NEW ds, NEW P, MatchList(s, A, ds, P),
         \A a \in Elems(s) : SameOne(A[a], B[a])
  PROVE  MatchList(s, B, ds, P)
  <1>1. PICK of \in [DOMAIN s -> P] :
          /\ \A k \in P : \E i \in DOMAIN s : of[i] = k
          /\ \A i, j \in DOMAIN s : i < j => of[i] < of[j]
          /\ \A i \in DOMAIN s : Is(A[s[i]], ds[of[i]])
    BY DEF MatchList
  <1>2. \A i \in DOMAIN s : SameOne(A[s[i]], B[s[i]])
    BY DEF Elems
  <1>3. \A i \in DOMAIN s : Is(B[s[i]], ds[of[i]])
    BY <1>1, <1>2 DEF Is, SameOne
  <1> QED BY <1>1, <1>3 DEF MatchList

\* One more appender, for one more place.
LEMMA MoreMatch ==
  ASSUME NEW s \in Seq(Appenders), NEW a \in Appenders, NEW A, NEW ds, NEW P \in SUBSET Nat,
         NEW k \in Nat, MatchList(s, A, ds, P), \A i \in P : i < k, Is(A[a], ds[k])
  PROVE  MatchList(Append(s, a), A, ds, P \cup {k})
  <1>1. PICK of \in [DOMAIN s -> P] :
          /\ \A p \in P : \E i \in DOMAIN s : of[i] = p
          /\ \A i, j \in DOMAIN s : i < j => of[i] < of[j]
          /\ \A i \in DOMAIN s : Is(A[s[i]], ds[of[i]])
    BY DEF MatchList
  <1> DEFINE u == Append(s, a)
             m == Len(s) + 1
             g == [i \in DOMAIN u |-> IF i = m THEN k ELSE of[i]]
  <1>2. /\ DOMAIN s = 1 .. Len(s) /\ Len(s) \in Nat /\ DOMAIN u = (1 .. Len(s)) \cup {m}
        /\ u[m] = a /\ \A i \in 1 .. Len(s) : u[i] = s[i]
    OBVIOUS
  <1>3. \A i \in 1 .. Len(s) : i # m /\ i < m /\ i \in Nat
    BY <1>2
  <1> HIDE DEF u, m
  <1>4. \A i \in 1 .. Len(s) : g[i] = of[i] /\ of[i] \in P
    BY <1>1, <1>2, <1>3
  <1>5. g[m] = k
    BY <1>2
  <1>6. g \in [DOMAIN u -> P \cup {k}]
    BY <1>2, <1>4, <1>5
  <1> HIDE DEF g
  <1>7. ASSUME NEW p \in P \cup {k}  PROVE \E i \in DOMAIN u : g[i] = p
    <2>1. CASE p \in P
      BY <1>1, <1>2, <1>4, <2>1
    <2>2. CASE p = k
      BY <1>2, <1>5, <2>2
    <2> QED BY <2>1, <2>2
  <1>8. ASSUME NEW i \in DOMAIN u, NEW j \in DOMAIN u, i < j  PROVE g[i] < g[j]
    <2>1. i \in 1 .. Len(s)
      BY <1>2, <1>8 DEF m
    <2>2. CASE j = m
      BY <1>4, <1>5, <2>1, <2>2
    <2>3. CASE j # m
      BY <1>1, <1>2, <1>4, <1>8, <2>1, <2>3
    <2> QED BY <2>2, <2>3
  <1>9. ASSUME NEW i \in DOMAIN u  PROVE Is(A[u[i]], ds[g[i]])
    <2>1. CASE i = m
      BY <1>2, <1>5, <2>1
    <2>2. CASE i # m
      BY <1>1, <1>2, <1>4, <2>2
    <2> QED BY <2>1, <2>2
  <1>10. MatchList(u, A, ds, P \cup {k})
    BY <1>6, <1>7, <1>8, <1>9 DEF MatchList
  <1> QED BY <1>10 DEF u

\* The places up to a number, and up to the next.
LEMMA UptoNext ==
  ASSUME NEW ds, IsDefs(ds), NEW f, NEW k \in Nat
  PROVE  /\ Upto(ds, f, k) \in SUBSET Nat /\ \A i \in Upto(ds, f, k) : i < k + 1
         /\ k + 1 \in Rows(ds, f) => Upto(ds, f, k + 1) = Upto(ds, f, k) \cup {k + 1}
         /\ k + 1 \notin Rows(ds, f) => Upto(ds, f, k + 1) = Upto(ds, f, k)
         /\ Upto(ds, f, 0) = {} /\ Upto(ds, f, Len(ds)) = Rows(ds, f)
  <1>1. DOMAIN ds = 1 .. Len(ds) /\ Len(ds) \in Nat
    BY DEF IsDefs
  <1>2. Rows(ds, f) \subseteq 1 .. Len(ds)
    BY <1>1 DEF Rows
  <1> QED BY <1>1, <1>2 DEF Upto

(***************************************************************************)
(* The reload: what the steps of the other threads leave alone.            *)
(***************************************************************************)

\* What the program has changed stays changed.
LEMMA TouchedGrows ==
  ASSUME NEW t \in Threads, Begin(t) \/ Proceed(t)
  PROVE  touched \subseteq touched'
  <1>1. CASE SetLevels(t) \/ SetFormatters(t) \/ AddAppenders(t) \/ DelAppenders(t) \/ ClearsAppenders(t)
    BY <1>1 DEF SetLevels, SetLevel, SetFormatters, SetFormatter, AddAppenders, AddAppender,
                DelAppenders, DelAppender, ClearsAppenders, ClearAppenders, Change
  <1>2. CASE ~(\/ SetLevels(t) \/ SetFormatters(t) \/ AddAppenders(t) \/ DelAppenders(t)
               \/ ClearsAppenders(t))
    <2>1. UNCHANGED touched
      BY <1>2, Cases DEF LogCalls, LogCall, AppenderSetFormatters, AppenderSetFormatter, Loads, Load,
         LogEnter, LogWrite, AddEnter, AddInherit, Redefine, Reformat, Clear, Make, MadeAll, Undefine,
         ClearGone, Heard, Store
    <2> QED BY <2>1
  <1> QED BY <1>1, <1>2

\* Only the loader takes the steps of the listener.
LEMMA OnlyLoader ==
  ASSUME NEW l, Loaders = {l}, IInv, NEW t \in Threads, t # l
  PROVE  /\ ~Loads(t) /\ ~Redefine(t) /\ ~Reformat(t) /\ ~Clear(t) /\ ~Make(t) /\ ~MadeAll(t)
         /\ ~Undefine(t) /\ ~ClearGone(t) /\ ~Heard(t) /\ ~Store(t)
  <1>1. ~Reloading(t) /\ (pc[t] \notin Rebuilding)
    BY DEF IInv, InCall
  <1>2. ~Loads(t)
    BY DEF Loads, Load
  <1> QED BY <1>1, <1>2 DEF Redefine, Reformat, Clear, Make, MadeAll, Undefine, ClearGone, Heard, Store,
                            Rebuilding

\* The steps that are left to the loader.
LEMMA LoaderCases ==
  ASSUME NEW l, Loaders = {l}, Begin(l) \/ Proceed(l), l \in Threads
  PROVE  \/ LogCalls(l) \/ Loads(l) \/ LogEnter(l) \/ LogWrite(l) \/ AddEnter(l) \/ AddInherit(l)
         \/ Redefine(l) \/ Reformat(l) \/ Clear(l) \/ Make(l) \/ MadeAll(l)
         \/ Undefine(l) \/ ClearGone(l) \/ Heard(l) \/ Store(l)
  BY Cases DEF SetLevels, SetLevel, SetFormatters, SetFormatter, AddAppenders, AddAppender,
     DelAppenders, DelAppender, ClearsAppenders, ClearAppenders, AppenderSetFormatters,
     AppenderSetFormatter, Change

\* What the other threads change is marked as changed by the program.
LEMMA OthersMark ==
  ASSUME NEW l, Loaders = {l}, IInv, Apart(l), NEW t \in Threads, Begin(t) \/ Proceed(t), t # l,
         NEW n \in Names
  PROVE  /\ UNCHANGED <<value, last, flagged>>
         /\ <<n, "settings">> \notin touched' =>
              m_level'[n] = m_level[n] /\ m_formatter'[n] = m_formatter[n]
         /\ <<n, "appenders">> \notin touched' => m_appenders'[n] = m_appenders[n]
  <1>0. LoggerTypeOK
    BY DEF IInv, TypeOK
  <1>1. CASE \/ LogCalls(t) \/ AddAppenders(t) \/ AppenderSetFormatters(t) \/ LogEnter(t) \/ LogWrite(t)
    BY <1>1 DEF LogCalls, LogCall, AddAppenders, AddAppender, AppenderSetFormatters,
                AppenderSetFormatter, LogEnter, LogWrite, loggerVars
  <1>2. CASE SetLevels(t)
    BY <1>0, <1>2 DEF SetLevels, SetLevel, Change, LoggerTypeOK
  <1>3. CASE SetFormatters(t)
    BY <1>0, <1>3 DEF SetFormatters, SetFormatter, Reformatted, Change, LoggerTypeOK
  <1>4. CASE DelAppenders(t)
    BY <1>0, <1>4 DEF DelAppenders, DelAppender, Change, LoggerTypeOK
  <1>5. CASE ClearsAppenders(t)
    BY <1>0, <1>5 DEF ClearsAppenders, ClearAppenders, Cleared, Change, LoggerTypeOK
  <1>6. CASE AddEnter(t) \/ AddInherit(t)
    <2>1. UNCHANGED <<value, last, flagged, m_level, m_formatter, touched>>
      BY <1>6 DEF AddEnter, AddInherit
    <2>2. <<at[t], "appenders">> \in touched
      BY <1>6 DEF Apart, AddEnter, AddInherit
    <2>3. n # at[t] => m_appenders'[n] = m_appenders[n]
      BY <1>0, <1>6 DEF AddEnter, AddInherit, Pushed, LoggerTypeOK
    <2> QED BY <2>1, <2>2, <2>3
  <1> QED BY <1>1, <1>2, <1>3, <1>4, <1>5, <1>6, Cases, OnlyLoader

\* Neither an appender of a definition that is in use nor one that the loader adds changes, as far as
\* definitions tell.
LEMMA OnesStay ==
  ASSUME NEW l \in Threads, Loaders = {l}, IInv, Apart(l), NEW t \in Threads, Begin(t) \/ Proceed(t),
         NEW a \in Appenders \ Own,
         \/ \E n \in Names : a \in Elems(m_appenders[n])
         \/ pc[l] \in {"add", "inherit"} /\ a = arg[l]
  PROVE  SameOne(app[a], app'[a])
  <1>0. LoggerTypeOK /\ AppTypeOK /\ ReloadTypeOK /\ InCall
    BY DEF IInv, TypeOK
  <1>1. CASE \/ LogCalls(t) \/ SetLevels(t) \/ AddAppenders(t) \/ Loads(t) \/ LogEnter(t) \/ LogWrite(t)
             \/ Redefine(t) \/ MadeAll(t) \/ Undefine(t) \/ Heard(t) \/ Store(t) \/ AddEnter(t)
             \/ DelAppenders(t) \/ ClearsAppenders(t) \/ Clear(t) \/ ClearGone(t)
    <2>1. UNCHANGED app
      BY <1>1 DEF LogCalls, LogCall, SetLevels, SetLevel, AddAppenders, AddAppender, Loads, Load,
         LogEnter, LogWrite, Redefine, MadeAll, Undefine, Heard, Store, AddEnter, DelAppenders,
         DelAppender, ClearsAppenders, ClearAppenders, Clear, ClearGone
    <2> QED BY <2>1 DEF SameOne
  <1>2. CASE SetFormatters(t) \/ Reformat(t)
    <2>1. \/ UNCHANGED app
          \/ \E n \in Names, f \in Formatters : Reformatted(n, f)
      <3>1. CASE SetFormatters(t)
        BY <3>1, AcceptedIsOne DEF SetFormatters, SetFormatter
      <3>2. CASE Reformat(t)
        <4>1. name[t] \in Names
          BY <1>0, <3>2 DEF InCall, Reformat, ReloadTypeOK, Definitions, Reloading, Rebuilding
        <4> QED BY <3>2, <4>1 DEF Reformat
      <3> QED BY <1>2, <3>1, <3>2
    <2> QED BY <1>0, <2>1, ReformattedOnes DEF SameOne
  <1>3. CASE AppenderSetFormatters(t)
    <2>1. PICK b \in Own, f \in Formatters : AppenderSetFormatter(t, b, f)
      BY <1>3 DEF AppenderSetFormatters
    <2>2. Given(b, f)
      BY <2>1 DEF AppenderSetFormatter, Given
    <2>3. b \in Appenders /\ a \in Appenders /\ a # b
      BY Constants
    <2>4. app'[a] = app[a]
      BY <1>0, <2>2, <2>3, GivenOnes
    <2> QED BY <2>4 DEF SameOne
  <1>4. CASE AddInherit(t)
    <2>1. Pushes(t) /\ pc[t] = "inherit"
      BY <1>4 DEF Pushes, AddInherit
    <2>2. CASE a # arg[t]
      BY <2>1, <2>2, PushedOnes DEF SameOne
    <2>3. CASE a = arg[t]
      <3>1. t = l /\ ~app[a].has
        BY <2>1, <2>3 DEF Apart
      <3> QED BY <2>1, <3>1, PushedOnes DEF SameOne
    <2> QED BY <2>2, <2>3
  <1>5. CASE Make(t)
    <2>1. t = l /\ pc[l] = "make"
      BY <1>5, OnlyLoader DEF Make
    <2>2. CASE UNCHANGED <<app, adds>>
      BY <2>2 DEF SameOne
    <2>3. CASE ~UNCHANGED <<app, adds>>
      <3>1. PICK b \in Unused : app' = [app EXCEPT ![b] = Made(Head(defs[t]))]
        BY <1>5, <2>3, MakeFacts
      <3>2. a # b
        BY <2>1 DEF Unused
      <3>3. app'[a] = app[a]
        BY <1>0, <3>1, <3>2 DEF AppTypeOK
      <3> QED BY <3>3 DEF SameOne
    <2> QED BY <2>2, <2>3
  <1> QED BY <1>1, <1>2, <1>3, <1>4, <1>5, Cases

\* A list that stays matches what it did.
LEMMA ListStays ==
  ASSUME NEW l \in Threads, Loaders = {l}, IInv, Apart(l), NEW t \in Threads, Begin(t) \/ Proceed(t),
         NEW n \in Names, <<n, "appenders">> \notin touched, m_appenders'[n] = m_appenders[n],
         NEW ds, NEW P, MatchList(m_appenders[n], app, ds, P)
  PROVE  MatchList(m_appenders'[n], app', ds, P)
  <1>1. Elems(m_appenders[n]) \subseteq Appenders \ Own
    BY DEF IInv, TypeOK, LoggerTypeOK, Elems, Apart
  <1>2. \A a \in Elems(m_appenders[n]) : SameOne(app[a], app'[a])
    BY <1>1, OnesStay
  <1> QED BY <1>2, SameMatch

\* Appenders of the program and of the definitions stay apart.
LEMMA ApartKept ==
  ASSUME NEW l \in Threads, Loaders = {l}, IInv, Apart(l), Making(l),
         NEW t \in Threads, Begin(t) \/ Proceed(t)
  PROVE  Apart(l)'
  <1>0. LoggerTypeOK /\ AppTypeOK /\ ThreadTypeOK /\ LineTypeOK /\ InCall
    BY DEF IInv, TypeOK
  <1>1. ASSUME NEW u \in Threads \ {l}, pc'[u] \in {"add", "inherit"}
        PROVE  arg'[u] \in Own /\ <<at'[u], "appenders">> \in touched'
    <2>1. CASE u # t
      BY <1>1, <2>1, OthersStay, TouchedGrows DEF Apart
    <2>2. CASE u = t /\ AddAppenders(t)
      <3>1. PICK n \in Names, a \in Own : AddAppender(t, n, a)
        BY <2>2 DEF AddAppenders
      <3>2. arg'[t] = a /\ at'[t] = n /\ <<n, "appenders">> \in touched'
        BY <1>0, <3>1 DEF AddAppender, Change, Be, ThreadTypeOK, LineTypeOK
      <3> QED BY <2>2, <3>2
    <2>3. CASE u = t /\ AddEnter(t)
      <3>1. ~HasOne(arg[t])
        BY <1>0, <1>1, <2>3 DEF AddEnter, Pushed, Goto, ThreadTypeOK
      <3>2. UNCHANGED <<arg, at, touched>> /\ pc[t] = "add"
        BY <2>3, <3>1 DEF AddEnter
      <3> QED BY <2>3, <3>2 DEF Apart
    <2>4. CASE u = t /\ ~AddAppenders(t) /\ ~AddEnter(t)
      <3>1. /\ ~Loads(t) /\ ~Redefine(t) /\ ~Reformat(t) /\ ~Clear(t) /\ ~Make(t) /\ ~MadeAll(t)
            /\ ~Undefine(t) /\ ~ClearGone(t) /\ ~Heard(t) /\ ~Store(t)
        BY <2>4, OnlyLoader
      <3>2. pc'[t] \notin {"add", "inherit"}
        <4>1. CASE LogCalls(t) \/ LogEnter(t) \/ LogWrite(t) \/ AddInherit(t)
          BY <1>0, <4>1 DEF LogCalls, LogCall, LogEnter, LogWrite, AddInherit, Pushed, BeginLine,
                            EndLine, MayCall, Goto, ThreadTypeOK
        <4>2. CASE \/ SetLevels(t) \/ SetFormatters(t) \/ DelAppenders(t) \/ ClearsAppenders(t)
                   \/ AppenderSetFormatters(t)
          BY <4>2 DEF SetLevels, SetLevel, SetFormatters, SetFormatter, DelAppenders, DelAppender,
                      ClearsAppenders, ClearAppenders, AppenderSetFormatters, AppenderSetFormatter,
                      Change, MayCall
        <4> QED BY <2>4, <3>1, <4>1, <4>2, Cases
      <3> QED BY <1>1, <2>4, <3>2
    <2> QED BY <2>1, <2>2, <2>3, <2>4
  <1>2. ASSUME NEW n \in Names, <<n, "appenders">> \notin touched'
        PROVE  Elems(m_appenders'[n]) \cap Own = {}
    <2>1. <<n, "appenders">> \notin touched /\ Elems(m_appenders[n]) \cap Own = {}
      BY <1>2, TouchedGrows DEF Apart
    <2>2. CASE ~Pushes(t)
      BY <2>1, <2>2, ListShrinks
    <2>3. CASE Pushes(t) /\ n # at[t]
      BY <2>1, <2>3, PushFacts
    <2>4. CASE Pushes(t) /\ n = at[t]
      <3>1. pc[t] \in {"add", "inherit"}
        BY <2>4 DEF Pushes, AddEnter, AddInherit
      <3>2. t = l /\ arg[l] \notin Own
        BY <2>1, <2>4, <3>1 DEF Apart
      <3>3. Elems(m_appenders'[at[t]]) = Elems(m_appenders[at[t]]) \cup {arg[t]}
        BY <2>4, PushFacts
      <3> HIDE DEF Elems
      <3> QED BY <2>1, <2>4, <3>2, <3>3
    <2> QED BY <2>2, <2>3, <2>4
  <1>3. ASSUME pc'[l] \in {"add", "inherit"}
        PROVE  /\ arg'[l] \notin Own /\ Reloading(l)' /\ (pc'[l] = "inherit" => ~app'[arg'[l]].has)
               /\ \A n \in Names : arg'[l] \notin Elems(m_appenders'[n])
    <2>1. CASE t # l
      <3>1. pc'[l] = pc[l] /\ arg'[l] = arg[l] /\ new'[l] = new[l]
        BY <2>1, OthersStay
      <3>2. /\ arg[l] \in Appenders \ Own /\ Reloading(l) /\ (pc[l] = "inherit" => ~app[arg[l]].has)
            /\ \A n \in Names : arg[l] \notin Elems(m_appenders[n])
        BY <1>0, <1>3, <3>1 DEF Apart, InCall
      <3>3. SameOne(app[arg[l]], app'[arg[l]])
        BY <1>3, <3>1, <3>2, OnesStay
      <3>4. ASSUME NEW n \in Names  PROVE arg[l] \notin Elems(m_appenders'[n])
        <4>1. CASE ~Pushes(t)
          BY <3>2, <4>1, ListShrinks
        <4>2. CASE Pushes(t)
          <5>1. arg[t] \in Own
            BY <2>1, <4>2 DEF Pushes, AddEnter, AddInherit, Apart
          <5> QED BY <3>2, <4>2, <5>1, PushFacts
        <4> QED BY <4>1, <4>2
      <3> QED BY <3>1, <3>2, <3>3, <3>4 DEF Reloading, SameOne
    <2>2. CASE t = l /\ AddEnter(l)
      <3>1. pc[l] = "add" /\ ~HasOne(arg[l])
        BY <1>0, <1>3, <2>2 DEF AddEnter, Pushed, Goto, ThreadTypeOK
      <3>2. UNCHANGED <<arg, new, app, m_appenders>>
        BY <2>2, <3>1 DEF AddEnter, reloadVars
      <3>3. ~app[arg[l]].has
        <4>1. Is(app[arg[l]], new[l][name[l]].appenders[Taken(l)])
          BY <3>1 DEF Making
        <4> QED BY <3>1, <4>1, Constants DEF Is, HasOne
      <3> QED BY <3>1, <3>2, <3>3 DEF Apart, Reloading
    <2>3. CASE t = l /\ Make(l)
      <3>1. UNCHANGED <<new, m_appenders>> /\ pc[l] = "make"
        BY <2>3 DEF Make, loggerVars
      <3>2. PICK a \in Unused : arg' = [arg EXCEPT ![l] = a] /\ pc' = [pc EXCEPT ![l] = "add"]
        BY <1>3, <2>3, <3>1, MakeFacts
      <3>3. arg'[l] = a /\ pc'[l] = "add"
        BY <1>0, <3>2 DEF ThreadTypeOK
      <3>4. Reloading(l)
        BY <1>0, <3>1 DEF InCall, Rebuilding
      <3> QED BY <3>1, <3>3, <3>4 DEF Unused, Reloading
    <2>4. CASE t = l /\ ~AddEnter(l) /\ ~Make(l)
      <3>1. pc'[l] \notin {"add", "inherit"}
        <4>1. CASE LogCalls(l) \/ Loads(l) \/ LogEnter(l) \/ LogWrite(l) \/ AddInherit(l)
          BY <1>0, <4>1 DEF LogCalls, LogCall, Loads, Load, LogEnter, LogWrite, AddInherit, Pushed,
                            BeginLine, EndLine, MayCall, Goto, ThreadTypeOK
        <4>2. CASE \/ Redefine(l) \/ Reformat(l) \/ Clear(l) \/ MadeAll(l) \/ Undefine(l)
                   \/ ClearGone(l) \/ Heard(l) \/ Store(l)
          BY <1>0, <4>2 DEF Redefine, Reformat, Clear, MadeAll, Undefine, ClearGone, Heard, Store, Goto,
                            ThreadTypeOK
        <4> QED BY <2>4, <4>1, <4>2, LoaderCases
      <3> QED BY <1>3, <3>1
    <2> QED BY <2>1, <2>2, <2>3, <2>4
  <1> QED BY <1>1, <1>2, <1>3 DEF Apart

(***************************************************************************)
(* The reload: the steps of the other threads, and those that do nothing   *)
(* for it.                                                                 *)
(***************************************************************************)

\* A step leaves the settings and the list of a logger as they match definitions.
Spares(n) ==
  /\ <<n, "settings">> \notin touched' => m_level'[n] = m_level[n] /\ m_formatter'[n] = m_formatter[n]
  /\ <<n, "appenders">> \notin touched' =>
       \A ds, P : MatchList(m_appenders[n], app, ds, P) => MatchList(m_appenders'[n], app', ds, P)

\* A step of the listener, or of no one in it, keeps what is settled if it spares all loggers but one,
\* n, which it begins, goes on with or ends.
LEMMA Onward ==
  ASSUME NEW l \in Threads, Settled(l), UNCHANGED <<value, last, flagged>>, new'[l] = new[l],
         touched \subseteq touched', NEW n,
         \A m \in Names \ {n} : Spares(m),
         Left(l)' \cup {n} = Left(l) \cup {n}, Reloading(l) => n \notin Left(l)',
         Current(l) \subseteq {n}, Current(l)' \subseteq {n},
         n \in Names => (Before(l, n)' => IsAs(n, last[n])') /\ (After(l, n)' => IsAs(n, Rebuilt(l)[n])')
  PROVE  Settled(l)'
  <1>1. Rebuilt(l)' = Rebuilt(l) /\ Reloading(l)' = Reloading(l)
    BY DEF Rebuilt, Reloading
  <1>2. ASSUME NEW m \in Names \ {n}, Before(l, m)'  PROVE IsAs(m, last[m])'
    <2>1. m \in DOMAIN last \ Current(l) /\ (Reloading(l) => m \in Left(l))
      BY <1>1, <1>2 DEF Before
    <2>2. IsAs(m, last[m])
      BY <2>1 DEF Settled, Before
    <2> QED BY <2>2 DEF IsAs, HasLevel, HasFormatter, HasAll, Spares
  <1>3. ASSUME NEW m \in Names \ {n}, After(l, m)'  PROVE IsAs(m, Rebuilt(l)[m])'
    <2>1. Reloading(l) /\ m \in DOMAIN Rebuilt(l) \ (Current(l) \cup Left(l))
      BY <1>1, <1>3 DEF After
    <2>2. IsAs(m, Rebuilt(l)[m])
      BY <2>1 DEF Settled, After
    <2> QED BY <1>1, <2>2 DEF IsAs, HasLevel, HasFormatter, HasAll, Spares
  <1> QED BY <1>2, <1>3 DEF Settled

Quiet == {"idle", "log", "write", "next"}

\* A step that spares all loggers, and that is of another thread or of a line of the loader.
LEMMA QuietStep ==
  ASSUME NEW l \in Threads, Order(l), Settled(l), Making(l), UnderWay(l),
         UNCHANGED <<value, last, flagged>>, touched \subseteq touched', \A m \in Names : Spares(m),
         new'[l] = new[l], todo'[l] = todo[l], gone'[l] = gone[l], defs'[l] = defs[l], arg'[l] = arg[l],
         \/ pc'[l] = pc[l] /\ name'[l] = name[l]
         \/ {pc[l], pc'[l]} \subseteq Quiet,
         Current(l) \subseteq Names,
         pc[l] \in {"add", "inherit"} => SameOne(app[arg[l]], app'[arg[l]])
  PROVE  Order(l)' /\ Settled(l)' /\ Making(l)' /\ UnderWay(l)'
  <1>1. Rebuilt(l)' = Rebuilt(l) /\ Reloading(l)' = Reloading(l) /\ Left(l)' = Left(l)
    BY DEF Rebuilt, Reloading, Left
  <1>2. Current(l)' = Current(l) /\ (pc'[l] = "store" => pc[l] = "store")
    BY DEF Current, Quiet
  <1>3. /\ \A n : Before(l, n)' = Before(l, n)
        /\ \A n : After(l, n)' = After(l, n)
    BY <1>1, <1>2 DEF Before, After
  <1>4. Settled(l)'
    BY <1>1, <1>3 DEF Settled, IsAs, HasLevel, HasFormatter, HasAll, Spares
  <1>5. CASE pc'[l] = pc[l] /\ name'[l] = name[l]
    <2>1. Taken(l)' = Taken(l)
      BY <1>5 DEF Taken
    <2>2. Order(l)'
      BY <1>1, <1>2, <1>5 DEF Order, Differs
    <2>3. Making(l)'
      BY <1>5, <2>1 DEF Making, Is, SameOne
    <2>4. CASE pc[l] \in {"reformat", "clear", "make", "add", "inherit", "clearGone"}
      <3>1. name[l] \in Names
        BY <2>4 DEF Current
      <3>2. UnderWay(l)'
        BY <1>5, <2>1, <3>1 DEF UnderWay, HasLevel, HasFormatter, HasSome, Spares
      <3> QED BY <1>4, <2>2, <2>3, <3>2
    <2>5. CASE pc[l] \notin {"reformat", "clear", "make", "add", "inherit", "clearGone"}
      <3>1. UnderWay(l)'
        BY <1>5, <2>5 DEF UnderWay
      <3> QED BY <1>4, <2>2, <2>3, <3>1
    <2> QED BY <2>4, <2>5
  <1>6. CASE {pc[l], pc'[l]} \subseteq Quiet
    <2>1. Current(l)' = {}
      BY <1>6 DEF Current, Quiet
    <2>2. Order(l)'
      BY <1>1, <1>6, <2>1 DEF Order, Quiet
    <2>3. Making(l)' /\ UnderWay(l)'
      BY <1>6 DEF Making, UnderWay, Quiet
    <2> QED BY <1>4, <2>2, <2>3
  <1> QED BY <1>5, <1>6

\* The logger that is being rebuilt is one.
LEMMA CurrentIs ==
  ASSUME NEW l \in Threads, IInv
  PROVE  Current(l) \subseteq Names
  BY DEF IInv, InCall, TypeOK, ReloadTypeOK, Definitions, Current, Reloading, Rebuilding

\* A step of another thread.
LEMMA OthersReload ==
  ASSUME NEW l \in Threads, Loaders = {l}, IInv, Reloads(l),
         NEW t \in Threads, Begin(t) \/ Proceed(t), t # l
  PROVE  Reloads(l)'
  <1>1. Apart(l)'
    BY ApartKept DEF Reloads
  <1>2. UNCHANGED <<value, last, flagged>> /\ touched \subseteq touched'
    <2>1. Root \in Names
      BY Constants
    <2> QED BY <2>1, OthersMark, TouchedGrows DEF Reloads
  <1>3. ASSUME NEW m \in Names  PROVE Spares(m)
    <2>1. /\ <<m, "settings">> \notin touched' =>
               m_level'[m] = m_level[m] /\ m_formatter'[m] = m_formatter[m]
          /\ <<m, "appenders">> \notin touched' => m_appenders'[m] = m_appenders[m]
      <3>1. Apart(l)
        BY DEF Reloads
      <3> QED BY <3>1, OthersMark
    <2>2. ASSUME <<m, "appenders">> \notin touched', NEW ds, NEW P, MatchList(m_appenders[m], app, ds, P)
          PROVE  MatchList(m_appenders'[m], app', ds, P)
      BY <1>2, <2>1, <2>2, ListStays DEF Reloads
    <2> QED BY <1>2, <2>1, <2>2 DEF Spares
  <1>4. /\ pc'[l] = pc[l] /\ arg'[l] = arg[l] /\ name'[l] = name[l] /\ new'[l] = new[l]
        /\ todo'[l] = todo[l] /\ gone'[l] = gone[l] /\ defs'[l] = defs[l]
    BY OthersStay
  <1>5. pc[l] \in {"add", "inherit"} => SameOne(app[arg[l]], app'[arg[l]])
    <2>1. pc[l] \in {"add", "inherit"} => arg[l] \in Appenders \ Own
      BY DEF IInv, InCall, Reloads, Apart
    <2> QED BY <2>1, OnesStay DEF Reloads
  <1>6. Order(l)' /\ Settled(l)' /\ Making(l)' /\ UnderWay(l)'
    BY <1>2, <1>3, <1>4, <1>5, CurrentIs, QuietStep DEF Reloads
  <1> QED BY <1>1, <1>6 DEF Reloads

\* A load that changes nothing, and the lines of the loader.
LinesOfLoader(l) ==
  \/ LogCalls(l) \/ LogEnter(l) \/ LogWrite(l)
  \/ \E doc \in Documents : Load(l, doc) /\ new'[l] = new[l]

\* Such a step is quiet.
LEMMA LinesReload ==
  ASSUME NEW l \in Threads, Loaders = {l}, IInv, Reloads(l), LinesOfLoader(l)
  PROVE  Order(l)' /\ Settled(l)' /\ Making(l)' /\ UnderWay(l)'
  <1>0. ThreadTypeOK /\ LineTypeOK /\ ReloadTypeOK
    BY DEF IInv, TypeOK
  <1>1. CASE LogCalls(l) \/ LogEnter(l) \/ LogWrite(l)
    <2>1. UNCHANGED <<value, last, flagged, touched, m_level, m_formatter, m_appenders, app, reloadVars, arg>>
      BY <1>1 DEF LogCalls, LogCall, LogEnter, LogWrite, loggerVars
    <2>2. {pc[l], pc'[l]} \subseteq Quiet
      BY <1>0, <1>1 DEF LogCalls, LogCall, LogEnter, LogWrite, MayCall, BeginLine, EndLine, Goto, Quiet,
                        ThreadTypeOK
    <2>3. \A m \in Names : Spares(m)
      BY <2>1 DEF Spares
    <2>4. pc[l] \notin {"add", "inherit"}
      BY <2>2 DEF Quiet
    <2> QED BY <2>1, <2>2, <2>3, <2>4, CurrentIs, QuietStep DEF Reloads, reloadVars
  <1>2. CASE \E doc \in Documents : Load(l, doc) /\ new'[l] = new[l]
    <2>1. PICK doc \in Documents : Load(l, doc) /\ new'[l] = new[l]
      BY <1>2
    <2>2. pc[l] = "idle" /\ ~Reloading(l)
      BY <2>1 DEF Load, MayCall, IInv, InCall
    <2>3. Throws(doc) \/ SameSet(value, CastAll(doc))
      BY <1>0, <2>1, <2>2, Read DEF Load, Reloading, ReloadTypeOK
    <2>4. UNCHANGED <<value, last, flagged, touched, m_level, m_formatter, m_appenders, app, reloadVars, arg>>
      BY <2>1, <2>3 DEF Load, loggerVars
    <2>5. pc'[l] \in Quiet
      BY <1>0, <2>1, <2>2, <2>3 DEF Load, BeginLine, Goto, Quiet, ThreadTypeOK
    <2>6. {pc[l], pc'[l]} \subseteq Quiet /\ pc[l] \notin {"add", "inherit"}
      BY <2>2, <2>5 DEF Quiet
    <2>7. \A m \in Names : Spares(m)
      BY <2>4 DEF Spares
    <2> QED BY <2>4, <2>6, <2>7, CurrentIs, QuietStep DEF Reloads, reloadVars
  <1> QED BY <1>1, <1>2 DEF LinesOfLoader

(***************************************************************************)
(* The reload: the steps of the listener.                                  *)
(***************************************************************************)

\* A logger that a step of the loader leaves as it is is spared.
LEMMA LoaderSpares ==
  ASSUME NEW l \in Threads, Loaders = {l}, IInv, Apart(l), Begin(l) \/ Proceed(l), touched' = touched,
         NEW m \in Names, m_level'[m] = m_level[m], m_formatter'[m] = m_formatter[m],
         m_appenders'[m] = m_appenders[m]
  PROVE  Spares(m)
  <1>1. ASSUME <<m, "appenders">> \notin touched', NEW ds, NEW P, MatchList(m_appenders[m], app, ds, P)
        PROVE  MatchList(m_appenders'[m], app', ds, P)
    BY <1>1, ListStays
  <1> QED BY <1>1 DEF Spares

\* A load that changes the configuration: nothing is to be rebuilt but what is named or was.
LEMMA LoadReload ==
  ASSUME NEW l \in Threads, Loaders = {l}, IInv, Reloads(l), Loads(l), ~LinesOfLoader(l)
  PROVE  Order(l)' /\ Settled(l)' /\ Making(l)' /\ UnderWay(l)'
  <1>0. ThreadTypeOK /\ LineTypeOK /\ ReloadTypeOK
    BY DEF IInv, TypeOK
  <1>1. PICK doc \in Documents : Load(l, doc)
    BY DEF Loads
  <1>2. ~Throws(doc) /\ ~SameSet(value, CastAll(doc))
    BY <1>1 DEF LinesOfLoader, Load, reloadVars
  <1> DEFINE D == CastAll(doc)
  <1>3. /\ new' = [new EXCEPT ![l] = D] /\ todo' = [todo EXCEPT ![l] = DOMAIN D]
        /\ gone' = [gone EXCEPT ![l] = DOMAIN value \ DOMAIN D]
        /\ UNCHANGED <<value, last, flagged, touched, m_level, m_formatter, m_appenders, app>>
        /\ pc[l] = "idle"
    BY <1>1, <1>2 DEF Load, MayCall, loggerVars
  <1>4. pc'[l] \in {"log", "next"}
    BY <1>0, <1>1, <1>2 DEF Load, BeginLine, Goto, ThreadTypeOK
  <1>5. D # Free
    BY <1>2, Read
  <1> HIDE DEF D
  <1>6. new'[l] = D /\ todo'[l] = DOMAIN D /\ gone'[l] = DOMAIN value \ DOMAIN D
    BY <1>0, <1>3 DEF ReloadTypeOK
  <1>7. Current(l) = {} /\ Current(l)' = {} /\ ~Reloading(l)
    BY <1>3, <1>4 DEF Current, IInv, InCall
  <1>8. Order(l)'
    BY <1>3, <1>4, <1>6, <1>7 DEF Order
  <1>9. Making(l)' /\ UnderWay(l)'
    BY <1>4 DEF Making, UnderWay
  <1>10. ASSUME NEW n \in Names, Before(l, n)'  PROVE IsAs(n, last[n])'
    <2>1. Before(l, n)
      BY <1>3, <1>7, <1>10 DEF Before
    <2>2. IsAs(n, last[n])
      BY <2>1 DEF Reloads, Settled
    <2> QED BY <1>3, <2>2 DEF IsAs, HasLevel, HasFormatter, HasAll
  <1>11. ASSUME NEW n \in Names, After(l, n)'  PROVE IsAs(n, Rebuilt(l)[n])'
    <2>1. n \in DOMAIN Rebuilt(l)' /\ n \notin DOMAIN D \cup DOMAIN value
      BY <1>6, <1>11 DEF After, Left
    <2>2. n \in DOMAIN last /\ Rebuilt(l)'[n] = last[n]
      BY <1>3, <1>6, <2>1 DEF Rebuilt
    <2>3. IsAs(n, last[n])
      BY <1>7, <2>2 DEF Reloads, Settled, Before
    <2> QED BY <1>3, <2>2, <2>3 DEF IsAs, HasLevel, HasFormatter, HasAll
  <1> QED BY <1>8, <1>9, <1>10, <1>11 DEF Settled

\* One definition is looked at: the logger is rebuilt for it unless it is as before.
LEMMA RedefineReload ==
  ASSUME NEW l \in Threads, Loaders = {l}, IInv, Reloads(l), Redefine(l)
  PROVE  Order(l)' /\ Settled(l)' /\ Making(l)' /\ UnderWay(l)'
  <1>0. LoggerTypeOK /\ ThreadTypeOK /\ LineTypeOK /\ ReloadTypeOK /\ InCall
    BY DEF IInv, TypeOK
  <1>1. /\ pc[l] = "next" /\ Reloading(l) /\ todo[l] \subseteq DOMAIN new[l]
        /\ UNCHANGED <<value, last, flagged, touched, m_formatter, m_appenders, app, new, gone, defs, arg>>
    BY <1>0 DEF Redefine, InCall, Rebuilding
  <1>2. PICK n \in todo[l] :
          /\ todo' = [todo EXCEPT ![l] = @ \ {n}]
          /\ IF n \in DOMAIN value /\ SameDefine(new[l][n], value[n])
             THEN UNCHANGED <<m_level, pc, name, at>>
             ELSE /\ m_level' = [m_level EXCEPT ![n] = new[l][n].level]
                  /\ Be(l, n) /\ Goto(l, "reformat")
    BY DEF Redefine
  <1>3. n \in Names /\ n \in DOMAIN new[l] /\ n \notin gone[l]
    BY <1>0, <1>1, <1>2 DEF ReloadTypeOK, Definitions, Reloads, Order, Reloading
  <1>4. Left(l)' = Left(l) \ {n} /\ n \in Left(l) /\ Current(l) = {}
    BY <1>0, <1>1, <1>2, <1>3 DEF Left, Current, ReloadTypeOK
  <1>5. Rebuilt(l)' = Rebuilt(l) /\ Reloading(l)' /\ new'[l] = new[l]
    BY <1>1 DEF Rebuilt, Reloading
  <1>6. ASSUME NEW m \in Names \ {n}  PROVE Spares(m)
    <2>1. m_level'[m] = m_level[m]
      BY <1>0, <1>2, <1>6 DEF LoggerTypeOK
    <2> QED BY <1>1, <2>1, LoaderSpares DEF Reloads, Proceed
  <1>7. CASE ~Differs(l, n)
    <2>1. UNCHANGED <<m_level, pc, name>>
      BY <1>2, <1>3, <1>7 DEF Differs
    <2>2. Current(l)' = {}
      BY <1>1, <2>1 DEF Current
    <2>3. ASSUME After(l, n)'  PROVE IsAs(n, Rebuilt(l)[n])'
      <3>1. n \in DOMAIN Rebuilt(l)
        BY <1>5, <2>3 DEF After
      <3>2. n \in DOMAIN last /\ Rebuilt(l)[n] = last[n]
        BY <1>0, <1>3, <1>7, <3>1, RebuiltIs
      <3>3. IsAs(n, last[n])
        BY <1>1, <1>3, <1>4, <3>2 DEF Reloads, Settled, Before
      <3> QED BY <1>1, <1>5, <2>1, <3>2, <3>3 DEF IsAs, HasLevel, HasFormatter, HasAll
    <2>4. ~Before(l, n)'
      BY <1>4, <1>5 DEF Before
    <2>5. Settled(l)'
      BY <1>1, <1>3, <1>4, <1>5, <1>6, <2>2, <2>3, <2>4, Onward DEF Reloads
    <2>6. Order(l)'
      BY <1>1, <1>5, <2>1, <2>2 DEF Order, Reloads
    <2>7. Making(l)' /\ UnderWay(l)'
      BY <1>1, <2>1 DEF Making, UnderWay
    <2> QED BY <2>5, <2>6, <2>7
  <1>8. CASE Differs(l, n)
    <2>1. /\ m_level' = [m_level EXCEPT ![n] = new[l][n].level]
          /\ pc'[l] = "reformat" /\ name'[l] = n
      BY <1>0, <1>2, <1>8 DEF Differs, Be, Goto, ThreadTypeOK, LineTypeOK
    <2>2. Current(l)' = {n}
      BY <2>1 DEF Current
    <2>3. ~Before(l, n)' /\ ~After(l, n)'
      BY <2>2 DEF Before, After
    <2>4. Settled(l)'
      BY <1>1, <1>3, <1>4, <1>5, <1>6, <2>2, <2>3, Onward DEF Reloads
    <2>5. Order(l)'
      BY <1>1, <1>4, <1>5, <1>8, <2>1, <2>2 DEF Order, Reloads, Differs
    <2>6. Making(l)'
      BY <2>1 DEF Making
    <2>7. m_level'[n] = new[l][n].level
      BY <1>0, <1>3, <2>1 DEF LoggerTypeOK
    <2>8. UnderWay(l)'
      BY <1>5, <2>1, <2>7 DEF UnderWay, HasLevel
    <2> QED BY <2>4, <2>5, <2>6, <2>8
  <1> QED BY <1>7, <1>8

\* The formatter of the logger, and of the appenders that it still has.
LEMMA ReformatReload ==
  ASSUME NEW l \in Threads, Loaders = {l}, IInv, Reloads(l), Reformat(l)
  PROVE  Order(l)' /\ Settled(l)' /\ Making(l)' /\ UnderWay(l)'
  <1>0. LoggerTypeOK /\ ThreadTypeOK /\ ReloadTypeOK /\ InCall
    BY DEF IInv, TypeOK
  <1>n. PICK n, d : n = name[l] /\ d = new[l][n]
    OBVIOUS
  <1>1. /\ pc[l] = "reformat" /\ Reloading(l) /\ n \in DOMAIN new[l] /\ n \in Names /\ pc'[l] = "clear"
        /\ UNCHANGED <<value, last, flagged, touched, m_level, m_appenders, new, todo, gone, defs, name>>
    BY <1>n, <1>0 DEF Reformat, InCall, Rebuilding, Goto, ThreadTypeOK, ReloadTypeOK, Definitions, Reloading,
                reloadVars, lineVars
  <1>2. /\ d.formatter \in Formatters => m_formatter'[n] = d.formatter
        /\ \A m \in Names \ {n} : m_formatter'[m] = m_formatter[m]
    BY <1>n, <1>0, <1>1 DEF Reformat, Reformatted, LoggerTypeOK
  <1>3. Left(l)' = Left(l) /\ Current(l) = {n} /\ Current(l)' = {n}
    BY <1>n, <1>1 DEF Left, Current
  <1>4. Reloading(l)' /\ new'[l] = new[l] /\ n \notin Left(l)
    BY <1>n, <1>1, <1>3 DEF Reloading, Reloads, Order
  <1>5. \A m \in Names \ {n} : Spares(m)
    BY <1>n, <1>1, <1>2, LoaderSpares DEF Reloads, Proceed
  <1>6. ~Before(l, n)' /\ ~After(l, n)'
    BY <1>n, <1>3 DEF Before, After
  <1>7. Settled(l)'
    BY <1>n, <1>1, <1>3, <1>4, <1>5, <1>6, Onward DEF Reloads
  <1>8. Order(l)'
    BY <1>n, <1>1, <1>3, <1>4 DEF Order, Reloads, Differs
  <1>9. Making(l)'
    BY <1>n, <1>1 DEF Making
  <1>10. UnderWay(l)'
    BY <1>n, <1>1, <1>2, <1>4 DEF UnderWay, HasLevel, HasFormatter, Reloads
  <1> QED BY <1>7, <1>8, <1>9, <1>10

\* The appenders are cleared, and none of the definitions was taken yet.
LEMMA ClearReload ==
  ASSUME NEW l \in Threads, Loaders = {l}, IInv, Reloads(l), Clear(l)
  PROVE  Order(l)' /\ Settled(l)' /\ Making(l)' /\ UnderWay(l)'
  <1>0. LoggerTypeOK /\ ThreadTypeOK /\ ReloadTypeOK /\ InCall
    BY DEF IInv, TypeOK
  <1>n. PICK n, ds : n = name[l] /\ ds = new[l][n].appenders
    OBVIOUS
  <1>1. /\ pc[l] = "clear" /\ Reloading(l) /\ n \in DOMAIN new[l] /\ n \in Names /\ pc'[l] = "make"
        /\ UNCHANGED <<value, last, flagged, touched, m_level, m_formatter, new, todo, gone, name>>
    BY <1>n, <1>0 DEF Clear, InCall, Rebuilding, Goto, ThreadTypeOK, ReloadTypeOK, Definitions, Reloading,
                lineVars
  <1>2. defs'[l] = ds /\ m_appenders'[n] = <<>> /\ \A m \in Names \ {n} : m_appenders'[m] = m_appenders[m]
    BY <1>n, <1>0, <1>1 DEF Clear, Cleared, LoggerTypeOK, ReloadTypeOK
  <1>3. IsDefs(ds)
    BY <1>n, <1>0, <1>1 DEF ReloadTypeOK, Definitions, IsDefs, Reloading
  <1>4. Left(l)' = Left(l) /\ Current(l) = {n} /\ Current(l)' = {n}
    BY <1>n, <1>1 DEF Left, Current
  <1>5. Reloading(l)' /\ new'[l] = new[l] /\ n \notin Left(l)
    BY <1>n, <1>1, <1>4 DEF Reloading, Reloads, Order
  <1>6. \A m \in Names \ {n} : Spares(m)
    BY <1>n, <1>1, <1>2, LoaderSpares DEF Reloads, Proceed
  <1>7. ~Before(l, n)' /\ ~After(l, n)'
    BY <1>n, <1>4 DEF Before, After
  <1>8. Settled(l)'
    BY <1>n, <1>1, <1>4, <1>5, <1>6, <1>7, Onward DEF Reloads
  <1>9. Order(l)'
    BY <1>n, <1>1, <1>4, <1>5 DEF Order, Reloads, Differs
  <1>10. Len(ds) \in Nat /\ DOMAIN ds = 1 .. Len(ds)
    BY <1>n, <1>3 DEF IsDefs
  <1>11. Taken(l)' = 0 /\ new'[l][name'[l]].appenders = ds
    BY <1>n, <1>1, <1>2, <1>10 DEF Taken
  <1>12. Making(l)'
    BY <1>n, <1>1, <1>2, <1>10, <1>11 DEF Making
  <1>13. MatchList(m_appenders'[n], app', ds, Upto(ds, flagged', 0))
    BY <1>n, <1>2, <1>3, NoneMatch, UptoNext
  <1>14. UnderWay(l)'
    BY <1>n, <1>1, <1>5, <1>11, <1>13 DEF UnderWay, HasLevel, HasFormatter, HasSome, Reloads
  <1> QED BY <1>8, <1>9, <1>12, <1>14

\* What holds of the loader while it adds the appenders of a definition.
LEMMA AddingFacts ==
  ASSUME NEW l \in Threads, IInv, Reloads(l), pc[l] \in {"make", "add", "inherit"}
  PROVE  LET n == name[l]
             ds == new[l][n].appenders
         IN /\ Reloading(l) /\ Differs(l, n) /\ n \in Names /\ IsDefs(ds) /\ IsDefs(defs[l])
            /\ Len(ds) \in Nat /\ Len(defs[l]) \in Nat /\ DOMAIN ds = 1 .. Len(ds)
            /\ DOMAIN defs[l] = 1 .. Len(defs[l]) /\ Taken(l) \in Nat
            /\ Taken(l) = Len(ds) - Len(defs[l]) /\ Current(l) = {n} /\ n \notin Left(l)
  <1>0. ReloadTypeOK /\ InCall
    BY DEF IInv, TypeOK
  <1>n. PICK n, ds : n = name[l] /\ ds = new[l][n].appenders
    OBVIOUS
  <1>1. Current(l) = {n}
    BY <1>n DEF Current
  <1>2. Reloading(l) /\ Differs(l, n) /\ n \notin Left(l)
    BY <1>1 DEF Reloads, Order
  <1>3. n \in DOMAIN new[l] /\ n \in Names /\ IsDefs(ds)
    BY <1>0, <1>2, <1>n DEF Differs, Reloading, ReloadTypeOK, Definitions, IsDefs
  <1>4. IsDefs(defs[l])
    BY <1>0 DEF InCall
  <1>5. /\ Len(ds) \in Nat /\ DOMAIN ds = 1 .. Len(ds)
        /\ Len(defs[l]) \in Nat /\ DOMAIN defs[l] = 1 .. Len(defs[l])
    BY <1>3, <1>4 DEF IsDefs
  <1>6. Len(defs[l]) <= Len(ds) /\ Taken(l) = Len(ds) - Len(defs[l])
    BY <1>n DEF Reloads, Making, Taken
  <1>7. Taken(l) \in Nat
    BY <1>5, <1>6
  <1> QED BY <1>n, <1>1, <1>2, <1>3, <1>4, <1>5, <1>6, <1>7

\* Definitions that are those of a list after some number of them.
IsAfter(es, ds, k) == \A i \in DOMAIN es : es[i] = ds[k + i]

\* When a definition is taken from those that are left, they still are the last ones.
LEMMA OneTaken ==
  ASSUME NEW ds, NEW es, IsDefs(ds), IsDefs(es), es # <<>>, NEW k \in Nat, k = Len(ds) - Len(es),
         IsAfter(es, ds, k)
  PROVE  /\ Head(es) = ds[k + 1] /\ k + 1 \in DOMAIN ds
         /\ Len(Tail(es)) <= Len(ds) /\ Len(ds) - Len(Tail(es)) = k + 1
         /\ IsAfter(Tail(es), ds, k + 1)
  <1>1. /\ Len(ds) \in Nat /\ DOMAIN ds = 1 .. Len(ds) /\ Len(es) \in Nat /\ DOMAIN es = 1 .. Len(es)
    BY DEF IsDefs
  <1>2. /\ IsDefs(Tail(es)) /\ Len(Tail(es)) = Len(es) - 1
        /\ \A i \in DOMAIN Tail(es) : i + 1 \in DOMAIN es /\ Tail(es)[i] = es[i + 1]
    BY RestOfDefs
  <1>3. Len(Tail(es)) \in Nat /\ DOMAIN Tail(es) = 1 .. Len(Tail(es))
    BY <1>2 DEF IsDefs
  <1>4. Len(es) >= 1 /\ 1 \in DOMAIN es
    BY <1>1, <1>2, <1>3
  <1>5. Head(es) = es[1]
    BY <1>4 DEF IsDefs
  <1>6. ASSUME NEW i \in DOMAIN Tail(es)  PROVE Tail(es)[i] = ds[(k + 1) + i]
    <2>1. i \in Nat
      BY <1>3, <1>6
    <2>2. k + (i + 1) = (k + 1) + i
      BY <2>1
    <2>3. Tail(es)[i] = ds[k + (i + 1)]
      BY <1>2, <1>6 DEF IsAfter
    <2> QED BY <2>2, <2>3
  <1>7. Head(es) = ds[k + 1] /\ k + 1 \in DOMAIN ds
    BY <1>1, <1>4, <1>5 DEF IsAfter
  <1>8. Len(Tail(es)) <= Len(ds) /\ Len(ds) - Len(Tail(es)) = k + 1
    BY <1>1, <1>2, <1>3
  <1> QED BY <1>6, <1>7, <1>8 DEF IsAfter

\* The next definition is taken: it is passed over, or an appender is made as it says.
LEMMA MakeReload ==
  ASSUME NEW l \in Threads, Loaders = {l}, IInv, Reloads(l), Make(l)
  PROVE  Order(l)' /\ Settled(l)' /\ Making(l)' /\ UnderWay(l)'
  <1>0. AppTypeOK /\ ThreadTypeOK /\ ReloadTypeOK
    BY DEF IInv, TypeOK
  <1>n. PICK n, ds, k : n = name[l] /\ ds = new[l][n].appenders /\ k = Taken(l)
    OBVIOUS
  <1>1. /\ pc[l] = "make" /\ defs[l] # <<>> /\ defs'[l] = Tail(defs[l])
        /\ UNCHANGED <<value, last, flagged, touched, m_level, m_formatter, m_appenders, new, todo, gone,
                       name>>
    BY <1>0 DEF Make, loggerVars, lineVars, ReloadTypeOK
  <1>2. /\ Reloading(l) /\ Differs(l, n) /\ n \in Names /\ IsDefs(ds) /\ IsDefs(defs[l])
        /\ Len(ds) \in Nat /\ Len(defs[l]) \in Nat /\ DOMAIN ds = 1 .. Len(ds)
        /\ DOMAIN defs[l] = 1 .. Len(defs[l]) /\ k \in Nat
        /\ k = Len(ds) - Len(defs[l]) /\ Current(l) = {n} /\ n \notin Left(l)
    BY <1>n, <1>1, AddingFacts
  <1>3. \A i \in DOMAIN defs[l] : defs[l][i] = ds[k + i]
    BY <1>n, <1>1 DEF Reloads, Making
  <1>4. /\ Head(defs[l]) = ds[k + 1] /\ k + 1 \in DOMAIN ds
        /\ Len(defs'[l]) <= Len(ds) /\ Len(ds) - Len(defs'[l]) = k + 1
        /\ \A i \in DOMAIN defs'[l] : defs'[l][i] = ds[(k + 1) + i]
    <2>1. PICK es : es = defs[l]
      OBVIOUS
    <2>2. /\ Head(es) = ds[k + 1] /\ k + 1 \in DOMAIN ds
          /\ Len(Tail(es)) <= Len(ds) /\ Len(ds) - Len(Tail(es)) = k + 1
          /\ IsAfter(Tail(es), ds, k + 1)
      <3>1. IsDefs(ds) /\ IsDefs(es) /\ es # <<>> /\ k \in Nat /\ k = Len(ds) - Len(es)
        BY <1>1, <1>2, <2>1
      <3>2. IsAfter(es, ds, k)
        BY <1>3, <2>1 DEF IsAfter
      <3> QED BY <3>1, <3>2, OneTaken
    <2> QED BY <1>1, <2>1, <2>2 DEF IsAfter
  <1>5. Taken(l)' = k + 1
    BY <1>n, <1>1, <1>4 DEF Taken
  <1>9. /\ HasLevel(n, new[l][n]) /\ HasFormatter(n, new[l][n]) /\ HasSome(n, ds, k)
    BY <1>n, <1>1 DEF Reloads, UnderWay
  <1>10. /\ Upto(ds, flagged, k) \in SUBSET Nat
         /\ k + 1 \notin Rows(ds, flagged) => Upto(ds, flagged, k + 1) = Upto(ds, flagged, k)
    <2>1. IsDefs(ds) /\ k \in Nat
      BY <1>2
    <2> QED BY <2>1, UptoNext, Zenon
  <1>11. \A m \in Names : Spares(m)
    BY <1>1, LoaderSpares DEF Reloads, Proceed
  <1>12. pc'[l] \in {"make", "add"}
    BY <1>0, <1>1, MakeFacts DEF ThreadTypeOK
  <1>13. Left(l)' = Left(l) /\ Current(l)' = {n} /\ Reloading(l)' /\ new'[l] = new[l]
    BY <1>n, <1>1, <1>2, <1>12 DEF Left, Current, Reloading
  <1>14. ~Before(l, n)' /\ ~After(l, n)'
    BY <1>13 DEF Before, After
  <1>15. Settled(l)'
    BY <1>1, <1>2, <1>11, <1>13, <1>14, Onward DEF Reloads
  <1>16. Order(l)'
    BY <1>1, <1>2, <1>12, <1>13 DEF Order, Reloads, Differs
  <1>17. HasLevel(n, new[l][n])' /\ HasFormatter(n, new[l][n])' /\ HasSome(n, ds, k)'
    BY <1>1, <1>2, <1>9, <1>11 DEF HasLevel, HasFormatter, HasSome, Spares
  <1>18. CASE Skipped(Head(defs[l])) /\ UNCHANGED <<app, adds, arg, pc>>
    <2>1. k + 1 \notin Rows(ds, flagged)
      BY <1>4, <1>18 DEF Skipped, Rows
    <2>2. HasSome(n, ds, k + 1)'
      BY <1>1, <1>10, <1>17, <2>1 DEF HasSome
    <2>3. Making(l)'
      BY <1>n, <1>1, <1>4, <1>5, <1>18 DEF Making
    <2>4. UnderWay(l)'
      BY <1>n, <1>1, <1>5, <1>17, <1>18, <2>2 DEF UnderWay
    <2> QED BY <1>15, <1>16, <2>3, <2>4
  <1>19. CASE ~(Skipped(Head(defs[l])) /\ UNCHANGED <<app, adds, arg, pc>>)
    <2>1. PICK a \in Unused : /\ ~Skipped(Head(defs[l])) /\ app' = [app EXCEPT ![a] = Made(Head(defs[l]))]
                              /\ arg' = [arg EXCEPT ![l] = a] /\ pc' = [pc EXCEPT ![l] = "add"]
      BY <1>19, MakeFacts
    <2>2. k + 1 \in Rows(ds, flagged)
      BY <1>4, <2>1 DEF Skipped, Rows
    <2>3. arg'[l] = a /\ pc'[l] = "add" /\ app'[a] = Made(ds[k + 1])
      BY <1>0, <1>4, <2>1 DEF ThreadTypeOK, AppTypeOK, Unused
    <2>4. ds[k + 1].type \in {"FileLogAppender", "StdoutLogAppender"} /\ ds[k + 1].level \in UNKNOW .. 5
      BY <1>2, <1>4 DEF IsDefs
    <2>5. Is(app'[a], ds[k + 1])
      BY <2>3, <2>4, MadeOne DEF Is
    <2>6. Making(l)'
      BY <1>n, <1>1, <1>4, <1>5, <2>2, <2>3, <2>5 DEF Making
    <2>7. Taken(l)' - 1 = k
      BY <1>2, <1>5
    <2>8. UnderWay(l)'
      BY <1>n, <1>1, <1>17, <2>3, <2>7 DEF UnderWay
    <2> QED BY <1>15, <1>16, <2>6, <2>8
  <1> QED BY <1>18, <1>19

\* An appender without a formatter waits for that of the logger.
LEMMA EnterReload ==
  ASSUME NEW l \in Threads, Loaders = {l}, IInv, Reloads(l), AddEnter(l), ~HasOne(arg[l])
  PROVE  Order(l)' /\ Settled(l)' /\ Making(l)' /\ UnderWay(l)'
  <1>0. ThreadTypeOK
    BY DEF IInv, TypeOK
  <1>1. /\ pc[l] = "add" /\ pc'[l] = "inherit"
        /\ UNCHANGED <<value, last, flagged, touched, m_level, m_formatter, m_appenders, app, arg, name,
                       new, todo, gone, defs>>
    BY <1>0 DEF AddEnter, Goto, ThreadTypeOK, reloadVars
  <1>n. PICK n : n = name[l]
    OBVIOUS
  <1>2. /\ Left(l)' = Left(l) /\ Current(l) = {n} /\ Current(l)' = {n} /\ new'[l] = new[l]
        /\ Reloading(l)' = Reloading(l) /\ n \notin Left(l) /\ Taken(l)' = Taken(l)
    <2>1. n \notin Left(l)
      BY <1>n, <1>1, AddingFacts
    <2> QED BY <1>n, <1>1, <2>1 DEF Left, Current, Reloading, Taken
  <1>3. \A m \in Names : Spares(m)
    BY <1>1 DEF Spares
  <1>4. ~Before(l, n)' /\ ~After(l, n)'
    BY <1>2 DEF Before, After
  <1>5. Settled(l)'
    BY <1>1, <1>2, <1>3, <1>4, Onward DEF Reloads
  <1>6. Order(l)'
    BY <1>1, <1>2 DEF Order, Reloads, Differs
  <1>7. Making(l)'
    BY <1>1, <1>2 DEF Reloads, Making
  <1>8. UnderWay(l)'
    BY <1>1, <1>2 DEF Reloads, UnderWay, HasLevel, HasFormatter, HasSome
  <1> QED BY <1>5, <1>6, <1>7, <1>8

\* An appender is added: that is one more of the definitions.
LEMMA PushReload ==
  ASSUME NEW l \in Threads, Loaders = {l}, IInv, Reloads(l), Pushes(l)
  PROVE  Order(l)' /\ Settled(l)' /\ Making(l)' /\ UnderWay(l)'
  <1>0. LoggerTypeOK /\ ThreadTypeOK
    BY DEF IInv, TypeOK
  <1>n. PICK n, ds, k, a : n = name[l] /\ ds = new[l][n].appenders /\ k = Taken(l) /\ a = arg[l]
    OBVIOUS
  <1>2. pc[l] \in {"add", "inherit"} /\ Reloading(l)
    BY DEF Pushes, AddEnter, AddInherit, Reloads, Apart
  <1>3. /\ UNCHANGED <<value, last, flagged, touched, m_level, m_formatter, name, new, todo, gone, defs>>
        /\ pc'[l] = "make"
    BY <1>0, <1>2 DEF Pushes, AddEnter, AddInherit, Pushed, Goto, ThreadTypeOK, reloadVars
  <1>4. /\ n \in Names /\ a \in Appenders /\ m_appenders'[n] = Append(m_appenders[n], a)
        /\ \A m \in Names \ {n} : m_appenders'[m] = m_appenders[m]
    BY <1>n, PushFacts
  <1>5. /\ IsDefs(ds) /\ DOMAIN ds = 1 .. Len(ds) /\ Len(ds) \in Nat /\ k \in Nat
        /\ Current(l) = {n} /\ n \notin Left(l)
    BY <1>n, <1>2, AddingFacts
  <1>6. \A m \in Names \ {n} : Spares(m)
    BY <1>3, <1>4, LoaderSpares DEF Reloads, Pushes, Proceed
  <1>7. /\ Left(l)' = Left(l) /\ Current(l)' = {n} /\ new'[l] = new[l] /\ Reloading(l)'
        /\ Taken(l)' = k
    BY <1>n, <1>2, <1>3 DEF Left, Current, Reloading, Taken
  <1>8. ~Before(l, n)' /\ ~After(l, n)'
    BY <1>7 DEF Before, After
  <1>9. Settled(l)'
    BY <1>2, <1>3, <1>5, <1>6, <1>7, <1>8, Onward DEF Reloads
  <1>10. Order(l)'
    BY <1>2, <1>3, <1>5, <1>7 DEF Order, Reloads, Differs
  <1>11. Making(l)'
    BY <1>n, <1>2, <1>3, <1>7 DEF Reloads, Making
  <1>12. /\ HasLevel(n, new[l][n]) /\ HasFormatter(n, new[l][n]) /\ HasSome(n, ds, k - 1)
         /\ k \in Rows(ds, flagged) /\ Is(app[a], ds[k])
    BY <1>n, <1>2 DEF Reloads, UnderWay, Making
  <1>13. ASSUME <<n, "appenders">> \notin touched
         PROVE  MatchList(m_appenders'[n], app', ds, Upto(ds, flagged, k))
    <2>1. MatchList(m_appenders[n], app, ds, Upto(ds, flagged, k - 1))
      BY <1>12, <1>13 DEF HasSome
    <2>2. PICK j \in Nat : k = j + 1 /\ k - 1 = j
      <3>1. k \in 1 .. Len(ds)
        BY <1>5, <1>12 DEF Rows
      <3>2. k - 1 \in Nat
        BY <1>5, <3>1
      <3> QED BY <1>5, <3>2
    <2>3. /\ Upto(ds, flagged, k - 1) \in SUBSET Nat /\ \A i \in Upto(ds, flagged, k - 1) : i < k
          /\ Upto(ds, flagged, k) = Upto(ds, flagged, k - 1) \cup {k}
      <3>1. /\ Upto(ds, flagged, j) \in SUBSET Nat /\ \A i \in Upto(ds, flagged, j) : i < j + 1
            /\ j + 1 \in Rows(ds, flagged) => Upto(ds, flagged, j + 1) = Upto(ds, flagged, j) \cup {j + 1}
        <4>1. IsDefs(ds) /\ j \in Nat
          BY <1>5, <2>2
        <4> QED BY <4>1, UptoNext, Zenon
      <3> QED BY <1>12, <2>2, <3>1
    <2>4. m_appenders[n] \in Seq(Appenders)
      BY <1>0, <1>4 DEF LoggerTypeOK
    <2>5. MatchList(m_appenders'[n], app, ds, Upto(ds, flagged, k))
      BY <1>4, <1>5, <1>12, <2>1, <2>3, <2>4, MoreMatch
    <2>6. ASSUME NEW b \in Elems(m_appenders'[n])  PROVE SameOne(app[b], app'[b])
      <3>1. m_appenders'[n] \in Seq(Appenders)
        BY <1>4, <2>4, Appended
      <3>2. b \in Appenders
        BY <2>6, <3>1 DEF Elems
      <3>3. /\ app'[b].type = app[b].type /\ app'[b].file = app[b].file
            /\ app'[b].level = app[b].level /\ app'[b].has = app[b].has
            /\ b # arg[l] => app'[b] = app[b]
            /\ ~AddInherit(l) => app'[b] = app[b]
        BY <3>2, PushedOnes
      <3>4. AddInherit(l) => ~app[arg[l]].has
        BY DEF AddInherit, Reloads, Apart
      <3> QED BY <3>3, <3>4 DEF SameOne
    <2> QED BY <2>5, <2>6, SameMatch
  <1>14. UnderWay(l)'
    BY <1>n, <1>3, <1>7, <1>12, <1>13 DEF UnderWay, HasLevel, HasFormatter, HasSome
  <1> QED BY <1>9, <1>10, <1>11, <1>14

\* All definitions are taken: the logger is as it is to be.
LEMMA MadeAllReload ==
  ASSUME NEW l \in Threads, Loaders = {l}, IInv, Reloads(l), MadeAll(l)
  PROVE  Order(l)' /\ Settled(l)' /\ Making(l)' /\ UnderWay(l)'
  <1>0. ThreadTypeOK /\ ReloadTypeOK
    BY DEF IInv, TypeOK
  <1>n. PICK n, d : n = name[l] /\ d = new[l][n]
    OBVIOUS
  <1>1. /\ pc[l] = "make" /\ defs[l] = <<>> /\ pc'[l] = "next"
        /\ UNCHANGED <<value, last, flagged, touched, m_level, m_formatter, m_appenders, app, new, todo,
                       gone>>
    BY <1>0 DEF MadeAll, Goto, loggerVars, reloadVars, ThreadTypeOK
  <1>2. /\ Reloading(l) /\ Differs(l, n) /\ IsDefs(d.appenders) /\ Taken(l) = Len(d.appenders)
        /\ Current(l) = {n} /\ n \notin Left(l)
    <2>1. /\ Reloading(l) /\ Differs(l, n) /\ IsDefs(d.appenders) /\ Current(l) = {n} /\ n \notin Left(l)
          /\ Len(d.appenders) \in Nat /\ Taken(l) = Len(d.appenders) - Len(defs[l])
      BY <1>n, <1>1, AddingFacts
    <2>2. Len(defs[l]) = 0
      BY <1>1
    <2> QED BY <2>1, <2>2
  <1>3. /\ Left(l)' = Left(l) /\ Current(l)' = {} /\ Reloading(l)' /\ new'[l] = new[l]
        /\ Rebuilt(l)' = Rebuilt(l)
    BY <1>1, <1>2 DEF Left, Current, Reloading, Rebuilt
  <1>4. \A m \in Names : Spares(m)
    BY <1>1 DEF Spares
  <1>5. HasLevel(n, d) /\ HasFormatter(n, d) /\ HasSome(n, d.appenders, Len(d.appenders))
    BY <1>n, <1>1, <1>2 DEF Reloads, UnderWay
  <1>6. Upto(d.appenders, flagged, Len(d.appenders)) = Rows(d.appenders, flagged)
    <2>1. PICK ds, f : ds = d.appenders /\ f = flagged
      OBVIOUS
    <2>2. Upto(ds, f, Len(ds)) = Rows(ds, f)
      BY <1>2, <2>1, UptoNext
    <2> QED BY <2>1, <2>2
  <1>7. IsAs(n, d)
    BY <1>5, <1>6 DEF IsAs, HasAll, HasSome
  <1>8. ASSUME After(l, n)'  PROVE IsAs(n, Rebuilt(l)[n])'
    <2>1. n \in DOMAIN Rebuilt(l)
      BY <1>3, <1>8 DEF After
    <2>2. Rebuilt(l)[n] = d
      BY <1>0, <1>n, <1>2, <2>1, RebuiltIs
    <2> QED BY <1>1, <1>3, <1>7, <2>2 DEF IsAs, HasLevel, HasFormatter, HasAll
  <1>9. ~Before(l, n)'
    BY <1>2, <1>3 DEF Before
  <1>10. Settled(l)'
    BY <1>1, <1>2, <1>3, <1>4, <1>8, <1>9, Onward DEF Reloads
  <1>11. Order(l)'
    BY <1>1, <1>2, <1>3 DEF Order, Reloads
  <1>12. Making(l)' /\ UnderWay(l)'
    BY <1>1 DEF Making, UnderWay
  <1> QED BY <1>10, <1>11, <1>12

\* A logger whose definition is gone takes every level.
LEMMA UndefineReload ==
  ASSUME NEW l \in Threads, Loaders = {l}, IInv, Reloads(l), Undefine(l)
  PROVE  Order(l)' /\ Settled(l)' /\ Making(l)' /\ UnderWay(l)'
  <1>0. LoggerTypeOK /\ ThreadTypeOK /\ LineTypeOK /\ ReloadTypeOK /\ InCall
    BY DEF IInv, TypeOK
  <1>1. /\ pc[l] = "next" /\ Reloading(l) /\ todo[l] = {} /\ pc'[l] = "clearGone"
        /\ UNCHANGED <<value, last, flagged, touched, m_formatter, m_appenders, app, new, todo, defs, arg>>
    BY <1>0 DEF Undefine, InCall, Rebuilding, Goto, ThreadTypeOK
  <1>2. PICK n \in gone[l] : /\ gone' = [gone EXCEPT ![l] = @ \ {n}]
                             /\ m_level' = [m_level EXCEPT ![n] = UNKNOW] /\ Be(l, n)
    BY DEF Undefine
  <1>3. n \in DOMAIN value \ DOMAIN new[l] /\ n \in Names
    BY <1>0, <1>1, <1>2 DEF Reloads, Order, ReloadTypeOK
  <1>4. name'[l] = n /\ m_level'[n] = UNKNOW /\ \A m \in Names \ {n} : m_level'[m] = m_level[m]
    BY <1>0, <1>2, <1>3 DEF Be, LineTypeOK, LoggerTypeOK
  <1>5. Left(l)' = Left(l) \ {n} /\ n \in Left(l) /\ Current(l) = {} /\ Current(l)' = {n}
    BY <1>0, <1>1, <1>2, <1>4 DEF Left, Current, ReloadTypeOK
  <1>6. Reloading(l)' /\ new'[l] = new[l]
    BY <1>1 DEF Reloading
  <1>7. \A m \in Names \ {n} : Spares(m)
    BY <1>1, <1>4, LoaderSpares DEF Reloads, Proceed
  <1>8. ~Before(l, n)' /\ ~After(l, n)'
    BY <1>5 DEF Before, After
  <1>9. Settled(l)'
    BY <1>1, <1>3, <1>5, <1>6, <1>7, <1>8, Onward DEF Reloads
  <1>10. gone'[l] \subseteq gone[l]
    BY <1>0, <1>2 DEF ReloadTypeOK
  <1>11. Order(l)'
    BY <1>1, <1>3, <1>5, <1>6, <1>10 DEF Order, Reloads
  <1>12. Making(l)'
    BY <1>1 DEF Making
  <1>13. UnderWay(l)'
    BY <1>1, <1>4 DEF UnderWay, HasLevel, Gone
  <1> QED BY <1>9, <1>11, <1>12, <1>13

\* And it has no appenders.
LEMMA ClearGoneReload ==
  ASSUME NEW l \in Threads, Loaders = {l}, IInv, Reloads(l), ClearGone(l)
  PROVE  Order(l)' /\ Settled(l)' /\ Making(l)' /\ UnderWay(l)'
  <1>0. LoggerTypeOK /\ ThreadTypeOK /\ ReloadTypeOK /\ InCall
    BY DEF IInv, TypeOK
  <1>n. PICK n : n = name[l]
    OBVIOUS
  <1>1. /\ pc[l] = "clearGone" /\ Reloading(l) /\ n \in Names /\ pc'[l] = "next"
        /\ UNCHANGED <<value, last, flagged, touched, m_level, m_formatter, app, new, todo, gone, defs>>
    BY <1>0, <1>n DEF ClearGone, InCall, Rebuilding, Goto, ThreadTypeOK, reloadVars
  <1>2. m_appenders'[n] = <<>> /\ \A m \in Names \ {n} : m_appenders'[m] = m_appenders[m]
    BY <1>0, <1>n, <1>1 DEF ClearGone, Cleared, LoggerTypeOK
  <1>3. Left(l)' = Left(l) /\ Current(l) = {n} /\ Current(l)' = {}
    BY <1>n, <1>1 DEF Left, Current
  <1>4. /\ Reloading(l)' /\ new'[l] = new[l] /\ Rebuilt(l)' = Rebuilt(l) /\ n \notin Left(l)
        /\ n \in DOMAIN value \ DOMAIN new[l]
    BY <1>1, <1>3 DEF Reloading, Rebuilt, Reloads, Order
  <1>5. \A m \in Names \ {n} : Spares(m)
    BY <1>1, <1>2, LoaderSpares DEF Reloads, Proceed
  <1>6. ASSUME After(l, n)'  PROVE IsAs(n, Rebuilt(l)[n])'
    <2>1. n \in DOMAIN Rebuilt(l)
      BY <1>4, <1>6 DEF After
    <2>2. Rebuilt(l)[n] = Gone
      BY <1>0, <1>4, <2>1, RebuiltIs
    <2>3. Gone.level = UNKNOW /\ Gone.formatter \notin Formatters /\ Gone.appenders = <<>>
      BY Constants DEF Gone
    <2>4. MatchList(<<>>, app', <<>>, {}) /\ \A f : Rows(<<>>, f) = {}
      <3>1. \A f : Rows(<<>>, f) = {}
        BY DEF Rows
      <3>2. PICK objects : objects = app'
        OBVIOUS
      <3>3. MatchList(<<>>, objects, <<>>, {})
        BY NoneMatch
      <3> QED BY <3>1, <3>2, <3>3
    <2>5. HasLevel(n, Gone)
      BY <1>n, <1>1 DEF Reloads, UnderWay
    <2> HIDE DEF Gone
    <2> QED BY <1>1, <1>2, <1>4, <2>2, <2>3, <2>4, <2>5 DEF IsAs, HasLevel, HasFormatter, HasAll
  <1>7. ~Before(l, n)'
    BY <1>4, <1>3 DEF Before
  <1>8. Settled(l)'
    BY <1>1, <1>3, <1>4, <1>5, <1>6, <1>7, Onward DEF Reloads
  <1>9. Order(l)'
    BY <1>1, <1>3, <1>4 DEF Order, Reloads
  <1>10. Making(l)' /\ UnderWay(l)'
    BY <1>1 DEF Making, UnderWay
  <1> QED BY <1>8, <1>9, <1>10

\* The listener returns, and its value is stored: what was to be is what was.
LEMMA StoreReload ==
  ASSUME NEW l \in Threads, Loaders = {l}, IInv, Reloads(l), Heard(l) \/ Store(l)
  PROVE  Order(l)' /\ Settled(l)' /\ Making(l)' /\ UnderWay(l)'
  <1>0. ThreadTypeOK /\ ReloadTypeOK /\ InCall
    BY DEF IInv, TypeOK
  <1>1. CASE Heard(l)
    <2>1. /\ pc[l] = "next" /\ pc'[l] = "store" /\ todo[l] = {} /\ gone[l] = {}
          /\ UNCHANGED <<value, last, flagged, touched, m_level, m_formatter, m_appenders, app, new, todo,
                         gone>>
      BY <1>0, <1>1 DEF Heard, Goto, ThreadTypeOK, loggerVars, reloadVars
    <2>2. /\ Left(l)' = Left(l) /\ Left(l)' = {} /\ Current(l) = {} /\ Current(l)' = {}
          /\ Reloading(l)' = Reloading(l) /\ Rebuilt(l)' = Rebuilt(l)
      BY <2>1 DEF Left, Current, Reloading, Rebuilt
    <2>3. /\ \A n : Before(l, n)' = Before(l, n)
          /\ \A n : After(l, n)' = After(l, n)
      BY <2>1, <2>2 DEF Before, After
    <2>4. Settled(l)'
      BY <2>1, <2>2, <2>3 DEF Reloads, Settled, IsAs, HasLevel, HasFormatter, HasAll
    <2>5. Order(l)'
      BY <2>1, <2>2 DEF Order, Reloads
    <2>6. Making(l)' /\ UnderWay(l)'
      BY <2>1 DEF Making, UnderWay
    <2> QED BY <2>4, <2>5, <2>6
  <1>2. CASE Store(l)
    <2>1. /\ pc[l] = "store" /\ pc'[l] = "idle" /\ last' = Rebuilt(l) /\ new'[l] = Free
          /\ UNCHANGED <<flagged, touched, m_level, m_formatter, m_appenders, app>>
      BY <1>0, <1>2 DEF Store, Goto, ThreadTypeOK, ReloadTypeOK, loggerVars
    <2>2. /\ Reloading(l) /\ Left(l) = {} /\ Current(l) = {}
      BY <1>0, <2>1 DEF InCall, Rebuilding, Reloads, Order, Current
    <2>3. ~Reloading(l)' /\ Current(l)' = {}
      BY <2>1 DEF Reloading, Current
    <2>4. ASSUME NEW n \in Names, Before(l, n)'  PROVE IsAs(n, last[n])'
      <3>1. n \in DOMAIN Rebuilt(l)
        BY <2>1, <2>4 DEF Before
      <3>2. IsAs(n, Rebuilt(l)[n])
        BY <2>2, <3>1 DEF Reloads, Settled, After
      <3> QED BY <2>1, <3>2 DEF IsAs, HasLevel, HasFormatter, HasAll
    <2>5. Settled(l)'
      BY <2>3, <2>4 DEF Settled, After
    <2>6. Order(l)'
      BY <2>1, <2>3 DEF Order
    <2>7. Making(l)' /\ UnderWay(l)'
      BY <2>1 DEF Making, UnderWay
    <2> QED BY <2>5, <2>6, <2>7
  <1> QED BY <1>1, <1>2

(***************************************************************************)
(* The reload: the theorem.                                                *)
(***************************************************************************)

\* Initially nothing was loaded.
LEMMA InitReload ==
  ASSUME NEW l \in Threads, Init
  PROVE  Reloads(l)
  <1>1. pc[l] = "idle" /\ new[l] = Free /\ DOMAIN last = {} /\ \A t \in Threads : pc[t] = "idle"
    BY DEF Init, Nothing
  <1>2. ~Reloading(l) /\ Current(l) = {}
    BY <1>1 DEF Reloading, Current
  <1>3. ASSUME NEW n \in Names  PROVE Elems(m_appenders[n]) \cap Own = {}
    <2>1. m_appenders[n] \in {<<OutRoot, ErrRoot>>, <<>>}
      BY DEF Init
    <2>2. Elems(<<>>) = {} /\ Elems(<<OutRoot, ErrRoot>>) = {OutRoot, ErrRoot}
      BY DEF Elems
    <2> QED BY <2>1, <2>2, Constants
  <1>4. Apart(l)
    BY <1>1, <1>3 DEF Apart
  <1>5. Order(l) /\ Settled(l) /\ Making(l) /\ UnderWay(l)
    BY <1>1, <1>2 DEF Order, Settled, Before, After, Making, UnderWay
  <1> QED BY <1>4, <1>5 DEF Reloads

\* Every step keeps the reload in order.
LEMMA NextReload ==
  ASSUME NEW l \in Threads, Loaders = {l}, IInv, Reloads(l), [Next]_vars
  PROVE  Reloads(l)'
  <1>1. CASE Next
    <2>1. PICK t \in Threads : Begin(t) \/ Proceed(t)
      BY <1>1 DEF Next
    <2>2. CASE t # l
      BY <2>1, <2>2, OthersReload
    <2>3. CASE t = l
      <3>1. Apart(l)'
        BY <2>1, <2>3, ApartKept DEF Reloads
      <3>2. AddEnter(l) \/ AddInherit(l) => Pushes(l) \/ (AddEnter(l) /\ ~HasOne(arg[l]))
        BY DEF Pushes
      <3>3. Order(l)' /\ Settled(l)' /\ Making(l)' /\ UnderWay(l)'
        BY <2>1, <2>3, <3>2, LoaderCases, LinesReload, LoadReload, RedefineReload, ReformatReload,
           ClearReload, MakeReload, EnterReload, PushReload, MadeAllReload, UndefineReload,
           ClearGoneReload, StoreReload DEF LinesOfLoader
      <3> QED BY <3>1, <3>3 DEF Reloads
    <2> QED BY <2>2, <2>3
  <1>2. CASE UNCHANGED vars
    <2>1. /\ UNCHANGED <<flagged, m_level, m_formatter, m_appenders, app, value, pc, name, at, arg, new>>
          /\ UNCHANGED <<todo, gone, defs, touched, last>>
      BY <1>2 DEF vars, loggerVars, lineVars, reloadVars
    <2>2. Apart(l)'
      BY <2>1 DEF Reloads, Apart, Reloading
    <2>3. \A m \in Names : Spares(m)
      BY <2>1 DEF Spares
    <2>4. pc[l] \in {"add", "inherit"} => SameOne(app[arg[l]], app'[arg[l]])
      BY <2>1 DEF SameOne
    <2>5. Order(l)' /\ Settled(l)' /\ Making(l)' /\ UnderWay(l)'
      BY <2>1, <2>3, <2>4, CurrentIs, QuietStep DEF Reloads
    <2> QED BY <2>2, <2>5 DEF Reloads
  <1> QED BY <1>1, <1>2

\* Once the one thread that loads is not loading, each logger has, as far as the program left it
\* alone, the level, the formatter and the appenders of the definition it was last rebuilt for, or
\* none if its definition is gone (log.cpp:889-948).
THEOREM ReloadAppliesHolds ==
  ASSUME NEW l \in Threads, Loaders = {l}
  PROVE  Spec => []ReloadApplies
  <1>1. Init => Reloads(l)
    BY InitReload
  <1>2. IInv /\ Reloads(l) /\ [Next]_vars => Reloads(l)'
    BY NextReload
  <1>3. IInv /\ Reloads(l) => ReloadApplies
    <2> SUFFICES ASSUME IInv, Reloads(l), pc[l] = "idle", NEW n \in DOMAIN last
                 PROVE  /\ <<n, "settings">> \notin touched =>
                             /\ m_level[n] = last[n].level
                             /\ last[n].formatter \in Formatters => m_formatter[n] = last[n].formatter
                        /\ <<n, "appenders">> \notin touched =>
                             Matches(n, last[n].appenders, Places(last[n].appenders))
      BY DEF ReloadApplies
    <2>1. n \in Names /\ ~Reloading(l) /\ Current(l) = {}
      BY DEF IInv, InCall, TypeOK, ReloadTypeOK, Current
    <2>2. IsAs(n, last[n])
      BY <2>1 DEF Reloads, Settled, Before
    <2>3. Places(last[n].appenders) = Rows(last[n].appenders, flagged)
      BY DEF Places, Rows, Skipped
    <2>4. \A ds, P : MatchList(m_appenders[n], app, ds, P) => Matches(n, ds, P)
      BY DEF MatchList, Matches
    <2> QED BY <2>2, <2>3, <2>4 DEF IsAs, HasLevel, HasFormatter, HasAll
  <1> QED BY <1>1, <1>2, <1>3, Invariant, PTL DEF Spec

(***************************************************************************)
(* toYamlString: what it says of a logger is read as the same logger.      *)
(***************************************************************************)

\* An appender for the terminal has no file, and the formatter of one that has its own is one.
Sayable(r) ==
  /\ r.type = "StdoutLogAppender" => r.file = NoText
  /\ r.has => r.formatter \in Formatters

\* No definition of an appender for the terminal has a file.
Tidy(ds) == \A i \in DOMAIN ds : ds[i].type = "StdoutLogAppender" => ds[i].file = NoText

\* The invariant: appenders, and those that are going to be made.
Saying ==
  /\ \A a \in Appenders : Sayable(app[a])
  /\ \A t \in Threads :
       Tidy(defs[t]) /\ (Reloading(t) => \A n \in DOMAIN new[t] : Tidy(new[t][n].appenders))

\* At the start: the two appenders of the root, and no definitions.
LEMMA InitSaying ==
  ASSUME Init
  PROVE  Saying
  <1> USE Constants
  <1>1. ASSUME NEW a \in Appenders  PROVE Sayable(app[a])
    <2>1. app[a] = [(IF a = ErrRoot THEN Fresh("FileLogAppender", "root_error.log", ERROR)
                                    ELSE Fresh("StdoutLogAppender", NoText, 1))
                     EXCEPT !.formatter = IF a \in {OutRoot, ErrRoot} THEN DefaultFormatter ELSE NoText]
      BY DEF Init
    <2>2. CASE a = ErrRoot
      BY <2>1, <2>2 DEF Fresh, Sayable
    <2>3. CASE a # ErrRoot
      BY <2>1, <2>3 DEF Fresh, Sayable
    <2> QED BY <2>2, <2>3
  <1>2. ASSUME NEW t \in Threads  PROVE Tidy(defs[t]) /\ ~Reloading(t)
    BY DEF Init, Tidy, Reloading
  <1> QED BY <1>1, <1>2 DEF Saying

\* Appenders stay so, whichever way they get a formatter.
LEMMA AppSaying ==
  ASSUME IInv, Saying, NEW t \in Threads, Begin(t) \/ Proceed(t), NEW a \in Appenders
  PROVE  Sayable(app'[a])
  <1>0. /\ LoggerTypeOK /\ AppTypeOK /\ InCall /\ Sayable(app[a]) /\ IsAppender(app[a])
    BY DEF IInv, TypeOK, Saying, AppTypeOK
  <1>1. CASE app' = app
    BY <1>0, <1>1
  <1>2. CASE \E n \in Names, f \in Formatters : Reformatted(n, f)
    BY <1>0, <1>2, ReformattedOnes DEF Sayable
  <1>3. CASE AppenderSetFormatters(t)
    <2>1. PICK b \in Own, f \in Formatters : Given(b, f)
      BY <1>3 DEF AppenderSetFormatters, AppenderSetFormatter, Given
    <2>2. CASE a # b
      BY <1>0, <2>1, <2>2 DEF Given, AppTypeOK
    <2>3. CASE a = b
      <3>1. app'[a] = [app[a] EXCEPT !.formatter = f, !.has = TRUE]
        BY <1>0, <2>1, <2>3 DEF Given, AppTypeOK
      <3>2. app'[a].type = app[a].type /\ app'[a].file = app[a].file /\ app'[a].formatter = f
        BY <1>0, <3>1 DEF IsAppender
      <3> QED BY <1>0, <3>2 DEF Sayable
    <2> QED BY <2>2, <2>3
  <1>4. CASE AddInherit(t)
    <2>1. arg[t] \in Appenders /\ m_formatter[at[t]] \in Formatters
      BY <1>0, <1>4 DEF InCall, AddInherit, LoggerTypeOK
    <2>2. Inherited(arg[t], m_formatter[at[t]])
      BY <1>4 DEF AddInherit, Inherited
    <2>3. /\ app'[a].type = app[a].type /\ app'[a].file = app[a].file /\ app'[a].has = app[a].has
          /\ a # arg[t] => app'[a] = app[a]
          /\ a = arg[t] => app'[a].formatter = m_formatter[at[t]]
      BY <1>0, <2>1, <2>2, InheritedOnes
    <2> QED BY <1>0, <2>1, <2>3 DEF Sayable
  <1>5. CASE Make(t) /\ ~UNCHANGED app
    <2>1. PICK b \in Unused : app' = [app EXCEPT ![b] = Made(Head(defs[t]))]
      BY <1>5, MakeFacts
    <2>2. b \in Appenders
      BY DEF Unused
    <2>3. Head(defs[t]) = defs[t][1] /\ 1 \in DOMAIN defs[t]
      <3>1. IsDefs(defs[t]) /\ defs[t] # <<>>
        BY <1>0, <1>5, MakeFacts DEF InCall
      <3> QED BY <3>1 DEF IsDefs
    <2>4. Sayable(Made(Head(defs[t])))
      BY <2>3 DEF Saying, Tidy, Sayable, Made
    <2> QED BY <1>0, <2>1, <2>2, <2>4 DEF AppTypeOK
  <1>6. \/ UNCHANGED app \/ AppenderSetFormatters(t) \/ AddInherit(t) \/ Make(t)
        \/ \E n \in Names, f \in Formatters : Reformatted(n, f)
    <2>1. CASE SetFormatters(t)
      BY <2>1, AcceptedIsOne DEF SetFormatters, SetFormatter
    <2>2. CASE Reformat(t)
      <3>1. name[t] \in Names
        BY <1>0, <2>2 DEF Reformat, InCall, IInv, TypeOK, ReloadTypeOK, Definitions, Rebuilding, Reloading
      <3> QED BY <2>2, <3>1 DEF Reformat
    <2>3. CASE \/ LogCalls(t) \/ SetLevels(t) \/ DelAppenders(t) \/ ClearsAppenders(t)
               \/ AddAppenders(t) \/ Loads(t) \/ LogEnter(t) \/ LogWrite(t) \/ AddEnter(t)
               \/ Redefine(t) \/ Clear(t) \/ MadeAll(t) \/ Undefine(t) \/ ClearGone(t) \/ Heard(t)
               \/ Store(t)
      BY <2>3 DEF LogCalls, LogCall, SetLevels, SetLevel, DelAppenders, DelAppender, ClearsAppenders,
                  ClearAppenders, AddAppenders, AddAppender, Loads, Load, LogEnter, LogWrite, AddEnter,
                  Redefine, Clear, MadeAll, Undefine, ClearGone, Heard, Store
    <2> QED BY <2>1, <2>2, <2>3, Cases
  <1> QED BY <1>1, <1>2, <1>3, <1>4, <1>5, <1>6

\* So do the definitions that are read and handed on.
LEMMA DefsSaying ==
  ASSUME IInv, Saying, NEW t \in Threads, Begin(t) \/ Proceed(t), NEW u \in Threads
  PROVE  /\ Tidy(defs'[u])
         /\ new'[u] # Free => \A n \in DOMAIN new'[u] : Tidy(new'[u][n].appenders)
  <1>0. /\ ReloadTypeOK /\ InCall /\ DOMAIN new = Threads /\ DOMAIN defs = Threads
        /\ Tidy(defs[u]) /\ (new[u] # Free => \A n \in DOMAIN new[u] : Tidy(new[u][n].appenders))
    BY DEF IInv, TypeOK, ReloadTypeOK, Saying, Reloading
  <1>1. CASE UNCHANGED <<new, defs>>
    BY <1>0, <1>1
  <1>2. CASE Loads(t) /\ ~UNCHANGED <<new, defs>>
    <2>1. PICK doc \in Documents : ~Throws(doc) /\ new' = [new EXCEPT ![t] = CastAll(doc)] /\ defs' = defs
      BY <1>2 DEF Loads, Load, reloadVars
    <2>2. \A n \in DOMAIN CastAll(doc) : Tidy(CastAll(doc)[n].appenders)
      BY <2>1, Read DEF Tidy
    <2>3. new'[u] \in {new[u], CastAll(doc)}
      BY <1>0, <2>1
    <2> QED BY <1>0, <2>1, <2>2, <2>3
  <1>3. CASE Clear(t)
    <2>1. new' = new /\ defs' = [defs EXCEPT ![t] = new[t][name[t]].appenders] /\ pc[t] = "clear"
      BY <1>3 DEF Clear
    <2>2. new[t] # Free /\ name[t] \in DOMAIN new[t]
      BY <1>0, <2>1 DEF InCall, Rebuilding, Reloading
    <2>3. Tidy(new[t][name[t]].appenders)
      BY <2>2 DEF Saying, Reloading
    <2> QED BY <1>0, <2>1, <2>3
  <1>4. CASE Make(t)
    <2>1. new' = new
      BY <1>4 DEF Make
    <2>2. defs' = [defs EXCEPT ![t] = Tail(@)] /\ defs[t] # <<>> /\ IsDefs(defs[t])
      BY <1>0, <1>4, MakeFacts DEF InCall
    <2>3. Tidy(Tail(defs[t]))
      <3>1. Tidy(defs[t])
        BY DEF Saying
      <3>2. \A i \in DOMAIN Tail(defs[t]) : i + 1 \in DOMAIN defs[t] /\ Tail(defs[t])[i] = defs[t][i + 1]
        BY <2>2 DEF IsDefs
      <3> QED BY <3>1, <3>2 DEF Tidy
    <2> QED BY <1>0, <2>1, <2>2, <2>3
  <1>5. CASE Store(t)
    <2>1. new' = [new EXCEPT ![t] = Free] /\ defs' = defs
      BY <1>5 DEF Store
    <2> QED BY <1>0, <2>1
  <1>6. CASE \/ LogCalls(t) \/ SetLevels(t) \/ SetFormatters(t) \/ AddAppenders(t) \/ DelAppenders(t)
             \/ ClearsAppenders(t) \/ AppenderSetFormatters(t) \/ LogEnter(t) \/ LogWrite(t)
             \/ AddEnter(t) \/ AddInherit(t) \/ Redefine(t) \/ Reformat(t) \/ MadeAll(t) \/ Undefine(t)
             \/ ClearGone(t) \/ Heard(t)
    <2>1. UNCHANGED <<new, defs>>
      BY <1>6 DEF LogCalls, LogCall, SetLevels, SetLevel, SetFormatters, SetFormatter, AddAppenders,
                  AddAppender, DelAppenders, DelAppender, ClearsAppenders, ClearAppenders,
                  AppenderSetFormatters, AppenderSetFormatter, LogEnter, LogWrite, AddEnter, AddInherit,
                  Redefine, Reformat, MadeAll, Undefine, ClearGone, Heard, reloadVars
    <2> QED BY <1>1, <2>1
  <1> QED BY <1>1, <1>2, <1>3, <1>4, <1>5, <1>6, Cases

\* What a field says is found, also when it is empty and left out.
LEMMA FieldRead ==
  ASSUME NEW node, NEW unset, NEW g \in DOMAIN node
  PROVE  /\ g \notin DOMAIN unset => /\ g \in DOMAIN Defined(node, unset)
                                     /\ Defined(node, unset)[g] = node[g]
         /\ g \in DOMAIN unset /\ node[g] # unset[g] => /\ g \in DOMAIN Defined(node, unset)
                                                        /\ Defined(node, unset)[g] = node[g]
         /\ g \in DOMAIN unset /\ node[g] = unset[g] => g \notin DOMAIN Defined(node, unset)
         /\ (g \in DOMAIN unset => unset[g] = NoText) => Get(Defined(node, unset), g) = node[g]
  BY DEF Defined, Get

\* An appender's text is read as that appender (log.cpp:469-485, 512-529, 781-825).
LEMMA AppenderRead ==
  ASSUME NEW r, IsAppender(r), Sayable(r)
  PROVE  LET y == AppenderYaml([type |-> r.type, file |-> r.file, level |-> r.level,
                                formatter |-> Exported(r)])
         IN Usable(y) /\ Is(r, CastAppender(y))
  <1> DEFINE node == [type |-> r.type, file |-> r.file, level |-> LevelText(r.level),
                      formatter |-> Exported(r)]
             unset == [f \in {"level", "formatter"}
                               \cup (IF r.type = "FileLogAppender" THEN {} ELSE {"file"}) |-> NoText]
             y == AppenderYaml([type |-> r.type, file |-> r.file, level |-> r.level,
                                formatter |-> Exported(r)])
  <1>1. y = Defined(node, unset)
    BY DEF AppenderYaml
  <1>2. /\ r.type \in {"FileLogAppender", "StdoutLogAppender"} /\ r.level \in UNKNOW .. 5
        /\ r.has \in BOOLEAN
    BY DEF IsAppender
  <1>3. /\ DOMAIN node = {"type", "file", "level", "formatter"}
        /\ DOMAIN unset = {"level", "formatter"} \cup (IF r.type = "FileLogAppender" THEN {} ELSE {"file"})
        /\ \A g \in DOMAIN unset : unset[g] = NoText
        /\ node["type"] = r.type /\ node["file"] = r.file /\ node["level"] = LevelText(r.level)
        /\ node["formatter"] = Exported(r)
    OBVIOUS
  <1> HIDE DEF node, unset, y
  <1>4. \A g \in DOMAIN node : Get(y, g) = node[g]
    BY <1>1, <1>3, FieldRead
  <1>5. "type" \in DOMAIN y /\ y["type"] = r.type
    <2>1. "type" \in DOMAIN node /\ "type" \notin DOMAIN unset
      BY <1>3
    <2> QED BY <1>1, <1>3, <2>1, FieldRead
  <1>6. r.type = "FileLogAppender" => "file" \in DOMAIN y /\ y["file"] = r.file
    <2>1. SUFFICES ASSUME r.type = "FileLogAppender"  PROVE "file" \in DOMAIN y /\ y["file"] = r.file
      OBVIOUS
    <2>2. "file" \in DOMAIN node /\ "file" \notin DOMAIN unset
      BY <1>3, <2>1
    <2> QED BY <1>1, <1>3, <2>2, FieldRead
  <1>7. Get(y, "type") = r.type /\ Get(y, "level") = LevelText(r.level) /\ Get(y, "formatter") = Exported(r)
    BY <1>3, <1>4
  <1>8. Usable(y)
    BY <1>2, <1>6, <1>7 DEF Usable
  <1>9. /\ CastAppender(y).type = r.type /\ CastAppender(y).level = r.level
        /\ CastAppender(y).formatter = Exported(r) /\ CastAppender(y).file = r.file
    <2>1. FromString(LevelText(r.level)) = r.level
      BY <1>2, LevelRead
    <2>2. r.type # "FileLogAppender" => r.file = NoText
      BY <1>2 DEF Sayable
    <2> QED BY <1>5, <1>6, <1>7, <2>1, <2>2 DEF CastAppender
  <1>10. Is(r, CastAppender(y))
    <2>1. r.has <=> Exported(r) \in Formatters
      BY <1>2, Constants DEF Exported, Sayable
    <2>2. r.has => r.formatter = Exported(r)
      BY DEF Exported
    <2> QED BY <1>9, <2>1, <2>2 DEF Is
  <1> QED BY <1>8, <1>10 DEF y

\* The text of a logger is read as that logger (log.cpp:628-648, 759-828).
LEMMA LoggerRead == IInv /\ Saying => ExportsItself
  <1> SUFFICES ASSUME IInv, Saying, NEW n \in Names
               PROVE  LET d == Cast(LoggerYaml(n, m_level[n], m_formatter[n],
                                 [i \in DOMAIN m_appenders[n] |->
                                    LET a == app[m_appenders[n][i]] IN
                                    [type |-> a.type, file |-> a.file, level |-> a.level,
                                     formatter |-> Exported(a)]]))
                      IN /\ d.level = m_level[n] /\ d.formatter = m_formatter[n]
                         /\ Matches(n, d.appenders, DOMAIN d.appenders)
    BY DEF ExportsItself
  <1> DEFINE s == m_appenders[n]
             as == [i \in DOMAIN m_appenders[n] |->
                      LET a == app[m_appenders[n][i]] IN
                      [type |-> a.type, file |-> a.file, level |-> a.level, formatter |-> Exported(a)]]
             node == [name |-> n, level |-> LevelText(m_level[n]), formatter |-> m_formatter[n],
                      appenders |-> [i \in DOMAIN as |-> AppenderYaml(as[i])]]
             unset == [level |-> NoText, formatter |-> NoText, appenders |-> <<>>]
             y == LoggerYaml(n, m_level[n], m_formatter[n], as)
             all == IF "appenders" \in DOMAIN y THEN y.appenders ELSE <<>>
             yaml == [i \in DOMAIN s |-> AppenderYaml(as[i])]
             usable == Picked(all, {i \in DOMAIN all : Usable(all[i])})
  <1>0. /\ m_level[n] \in UNKNOW .. 5 /\ s \in Seq(Appenders) /\ DOMAIN s = 1 .. Len(s)
        /\ Len(s) \in Nat /\ \A i \in DOMAIN s : s[i] \in Appenders
    BY DEF IInv, TypeOK, LoggerTypeOK
  <1>1. y = Defined(node, unset) /\ DOMAIN as = DOMAIN s /\ node["appenders"] = yaml
    BY DEF LoggerYaml
  <1>2. ASSUME NEW i \in DOMAIN s
        PROVE  Usable(yaml[i]) /\ Is(app[s[i]], CastAppender(yaml[i]))
    <2>1. IsAppender(app[s[i]]) /\ Sayable(app[s[i]])
      BY <1>0 DEF Saying, IInv, TypeOK, AppTypeOK
    <2>2. yaml[i] = AppenderYaml([type |-> app[s[i]].type, file |-> app[s[i]].file,
                                  level |-> app[s[i]].level, formatter |-> Exported(app[s[i]])])
      OBVIOUS
    <2> HIDE DEF yaml, as
    <2> QED BY <2>1, <2>2, AppenderRead
  <1>3. /\ Get(y, "level") = LevelText(m_level[n]) /\ Get(y, "formatter") = m_formatter[n]
    <2>1. /\ "level" \in DOMAIN node /\ node["level"] = LevelText(m_level[n])
          /\ "formatter" \in DOMAIN node /\ node["formatter"] = m_formatter[n]
          /\ unset["level"] = NoText /\ unset["formatter"] = NoText
      OBVIOUS
    <2> HIDE DEF node, unset, y
    <2> QED BY <1>1, <2>1, FieldRead
  <1>4. all = yaml
    <2>1. "appenders" \in DOMAIN node /\ "appenders" \in DOMAIN unset /\ unset["appenders"] = <<>>
      OBVIOUS
    <2> HIDE DEF node, unset, y, yaml, as
    <2>2. CASE yaml = <<>>
      <3>1. "appenders" \notin DOMAIN y
        BY <1>1, <2>1, <2>2, FieldRead
      <3> QED BY <2>2, <3>1
    <2>3. CASE yaml # <<>>
      <3>1. "appenders" \in DOMAIN y /\ y["appenders"] = yaml
        BY <1>1, <2>1, <2>3, FieldRead
      <3> QED BY <3>1
    <2> QED BY <2>2, <2>3
  <1> HIDE DEF all
  <1>5. yaml \in Seq(Elems(yaml)) /\ DOMAIN yaml = DOMAIN s /\ Len(yaml) = Len(s)
    <2>1. DOMAIN yaml = DOMAIN s
      OBVIOUS
    <2>2. yaml = [i \in 1 .. Len(s) |-> yaml[i]]
      BY <1>0
    <2> HIDE DEF yaml
    <2>3. \A i \in 1 .. Len(s) : yaml[i] \in Elems(yaml)
      BY <1>0, <2>1 DEF Elems
    <2>4. yaml \in [1 .. Len(s) -> Elems(yaml)]
      BY <2>2, <2>3
    <2>5. yaml \in Seq(Elems(yaml))
      BY <1>0, <2>4, SeqDef
    <2> QED BY <1>0, <2>1, <2>5
  <1>6. usable = yaml
    <2>1. 1 .. Len(yaml) \subseteq {i \in DOMAIN all : Usable(all[i])}
      BY <1>0, <1>2, <1>4, <1>5
    <2> HIDE DEF yaml
    <2> QED BY <1>4, <1>5, <2>1, PickedAll
  <1> DEFINE d == Cast(y)
  <1>7. /\ d.level = FromString(Get(y, "level")) /\ d.formatter = Get(y, "formatter")
        /\ d.appenders = [i \in DOMAIN usable |-> CastAppender(usable[i])]
    BY DEF Cast, all
  <1> HIDE DEF y, usable, yaml, d
  <1>8. d.level = m_level[n] /\ d.formatter = m_formatter[n]
    BY <1>0, <1>3, <1>7, LevelRead
  <1>9. /\ DOMAIN d.appenders = DOMAIN s
        /\ \A i \in DOMAIN s : Is(app[s[i]], d.appenders[i])
    BY <1>2, <1>5, <1>6, <1>7
  <1>10. Matches(n, d.appenders, DOMAIN d.appenders)
    <2> DEFINE of == [i \in DOMAIN s |-> i]
    <2>1. /\ of \in [DOMAIN s -> DOMAIN d.appenders]
          /\ \A k \in DOMAIN d.appenders : \E i \in DOMAIN s : of[i] = k
          /\ \A i, j \in DOMAIN s : i < j => of[i] < of[j]
          /\ \A i \in DOMAIN s : Is(app[s[i]], d.appenders[of[i]])
      BY <1>9
    <2> HIDE DEF of
    <2> QED BY <2>1 DEF Matches
  <1> QED BY <1>8, <1>10 DEF d, y

\* For any loggers, appenders and documents: what toYamlString says of a logger is a definition that
\* makes the same logger (log.cpp:469-485, 512-529, 628-648 against 759-828).
THEOREM ExportsItselfAlways == Spec => []ExportsItself
  <1>1. Init => IInv /\ Saying
    BY InitInvariant, InitSaying
  <1>2. IInv /\ Saying /\ [Next]_vars => (IInv /\ Saying)'
    <2>1. ASSUME IInv, Saying, Next  PROVE Saying'
      BY <2>1, AppSaying, DefsSaying DEF Next, Saying, Reloading
    <2>2. ASSUME Saying, UNCHANGED vars  PROVE Saying'
      BY <2>2 DEF Saying, vars, reloadVars, Reloading
    <2> QED BY <2>1, <2>2, NextInvariant
  <1> QED BY <1>1, <1>2, LoggerRead, PTL DEF Spec

(***************************************************************************)
(* Patterns: places in them, what the parser reads there, what its items   *)
(* say, that nothing is lost in a round, and that a token is a round.      *)
(***************************************************************************)

\* The characters of a pattern, and the parts it is read as.
Chars == Alpha \cup Signs \cup {"%", "{", "}"}
Parts == [kind : {"text", "item", "error"}, name : Seq(Chars), fmt : Seq(Chars)]

\* The place that Find finds.
LEMMA Found ==
  ASSUME NEW p, Len(p) \in Nat, NEW n \in 1 .. Len(p) + 1, NEW chars
  PROVE  /\ Find(p, n, chars) \in n .. Len(p) + 1
         /\ Find(p, n, chars) = Len(p) + 1 \/ p[Find(p, n, chars)] \in chars
         /\ \A j \in n .. Find(p, n, chars) - 1 : p[j] \notin chars
  <1> DEFINE Here(i) == /\ i = Len(p) + 1 \/ p[i] \in chars
                        /\ \A j \in n .. i - 1 : p[j] \notin chars
             K == {i \in n .. Len(p) + 1 : i = Len(p) + 1 \/ p[i] \in chars}
  <1>1. K # {} /\ K \in SUBSET Nat
    <2>1. Len(p) + 1 \in K
      OBVIOUS
    <2> QED BY <2>1
  <1>2. PICK i \in K : \A j \in K : i <= j
    BY <1>1, LeastOf
  <1>3. ASSUME NEW j \in n .. i - 1  PROVE p[j] \notin chars
    <2>1. j \in n .. Len(p) + 1 /\ ~(i <= j)
      BY <1>2
    <2> QED BY <1>2, <2>1
  <1>4. i \in n .. Len(p) + 1 /\ Here(i)
    BY <1>2, <1>3
  <1>5. Find(p, n, chars) = CHOOSE x \in n .. Len(p) + 1 : Here(x)
    BY DEF Find
  <1>6. Find(p, n, chars) \in n .. Len(p) + 1 /\ Here(Find(p, n, chars))
    <2> HIDE DEF Here
    <2> QED BY <1>4, <1>5
  <1> QED BY <1>6

\* It is the first one there: what is first is what Find finds.
LEMMA FoundFirst ==
  ASSUME NEW p, Len(p) \in Nat, NEW n \in 1 .. Len(p) + 1, NEW chars, NEW i \in n .. Len(p) + 1,
         i = Len(p) + 1 \/ p[i] \in chars, \A j \in n .. i - 1 : p[j] \notin chars
  PROVE  Find(p, n, chars) = i
  <1> DEFINE f == Find(p, n, chars)
  <1>1. /\ f \in n .. Len(p) + 1
        /\ f = Len(p) + 1 \/ p[f] \in chars
        /\ \A j \in n .. f - 1 : p[j] \notin chars
    BY Found
  <1> HIDE DEF f
  <1>2. ~(f < i)
    <2> SUFFICES ASSUME f < i PROVE FALSE
      OBVIOUS
    <2>1. f \in n .. i - 1 /\ f # Len(p) + 1
      BY <1>1
    <2> QED BY <1>1, <2>1
  <1>3. ~(i < f)
    <2> SUFFICES ASSUME i < f PROVE FALSE
      OBVIOUS
    <2>1. i \in n .. f - 1 /\ i # Len(p) + 1
      BY <1>1
    <2> QED BY <1>1, <2>1
  <1>4. f = i
    BY <1>1, <1>2, <1>3
  <1> QED BY <1>4 DEF f

\* One element is a sequence.
LEMMA OneIsSeq ==
  ASSUME NEW S, NEW c \in S
  PROVE  <<c>> \in Seq(S) /\ Len(<<c>>) = 1 /\ <<c>>[1] = c
  OBVIOUS

\* Two sequences one after the other are a sequence.
LEMMA BothAreSeq ==
  ASSUME NEW S, NEW u \in Seq(S), NEW v \in Seq(S)
  PROVE  u \o v \in Seq(S)
  OBVIOUS

\* What an item says when it is written.
LEMMA WrittenType ==
  ASSUME NEW x \in Parts
  PROVE  Written(x) \in Seq(Chars)
  <1>1. x.name \in Seq(Chars) /\ x.fmt \in Seq(Chars)
    BY DEF Parts
  <1>2. <<"%">> \in Seq(Chars) /\ <<"{">> \in Seq(Chars) /\ <<"}">> \in Seq(Chars)
    <2>1. "%" \in Chars /\ "{" \in Chars /\ "}" \in Chars
      BY DEF Chars
    <2> QED BY <2>1, OneIsSeq, Zenon
  <1> DEFINE S == Seq(Chars)
             a == x.name
             f == x.fmt
  <1>3. <<"%">> \o a \in S
    BY <1>1, <1>2, BothAreSeq, Zenon
  <1>4. <<"%">> \o a \o <<"{">> \in S
    BY <1>2, <1>3, BothAreSeq, Zenon
  <1>5. <<"%">> \o a \o <<"{">> \o f \in S
    BY <1>1, <1>4, BothAreSeq, Zenon
  <1>6. <<"%">> \o a \o <<"{">> \o f \o <<"}">> \in S
    BY <1>2, <1>5, BothAreSeq, Zenon
  <1>7. \/ Written(x) = a
        \/ Written(x) = <<"%">> \o a
        \/ Written(x) = <<"%">> \o a \o <<"{">> \o f \o <<"}">>
    BY DEF Written
  <1> HIDE DEF S
  <1>8. Written(x) \in S
    BY <1>1, <1>3, <1>6, <1>7 DEF S
  <1> QED BY <1>8 DEF S

\* A part of a pattern after a first character.
LEMMA FirstAndRest ==
  ASSUME NEW p \in Seq(Chars), NEW i \in 1 .. Len(p), NEW j \in i .. Len(p)
  PROVE  SubSeq(p, i, j) = <<p[i]>> \o SubSeq(p, i + 1, j)
  OBVIOUS

\* A part and the one after it.
LEMMA Joined ==
  ASSUME NEW p \in Seq(Chars), NEW i \in 1 .. Len(p) + 1, NEW j \in i - 1 .. Len(p), NEW k \in j .. Len(p)
  PROVE  SubSeq(p, i, j) \o SubSeq(p, j + 1, k) = SubSeq(p, i, k)
  OBVIOUS

\* A part and the character after it.
LEMMA JoinedOne ==
  ASSUME NEW p \in Seq(Chars), NEW i \in 1 .. Len(p) + 1, NEW j \in i .. Len(p)
  PROVE  SubSeq(p, i, j - 1) \o <<p[j]>> = SubSeq(p, i, j)
  OBVIOUS

\* An item without a format says what is written from its percent sign to its end.
LEMMA PlainItemSays ==
  ASSUME NEW p \in Seq(Chars), NEW i \in 1 .. Len(p), NEW b \in i + 1 .. Len(p) + 1
  PROVE  LET x == Item(SubSeq(p, i + 1, b - 1), <<>>)
         IN /\ x \in Parts /\ x # PatternError /\ x.kind = "item"
            /\ p[i] = "%" => Written(x) = SubSeq(p, i, b - 1)
  <1> DEFINE word == SubSeq(p, i + 1, b - 1)
  <1>1. word \in Seq(Chars)
    OBVIOUS
  <1>2. SubSeq(p, i, b - 1) = <<p[i]>> \o word
    BY FirstAndRest
  <1> HIDE DEF word
  <1>3. Item(word, <<>>) \in Parts /\ Item(word, <<>>) # PatternError /\ Item(word, <<>>).kind = "item"
    BY <1>1 DEF Item, Parts, PatternError
  <1>4. Written(Item(word, <<>>)) = <<"%">> \o word
    BY DEF Written, Item
  <1> QED BY <1>2, <1>3, <1>4 DEF word

\* So does an item with one that is not empty.
LEMMA FullItemSays ==
  ASSUME NEW p \in Seq(Chars), NEW i \in 1 .. Len(p), NEW b \in i + 1 .. Len(p), NEW e \in b + 1 .. Len(p)
  PROVE  LET x == Item(SubSeq(p, i + 1, b - 1), SubSeq(p, b + 1, e - 1))
         IN /\ x \in Parts /\ x # PatternError /\ x.kind = "item"
            /\ p[i] = "%" /\ p[b] = "{" /\ p[e] = "}" /\ e # b + 1 => Written(x) = SubSeq(p, i, e)
  <1> DEFINE word == SubSeq(p, i + 1, b - 1)
             fmt == SubSeq(p, b + 1, e - 1)
  <1>1. word \in Seq(Chars) /\ fmt \in Seq(Chars) /\ Len(fmt) = e - 1 - b
    OBVIOUS
  <1>2. SubSeq(p, i, b - 1) = <<p[i]>> \o word
    BY FirstAndRest
  <1>3. SubSeq(p, i, b - 1) \o <<p[b]>> = SubSeq(p, i, b)
    <2>1. i \in 1 .. Len(p) + 1 /\ b \in i .. Len(p)
      OBVIOUS
    <2> QED BY <2>1, JoinedOne
  <1>4. SubSeq(p, i, b) \o fmt = SubSeq(p, i, e - 1)
    <2>1. i \in 1 .. Len(p) + 1 /\ b \in i - 1 .. Len(p) /\ e - 1 \in b .. Len(p)
      OBVIOUS
    <2> QED BY <2>1, Joined
  <1>5. SubSeq(p, i, e - 1) \o <<p[e]>> = SubSeq(p, i, e)
    <2>1. i \in 1 .. Len(p) + 1 /\ e \in i .. Len(p)
      OBVIOUS
    <2> QED BY <2>1, JoinedOne
  <1>6. e # b + 1 => fmt # <<>>
    BY <1>1
  <1> HIDE DEF word, fmt
  <1>7. Item(word, fmt) \in Parts /\ Item(word, fmt) # PatternError /\ Item(word, fmt).kind = "item"
    BY <1>1 DEF Item, Parts, PatternError
  <1>8. fmt # <<>> => Written(Item(word, fmt)) = <<"%">> \o word \o <<"{">> \o fmt \o <<"}">>
    BY DEF Written, Item
  <1>9. p[i] = "%" /\ p[b] = "{" /\ p[e] = "}" /\ fmt # <<>> => Written(Item(word, fmt)) = SubSeq(p, i, e)
    BY <1>2, <1>3, <1>4, <1>5, <1>8
  <1> QED BY <1>6, <1>7, <1>9 DEF word, fmt

\* The item at a percent sign says what is written there, or has a format without end (log.cpp:316-385).
LEMMA DirectiveSays ==
  ASSUME NEW p \in Seq(Chars), NEW i \in 1 .. Len(p)
  PROVE  LET d == Directive(p, i)
         IN /\ d.next \in i + 1 .. Len(p) + 1 /\ d.item \in Parts
            /\ \/ /\ d.item = PatternError
                  /\ \E b \in DOMAIN p : p[b] = "{" /\ \A j \in b .. Len(p) : p[j] # "}"
               \/ /\ d.item # PatternError /\ d.item.kind = "item"
                  /\ p[i] = "%" /\ ~Has(p, "{", "}") => Written(d.item) = SubSeq(p, i, d.next - 1)
  <1> DEFINE End(b) == Find(p, b + 1, {"}"})
             Word(b) == SubSeq(p, i + 1, b - 1)
             Good(d) == /\ d.next \in i + 1 .. Len(p) + 1 /\ d.item \in Parts
                        /\ \/ /\ d.item = PatternError
                              /\ \E b \in DOMAIN p : p[b] = "{" /\ \A j \in b .. Len(p) : p[j] # "}"
                           \/ /\ d.item # PatternError /\ d.item.kind = "item"
                              /\ p[i] = "%" /\ ~Has(p, "{", "}") => Written(d.item) = SubSeq(p, i, d.next - 1)
             MadeFrom(b) == IF b > Len(p) \/ p[b] # "{" THEN [item |-> Item(Word(b), <<>>), next |-> b]
                        ELSE IF End(b) > Len(p) THEN [item |-> PatternError, next |-> i + 1]
                        ELSE [item |-> Item(Word(b), SubSeq(p, b + 1, End(b) - 1)), next |-> End(b) + 1]
  <1> SUFFICES Good(Directive(p, i))
    OBVIOUS
  <1>0. Len(p) \in Nat /\ DOMAIN p = 1 .. Len(p) /\ i + 1 \in 1 .. Len(p) + 1
    OBVIOUS
  <1>1. PICK b \in i + 1 .. Len(p) + 1 : Directive(p, i) = MadeFrom(b)
    <2>1. NameEnd(p, i + 1) \in i + 1 .. Len(p) + 1
      BY <1>0, Found DEF NameEnd
    <2>2. Directive(p, i) = MadeFrom(NameEnd(p, i + 1))
      BY DEF Directive
    <2> QED BY <2>1, <2>2
  <1>2. b \in Nat /\ i + 1 <= b /\ b <= Len(p) + 1
    BY <1>0
  <1>3. CASE b > Len(p) \/ p[b] # "{"
    <2>1. MadeFrom(b) = [item |-> Item(Word(b), <<>>), next |-> b]
      BY <1>3
    <2>2. LET x == Item(Word(b), <<>>)
          IN /\ x \in Parts /\ x # PatternError /\ x.kind = "item"
             /\ p[i] = "%" => Written(x) = SubSeq(p, i, b - 1)
      BY PlainItemSays
    <2>3. Good([item |-> Item(Word(b), <<>>), next |-> b])
      BY <2>2
    <2> QED BY <1>1, <2>1, <2>3
  <1>4. CASE b <= Len(p) /\ p[b] = "{"
    <2>0. b \in 1 .. Len(p) /\ b + 1 \in 1 .. Len(p) + 1
      <3>1. b <= Len(p)
        BY <1>4
      <3> QED BY <1>0, <1>2, <3>1
    <2>1. PICK e \in b + 1 .. Len(p) + 1 :
            /\ e = End(b) /\ (e = Len(p) + 1 \/ p[e] = "}") /\ \A j \in b + 1 .. e - 1 : p[j] # "}"
      <3>1. Len(p) \in Nat /\ b + 1 \in 1 .. Len(p) + 1
        BY <1>0, <2>0
      <3>2. /\ End(b) \in b + 1 .. Len(p) + 1
            /\ End(b) = Len(p) + 1 \/ p[End(b)] \in {"}"}
            /\ \A j \in b + 1 .. End(b) - 1 : p[j] \notin {"}"}
        BY <3>1, Found, Zenon
      <3> HIDE DEF End
      <3> QED BY <3>2
    <2>2. e \in Nat /\ b + 1 <= e /\ e <= Len(p) + 1
      BY <1>0, <1>2
    <2>3. CASE e > Len(p)
      <3>0. ~(b > Len(p))
        BY <1>0, <2>0
      <3>1. MadeFrom(b) = [item |-> PatternError, next |-> i + 1]
        <4> HIDE DEF End
        <4> QED BY <1>4, <2>1, <2>3, <3>0
      <3>2. PatternError \in Parts
        BY DEF PatternError, Parts
      <3>3. ASSUME NEW j \in b .. Len(p)  PROVE p[j] # "}"
        <4>1. CASE j = b
          BY <1>4, <4>1
        <4>2. CASE j # b
          <5>1. j \in b + 1 .. e - 1
            BY <1>0, <1>2, <2>2, <2>3, <4>2
          <5> QED BY <2>1, <5>1
        <4> QED BY <4>1, <4>2
      <3>4. b \in DOMAIN p
        BY <1>0, <2>0
      <3>5. i + 1 \in i + 1 .. Len(p) + 1
        BY <1>0
      <3>6. Good([item |-> PatternError, next |-> i + 1])
        BY <1>4, <3>2, <3>3, <3>4, <3>5
      <3> DEFINE d == [item |-> PatternError, next |-> i + 1]
      <3>7. Directive(p, i) = d
        <4> HIDE DEF MadeFrom
        <4> QED BY <1>1, <3>1
      <3> HIDE DEF Good, d
      <3>8. Good(d)
        BY <3>6 DEF d
      <3> QED BY <3>7, <3>8
    <2>4. CASE e <= Len(p)
      <3> DEFINE x == Item(Word(b), SubSeq(p, b + 1, e - 1))
      <3>0. ~(b > Len(p)) /\ ~(e > Len(p)) /\ e # Len(p) + 1
        BY <1>0, <2>0, <2>2, <2>4
      <3>1. MadeFrom(b) = [item |-> x, next |-> e + 1]
        <4> HIDE DEF End
        <4> QED BY <1>4, <2>1, <3>0
      <3>2a. b \in i + 1 .. Len(p) /\ e \in b + 1 .. Len(p)
        BY <1>0, <1>2, <2>0, <2>2, <2>4
      <3>2. p[e] = "}"
        BY <2>1, <3>0
      <3>3. /\ x \in Parts /\ x # PatternError /\ x.kind = "item"
            /\ p[i] = "%" /\ e # b + 1 => Written(x) = SubSeq(p, i, e)
        BY <1>4, <3>2a, <3>2, FullItemSays
      <3>4. ~Has(p, "{", "}") => e # b + 1
        <4> SUFFICES ASSUME e = b + 1 PROVE Has(p, "{", "}")
          OBVIOUS
        <4>1. b \in 1 .. Len(p) - 1
          BY <1>0, <2>0, <3>2a
        <4> QED BY <1>4, <3>2, <4>1 DEF Has
      <3>5. (e + 1) - 1 = e /\ e + 1 \in i + 1 .. Len(p) + 1
        BY <1>0, <1>2, <2>2, <2>4
      <3> HIDE DEF x
      <3>6. Good([item |-> x, next |-> e + 1])
        BY <3>3, <3>4, <3>5
      <3> DEFINE d == [item |-> x, next |-> e + 1]
      <3>7. Directive(p, i) = d
        <4> HIDE DEF MadeFrom
        <4> QED BY <1>1, <3>1
      <3> HIDE DEF Good, d
      <3>8. Good(d)
        BY <3>6 DEF d
      <3> QED BY <3>7, <3>8
    <2>5. e > Len(p) \/ e <= Len(p)
      BY <1>0, <2>2
    <2> QED BY <2>3, <2>4, <2>5
  <1>5. b > Len(p) \/ b <= Len(p)
    BY <1>0, <1>2
  <1> QED BY <1>3, <1>4, <1>5

\* The states of the parser.
ParseStates(p) == [i : 1 .. Len(p) + 1, text : Seq(Chars), vec : Seq(Parts), error : BOOLEAN]

\* A text before an item becomes an item of its own.
LEMMA FlushedDoes ==
  ASSUME NEW p \in Seq(Chars), NEW s \in ParseStates(p)
  PROVE  /\ Flushed(s) \in Seq(Parts)
         /\ s.text = <<>> => Flushed(s) = s.vec
         /\ s.text # <<>> => Flushed(s) = Append(s.vec, Literal(s.text)) /\ Literal(s.text) \in Parts
  <1>1. s.text \in Seq(Chars) /\ s.vec \in Seq(Parts)
    BY DEF ParseStates
  <1>2. Literal(s.text) \in Parts
    BY <1>1 DEF Literal, Parts
  <1> DEFINE t == Literal(s.text)
             v == s.vec
             P == Parts
  <1>3. Append(v, t) \in Seq(P)
    <2>1. v \in Seq(P) /\ t \in P
      BY <1>1, <1>2
    <2> HIDE DEF t, v, P
    <2> QED BY <2>1
  <1> QED BY <1>1, <1>2, <1>3 DEF Flushed

\* A round: no more to read, a character of text, a format without end, or an item.
LEMMA StepDoes ==
  ASSUME NEW p \in Seq(Chars), NEW s \in ParseStates(p)
  PROVE  LET r == Step(p, s)
             d == Directive(p, s.i)
         IN /\ r \in ParseStates(p)
            /\ \/ s.i = Len(p) + 1 /\ r = s
               \/ /\ s.i \in 1 .. Len(p) /\ r.i = s.i + 1
                  /\ r.text = Append(s.text, p[s.i]) /\ r.vec = s.vec /\ r.error = s.error
               \/ /\ s.i \in 1 .. Len(p) /\ p[s.i] = "%" /\ d.item = PatternError /\ r.i = d.next
                  /\ r.text = s.text /\ r.vec = Append(s.vec, PatternError) /\ r.error = TRUE
               \/ /\ s.i \in 1 .. Len(p) /\ p[s.i] = "%" /\ d.item # PatternError /\ r.i = d.next
                  /\ r.text = <<>> /\ r.vec = Append(Flushed(s), d.item) /\ r.error = s.error
  <1> DEFINE d == Directive(p, s.i)
             r == Step(p, s)
             Plain(c) == [s EXCEPT !.text = Append(@, c), !.i = @ + 1]
             P == Parts
             C == Chars
  <1>1. s.i \in 1 .. Len(p) + 1 /\ s.text \in Seq(C) /\ s.vec \in Seq(P) /\ s.error \in BOOLEAN /\ Len(p) \in Nat
    BY DEF ParseStates
  <1>2. s = [i |-> s.i, text |-> s.text, vec |-> s.vec, error |-> s.error]
    BY DEF ParseStates
  <1>3. CASE s.i > Len(p)
    <2>1. s.i = Len(p) + 1
      BY <1>1, <1>3
    <2>2. r = s
      BY <1>3 DEF Step
    <2> QED BY <2>1, <2>2
  <1>4. CASE ~(s.i > Len(p))
    <2>1. s.i \in 1 .. Len(p)
      BY <1>1, <1>4
    <2>2. p[s.i] \in C /\ s.i + 1 \in 1 .. Len(p) + 1
      BY <1>1, <2>1
    <2>3. d.next \in s.i + 1 .. Len(p) + 1 /\ d.item \in P
      BY <2>1, DirectiveSays
    <2>4. d.next \in 1 .. Len(p) + 1
      BY <1>1, <2>3
    <2> HIDE DEF d
    <2>5. Flushed(s) \in Seq(P)
      BY FlushedDoes
    <2>6. PatternError \in P
      BY DEF PatternError, Parts
    <2> HIDE DEF P, C
    <2>7. CASE p[s.i] # "%" \/ (s.i < Len(p) /\ p[s.i + 1] = "%")
      <3>1. r = Plain(p[s.i])
        BY <1>4, <2>7 DEF Step
      <3>2. r = [i |-> s.i + 1, text |-> Append(s.text, p[s.i]), vec |-> s.vec, error |-> s.error]
        BY <1>2, <3>1
      <3>3. Append(s.text, p[s.i]) \in Seq(C)
        BY <1>1, <2>2
      <3>4. r \in ParseStates(p)
        BY <1>1, <2>2, <3>2, <3>3 DEF ParseStates, P, C
      <3> QED BY <2>1, <3>2, <3>4
    <2>8. CASE p[s.i] = "%" /\ ~(s.i < Len(p) /\ p[s.i + 1] = "%") /\ d.item = PatternError
      <3>1. r = [s EXCEPT !.vec = Append(@, PatternError), !.error = TRUE, !.i = d.next]
        BY <1>4, <2>8 DEF Step, d
      <3>2. r = [i |-> d.next, text |-> s.text, vec |-> Append(s.vec, PatternError), error |-> TRUE]
        BY <1>2, <3>1
      <3>3. Append(s.vec, PatternError) \in Seq(P)
        <4> HIDE DEF PatternError
        <4> QED BY <1>1, <2>6
      <3>4. r \in ParseStates(p)
        BY <1>1, <2>4, <3>2, <3>3 DEF ParseStates, P, C
      <3>5. r.i = d.next /\ r.text = s.text /\ r.vec = Append(s.vec, PatternError) /\ r.error = TRUE
        BY <3>2
      <3> QED BY <2>1, <2>8, <3>4, <3>5, Zenon DEF d
    <2>9. CASE p[s.i] = "%" /\ ~(s.i < Len(p) /\ p[s.i + 1] = "%") /\ d.item # PatternError
      <3>1. r = [s EXCEPT !.vec = Append(Flushed(s), d.item), !.text = <<>>, !.i = d.next]
        BY <1>4, <2>9 DEF Step, d
      <3>2. r = [i |-> d.next, text |-> <<>>, vec |-> Append(Flushed(s), d.item), error |-> s.error]
        BY <1>2, <3>1
      <3>3. Append(Flushed(s), d.item) \in Seq(P)
        BY <2>3, <2>5
      <3>4. r \in ParseStates(p)
        BY <1>1, <2>4, <3>2, <3>3 DEF ParseStates, P, C
      <3> QED BY <2>1, <2>9, <3>2, <3>4 DEF d
    <2> QED BY <2>7, <2>8, <2>9
  <1> QED BY <1>3, <1>4

\* The states that the parser goes through.
ParseUpto(p) ==
  CHOOSE s : s = [k \in 0 .. Len(p) |->
    IF k = 0 THEN [i |-> 1, text |-> <<>>, vec |-> <<>>, error |-> FALSE] ELSE Step(p, s[k - 1])]

\* It begins at the first character with nothing read, and each round is a step.
LEMMA ParseLoop ==
  ASSUME NEW p \in Seq(Chars)
  PROVE  LET s == ParseUpto(p)
         IN /\ s \in [0 .. Len(p) -> ParseStates(p)]
            /\ s[0] = [i |-> 1, text |-> <<>>, vec |-> <<>>, error |-> FALSE]
            /\ \A k \in 1 .. Len(p) : s[k] = Step(p, s[k - 1])
            /\ Parse(p).items = Flushed(s[Len(p)])
            /\ Parse(p).m_error = (s[Len(p)].error \/ \E k \in DOMAIN Parse(p).items : Unknown(Parse(p).items[k]))
  <1> DEFINE n == Len(p)
             States == ParseStates(p)
             start == [i |-> 1, text |-> <<>>, vec |-> <<>>, error |-> FALSE]
             Next1 == [s \in States |-> Step(p, s)]
             G == [k \in 1 .. n |-> Next1]
             Body(f) == [k \in 0 .. Len(p) |->
               IF k = 0 THEN [i |-> 1, text |-> <<>>, vec |-> <<>>, error |-> FALSE] ELSE Step(p, f[k - 1])]
             Eq(f) == f = Body(f)
  <1>1. n \in Nat
    OBVIOUS
  <1>2. start \in States
    BY <1>1 DEF ParseStates
  <1>3. G \in [1 .. n -> [States -> States]]
    <2>1. Next1 \in [States -> States]
      <3>1. \A s \in States : Step(p, s) \in States
        BY StepDoes
      <3> HIDE DEF States
      <3> QED BY <3>1
    <2> HIDE DEF Next1, States, n
    <2> QED BY <2>1
  <1>4. LoopStates(n, States, start, G) # {}
    <2> HIDE DEF n, G, States, start
    <2> QED BY <1>1, <1>2, <1>3, Rounds
  <1>5. PICK f \in [0 .. n -> States] : f[0] = start /\ \A k \in 1 .. n : f[k] = G[k][f[k - 1]]
    <2> HIDE DEF n, G, States, start
    <2> QED BY <1>4 DEF LoopStates
  <1>6. ASSUME NEW k \in 1 .. n PROVE f[k] = Step(p, f[k - 1])
    <2>1. f[k - 1] \in States
      <3>1. k - 1 \in 0 .. n
        BY <1>1
      <3> HIDE DEF n, States
      <3> QED BY <3>1
    <2>2. f[k] = G[k][f[k - 1]]
      BY <1>5
    <2>3. G[k] = Next1
      OBVIOUS
    <2>4. Next1[f[k - 1]] = Step(p, f[k - 1])
      <3> HIDE DEF States
      <3> QED BY <2>1
    <2> HIDE DEF G, Next1
    <2> QED BY <2>2, <2>3, <2>4
  <1>7. Eq(f)
    <2> DEFINE e == Body(f)
    <2>1. f = [k \in 0 .. n |-> f[k]]
      OBVIOUS
    <2>2. ASSUME NEW k \in 0 .. n PROVE f[k] = e[k]
      <3> HIDE DEF G, Next1
      <3>1. CASE k = 0
        BY <3>1, <1>5
      <3>2. CASE k # 0
        <4>1. k \in 1 .. n
          BY <3>2, <1>1
        <4> QED BY <4>1, <1>6, <3>2
      <3> QED BY <3>1, <3>2
    <2>3. e = [k \in 0 .. n |-> e[k]]
      OBVIOUS
    <2>4. f = e
      <3> HIDE DEF e, n
      <3> QED BY <2>1, <2>2, <2>3
    <2> QED BY <2>4
  <1> DEFINE g == ParseUpto(p)
  <1>8. g = CHOOSE h : Eq(h)
    BY DEF ParseUpto
  <1>9. Eq(g)
    <2> HIDE DEF Eq
    <2> QED BY <1>7, <1>8
  <1> HIDE DEF g
  <1>10. g[0] = start
    <2>1. 0 \in 0 .. Len(p)
      BY <1>1
    <2> QED BY <1>9, <2>1
  <1>11. ASSUME NEW k \in 1 .. n PROVE g[k] = Step(p, g[k - 1])
    <2>1. k \in 0 .. Len(p) /\ k # 0
      BY <1>1
    <2> QED BY <1>9, <2>1
  <1>12. \A k \in 0 .. n : g[k] \in States
    <2> DEFINE A == {k \in 0 .. n : g[k] \in States}
    <2>1. 0 \in A
      BY <1>1, <1>2, <1>10
    <2>2. ASSUME NEW k \in 0 .. n - 1, k \in A PROVE k + 1 \in A
      <3>1. k + 1 \in 1 .. n /\ (k + 1) - 1 = k /\ k + 1 \in 0 .. n
        BY <1>1
      <3>2. g[k + 1] = Step(p, g[k])
        <4>1. g[k + 1] = Step(p, g[(k + 1) - 1])
          BY <1>11, <3>1
        <4> QED BY <4>1, <3>1
      <3>3. g[k] \in States
        BY <2>2
      <3>4. g[k + 1] \in States
        BY <3>2, <3>3, StepDoes
      <3> QED BY <3>1, <3>4
    <2>3. \A k \in 0 .. n - 1 : k \in A => k + 1 \in A
      BY <2>2
    <2>4. \A k \in 0 .. n : k \in A
      <3> HIDE DEF A, n
      <3> QED BY <1>1, <2>1, <2>3, Climb, Zenon
    <2> QED BY <2>4
  <1>13. g \in [0 .. n -> States]
    <2> DEFINE e == Body(g)
    <2>1. g = e
      BY <1>9
    <2>2. e = [k \in 0 .. n |-> e[k]]
      OBVIOUS
    <2>3. g = [k \in 0 .. n |-> g[k]]
      <3> HIDE DEF e, n
      <3> QED BY <2>1, <2>2
    <2> HIDE DEF n, States
    <2> QED BY <1>12, <2>3
  <1>14. Parse(p) = [items |-> Flushed(g[n]),
                     m_error |-> g[n].error \/ \E k \in DOMAIN Flushed(g[n]) : Unknown(Flushed(g[n])[k])]
    BY DEF Parse, g, ParseUpto
  <1>15. Parse(p).items = Flushed(g[n])
    BY <1>14
  <1>16. Parse(p).m_error = (g[n].error \/ \E k \in DOMAIN Flushed(g[n]) : Unknown(Flushed(g[n])[k]))
    BY <1>14
  <1> HIDE DEF States
  <1> QED BY <1>10, <1>11, <1>13, <1>15, <1>16 DEF States, g

\* What the first items of a list say.
WrittenUpto(v) ==
  CHOOSE w : w = [k \in 0 .. Len(v) |-> IF k = 0 THEN <<>> ELSE w[k - 1] \o Written(v[k])]

\* None say nothing, and each one says its own after what those before it say.
LEMMA WrittenLoop ==
  ASSUME NEW v \in Seq(Parts)
  PROVE  /\ WrittenUpto(v) \in [0 .. Len(v) -> Seq(Chars)]
         /\ WrittenUpto(v)[0] = <<>>
         /\ \A k \in 1 .. Len(v) : WrittenUpto(v)[k] = WrittenUpto(v)[k - 1] \o Written(v[k])
         /\ WrittenAll(v) = WrittenUpto(v)[Len(v)]
  <1> DEFINE n == Len(v)
             S == Seq(Chars)
             z == <<>>
             H(k) == [w \in S |-> w \o Written(v[k])]
             G == [k \in 1 .. n |-> H(k)]
             Body(f) == [k \in 0 .. Len(v) |-> IF k = 0 THEN <<>> ELSE f[k - 1] \o Written(v[k])]
             Eq(f) == f = Body(f)
  <1>1. n \in Nat /\ z \in S
    OBVIOUS
  <1>2. ASSUME NEW k \in 1 .. n, NEW w \in S PROVE w \o Written(v[k]) \in S
    <2>1. v[k] \in Parts
      <3> HIDE DEF S
      <3> QED OBVIOUS
    <2>2. Written(v[k]) \in Seq(Chars)
      BY <2>1, WrittenType
    <2> QED BY <2>2, BothAreSeq, Zenon
  <1>3. G \in [1 .. n -> [S -> S]]
    <2>1. ASSUME NEW k \in 1 .. n PROVE H(k) \in [S -> S]
      <3> HIDE DEF S
      <3> QED BY <1>2
    <2> HIDE DEF H, S, n
    <2> QED BY <2>1
  <1>4. LoopStates(n, S, z, G) # {}
    <2> HIDE DEF n, G, S, z
    <2> QED BY <1>1, <1>3, Rounds
  <1>5. PICK f \in [0 .. n -> S] : f[0] = z /\ \A k \in 1 .. n : f[k] = G[k][f[k - 1]]
    <2> HIDE DEF n, G, S, z
    <2> QED BY <1>4 DEF LoopStates
  <1>6. ASSUME NEW k \in 1 .. n PROVE f[k] = f[k - 1] \o Written(v[k])
    <2>1. f[k - 1] \in S
      <3>1. k - 1 \in 0 .. n
        BY <1>1
      <3> HIDE DEF n, S
      <3> QED BY <3>1
    <2>2. f[k] = G[k][f[k - 1]]
      <3> HIDE DEF G
      <3> QED BY <1>5
    <2>3. G[k] = H(k)
      <3> HIDE DEF H
      <3> QED OBVIOUS
    <2>4. H(k)[f[k - 1]] = f[k - 1] \o Written(v[k])
      <3> HIDE DEF S
      <3> QED BY <2>1
    <2> HIDE DEF G, H
    <2> QED BY <2>2, <2>3, <2>4
  <1>7. Eq(f)
    <2> DEFINE e == Body(f)
    <2>1. f = [k \in 0 .. n |-> f[k]]
      <3> HIDE DEF S
      <3> QED OBVIOUS
    <2>2. ASSUME NEW k \in 0 .. n PROVE f[k] = e[k]
      <3> HIDE DEF G, H
      <3>1. CASE k = 0
        BY <3>1, <1>5
      <3>2. CASE k # 0
        <4>1. k \in 1 .. n
          BY <3>2, <1>1
        <4> QED BY <4>1, <1>6, <3>2
      <3> QED BY <3>1, <3>2
    <2>3. e = [k \in 0 .. n |-> e[k]]
      OBVIOUS
    <2>4. f = e
      <3> HIDE DEF e, n
      <3> QED BY <2>1, <2>2, <2>3
    <2> QED BY <2>4
  <1> DEFINE g == WrittenUpto(v)
  <1>8. g = CHOOSE h : Eq(h)
    BY DEF WrittenUpto
  <1>9. Eq(g)
    <2> HIDE DEF Eq
    <2> QED BY <1>7, <1>8
  <1> HIDE DEF g
  <1>10. g[0] = <<>>
    <2>1. 0 \in 0 .. Len(v)
      BY <1>1
    <2> QED BY <1>9, <2>1
  <1>11. ASSUME NEW k \in 1 .. n PROVE g[k] = g[k - 1] \o Written(v[k])
    <2>1. k \in 0 .. Len(v) /\ k # 0
      BY <1>1
    <2> QED BY <1>9, <2>1
  <1>12. \A k \in 0 .. n : g[k] \in S
    <2> DEFINE A == {k \in 0 .. n : g[k] \in S}
    <2>1. 0 \in A
      BY <1>1, <1>10
    <2>2. ASSUME NEW k \in 0 .. n - 1, k \in A PROVE k + 1 \in A
      <3>1. k + 1 \in 1 .. n /\ (k + 1) - 1 = k /\ k + 1 \in 0 .. n
        BY <1>1
      <3>2. g[k + 1] = g[k] \o Written(v[k + 1])
        <4>1. g[k + 1] = g[(k + 1) - 1] \o Written(v[k + 1])
          BY <1>11, <3>1
        <4> QED BY <4>1, <3>1
      <3>3. g[k] \in S
        BY <2>2
      <3>4. g[k + 1] \in S
        <4> HIDE DEF S
        <4> QED BY <3>1, <3>2, <3>3, <1>2
      <3> QED BY <3>1, <3>4
    <2>3. \A k \in 0 .. n - 1 : k \in A => k + 1 \in A
      BY <2>2
    <2>4. \A k \in 0 .. n : k \in A
      <3> HIDE DEF A, n
      <3> QED BY <1>1, <2>1, <2>3, Climb, Zenon
    <2> QED BY <2>4
  <1>13. g \in [0 .. n -> S]
    <2> DEFINE e == Body(g)
    <2>1. g = e
      BY <1>9
    <2>2. e = [k \in 0 .. n |-> e[k]]
      OBVIOUS
    <2>3. g = [k \in 0 .. n |-> g[k]]
      <3> HIDE DEF e, n
      <3> QED BY <2>1, <2>2
    <2> HIDE DEF n, S
    <2> QED BY <1>12, <2>3
  <1>14. WrittenAll(v) = g[n]
    BY DEF WrittenAll, g, WrittenUpto
  <1> HIDE DEF S
  <1> QED BY <1>10, <1>11, <1>13, <1>14 DEF S, g

\* It is a sequence of characters, and nothing if there are no items.
LEMMA WrittenAllType ==
  ASSUME NEW v \in Seq(Parts)
  PROVE  WrittenAll(v) \in Seq(Chars) /\ (v = <<>> => WrittenAll(v) = <<>>)
  <1> DEFINE g == WrittenUpto(v)
             S == Seq(Chars)
  <1>1. g \in [0 .. Len(v) -> S] /\ g[0] = <<>> /\ WrittenAll(v) = g[Len(v)]
    BY WrittenLoop
  <1>2. Len(v) \in Nat /\ (v = <<>> => Len(v) = 0)
    OBVIOUS
  <1> HIDE DEF g, S
  <1>3. WrittenAll(v) \in S /\ (v = <<>> => WrittenAll(v) = <<>>)
    BY <1>1, <1>2
  <1> QED BY <1>3 DEF S

\* One more item says its own after what the others say.
LEMMA WrittenAppend ==
  ASSUME NEW v \in Seq(Parts), NEW x \in Parts
  PROVE  WrittenAll(Append(v, x)) = WrittenAll(v) \o Written(x)
  <1> DEFINE n == Len(v)
             u == Append(v, x)
             g == WrittenUpto(v)
             h == WrittenUpto(u)
             P == Parts
             A == {k \in 0 .. n : g[k] = h[k]}
  <1>0. v \in Seq(P) /\ x \in P
    OBVIOUS
  <1> HIDE DEF P
  <1>1. n \in Nat /\ u \in Seq(P) /\ Len(u) = n + 1 /\ u[n + 1] = x /\ \A k \in 1 .. n : u[k] = v[k]
    BY <1>0
  <1>2. /\ g[0] = <<>> /\ WrittenAll(v) = g[n]
        /\ \A k \in 1 .. n : g[k] = g[k - 1] \o Written(v[k])
    BY WrittenLoop
  <1>3. /\ h[0] = <<>> /\ WrittenAll(u) = h[Len(u)]
        /\ \A k \in 1 .. Len(u) : h[k] = h[k - 1] \o Written(u[k])
    BY <1>1, WrittenLoop DEF P
  <1> HIDE DEF g, h, u
  <1>4. 0 \in A
    BY <1>1, <1>2, <1>3
  <1>5. ASSUME NEW k \in 0 .. n - 1, k \in A PROVE k + 1 \in A
    <2>1. k + 1 \in 1 .. n /\ k + 1 \in 1 .. Len(u) /\ (k + 1) - 1 = k
      BY <1>1
    <2>2. g[k + 1] = g[(k + 1) - 1] \o Written(v[k + 1])
      BY <1>2, <2>1
    <2>3. h[k + 1] = h[(k + 1) - 1] \o Written(u[k + 1])
      BY <1>3, <2>1
    <2>4. g[k] = h[k] /\ u[k + 1] = v[k + 1]
      BY <1>1, <1>5, <2>1
    <2>5. g[k + 1] = h[k + 1]
      BY <2>1, <2>2, <2>3, <2>4
    <2>6. k + 1 \in 0 .. n
      BY <1>1
    <2> QED BY <2>5, <2>6
  <1>6. g[n] = h[n]
    <2>1. \A k \in 0 .. n - 1 : k \in A => k + 1 \in A
      BY <1>5
    <2>2. \A k \in 0 .. n : k \in A
      <3> HIDE DEF A, n
      <3> QED BY <1>1, <1>4, <2>1, Climb, Zenon
    <2> QED BY <1>1, <2>2
  <1>7. h[n + 1] = h[n] \o Written(x)
    <2>1. n + 1 \in 1 .. Len(u) /\ (n + 1) - 1 = n
      BY <1>1
    <2>2. h[n + 1] = h[(n + 1) - 1] \o Written(u[n + 1])
      BY <1>3, <2>1
    <2> QED BY <1>1, <2>1, <2>2
  <1> QED BY <1>1, <1>2, <1>3, <1>6, <1>7 DEF u

\* What holds of the list of items: no error in it, no text after a text, no text at its end.
NoError(v) == \A k \in DOMAIN v : v[k].kind # "error"
TextsApart(v) == \A k \in 1 .. Len(v) - 1 : ~(v[k].kind = "text" /\ v[k + 1].kind = "text")
EndsInText(v) == v # <<>> /\ v[Len(v)].kind = "text"
EmptyFormat(p) == Has(p, "{", "}")
Unclosed(p) == \E b \in DOMAIN p : p[b] = "{" /\ \A j \in b .. Len(p) : p[j] # "}"

\* One more part.
LEMMA PartAppended ==
  ASSUME NEW v \in Seq(Parts), NEW x \in Parts
  PROVE  /\ NoError(Append(v, x)) <=> NoError(v) /\ x.kind # "error"
         /\ TextsApart(v) /\ ~(EndsInText(v) /\ x.kind = "text") => TextsApart(Append(v, x))
         /\ EndsInText(Append(v, x)) <=> x.kind = "text"
  <1> DEFINE P == Parts
             u == Append(v, x)
             n == Len(v)
  <1>1. v \in Seq(P) /\ x \in P
    OBVIOUS
  <1> HIDE DEF P
  <1>2. n \in Nat /\ DOMAIN v = 1 .. n /\ DOMAIN u = 1 .. n + 1 /\ Len(u) = n + 1 /\ u[n + 1] = x
        /\ (v = <<>> <=> n = 0) /\ u # <<>>
    BY <1>1
  <1>3. \A k \in 1 .. n : u[k] = v[k]
    BY <1>1
  <1> HIDE DEF u, n
  <1>4. NoError(u) <=> NoError(v) /\ x.kind # "error"
    <2>1. ASSUME NoError(u) PROVE NoError(v) /\ x.kind # "error"
      <3>1. \A k \in 1 .. n + 1 : u[k].kind # "error"
        BY <1>2, <2>1 DEF NoError
      <3>2. n + 1 \in 1 .. n + 1 /\ \A k \in 1 .. n : k \in 1 .. n + 1
        BY <1>2
      <3>3. x.kind # "error"
        BY <1>2, <3>1, <3>2
      <3>4. \A k \in 1 .. n : v[k].kind # "error"
        BY <1>3, <3>1, <3>2
      <3> QED BY <1>2, <3>3, <3>4 DEF NoError
    <2>2. ASSUME NoError(v), x.kind # "error" PROVE NoError(u)
      <3>1. \A k \in 1 .. n : v[k].kind # "error"
        BY <1>2, <2>2 DEF NoError
      <3>2. \A k \in 1 .. n + 1 : k \in 1 .. n \/ k = n + 1
        BY <1>2
      <3>3. \A k \in 1 .. n + 1 : u[k].kind # "error"
        BY <1>2, <1>3, <2>2, <3>1, <3>2
      <3> QED BY <1>2, <3>3 DEF NoError
    <2> QED BY <2>1, <2>2
  <1>5. ASSUME TextsApart(v), ~(EndsInText(v) /\ x.kind = "text") PROVE TextsApart(u)
    <2>1. \A k \in 1 .. n - 1 : ~(v[k].kind = "text" /\ v[k + 1].kind = "text")
      BY <1>5 DEF TextsApart, n
    <2>2. ASSUME NEW k \in 1 .. Len(u) - 1 PROVE ~(u[k].kind = "text" /\ u[k + 1].kind = "text")
      <3>1. k \in 1 .. n
        BY <1>2
      <3>2. CASE k = n
        <4>1. v # <<>> /\ u[k] = v[n] /\ u[k + 1] = x
          BY <1>2, <1>3, <3>1, <3>2
        <4> QED BY <1>5, <4>1 DEF EndsInText, n
      <3>3. CASE k # n
        <4>1. k \in 1 .. n - 1 /\ k + 1 \in 1 .. n
          BY <1>2, <3>1, <3>3
        <4> QED BY <1>3, <2>1, <3>1, <4>1
      <3> QED BY <3>2, <3>3
    <2> QED BY <2>2 DEF TextsApart
  <1>6. EndsInText(u) <=> x.kind = "text"
    BY <1>2 DEF EndsInText
  <1> QED BY <1>4, <1>5, <1>6 DEF u

\* Nothing more to say leaves a sequence as it is; three in a row can be joined from either side.
LEMMA NothingAfter ==
  ASSUME NEW S, NEW u \in Seq(S)
  PROVE  u \o <<>> = u /\ <<>> \o u = u
  OBVIOUS

\* Three texts one after the other, however they are grouped.
LEMMA InARow ==
  ASSUME NEW S, NEW u \in Seq(S), NEW v \in Seq(S), NEW w \in Seq(S)
  PROVE  (u \o v) \o w = u \o (v \o w)
  OBVIOUS

\* The same of the texts of a pattern.
LEMMA CharsInARow == \A u, v, w \in Seq(Chars) : (u \o v) \o w = u \o (v \o w)
  BY InARow

\* A character appended is a text of one character after the text.
LEMMA AppendIsOneMore ==
  ASSUME NEW S, NEW u \in Seq(S), NEW c \in S
  PROVE  Append(u, c) = u \o <<c>> /\ Append(u, c) \in Seq(S)
  OBVIOUS

\* The text before an item, once it is an item: nothing is lost.
LEMMA FlushedSays ==
  ASSUME NEW p \in Seq(Chars), NEW s \in ParseStates(p)
  PROVE  /\ WrittenAll(Flushed(s)) = WrittenAll(s.vec) \o s.text
         /\ NoError(Flushed(s)) <=> NoError(s.vec)
         /\ TextsApart(s.vec) /\ ~EndsInText(s.vec) => TextsApart(Flushed(s))
  <1>1. s.text \in Seq(Chars) /\ s.vec \in Seq(Parts)
    BY DEF ParseStates
  <1>2. WrittenAll(s.vec) \in Seq(Chars)
    BY <1>1, WrittenAllType
  <1>3. CASE s.text = <<>>
    <2>1. Flushed(s) = s.vec
      BY <1>3, FlushedDoes
    <2>2. WrittenAll(s.vec) \o <<>> = WrittenAll(s.vec)
      BY <1>2, NothingAfter, Zenon
    <2> QED BY <1>3, <2>1, <2>2
  <1>4. CASE s.text # <<>>
    <2> DEFINE x == Literal(s.text)
    <2>1. Flushed(s) = Append(s.vec, x) /\ x \in Parts
      BY <1>4, FlushedDoes
    <2>2. x.kind = "text" /\ x.kind # "error" /\ Written(x) = s.text
      BY DEF Literal, Written
    <2> HIDE DEF x
    <2>3. WrittenAll(Append(s.vec, x)) = WrittenAll(s.vec) \o Written(x)
      BY <1>1, <2>1, WrittenAppend
    <2>4. /\ NoError(Append(s.vec, x)) <=> NoError(s.vec) /\ x.kind # "error"
          /\ TextsApart(s.vec) /\ ~(EndsInText(s.vec) /\ x.kind = "text") => TextsApart(Append(s.vec, x))
      BY <1>1, <2>1, PartAppended
    <2> QED BY <2>1, <2>2, <2>3, <2>4
  <1> QED BY <1>3, <1>4

\* After k rounds: what was read is what the items and the text say, or there is a format without end.
Kept(p, k, s) ==
  /\ s.i = Len(p) + 1 \/ s.i > k
  /\ \/ /\ NoError(s.vec) /\ TextsApart(s.vec) /\ ~EndsInText(s.vec)
        /\ WrittenAll(s.vec) \o s.text = SubSeq(p, 1, s.i - 1)
     \/ ~NoError(s.vec) /\ Unclosed(p)

\* A round keeps it so.
LEMMA StepKeeps ==
  ASSUME NEW p \in Seq(Chars), ~EmptyFormat(p), NEW k \in 0 .. Len(p) - 1, NEW s \in ParseStates(p),
         Kept(p, k, s)
  PROVE  Kept(p, k + 1, Step(p, s))
  <1> DEFINE r == Step(p, s)
             d == Directive(p, s.i)
             f == Flushed(s)
             said == WrittenAll(s.vec)
  <1> SUFFICES Kept(p, k + 1, r)
    OBVIOUS
  <1>1. s.i \in 1 .. Len(p) + 1 /\ s.text \in Seq(Chars) /\ s.vec \in Seq(Parts) /\ Len(p) \in Nat
    BY DEF ParseStates
  <1>2. said \in Seq(Chars)
    BY <1>1, WrittenAllType
  <1>3. /\ \/ s.i = Len(p) + 1 /\ r = s
           \/ /\ s.i \in 1 .. Len(p) /\ r.i = s.i + 1
              /\ r.text = Append(s.text, p[s.i]) /\ r.vec = s.vec /\ r.error = s.error
           \/ /\ s.i \in 1 .. Len(p) /\ p[s.i] = "%" /\ d.item = PatternError /\ r.i = d.next
              /\ r.text = s.text /\ r.vec = Append(s.vec, PatternError) /\ r.error = TRUE
           \/ /\ s.i \in 1 .. Len(p) /\ p[s.i] = "%" /\ d.item # PatternError /\ r.i = d.next
              /\ r.text = <<>> /\ r.vec = Append(f, d.item) /\ r.error = s.error
    BY StepDoes
  <1>4. s.i \in 1 .. Len(p) =>
          /\ d.next \in s.i + 1 .. Len(p) + 1 /\ d.item \in Parts
          /\ \/ /\ d.item = PatternError
                /\ \E b \in DOMAIN p : p[b] = "{" /\ \A j \in b .. Len(p) : p[j] # "}"
             \/ /\ d.item # PatternError /\ d.item.kind = "item"
                /\ p[s.i] = "%" => Written(d.item) = SubSeq(p, s.i, d.next - 1)
    BY DirectiveSays DEF EmptyFormat
  <1>5. r \in ParseStates(p)
    BY StepDoes
  <1>6. f \in Seq(Parts)
    BY FlushedDoes
  <1>7. /\ WrittenAll(f) = said \o s.text
        /\ NoError(f) <=> NoError(s.vec)
        /\ TextsApart(s.vec) /\ ~EndsInText(s.vec) => TextsApart(f)
    BY FlushedSays
  <1>8. s.i = Len(p) + 1 \/ s.i > k
    BY DEF Kept
  <1> HIDE DEF r, d, f, said
  <1>9. r.i = Len(p) + 1 \/ r.i > k + 1
    <2>1. r.i = s.i \/ s.i \in 1 .. Len(p)
      BY <1>3
    <2>2. CASE s.i \in 1 .. Len(p)
      <3>1. r.i = s.i + 1 \/ r.i \in s.i + 1 .. Len(p) + 1
        <4>1. s.i # Len(p) + 1
          BY <1>1, <2>2
        <4> QED BY <1>3, <1>4, <2>2, <4>1
      <3> QED BY <1>1, <1>8, <2>2, <3>1
    <2>3. CASE s.i \notin 1 .. Len(p)
      <3>1. s.i = Len(p) + 1
        BY <1>1, <2>3
      <3> QED BY <2>1, <2>3, <3>1
    <2> QED BY <2>2, <2>3
  <1>10. CASE s.i = Len(p) + 1 /\ r = s
    BY <1>9, <1>10 DEF Kept, r
  <1>11. CASE /\ s.i \in 1 .. Len(p) /\ r.i = s.i + 1
               /\ r.text = Append(s.text, p[s.i]) /\ r.vec = s.vec /\ r.error = s.error
    <2>1. CASE NoError(s.vec) /\ TextsApart(s.vec) /\ ~EndsInText(s.vec) /\ said \o s.text = SubSeq(p, 1, s.i - 1)
      <3>1. p[s.i] \in Chars
        BY <1>11
      <3>2. Append(s.text, p[s.i]) = s.text \o <<p[s.i]>> /\ <<p[s.i]>> \in Seq(Chars)
        BY <1>1, <3>1, AppendIsOneMore, OneIsSeq, Zenon
      <3>3. (said \o s.text) \o <<p[s.i]>> = said \o (s.text \o <<p[s.i]>>)
        <4> DEFINE t == s.text
                   c == <<p[s.i]>>
        <4>1. said \in Seq(Chars) /\ t \in Seq(Chars) /\ c \in Seq(Chars)
          BY <1>1, <1>2, <3>2
        <4> HIDE DEF t, c
        <4>2. (said \o t) \o c = said \o (t \o c)
          BY <4>1, CharsInARow
        <4> QED BY <4>2 DEF t, c
      <3>4. SubSeq(p, 1, s.i - 1) \o <<p[s.i]>> = SubSeq(p, 1, s.i)
        <4>1. 1 \in 1 .. Len(p) + 1
          BY <1>1
        <4> QED BY <1>11, <4>1, JoinedOne
      <3>5. (s.i + 1) - 1 = s.i
        BY <1>1
      <3>6. WrittenAll(r.vec) \o r.text = SubSeq(p, 1, r.i - 1)
        BY <1>11, <2>1, <3>2, <3>3, <3>4, <3>5 DEF said
      <3> QED BY <1>9, <1>11, <2>1, <3>6 DEF Kept
    <2>2. CASE ~NoError(s.vec) /\ Unclosed(p)
      BY <1>9, <1>11, <2>2 DEF Kept
    <2> QED BY <2>1, <2>2 DEF Kept, said
  <1>12. CASE /\ s.i \in 1 .. Len(p) /\ p[s.i] = "%" /\ d.item = PatternError /\ r.i = d.next
               /\ r.text = s.text /\ r.vec = Append(s.vec, PatternError) /\ r.error = TRUE
    <2>1. PatternError \in Parts /\ PatternError.kind = "error"
      BY DEF PatternError, Parts
    <2>2. ~NoError(r.vec)
      BY <1>1, <1>12, <2>1, PartAppended
    <2>3. Unclosed(p)
      BY <1>4, <1>12 DEF Unclosed
    <2> QED BY <1>9, <2>2, <2>3 DEF Kept
  <1>13. CASE /\ s.i \in 1 .. Len(p) /\ p[s.i] = "%" /\ d.item # PatternError /\ r.i = d.next
               /\ r.text = <<>> /\ r.vec = Append(f, d.item) /\ r.error = s.error
    <2>1. d.item \in Parts /\ d.item.kind = "item" /\ Written(d.item) = SubSeq(p, s.i, d.next - 1)
      BY <1>4, <1>13
    <2>2. /\ NoError(r.vec) <=> NoError(f) /\ d.item.kind # "error"
          /\ TextsApart(f) /\ ~(EndsInText(f) /\ d.item.kind = "text") => TextsApart(r.vec)
          /\ EndsInText(r.vec) <=> d.item.kind = "text"
      BY <1>6, <1>13, <2>1, PartAppended
    <2>3. CASE NoError(s.vec) /\ TextsApart(s.vec) /\ ~EndsInText(s.vec) /\ said \o s.text = SubSeq(p, 1, s.i - 1)
      <3>1. NoError(r.vec) /\ TextsApart(r.vec) /\ ~EndsInText(r.vec)
        BY <1>7, <2>1, <2>2, <2>3
      <3>2. WrittenAll(r.vec) = WrittenAll(f) \o Written(d.item)
        BY <1>6, <1>13, <2>1, WrittenAppend
      <3>3. SubSeq(p, 1, s.i - 1) \o SubSeq(p, s.i, d.next - 1) = SubSeq(p, 1, d.next - 1)
        <4>1. /\ 1 \in 1 .. Len(p) + 1 /\ s.i - 1 \in 1 - 1 .. Len(p) /\ d.next - 1 \in s.i - 1 .. Len(p)
              /\ (s.i - 1) + 1 = s.i
          <5>1. d.next \in s.i + 1 .. Len(p) + 1
            BY <1>4, <1>13
          <5>2. s.i \in 1 .. Len(p)
            BY <1>13
          <5> QED BY <1>1, <5>1, <5>2
        <4> QED BY <4>1, Joined
      <3>4. WrittenAll(r.vec) = SubSeq(p, 1, r.i - 1)
        BY <1>7, <1>13, <2>1, <2>3, <3>2, <3>3
      <3>5. WrittenAll(r.vec) \o <<>> = WrittenAll(r.vec)
        <4>1. r.vec \in Seq(Parts)
          BY <1>5 DEF ParseStates
        <4>2. WrittenAll(r.vec) \in Seq(Chars)
          BY <4>1, WrittenAllType
        <4> QED BY <4>2, NothingAfter, Zenon
      <3> QED BY <1>9, <1>13, <3>1, <3>4, <3>5 DEF Kept
    <2>4. CASE ~NoError(s.vec) /\ Unclosed(p)
      BY <1>7, <1>9, <2>2, <2>4 DEF Kept
    <2> QED BY <2>3, <2>4 DEF Kept, said
  <1> QED BY <1>3, <1>10, <1>11, <1>12, <1>13

\* A pattern of any length says what its items say, if no format is empty; an error is found only where a
\* format has no end (PatternKept looks at the patterns of up to MaxPattern characters).
THEOREM AnyPatternKept ==
  ASSUME NEW p \in Seq(Chars), ~EmptyFormat(p)
  PROVE  LET items == Parse(p).items
         IN /\ NoError(items) => WrittenAll(items) = p /\ TextsApart(items)
            /\ ~NoError(items) => Unclosed(p)
  <1> DEFINE n == Len(p)
             g == ParseUpto(p)
             A == {k \in 0 .. n : Kept(p, k, g[k])}
             start == [i |-> 1, text |-> <<>>, vec |-> <<>>, error |-> FALSE]
  <1>1. n \in Nat
    OBVIOUS
  <1>2. /\ g \in [0 .. n -> ParseStates(p)] /\ g[0] = start
        /\ \A k \in 1 .. n : g[k] = Step(p, g[k - 1])
        /\ Parse(p).items = Flushed(g[n])
    BY ParseLoop
  <1> HIDE DEF g
  <1>3. 0 \in A
    <2>1. NoError(<<>>) /\ TextsApart(<<>>) /\ ~EndsInText(<<>>)
      BY DEF NoError, TextsApart, EndsInText
    <2>2. WrittenAll(<<>>) = <<>>
      <3>1. <<>> \in Seq(Parts)
        OBVIOUS
      <3> QED BY <3>1, WrittenAllType
    <2>3. WrittenAll(<<>>) \o <<>> = SubSeq(p, 1, 1 - 1)
      <3>1. SubSeq(p, 1, 1 - 1) = <<>> /\ <<>> \o <<>> = <<>>
        OBVIOUS
      <3> QED BY <2>2, <3>1
    <2>4. Kept(p, 0, start)
      BY <2>1, <2>3 DEF Kept
    <2>5. 0 \in 0 .. n
      BY <1>1
    <2> HIDE DEF start, n
    <2> QED BY <1>2, <2>4, <2>5
  <1>4. ASSUME NEW k \in 0 .. n - 1, k \in A PROVE k + 1 \in A
    <2>1. k + 1 \in 1 .. n /\ (k + 1) - 1 = k /\ k + 1 \in 0 .. n /\ k \in 0 .. n
      BY <1>1
    <2>2. g[k] \in ParseStates(p)
      BY <1>2, <2>1
    <2>3. g[k + 1] = Step(p, g[k])
      <3>1. g[k + 1] = Step(p, g[(k + 1) - 1])
        BY <1>2, <2>1
      <3> QED BY <2>1, <3>1
    <2>4. Kept(p, k + 1, Step(p, g[k]))
      BY <1>4, <2>2, StepKeeps
    <2> QED BY <2>1, <2>3, <2>4
  <1>5. n \in A
    <2>1. \A k \in 0 .. n - 1 : k \in A => k + 1 \in A
      BY <1>4
    <2>2. \A k \in 0 .. n : k \in A
      <3> HIDE DEF A, n
      <3> QED BY <1>1, <1>3, <2>1, Climb, Zenon
    <2> QED BY <1>1, <2>2
  <1> DEFINE s == g[n]
  <1>6. s \in ParseStates(p) /\ Kept(p, n, s)
    <2>1. n \in 0 .. n
      BY <1>1
    <2> QED BY <1>2, <1>5, <2>1
  <1>7. Parse(p).items = Flushed(s)
    BY <1>2
  <1> HIDE DEF s
  <1>8. s.i = n + 1
    <2>1. s.i \in 1 .. n + 1 /\ (s.i = n + 1 \/ s.i > n)
      BY <1>6 DEF ParseStates, Kept
    <2> QED BY <1>1, <2>1
  <1>9. /\ WrittenAll(Flushed(s)) = WrittenAll(s.vec) \o s.text
        /\ NoError(Flushed(s)) <=> NoError(s.vec)
        /\ TextsApart(s.vec) /\ ~EndsInText(s.vec) => TextsApart(Flushed(s))
    BY <1>6, FlushedSays
  <1>10. CASE NoError(s.vec)
    <2>1. TextsApart(s.vec) /\ ~EndsInText(s.vec) /\ WrittenAll(s.vec) \o s.text = SubSeq(p, 1, s.i - 1)
      BY <1>6, <1>10 DEF Kept
    <2>2. SubSeq(p, 1, (n + 1) - 1) = p
      OBVIOUS
    <2> QED BY <1>7, <1>8, <1>9, <1>10, <2>1, <2>2
  <1>11. CASE ~NoError(s.vec)
    BY <1>6, <1>7, <1>9, <1>11 DEF Kept
  <1> QED BY <1>10, <1>11

\* The sequences of a bounded length are sequences.
LEMMA BoundedSeq ==
  ASSUME NEW S, NEW M \in Nat, NEW m \in 0 .. M, NEW p \in [1 .. m -> S]
  PROVE  p \in Seq(S)
  OBVIOUS

\* So PatternKept holds, whatever MaxPattern is.
LEMMA PatternKeptHolds == PatternKept
  <1> SUFFICES ASSUME NEW m \in 0 .. MaxPattern, NEW p \in [1 .. m -> Chars], ~Has(p, "{", "}")
               PROVE  LET items == Parse(p).items
                          ends  == \A k \in DOMAIN items : items[k].kind # "error"
                      IN /\ ends => WrittenAll(items) = p
                         /\ ~ends => \E i \in DOMAIN p : p[i] = "{" /\ \A j \in i .. Len(p) : p[j] # "}"
                         /\ ends => \A k \in 1 .. Len(items) - 1 :
                                      ~(items[k].kind = "text" /\ items[k + 1].kind = "text")
    BY DEF PatternKept, Chars
  <1>1. p \in Seq(Chars)
    <2>1. MaxPattern \in Nat
      BY PatternAssumption
    <2> QED BY <2>1, BoundedSeq, Zenon
  <1> QED BY <1>1, AnyPatternKept DEF EmptyFormat, NoError, TextsApart, Unclosed

\* Where a name stops.
Stops == {"%", "{"} \cup Signs
NextStops == Stops \ {"{"}
Inner == Chars \ {"}"}

\* What stands in a pattern from a place on.
Stands(p, i, w) == i + Len(w) <= Len(p) + 1 /\ \A j \in 1 .. Len(w) : p[i + j - 1] = w[j]

\* Of a sequence before one element.
LEMMA LastPlaces ==
  ASSUME NEW S, NEW n \in Seq(S), NEW c \in S
  PROVE  /\ n \o <<c>> \in Seq(S) /\ Len(n \o <<c>>) = Len(n) + 1 /\ (n \o <<c>>)[Len(n) + 1] = c
         /\ \A j \in 1 .. Len(n) : (n \o <<c>>)[j] = n[j]
  OBVIOUS

\* The places in two texts one after the other.
LEMMA TwoPlaces ==
  ASSUME NEW S, NEW y \in Seq(S), NEW z \in Seq(S)
  PROVE  /\ y \o z \in Seq(S) /\ Len(y \o z) = Len(y) + Len(z)
         /\ \A j \in 1 .. Len(y) : (y \o z)[j] = y[j]
         /\ \A j \in 1 .. Len(z) : (y \o z)[Len(y) + j] = z[j]
  OBVIOUS

\* The places in an item with a format.
LEMMA RowOfItem ==
  ASSUME NEW n \in Seq(Chars), NEW f \in Seq(Chars)
  PROVE  LET W == <<"%">> \o n \o <<"{">> \o f \o <<"}">>
         IN /\ W \in Seq(Chars) /\ Len(W) = Len(n) + Len(f) + 3
            /\ W[1] = "%" /\ W[Len(n) + 2] = "{" /\ W[Len(n) + Len(f) + 3] = "}"
            /\ \A j \in 1 .. Len(n) : W[j + 1] = n[j]
            /\ \A j \in 1 .. Len(f) : W[Len(n) + 2 + j] = f[j]
  <1> DEFINE S == Chars
             a == "%"
             b == "{"
             d == "}"
             u == <<a>> \o n
             v == u \o <<b>>
             x == v \o f
             w == x \o <<d>>
  <1>0. a \in S /\ b \in S /\ d \in S /\ n \in Seq(S) /\ f \in Seq(S)
    BY DEF Chars
  <1> HIDE DEF S, a, b, d
  <1>1. /\ u \in Seq(S) /\ Len(u) = Len(n) + 1 /\ u[1] = a
        /\ \A j \in 1 .. Len(n) : u[j + 1] = n[j]
    BY <1>0
  <1> HIDE DEF u
  <1>2. /\ v \in Seq(S) /\ Len(v) = Len(n) + 2 /\ v[Len(n) + 2] = b
        /\ \A j \in 1 .. Len(n) + 1 : v[j] = u[j]
    BY <1>0, <1>1
  <1> HIDE DEF v
  <1>3. /\ x \in Seq(S) /\ Len(x) = Len(n) + Len(f) + 2
        /\ \A j \in 1 .. Len(n) + 2 : x[j] = v[j]
        /\ \A j \in 1 .. Len(f) : x[Len(n) + 2 + j] = f[j]
    <2>1. /\ x \in Seq(S) /\ Len(x) = Len(v) + Len(f)
          /\ \A j \in 1 .. Len(v) : x[j] = v[j]
          /\ \A j \in 1 .. Len(f) : x[Len(v) + j] = f[j]
      <3>1. v \in Seq(S) /\ f \in Seq(S)
        BY <1>0, <1>2
      <3>2. \A y, z \in Seq(S) :
              /\ y \o z \in Seq(S) /\ Len(y \o z) = Len(y) + Len(z)
              /\ \A j \in 1 .. Len(y) : (y \o z)[j] = y[j]
              /\ \A j \in 1 .. Len(z) : (y \o z)[Len(y) + j] = z[j]
        BY TwoPlaces
      <3> HIDE DEF x
      <3>3. x = v \o f
        BY DEF x
      <3> QED BY <3>1, <3>2, <3>3
    <2>2. Len(v) = Len(n) + 2 /\ Len(n) \in Nat /\ Len(f) \in Nat
      BY <1>0, <1>2
    <2>3. Len(v) + Len(f) = Len(n) + Len(f) + 2
      BY <2>2
    <2> QED BY <2>1, <2>2, <2>3
  <1> HIDE DEF x
  <1>4a. /\ w \in Seq(S) /\ Len(w) = Len(x) + 1 /\ w[Len(x) + 1] = d
         /\ \A j \in 1 .. Len(x) : w[j] = x[j]
    <2>1. \A y \in Seq(S) : /\ y \o <<d>> \in Seq(S) /\ Len(y \o <<d>>) = Len(y) + 1 /\ (y \o <<d>>)[Len(y) + 1] = d
                             /\ \A j \in 1 .. Len(y) : (y \o <<d>>)[j] = y[j]
      BY <1>0, LastPlaces
    <2>2. x \in Seq(S)
      BY <1>3
    <2> QED BY <2>1, <2>2, Zenon
  <1> HIDE DEF w
  <1>5. Len(n) \in Nat /\ Len(f) \in Nat
    BY <1>0
  <1>4. /\ w \in Seq(S) /\ Len(w) = Len(n) + Len(f) + 3 /\ w[Len(n) + Len(f) + 3] = d
        /\ \A j \in 1 .. Len(n) + Len(f) + 2 : w[j] = x[j]
    <2>1. Len(x) + 1 = Len(n) + Len(f) + 3 /\ Len(x) = Len(n) + Len(f) + 2
      BY <1>3, <1>5
    <2> QED BY <1>4a, <2>1
  <1>6. w[1] = a /\ w[Len(n) + 2] = b
    <2>1. /\ 1 \in 1 .. Len(n) + 1 /\ 1 \in 1 .. Len(n) + 2 /\ 1 \in 1 .. Len(n) + Len(f) + 2
          /\ Len(n) + 2 \in 1 .. Len(n) + 2 /\ Len(n) + 2 \in 1 .. Len(n) + Len(f) + 2
      BY <1>5
    <2>2. w[1] = x[1] /\ x[1] = v[1] /\ v[1] = u[1]
      BY <1>2, <1>3, <1>4, <2>1
    <2>3. w[Len(n) + 2] = x[Len(n) + 2] /\ x[Len(n) + 2] = v[Len(n) + 2]
      BY <1>3, <1>4, <2>1
    <2> QED BY <1>1, <1>2, <2>2, <2>3
  <1>7. ASSUME NEW j \in 1 .. Len(n) PROVE w[j + 1] = n[j]
    <2>1. j + 1 \in 1 .. Len(n) + 1 /\ j + 1 \in 1 .. Len(n) + 2 /\ j + 1 \in 1 .. Len(n) + Len(f) + 2
      BY <1>5
    <2> QED BY <1>1, <1>2, <1>3, <1>4, <2>1
  <1>8. ASSUME NEW j \in 1 .. Len(f) PROVE w[Len(n) + 2 + j] = f[j]
    <2>1. Len(n) + 2 + j \in 1 .. Len(n) + Len(f) + 2
      BY <1>5
    <2> QED BY <1>3, <1>4, <2>1
  <1> QED BY <1>4, <1>6, <1>7, <1>8 DEF w, x, v, u, a, b, d, S

\* Of a sequence after one element.
LEMMA FirstPlaces ==
  ASSUME NEW S, NEW c \in S, NEW n \in Seq(S)
  PROVE  /\ Len(<<c>> \o n) = Len(n) + 1 /\ (<<c>> \o n)[1] = c
         /\ \A j \in 1 .. Len(n) : (<<c>> \o n)[j + 1] = n[j]
  OBVIOUS

\* What stands from i to before b, read as a part.
LEMMA PartStands ==
  ASSUME NEW S, NEW p \in Seq(S), NEW i \in 1 .. Len(p) + 1, NEW w \in Seq(S), i + Len(w) <= Len(p) + 1,
         \A j \in 1 .. Len(w) : p[i + j - 1] = w[j]
  PROVE  SubSeq(p, i, i + Len(w) - 1) = w
  <1> DEFINE u == SubSeq(p, i, i + Len(w) - 1)
  <1>1. u \in Seq(S) /\ Len(u) = Len(w) /\ \A j \in 1 .. Len(w) : u[j] = p[i + j - 1]
    OBVIOUS
  <1> HIDE DEF u
  <1>2. u = w
    BY <1>1, SeqEqual
  <1> QED BY <1>2 DEF u

\* Where a name stops that is followed by one of Stops.
LEMMA NameStops ==
  ASSUME NEW p \in Seq(Chars), NEW i \in 1 .. Len(p), NEW word \in Seq(Alpha), NEW b, b = i + 1 + Len(word),
         b <= Len(p) + 1, b = Len(p) + 1 \/ p[b] \in Stops, \A j \in 1 .. Len(word) : p[i + j] = word[j]
  PROVE  NameEnd(p, i + 1) = b /\ SubSeq(p, i + 1, b - 1) = word
  <1>1. Len(p) \in Nat /\ Len(word) \in Nat
    OBVIOUS
  <1>2. i + 1 \in 1 .. Len(p) + 1 /\ b \in i + 1 .. Len(p) + 1
    BY <1>1
  <1>3. ASSUME NEW j \in i + 1 .. b - 1 PROVE p[j] \notin Stops
    <2>1. j - i \in 1 .. Len(word) /\ i + (j - i) = j
      BY <1>1
    <2>2. p[j] = word[j - i] /\ word[j - i] \in Alpha
      BY <2>1
    <2>3. \A c \in Alpha : c \notin Stops
      BY PatternAssumption DEF Stops
    <2> QED BY <2>2, <2>3
  <1>4. Find(p, i + 1, Stops) = b
    BY <1>1, <1>2, <1>3, FoundFirst
  <1>5. SubSeq(p, i + 1, (i + 1) + Len(word) - 1) = word
    <2>1. word \in Seq(Chars)
      <3>1. Alpha \subseteq Chars
        BY DEF Chars
      <3> QED BY <3>1, SeqMonotonic, Zenon
    <2>2. \A j \in 1 .. Len(word) : p[(i + 1) + j - 1] = word[j]
      BY <1>1
    <2>3. (i + 1) + Len(word) <= Len(p) + 1
      BY <1>1
    <2> QED BY <1>2, <2>1, <2>2, <2>3, PartStands
  <1>6. (i + 1) + Len(word) - 1 = b - 1
    BY <1>1
  <1> QED BY <1>4, <1>5, <1>6 DEF NameEnd, Stops

\* An item that is written in a pattern is read as it is, if its name ends there (log.cpp:316-385).
LEMMA ReadsItem ==
  ASSUME NEW p \in Seq(Chars), NEW i \in 1 .. Len(p), NEW word \in Seq(Alpha),
         NEW fmt \in Seq(Inner), Stands(p, i, Written(Item(word, fmt))),
         fmt = <<>> => i + 1 + Len(word) = Len(p) + 1 \/ p[i + 1 + Len(word)] \in NextStops
  PROVE  Directive(p, i) = [item |-> Item(word, fmt), next |-> i + Len(Written(Item(word, fmt)))]
  <1> DEFINE x == Item(word, fmt)
             w == Written(x)
             b == i + 1 + Len(word)
             S == Chars
  <1>1. word \in Seq(S) /\ fmt \in Seq(S)
    <2>1. Alpha \subseteq Chars /\ Inner \subseteq Chars
      BY DEF Chars, Inner
    <2> QED BY <2>1, SeqMonotonic, Zenon
  <1>2. Len(word) \in Nat /\ Len(fmt) \in Nat /\ Len(p) \in Nat /\ b \in Nat /\ (fmt = <<>> <=> Len(fmt) = 0)
    BY <1>1
  <1>3. "%" \in S /\ "{" \in S /\ "}" \in S
    BY DEF Chars
  <1>4. CASE fmt = <<>>
    <2>1. w = <<"%">> \o word
      BY <1>4 DEF Written, Item
    <2>2. Len(w) = Len(word) + 1 /\ \A j \in 1 .. Len(word) : w[j + 1] = word[j]
      <3>1. \A c \in S : \A n \in Seq(S) :
              Len(<<c>> \o n) = Len(n) + 1 /\ \A j \in 1 .. Len(n) : (<<c>> \o n)[j + 1] = n[j]
        BY FirstPlaces
      <3> DEFINE a == "%"
      <3>2. a \in S /\ word \in Seq(S) /\ w = <<a>> \o word
        BY <1>1, <1>3, <2>1
      <3> HIDE DEF a, S, w
      <3>3. Len(<<a>> \o word) = Len(word) + 1 /\ \A j \in 1 .. Len(word) : (<<a>> \o word)[j + 1] = word[j]
        BY <3>1, <3>2, Zenon
      <3> QED BY <3>2, <3>3
    <2> HIDE DEF w
    <2>3. i + Len(w) <= Len(p) + 1 /\ \A j \in 1 .. Len(w) : p[i + j - 1] = w[j]
      BY DEF Stands, w
    <2>4. b <= Len(p) + 1 /\ i + Len(w) = b
      BY <1>2, <2>2, <2>3
    <2>5. \A j \in 1 .. Len(word) : p[i + j] = word[j]
      <3>1. ASSUME NEW j \in 1 .. Len(word) PROVE p[i + j] = word[j]
        <4>1. j + 1 \in 1 .. Len(w) /\ i + (j + 1) - 1 = i + j
          BY <1>2, <2>2
        <4> QED BY <2>2, <2>3, <4>1
      <3> QED BY <3>1
    <2>6. b = Len(p) + 1 \/ (p[b] \in Stops /\ p[b] # "{")
      BY <1>4 DEF NextStops
    <2>7. NameEnd(p, i + 1) = b /\ SubSeq(p, i + 1, b - 1) = word
      BY <2>4, <2>5, <2>6, NameStops
    <2>8. b > Len(p) \/ p[b] # "{"
      <3>1. b = Len(p) + 1 => b > Len(p)
        BY <1>2
      <3> QED BY <2>6, <3>1
    <2>9. Directive(p, i) = [item |-> Item(SubSeq(p, i + 1, b - 1), <<>>), next |-> b]
      BY <2>7, <2>8 DEF Directive
    <2> QED BY <1>4, <2>4, <2>7, <2>9 DEF w
  <1>5. CASE fmt # <<>>
    <2> DEFINE e == b + 1 + Len(fmt)
    <2>1. w = <<"%">> \o word \o <<"{">> \o fmt \o <<"}">>
      BY <1>5 DEF Written, Item
    <2>2. /\ Len(w) = Len(word) + Len(fmt) + 3
          /\ w[1] = "%" /\ w[Len(word) + 2] = "{" /\ w[Len(word) + Len(fmt) + 3] = "}"
          /\ \A j \in 1 .. Len(word) : w[j + 1] = word[j]
          /\ \A j \in 1 .. Len(fmt) : w[Len(word) + 2 + j] = fmt[j]
      <3>1. LET W == <<"%">> \o word \o <<"{">> \o fmt \o <<"}">>
            IN /\ W \in Seq(S) /\ Len(W) = Len(word) + Len(fmt) + 3
               /\ W[1] = "%" /\ W[Len(word) + 2] = "{" /\ W[Len(word) + Len(fmt) + 3] = "}"
               /\ \A j \in 1 .. Len(word) : W[j + 1] = word[j]
               /\ \A j \in 1 .. Len(fmt) : W[Len(word) + 2 + j] = fmt[j]
        BY <1>1, RowOfItem
      <3> HIDE DEF w
      <3> QED BY <2>1, <3>1
    <2> HIDE DEF w
    <2>3. i + Len(w) <= Len(p) + 1 /\ \A j \in 1 .. Len(w) : p[i + j - 1] = w[j]
      BY DEF Stands, w
    <2>4. Len(w) = Len(word) + Len(fmt) + 3
      BY <2>2
    <2>5. e <= Len(p) /\ i + Len(w) = e + 1 /\ b <= Len(p) /\ e \in Nat /\ b + 1 <= e
      BY <1>2, <2>3, <2>4
    <2>6. \A j \in 1 .. Len(word) : p[i + j] = word[j]
      <3>1. ASSUME NEW j \in 1 .. Len(word) PROVE p[i + j] = word[j]
        <4>1. j + 1 \in 1 .. Len(w) /\ i + (j + 1) - 1 = i + j
          BY <1>2, <2>4
        <4> QED BY <2>2, <2>3, <4>1
      <3> QED BY <3>1
    <2>7. p[b] = "{"
      <3>1. Len(word) + 2 \in 1 .. Len(w) /\ i + (Len(word) + 2) - 1 = b
        BY <1>2, <2>4
      <3> QED BY <2>2, <2>3, <3>1
    <2>8. \A j \in 1 .. Len(fmt) : p[(b + 1) + j - 1] = fmt[j]
      <3>1. ASSUME NEW j \in 1 .. Len(fmt) PROVE p[(b + 1) + j - 1] = fmt[j]
        <4>1. Len(word) + 2 + j \in 1 .. Len(w) /\ i + (Len(word) + 2 + j) - 1 = (b + 1) + j - 1
          BY <1>2, <2>4
        <4> QED BY <2>2, <2>3, <4>1
      <3> QED BY <3>1
    <2>9. p[e] = "}"
      <3>1. Len(word) + Len(fmt) + 3 \in 1 .. Len(w) /\ i + (Len(word) + Len(fmt) + 3) - 1 = e
        BY <1>2, <2>4
      <3> QED BY <2>2, <2>3, <3>1
    <2>10. NameEnd(p, i + 1) = b /\ SubSeq(p, i + 1, b - 1) = word
      <3>1. p[b] \in Stops
        BY <2>7 DEF Stops
      <3>2. b <= Len(p) + 1
        BY <1>2, <2>5
      <3> QED BY <2>6, <3>1, <3>2, NameStops
    <2>11. Find(p, b + 1, {"}"}) = e
      <3>1. ASSUME NEW j \in b + 1 .. e - 1 PROVE p[j] \notin {"}"}
        <4>1. j - b \in 1 .. Len(fmt) /\ (b + 1) + (j - b) - 1 = j
          BY <1>2
        <4>2. p[j] = fmt[j - b]
          BY <2>8, <4>1
        <4>3. \A k \in 1 .. Len(fmt) : fmt[k] \in Inner
          BY ElementOfSeq, Zenon
        <4> QED BY <4>1, <4>2, <4>3 DEF Inner
      <3>2. b + 1 \in 1 .. Len(p) + 1 /\ e \in b + 1 .. Len(p) + 1
        BY <1>2, <2>5
      <3>3. p[e] \in {"}"}
        BY <2>9
      <3> HIDE DEF e, b
      <3> QED BY <1>2, <3>1, <3>2, <3>3, FoundFirst
    <2>12. SubSeq(p, b + 1, e - 1) = fmt
      <3>1. b + 1 \in 1 .. Len(p) + 1 /\ (b + 1) + Len(fmt) <= Len(p) + 1 /\ (b + 1) + Len(fmt) - 1 = e - 1
        BY <1>2, <2>5
      <3>2. SubSeq(p, b + 1, (b + 1) + Len(fmt) - 1) = fmt
        BY <1>1, <2>8, <3>1, PartStands
      <3> QED BY <3>1, <3>2
    <2>13. ~(b > Len(p)) /\ ~(e > Len(p))
      BY <1>2, <2>5
    <2>14. Directive(p, i) = [item |-> Item(SubSeq(p, i + 1, b - 1), SubSeq(p, b + 1, e - 1)), next |-> e + 1]
      BY <2>7, <2>10, <2>11, <2>13 DEF Directive
    <2> QED BY <2>5, <2>10, <2>12, <2>14 DEF w
  <1> QED BY <1>4, <1>5

\* A format has no closing brace.
LEMMA FormatsInner ==
  ASSUME NEW f \in Formats
  PROVE  f \in Seq(Inner)
  <1>1. CASE f = <<>>
    BY <1>1
  <1>2. CASE \E c \in Alpha : f = <<"%", c>>
    <2>1. PICK c \in Alpha : f = <<"%", c>>
      BY <1>2
    <2> DEFINE a == "%"
    <2>2. a \in Inner /\ c \in Inner
      BY PatternAssumption DEF Inner, Chars
    <2> HIDE DEF a
    <2>3. <<a, c>> \in Seq(Inner)
      BY <2>2
    <2> QED BY <2>1, <2>3 DEF a
  <1> QED BY <1>1, <1>2 DEF Formats

\* A token is one character of text, or an item with a name of letters that is registered.
LEMMA TokenIs ==
  ASSUME NEW x \in Tokens
  PROVE  /\ x \in Parts
         /\ \/ \E c \in Alpha \cup Signs : x = Literal(<<c>>)
            \/ \E n \in Registered, f \in Formats :
                 x = Item(n, f) /\ n \in Seq(Alpha) /\ n # <<>> /\ n \in Seq(Chars) /\ f \in Seq(Inner) /\ f \in Seq(Chars)
  <1>1. CASE \E c \in Alpha \cup Signs : x = Literal(<<c>>)
    <2>1. PICK c \in Alpha \cup Signs : x = Literal(<<c>>)
      BY <1>1
    <2>2. c \in Chars
      BY DEF Chars
    <2>3. <<c>> \in Seq(Chars)
      BY <2>2, OneIsSeq, Zenon
    <2>4. x \in Parts
      <3>1. <<>> \in Seq(Chars)
        OBVIOUS
      <3> DEFINE t == <<c>>
      <3> HIDE DEF t
      <3>2. t \in Seq(Chars) => Literal(t) \in Parts
        BY <3>1 DEF Literal, Parts
      <3> QED BY <2>1, <2>3, <3>2 DEF t
    <2> QED BY <1>1, <2>4
  <1>2. CASE \E n \in Registered, f \in Formats : x = Item(n, f)
    <2>1. PICK n \in Registered, f \in Formats : x = Item(n, f)
      BY <1>2
    <2>2. n \in Seq(Alpha) /\ n # <<>>
      BY PatternAssumption, Zenon
    <2>3. f \in Seq(Inner)
      BY FormatsInner
    <2>4. n \in Seq(Chars) /\ f \in Seq(Chars)
      <3>1. Alpha \subseteq Chars /\ Inner \subseteq Chars
        BY DEF Chars, Inner
      <3> QED BY <2>2, <2>3, <3>1, SeqMonotonic, Zenon
    <2>5. x \in Parts
      BY <2>1, <2>4 DEF Item, Parts
    <2> QED BY <2>1, <2>2, <2>3, <2>4, <2>5
  <1>3. (\E c \in Alpha \cup Signs : x = Literal(<<c>>)) \/ \E n \in Registered, f \in Formats : x = Item(n, f)
    <2>1. x \in {Literal(<<c>>) : c \in Alpha \cup Signs} \/ x \in {Item(n, f) : n \in Registered, f \in Formats}
      BY DEF Tokens
    <2>2. x \in {Item(n, f) : n \in Registered, f \in Formats} => \E n \in Registered, f \in Formats : x = Item(n, f)
      OBVIOUS
    <2>3. x \in {Literal(<<c>>) : c \in Alpha \cup Signs} => \E c \in Alpha \cup Signs : x = Literal(<<c>>)
      OBVIOUS
    <2> QED BY <2>1, <2>2, <2>3
  <1> QED BY <1>1, <1>2, <1>3

\* A text is written as its one character, which is no sign of the grammar.
LEMMA TextToken ==
  ASSUME NEW c \in Alpha \cup Signs
  PROVE  LET x == Literal(<<c>>)
         IN /\ x.kind = "text" /\ x.name = <<c>> /\ Literal(x.name) = x
            /\ Written(x) = <<c>> /\ Len(Written(x)) = 1 /\ Written(x)[1] = c /\ c # "%" /\ c \in Chars
  <1>1. c # "%" /\ c \in Chars
    BY PatternAssumption DEF Chars
  <1> DEFINE t == <<c>>
             x == Literal(t)
  <1>2. Len(t) = 1 /\ t[1] = c
    OBVIOUS
  <1> HIDE DEF t
  <1>3. x.kind = "text" /\ x.name = t /\ Literal(x.name) = x /\ Written(x) = t
    BY DEF Literal, Written
  <1> QED BY <1>1, <1>2, <1>3 DEF t, x

\* An item is written with a percent sign, and a letter after it.
LEMMA ItemToken ==
  ASSUME NEW n \in Seq(Alpha), n # <<>>, n \in Seq(Chars), NEW f \in Seq(Chars)
  PROVE  LET w == Written(Item(n, f))
         IN w \in Seq(Chars) /\ Len(w) >= 2 /\ w[1] = "%" /\ w[2] # "%"
  <1> DEFINE w == Written(Item(n, f))
  <1>1. Len(n) \in Nat /\ Len(n) >= 1 /\ Len(f) \in Nat
    OBVIOUS
  <1>2. n[1] \in Alpha
    BY <1>1
  <1>3. n[1] # "%"
    BY <1>2, PatternAssumption
  <1>4. Item(n, f) \in Parts
    BY DEF Item, Parts
  <1>5. w \in Seq(Chars)
    BY <1>4, WrittenType
  <1>6. Len(w) >= 2 /\ w[1] = "%" /\ w[2] = n[1]
    <2> DEFINE a == "%"
    <2>0. a \in Chars
      BY DEF Chars
    <2>1. CASE f = <<>>
      <3>1. w = <<a>> \o n
        BY <2>1 DEF Written, Item
      <3> HIDE DEF w, a
      <3>2. /\ Len(<<a>> \o n) = Len(n) + 1 /\ (<<a>> \o n)[1] = a
            /\ \A j \in 1 .. Len(n) : (<<a>> \o n)[j + 1] = n[j]
        BY <2>0, FirstPlaces
      <3>3. 1 \in 1 .. Len(n)
        BY <1>1
      <3>4. Len(w) >= 2 /\ w[1] = a /\ w[1 + 1] = n[1]
        BY <1>1, <3>1, <3>2, <3>3
      <3>5. w[2] = n[1]
        BY <3>4
      <3> QED BY <3>4, <3>5 DEF a
    <2>2. CASE f # <<>>
      <3>1. w = <<"%">> \o n \o <<"{">> \o f \o <<"}">>
        BY <2>2 DEF Written, Item
      <3>2. LET W == <<"%">> \o n \o <<"{">> \o f \o <<"}">>
            IN /\ W \in Seq(Chars) /\ Len(W) = Len(n) + Len(f) + 3
               /\ W[1] = "%" /\ W[Len(n) + 2] = "{" /\ W[Len(n) + Len(f) + 3] = "}"
               /\ \A j \in 1 .. Len(n) : W[j + 1] = n[j]
               /\ \A j \in 1 .. Len(f) : W[Len(n) + 2 + j] = f[j]
        BY RowOfItem
      <3> HIDE DEF w
      <3>3. Len(w) = Len(n) + Len(f) + 3 /\ w[1] = "%" /\ \A j \in 1 .. Len(n) : w[j + 1] = n[j]
        BY <3>1, <3>2
      <3>4. 1 \in 1 .. Len(n)
        BY <1>1
      <3>5. w[1 + 1] = n[1]
        BY <3>3, <3>4
      <3>6. Len(w) = Len(n) + Len(f) + 3
        BY <3>3
      <3>7. Len(w) >= 2
        BY <1>1, <3>6
      <3> QED BY <3>3, <3>5, <3>7
    <2> QED BY <2>1, <2>2
  <1> HIDE DEF w
  <1> QED BY <1>3, <1>5, <1>6 DEF w

\* Each part stands in what all say, after what those before it say.
LEMMA Standing ==
  ASSUME NEW v \in Seq(Parts), NEW k \in 1 .. Len(v)
  PROVE  /\ Len(WrittenUpto(v)[k]) = Len(WrittenUpto(v)[k - 1]) + Len(Written(v[k]))
         /\ Stands(WrittenAll(v), Len(WrittenUpto(v)[k - 1]) + 1, Written(v[k]))
  <1> DEFINE n == Len(v)
             w == WrittenUpto(v)
             P == WrittenAll(v)
             x == Written(v[k])
             C == Chars
             Begins(u, t) == Len(u) <= Len(t) /\ \A j \in 1 .. Len(u) : t[j] = u[j]
             A == {d \in 0 .. n - k : Begins(w[k], w[k + d])}
  <1>1. /\ w \in [0 .. n -> Seq(C)] /\ w[0] = <<>> /\ P = w[n]
        /\ \A j \in 1 .. n : w[j] = w[j - 1] \o Written(v[j])
    BY WrittenLoop
  <1>2. n \in Nat /\ n - k \in Nat
    OBVIOUS
  <1>3. \A j \in 1 .. n : Written(v[j]) \in Seq(C)
    <2> SUFFICES ASSUME NEW j \in 1 .. n PROVE Written(v[j]) \in Seq(C)
      OBVIOUS
    <2> DEFINE Q == Parts
    <2>1. v[j] \in Q
      <3>1. v \in Seq(Q)
        OBVIOUS
      <3> HIDE DEF Q
      <3> QED BY <3>1
    <2> QED BY <2>1, WrittenType
  <1> HIDE DEF w, P, C
  <1>4. w[k] = w[k - 1] \o x /\ w[k - 1] \in Seq(C) /\ w[k] \in Seq(C) /\ x \in Seq(C)
    <2>1. k \in 0 .. n /\ k - 1 \in 0 .. n
      BY <1>2
    <2> QED BY <1>1, <1>3, <2>1
  <1>5. 0 \in A
    <2>1. k + 0 = k
      OBVIOUS
    <2>3. Begins(w[k], w[k])
      <3>1. w[k] \in Seq(C)
        BY <1>4
      <3>2. Len(w[k]) \in Nat
        BY <3>1
      <3> QED BY <3>2
    <2>2. Begins(w[k], w[k + 0])
      BY <2>1, <2>3
    <2> QED BY <1>2, <2>2
  <1>6. ASSUME NEW d \in 0 .. n - k - 1, d \in A PROVE d + 1 \in A
    <2>1. k + (d + 1) \in 1 .. n /\ (k + (d + 1)) - 1 = k + d /\ k + d \in 0 .. n /\ d + 1 \in 0 .. n - k
      BY <1>2
    <2> DEFINE t == w[k + d]
               u == w[k + (d + 1)]
               y == Written(v[k + (d + 1)])
    <2>2. u = t \o y /\ t \in Seq(C) /\ y \in Seq(C)
      <3>1. w[k + (d + 1)] = w[(k + (d + 1)) - 1] \o Written(v[k + (d + 1)])
        BY <1>1, <2>1
      <3> QED BY <1>1, <1>3, <2>1, <3>1
    <2>3. Begins(w[k], t)
      BY <1>6
    <2> HIDE DEF t, y, u
    <2>4. Len(u) = Len(t) + Len(y) /\ \A j \in 1 .. Len(t) : u[j] = t[j]
      BY <2>2
    <2>5. Len(t) \in Nat /\ Len(y) \in Nat /\ Len(w[k]) \in Nat
      <3>1. w[k] \in Seq(C) /\ t \in Seq(C) /\ y \in Seq(C)
        BY <1>4, <2>2
      <3> QED BY <3>1
    <2>6. Begins(w[k], u)
      BY <2>3, <2>4, <2>5
    <2> QED BY <2>1, <2>6 DEF u
  <1>7. Begins(w[k], P)
    <2>1. \A d \in 0 .. (n - k) - 1 : d \in A => d + 1 \in A
      BY <1>6
    <2> DEFINE m == n - k
    <2>2. \A d \in 0 .. m : d \in A
      <3> HIDE DEF A, m
      <3> QED BY <1>2, <1>5, <2>1, Climb, Zenon DEF m
    <2>3. n - k \in 0 .. n - k /\ k + (n - k) = n
      BY <1>2
    <2>4. Begins(w[k], w[k + (n - k)])
      BY <2>2, <2>3
    <2> QED BY <1>1, <2>3, <2>4
  <1>8. /\ Len(w[k]) = Len(w[k - 1]) + Len(x) /\ Len(w[k - 1]) \in Nat /\ Len(x) \in Nat
        /\ \A j \in 1 .. Len(x) : w[k][Len(w[k - 1]) + j] = x[j]
    <2> DEFINE t == w[k - 1]
    <2>1. w[k] = t \o x /\ t \in Seq(C) /\ x \in Seq(C)
      BY <1>4
    <2> HIDE DEF t, x
    <2>2. /\ Len(w[k]) = Len(t) + Len(x) /\ Len(t) \in Nat /\ Len(x) \in Nat
          /\ \A j \in 1 .. Len(x) : w[k][Len(t) + j] = x[j]
      BY <2>1
    <2> QED BY <2>2 DEF t
  <1>9. P \in Seq(C)
    BY <1>1, <1>2
  <1>10. Stands(P, Len(w[k - 1]) + 1, x)
    <2> DEFINE a == Len(w[k - 1])
               b == Len(x)
               u == w[k]
    <2>1. a \in Nat /\ b \in Nat /\ Len(u) = a + b /\ Len(P) \in Nat /\ Len(u) <= Len(P)
      <3>1. Len(P) \in Nat
        BY <1>9
      <3>2. Len(u) <= Len(P)
        BY <1>7
      <3> QED BY <1>8, <3>1, <3>2
    <2>2. \A j \in 1 .. Len(u) : P[j] = u[j]
      BY <1>7
    <2>3. \A j \in 1 .. b : u[a + j] = x[j]
      BY <1>8
    <2> HIDE DEF a, u
    <2>4. (a + 1) + b <= Len(P) + 1
      BY <2>1
    <2>5. ASSUME NEW j \in 1 .. b PROVE P[(a + 1) + j - 1] = x[j]
      <3>1. (a + 1) + j - 1 = a + j /\ a + j \in 1 .. Len(u)
        BY <2>1
      <3> QED BY <2>2, <2>3, <3>1
    <2> QED BY <2>4, <2>5 DEF Stands, a
  <1> QED BY <1>8, <1>10 DEF w, P

\* After k rounds the first k tokens are read: a text that comes last is not an item yet.
InText(ts, k) == k > 0 /\ ts[k].kind = "text"
ReadUpto(ts, k, s) ==
  /\ s.i = Len(WrittenUpto(ts)[k]) + 1 /\ ~s.error
  /\ IF InText(ts, k) THEN s.text = ts[k].name /\ s.vec = SubSeq(ts, 1, k - 1)
     ELSE s.text = <<>> /\ s.vec = SubSeq(ts, 1, k)

\* It becomes one when it is flushed.
LEMMA FlushedReads ==
  ASSUME NEW ts \in Seq(Tokens), NEW k \in 0 .. Len(ts), NEW s, ReadUpto(ts, k, s)
  PROVE  Flushed(s) = SubSeq(ts, 1, k)
  <1>1. CASE InText(ts, k)
    <2>1. k \in 1 .. Len(ts)
      <3>1. k > 0
        BY <1>1 DEF InText
      <3> QED BY <3>1
    <2>2. ts[k] \in Tokens /\ ts[k].kind = "text"
      <3> DEFINE T == Tokens
      <3>1. ts \in Seq(T)
        OBVIOUS
      <3> HIDE DEF T
      <3>2. ts[k] \in T
        BY <2>1, <3>1
      <3> QED BY <1>1, <3>2 DEF InText, T
    <2>3. PICK c \in Alpha \cup Signs : ts[k] = Literal(<<c>>)
      <3>1. \A n, f : Item(n, f).kind = "item"
        BY DEF Item
      <3>2. (\E c \in Alpha \cup Signs : ts[k] = Literal(<<c>>)) \/ \E n \in Registered, f \in Formats : ts[k] = Item(n, f)
        BY <2>2, TokenIs
      <3>3. ASSUME NEW n, NEW f, ts[k] = Item(n, f) PROVE FALSE
        BY <2>2, <3>1, <3>3
      <3> QED BY <3>2, <3>3
    <2>4. ts[k].name = <<c>> /\ Literal(ts[k].name) = ts[k]
      BY <2>3, TextToken
    <2>5. s.text = ts[k].name /\ s.vec = SubSeq(ts, 1, k - 1)
      BY <1>1 DEF ReadUpto
    <2>6. s.text # <<>>
      BY <2>4, <2>5
    <2>7. Flushed(s) = Append(SubSeq(ts, 1, k - 1), ts[k])
      BY <2>4, <2>5, <2>6 DEF Flushed
    <2>8. Append(SubSeq(ts, 1, k - 1), ts[k]) = SubSeq(ts, 1, k)
      <3> DEFINE T == Tokens
      <3>1. ts \in Seq(T)
        OBVIOUS
      <3> HIDE DEF T
      <3> QED BY <2>1, <3>1
    <2> QED BY <2>7, <2>8
  <1>2. CASE ~InText(ts, k)
    BY <1>2 DEF ReadUpto, Flushed
  <1> QED BY <1>1, <1>2

\* Places in a pattern that is made of tokens.
LEMMA TokenStands ==
  ASSUME NEW ts \in Seq(Tokens), NEW k \in 0 .. Len(ts) - 1
  PROVE  LET p == WrittenAll(ts)
             i == Len(WrittenUpto(ts)[k]) + 1
             w == Written(ts[k + 1])
         IN /\ p \in Seq(Chars) /\ w \in Seq(Chars) /\ Len(w) >= 1 /\ i \in 1 .. Len(p)
            /\ Stands(p, i, w) /\ i + Len(w) = Len(WrittenUpto(ts)[k + 1]) + 1
            /\ p[i] = w[1]
  <1> DEFINE p == WrittenAll(ts)
             i == Len(WrittenUpto(ts)[k]) + 1
             w == Written(ts[k + 1])
             x == ts[k + 1]
             T == Tokens
  <1>1. ts \in Seq(Parts)
    <2>1. T \subseteq Parts
      BY TokenIs
    <2> HIDE DEF T
    <2> QED BY <2>1, SeqMonotonic, Zenon DEF T
  <1>2. k + 1 \in 1 .. Len(ts) /\ (k + 1) - 1 = k /\ k \in 0 .. Len(ts)
    OBVIOUS
  <1>3. x \in Tokens
    <2>1. ts \in Seq(T)
      OBVIOUS
    <2> HIDE DEF T
    <2>2. x \in T
      BY <1>2, <2>1
    <2> QED BY <2>2 DEF T
  <1>4. /\ Len(WrittenUpto(ts)[k + 1]) = Len(WrittenUpto(ts)[k]) + Len(w)
        /\ Stands(p, i, w)
    <2>1. /\ Len(WrittenUpto(ts)[k + 1]) = Len(WrittenUpto(ts)[(k + 1) - 1]) + Len(Written(ts[k + 1]))
          /\ Stands(WrittenAll(ts), Len(WrittenUpto(ts)[(k + 1) - 1]) + 1, Written(ts[k + 1]))
      BY <1>1, <1>2, Standing
    <2> QED BY <1>2, <2>1
  <1>5. p \in Seq(Chars)
    BY <1>1, WrittenAllType
  <1>6. w \in Seq(Chars) /\ Len(w) >= 1
    <2>1. CASE \E c \in Alpha \cup Signs : x = Literal(<<c>>)
      <3>1. PICK c \in Alpha \cup Signs : x = Literal(<<c>>)
        BY <2>1
      <3>2. w = <<c>> /\ Len(w) = 1 /\ c \in Chars
        BY <3>1, TextToken
      <3>3. <<c>> \in Seq(Chars)
        BY <3>2, OneIsSeq, Zenon
      <3> HIDE DEF w
      <3> QED BY <3>2, <3>3
    <2>2. CASE \E n \in Registered, f \in Formats :
                 x = Item(n, f) /\ n \in Seq(Alpha) /\ n # <<>> /\ n \in Seq(Chars) /\ f \in Seq(Inner) /\ f \in Seq(Chars)
      <3>1. PICK n \in Registered, f \in Formats :
              x = Item(n, f) /\ n \in Seq(Alpha) /\ n # <<>> /\ n \in Seq(Chars) /\ f \in Seq(Inner) /\ f \in Seq(Chars)
        BY <2>2
      <3>2. w \in Seq(Chars) /\ Len(w) >= 2
        BY <3>1, ItemToken
      <3>3. Len(w) \in Nat
        BY <3>2
      <3> HIDE DEF w
      <3> QED BY <3>2, <3>3
    <2> QED BY <1>3, <2>1, <2>2, TokenIs
  <1>7. Len(WrittenUpto(ts)[k]) \in Nat
    <2>1. WrittenUpto(ts) \in [0 .. Len(ts) -> Seq(Chars)]
      BY <1>1, WrittenLoop
    <2> DEFINE u == WrittenUpto(ts)
               C == Chars
    <2>2. u \in [0 .. Len(ts) -> Seq(C)]
      BY <2>1
    <2> HIDE DEF u, C
    <2>3. u[k] \in Seq(C)
      BY <1>2, <2>2
    <2>4. Len(u[k]) \in Nat
      BY <2>3
    <2> QED BY <2>4 DEF u
  <1> HIDE DEF p, w
  <1>8. i + Len(w) <= Len(p) + 1 /\ \A j \in 1 .. Len(w) : p[i + j - 1] = w[j]
    BY <1>4 DEF Stands
  <1>9. Len(p) \in Nat /\ Len(w) \in Nat
    BY <1>5, <1>6
  <1>10. i \in 1 .. Len(p)
    <2>1. Len(w) >= 1 /\ i + Len(w) <= Len(p) + 1
      BY <1>6, <1>8
    <2> QED BY <1>7, <1>9, <2>1
  <1>11. p[i] = w[1]
    <2>1. 1 \in 1 .. Len(w) /\ i + 1 - 1 = i
      BY <1>6, <1>7, <1>9
    <2> QED BY <1>8, <2>1
  <1>12. i + Len(w) = Len(WrittenUpto(ts)[k + 1]) + 1
    BY <1>4, <1>7, <1>9
  <1> QED BY <1>4, <1>5, <1>6, <1>10, <1>11, <1>12 DEF p, w

\* After an item without a format comes the end, an item, or a text that does not go on with the name.
LEMMA NameEnds ==
  ASSUME NEW ts \in Seq(Tokens), Separate(ts), NEW k \in 0 .. Len(ts) - 1,
         NEW n \in Seq(Alpha), NEW f, f = <<>>, ts[k + 1] = Item(n, f)
  PROVE  LET p == WrittenAll(ts)
             b == Len(WrittenUpto(ts)[k]) + 1 + 1 + Len(n)
         IN b = Len(p) + 1 \/ p[b] \in NextStops
  <1> DEFINE p == WrittenAll(ts)
             i == Len(WrittenUpto(ts)[k]) + 1
             b == i + 1 + Len(n)
             m == Len(ts)
             e == Len(WrittenUpto(ts)[k + 1])
  <1>1. m \in Nat /\ Len(n) \in Nat
    OBVIOUS
  <1>2. i + Len(Written(ts[k + 1])) = e + 1 /\ i \in 1 .. Len(p)
    BY TokenStands
  <1>3. Len(Written(ts[k + 1])) = Len(n) + 1
    <2>1. Written(ts[k + 1]) = <<"%">> \o n
      BY DEF Written, Item
    <2> DEFINE a == "%"
               C == {"%"} \cup Alpha
    <2>2. a \in C
      OBVIOUS
    <2>3. n \in Seq(C)
      <3>1. Alpha \subseteq C
        OBVIOUS
      <3> HIDE DEF C
      <3> QED BY <3>1, SeqMonotonic, Zenon
    <2> HIDE DEF a, C
    <2>4. Len(<<a>> \o n) = Len(n) + 1
      BY <2>2, <2>3, FirstPlaces
    <2> QED BY <2>1, <2>4 DEF a
  <1>4. b = e + 1
    <2>1. i \in Nat
      BY <1>2
    <2>2. i + (Len(n) + 1) = e + 1
      BY <1>2, <1>3
    <2> HIDE DEF i, e
    <2>3. i + 1 + Len(n) = i + (Len(n) + 1)
      BY <1>1, <2>1
    <2> QED BY <2>2, <2>3
  <1>5. CASE k + 1 = m
    <2>1. ts \in Seq(Parts)
      <3> DEFINE T == Tokens
      <3>1. T \subseteq Parts
        BY TokenIs
      <3>2. ts \in Seq(T)
        OBVIOUS
      <3> HIDE DEF T
      <3> QED BY <3>1, <3>2, SeqMonotonic, Zenon
    <2>2. p = WrittenUpto(ts)[m]
      BY <2>1, WrittenLoop
    <2>3. b = Len(p) + 1
      BY <1>4, <1>5, <2>2
    <2> QED BY <2>3
  <1>6. CASE k + 1 # m
    <2>1. k + 1 \in 0 .. m - 1 /\ k + 1 \in 1 .. m - 1 /\ (k + 1) + 1 \in 1 .. m
      BY <1>1, <1>6
    <2> DEFINE y == ts[(k + 1) + 1]
    <2>2. p[e + 1] = Written(y)[1]
      BY <2>1, TokenStands
    <2>3. y \in Tokens
      <3> DEFINE T == Tokens
      <3>1. ts \in Seq(T)
        OBVIOUS
      <3> HIDE DEF T
      <3>2. y \in T
        BY <2>1, <3>1
      <3> QED BY <3>2 DEF T
    <2>4. ts[k + 1].kind = "item" /\ ts[k + 1].fmt = <<>>
      BY DEF Item
    <2>5. y.kind = "text" => y.name[1] \in Signs
      BY <2>1, <2>4 DEF Separate
    <2> HIDE DEF y
    <2>6. CASE \E c \in Alpha \cup Signs : y = Literal(<<c>>)
      <3>1. PICK c \in Alpha \cup Signs : y = Literal(<<c>>)
        BY <2>6
      <3>2. y.kind = "text" /\ y.name = <<c>> /\ Written(y)[1] = c
        BY <3>1, TextToken
      <3>3. y.name[1] = c
        BY <3>2
      <3>4. c \in Signs
        BY <2>5, <3>2, <3>3
      <3>5. c \in NextStops
        BY <3>4, PatternAssumption DEF NextStops, Stops
      <3> QED BY <1>4, <2>2, <3>2, <3>5
    <2>7. CASE \E u \in Registered, g \in Formats :
                 y = Item(u, g) /\ u \in Seq(Alpha) /\ u # <<>> /\ u \in Seq(Chars) /\ g \in Seq(Inner) /\ g \in Seq(Chars)
      <3>1. PICK u \in Registered, g \in Formats :
              y = Item(u, g) /\ u \in Seq(Alpha) /\ u # <<>> /\ u \in Seq(Chars) /\ g \in Seq(Inner) /\ g \in Seq(Chars)
        BY <2>7
      <3>2. Written(y)[1] = "%"
        BY <3>1, ItemToken
      <3>3. "%" \in NextStops
        BY DEF NextStops, Stops
      <3> QED BY <1>4, <2>2, <3>2, <3>3
    <2> QED BY <2>3, <2>6, <2>7, TokenIs
  <1> QED BY <1>5, <1>6

\* A part of a list and the element after it.
LEMMA OneMore ==
  ASSUME NEW S, NEW u \in Seq(S), NEW k \in 0 .. Len(u) - 1
  PROVE  Append(SubSeq(u, 1, k), u[k + 1]) = SubSeq(u, 1, k + 1)
  OBVIOUS

\* A round reads the next token.
LEMMA StepReads ==
  ASSUME NEW ts \in Seq(Tokens), Separate(ts), NEW k \in 0 .. Len(ts) - 1,
         NEW s \in ParseStates(WrittenAll(ts)), ReadUpto(ts, k, s)
  PROVE  ReadUpto(ts, k + 1, Step(WrittenAll(ts), s))
  <1> DEFINE p == WrittenAll(ts)
             r == Step(p, s)
             x == ts[k + 1]
             w == Written(x)
             i == s.i
             T == Tokens
  <1>1. s = [i |-> s.i, text |-> s.text, vec |-> s.vec, error |-> s.error] /\ s.error \in BOOLEAN
    BY DEF ParseStates
  <1>2. i = Len(WrittenUpto(ts)[k]) + 1 /\ ~s.error
    BY DEF ReadUpto
  <1>3. /\ p \in Seq(Chars) /\ w \in Seq(Chars) /\ Len(w) >= 1 /\ i \in 1 .. Len(p)
        /\ Stands(p, i, w) /\ i + Len(w) = Len(WrittenUpto(ts)[k + 1]) + 1
        /\ p[i] = w[1]
    BY <1>2, TokenStands
  <1>4. k + 1 \in 1 .. Len(ts) /\ (k + 1) - 1 = k /\ k + 1 > 0 /\ Len(ts) \in Nat
    OBVIOUS
  <1>5. x \in T
    <2>1. ts \in Seq(T)
      OBVIOUS
    <2> HIDE DEF T
    <2> QED BY <1>4, <2>1
  <1>6. Len(p) \in Nat /\ Len(w) \in Nat /\ ~(i > Len(p))
    <2>1. p \in Seq(Chars) /\ w \in Seq(Chars) /\ i \in 1 .. Len(p)
      BY <1>3
    <2> HIDE DEF p, w, i
    <2> QED BY <2>1
  <1> HIDE DEF p, r, w, i
  <1>7. CASE \E c \in Alpha \cup Signs : x = Literal(<<c>>)
    <2>1. PICK c \in Alpha \cup Signs : x = Literal(<<c>>)
      BY <1>7
    <2>2. x.kind = "text" /\ x.name = <<c>> /\ Len(w) = 1 /\ w[1] = c /\ c # "%"
      BY <2>1, TextToken DEF w
    <2>3. ~InText(ts, k)
      <3>1. k > 0 => k \in 1 .. Len(ts) - 1
        BY <1>4
      <3> QED BY <2>2, <3>1 DEF InText, Separate
    <2>4. s.text = <<>> /\ s.vec = SubSeq(ts, 1, k)
      BY <2>3 DEF ReadUpto
    <2>5. r = [s EXCEPT !.text = Append(@, c), !.i = @ + 1]
      BY <1>3, <1>6, <2>2 DEF Step, r, i
    <2>6. r = [i |-> s.i + 1, text |-> Append(s.text, c), vec |-> s.vec, error |-> s.error]
      BY <1>1, <2>5
    <2>7. r.i = i + 1 /\ r.text = Append(<<>>, c) /\ r.vec = SubSeq(ts, 1, (k + 1) - 1) /\ r.error = s.error
      BY <1>4, <2>4, <2>6 DEF i
    <2>8. Append(<<>>, c) = <<c>>
      OBVIOUS
    <2>9. InText(ts, k + 1)
      BY <1>4, <2>2 DEF InText
    <2>10. r.i = Len(WrittenUpto(ts)[k + 1]) + 1
      BY <1>3, <2>2, <2>7
    <2>11. r.text = x.name
      BY <2>2, <2>7, <2>8
    <2> QED BY <1>2, <2>7, <2>9, <2>10, <2>11 DEF ReadUpto, r, p
  <1>8. CASE \E n \in Registered, f \in Formats :
               x = Item(n, f) /\ n \in Seq(Alpha) /\ n # <<>> /\ n \in Seq(Chars) /\ f \in Seq(Inner) /\ f \in Seq(Chars)
    <2>1. PICK n \in Registered, f \in Formats :
            x = Item(n, f) /\ n \in Seq(Alpha) /\ n # <<>> /\ n \in Seq(Chars) /\ f \in Seq(Inner) /\ f \in Seq(Chars)
      BY <1>8
    <2>2. Len(w) >= 2 /\ w[1] = "%" /\ w[2] # "%"
      BY <2>1, ItemToken DEF w
    <2>3. p[i] = "%"
      BY <1>3, <2>2
    <2>4. i + Len(w) <= Len(p) + 1 /\ \A j \in 1 .. Len(w) : p[i + j - 1] = w[j]
      BY <1>3 DEF Stands
    <2>5. p[i + 1] # "%"
      <3>1. 2 \in 1 .. Len(w) /\ i + 2 - 1 = i + 1
        <4>1. Len(w) >= 2
          BY <2>2
        <4>2. i \in 1 .. Len(p)
          BY <1>3
        <4> QED BY <1>6, <4>1, <4>2
      <3>2. p[i + 1] = w[2]
        BY <2>4, <3>1
      <3> QED BY <2>2, <3>2
    <2>6. Directive(p, i) = [item |-> x, next |-> i + Len(w)]
      <3>1. f = <<>> => i + 1 + Len(n) = Len(p) + 1 \/ p[i + 1 + Len(n)] \in NextStops
        BY <1>2, <2>1, NameEnds DEF p
      <3>2. Stands(p, i, Written(Item(n, f)))
        BY <1>3, <2>1 DEF w
      <3>3. Directive(p, i) = [item |-> Item(n, f), next |-> i + Len(Written(Item(n, f)))]
        BY <1>3, <2>1, <3>1, <3>2, ReadsItem
      <3> QED BY <2>1, <3>3 DEF w
    <2>7. x.kind = "item" /\ x # PatternError
      BY <2>1 DEF Item, PatternError
    <2>8. r = [s EXCEPT !.vec = Append(Flushed(s), x), !.text = <<>>, !.i = i + Len(w)]
      <3> DEFINE d == Directive(p, i)
      <3>1. d.item = x /\ d.next = i + Len(w)
        BY <2>6
      <3> HIDE DEF d
      <3>2. r = [s EXCEPT !.vec = Append(Flushed(s), d.item), !.text = <<>>, !.i = d.next]
        BY <1>6, <2>3, <2>5, <2>7, <3>1 DEF Step, r, i, d
      <3> QED BY <3>1, <3>2
    <2>9. r = [i |-> i + Len(w), text |-> <<>>, vec |-> Append(Flushed(s), x), error |-> s.error]
      BY <1>1, <2>8
    <2>10. Flushed(s) = SubSeq(ts, 1, k)
      <3>1. k \in 0 .. Len(ts)
        BY <1>4
      <3> QED BY <3>1, FlushedReads
    <2>11. Append(SubSeq(ts, 1, k), x) = SubSeq(ts, 1, k + 1)
      <3>1. ts \in Seq(T)
        OBVIOUS
      <3> HIDE DEF T
      <3> QED BY <3>1, OneMore
    <2>12. ~InText(ts, k + 1)
      BY <2>7 DEF InText
    <2>13. r.i = Len(WrittenUpto(ts)[k + 1]) + 1 /\ r.text = <<>> /\ r.vec = SubSeq(ts, 1, k + 1) /\ r.error = s.error
      BY <1>3, <2>9, <2>10, <2>11
    <2> QED BY <1>2, <2>12, <2>13 DEF ReadUpto, r, p
  <1> QED BY <1>5, <1>7, <1>8, TokenIs

\* Tokens that are apart, however many there are, are read as they are.
THEOREM TokensRead ==
  ASSUME NEW ts \in Seq(Tokens), Separate(ts)
  PROVE  Parse(WrittenAll(ts)).items = ts /\ ~isError(WrittenAll(ts))
  <1> DEFINE p == WrittenAll(ts)
             n == Len(ts)
             m == Len(p)
             g == ParseUpto(p)
             W == WrittenUpto(ts)
             A == {k \in 0 .. n : k <= Len(W[k]) /\ k <= m /\ ReadUpto(ts, k, g[k])}
             T == Tokens
             start == [i |-> 1, text |-> <<>>, vec |-> <<>>, error |-> FALSE]
  <1>1. ts \in Seq(Parts) /\ ts \in Seq(T)
    <2>1. T \subseteq Parts
      BY TokenIs
    <2>2. ts \in Seq(T)
      OBVIOUS
    <2> HIDE DEF T
    <2> QED BY <2>1, <2>2, SeqMonotonic, Zenon
  <1>2. p \in Seq(Chars) /\ p = W[n] /\ W[0] = <<>>
    BY <1>1, WrittenAllType, WrittenLoop
  <1>3. n \in Nat /\ m \in Nat
    <2>1. p \in Seq(Chars)
      BY <1>2
    <2> HIDE DEF p
    <2> QED BY <2>1
  <1>4. /\ g \in [0 .. m -> ParseStates(p)] /\ g[0] = start
        /\ \A k \in 1 .. m : g[k] = Step(p, g[k - 1])
        /\ Parse(p).items = Flushed(g[m])
        /\ Parse(p).m_error = (g[m].error \/ \E k \in DOMAIN Parse(p).items : Unknown(Parse(p).items[k]))
    BY <1>2, ParseLoop
  <1> HIDE DEF g, T
  <1>5. 0 \in A
    <2>1. Len(W[0]) = 0
      BY <1>2
    <2>2. SubSeq(ts, 1, 0) = <<>>
      BY <1>1
    <2>3. ~InText(ts, 0)
      BY DEF InText
    <2>4. ReadUpto(ts, 0, start)
      BY <2>1, <2>2, <2>3 DEF ReadUpto
    <2> HIDE DEF p, W, start
    <2>5. 0 \in 0 .. n /\ 0 <= m /\ 0 <= Len(W[0])
      BY <1>3, <2>1
    <2> QED BY <1>4, <2>4, <2>5
  <1>6. ASSUME NEW k \in 0 .. n - 1, k \in A PROVE k + 1 \in A
    <2> DEFINE i == Len(W[k]) + 1
               w == Written(ts[k + 1])
    <2>1. /\ w \in Seq(Chars) /\ Len(w) >= 1 /\ i \in 1 .. m
          /\ i + Len(w) = Len(W[k + 1]) + 1
      BY TokenStands
    <2>2. k <= Len(W[k]) /\ k <= m /\ ReadUpto(ts, k, g[k])
      BY <1>6
    <2>3. Len(w) \in Nat
      BY <2>1
    <2> DEFINE a == Len(W[k])
               c == Len(W[k + 1])
               l == Len(w)
    <2>4. a + 1 \in 1 .. m /\ (a + 1) + l = c + 1 /\ l >= 1 /\ l \in Nat /\ k <= a
      BY <2>1, <2>2, <2>3
    <2> HIDE DEF a, c, l, m
    <2>5. a \in Int /\ c \in Int
      <3>1. WrittenUpto(ts) \in [0 .. n -> Seq(Chars)]
        BY <1>1, WrittenLoop
      <3> DEFINE C == Chars
      <3>2. W \in [0 .. n -> Seq(C)]
        BY <3>1
      <3> HIDE DEF W, C
      <3>3. k \in 0 .. n /\ k + 1 \in 0 .. n
        BY <1>3
      <3>4. W[k] \in Seq(C) /\ W[k + 1] \in Seq(C)
        BY <3>2, <3>3
      <3>5. Len(W[k]) \in Nat /\ Len(W[k + 1]) \in Nat
        BY <3>4
      <3> QED BY <3>5 DEF a, c
    <2>6. k + 1 <= c /\ k + 1 <= m /\ k \in 0 .. m /\ k + 1 \in 1 .. m /\ (k + 1) - 1 = k /\ k + 1 \in 0 .. n
      BY <1>3, <2>4, <2>5
    <2> HIDE DEF p
    <2>7. g[k + 1] = Step(p, g[k])
      <3>1. g[k + 1] = Step(p, g[(k + 1) - 1])
        BY <1>4, <2>6 DEF m
      <3> QED BY <2>6, <3>1
    <2>8. g[k] \in ParseStates(p)
      BY <1>4, <2>6 DEF m
    <2>9. ReadUpto(ts, k + 1, g[k + 1])
      BY <2>2, <2>7, <2>8, StepReads DEF p
    <2> QED BY <2>6, <2>9 DEF c, m
  <1>7. n \in A
    <2>1. \A k \in 0 .. n - 1 : k \in A => k + 1 \in A
      BY <1>6
    <2>2. \A k \in 0 .. n : k \in A
      <3> HIDE DEF A, n
      <3> QED BY <1>3, <1>5, <2>1, Climb, Zenon
    <2> QED BY <1>3, <2>2
  <1> DEFINE s == g[n]
  <1>8. ReadUpto(ts, n, s) /\ n <= m
    BY <1>7
  <1>9. s.i = m + 1 /\ ~s.error
    BY <1>2, <1>8 DEF ReadUpto
  <1> DEFINE q == m - n
             B == {d \in 0 .. q : g[n + d] = s}
  <1>10. g[m] = s
    <2> HIDE DEF p, m, n
    <2>0. q \in Nat
      BY <1>3, <1>8
    <2>1. 0 \in B
      <3>1. n + 0 = n /\ 0 \in 0 .. q
        BY <1>3, <2>0
      <3> QED BY <3>1
    <2>2. ASSUME NEW d \in 0 .. q - 1, d \in B PROVE d + 1 \in B
      <3>1. n + (d + 1) \in 1 .. m /\ (n + (d + 1)) - 1 = n + d /\ d + 1 \in 0 .. q
        BY <1>3, <2>0
      <3>2. g[n + (d + 1)] = Step(p, g[(n + (d + 1)) - 1])
        BY <1>4, <3>1
      <3>3. g[n + d] = s
        BY <2>2
      <3>4. Step(p, s) = s
        <4>1. s.i > m
          BY <1>3, <1>9
        <4> HIDE DEF s
        <4> QED BY <4>1 DEF Step, m
      <3>5. g[n + (d + 1)] = s
        BY <3>1, <3>2, <3>3, <3>4
      <3> QED BY <3>1, <3>5
    <2>3. \A d \in 0 .. q - 1 : d \in B => d + 1 \in B
      BY <2>2
    <2>4. \A d \in 0 .. q : d \in B
      <3> HIDE DEF B, q
      <3> QED BY <2>0, <2>1, <2>3, Climb, Zenon
    <2>5. q \in 0 .. q /\ n + q = m
      BY <1>3, <2>0
    <2>6. g[n + q] = s
      BY <2>4, <2>5
    <2> QED BY <2>5, <2>6
  <1>11. Flushed(s) = SubSeq(ts, 1, n)
    <2>1. n \in 0 .. Len(ts)
      BY <1>3
    <2> QED BY <1>8, <2>1, FlushedReads
  <1>12. SubSeq(ts, 1, n) = ts
    BY <1>1
  <1>13. Parse(p).items = ts
    BY <1>4, <1>10, <1>11, <1>12
  <1>14. ASSUME NEW k \in DOMAIN ts PROVE ~Unknown(ts[k])
    <2>1. ts[k] \in T
      <3>1. k \in 1 .. Len(ts)
        BY <1>1
      <3> QED BY <1>1, <3>1
    <2>2. CASE \E c \in Alpha \cup Signs : ts[k] = Literal(<<c>>)
      BY <2>2 DEF Unknown, Literal
    <2>3. CASE \E u \in Registered, f \in Formats : ts[k] = Item(u, f)
      BY <2>3 DEF Unknown, Item
    <2>4. (\E c \in Alpha \cup Signs : ts[k] = Literal(<<c>>)) \/ \E u \in Registered, f \in Formats : ts[k] = Item(u, f)
      BY <2>1, TokenIs DEF T
    <2> QED BY <2>2, <2>3, <2>4
  <1>15. ~Parse(p).m_error
    <2> HIDE DEF p, m, s
    <2> QED BY <1>4, <1>9, <1>10, <1>13, <1>14
  <1> QED BY <1>13, <1>15 DEF isError

\* So Grammar holds.
LEMMA GrammarHolds == Grammar
  <1>1. ASSUME NEW n \in 0 .. 3, NEW ts \in [1 .. n -> Tokens], Separate(ts)
        PROVE  Parse(WrittenAll(ts)).items = ts /\ ~isError(WrittenAll(ts))
    <2>1. ts \in Seq(Tokens)
      <3> DEFINE T == Tokens
      <3>1. ts \in [1 .. n -> T] /\ 3 \in Nat
        OBVIOUS
      <3> HIDE DEF T
      <3>2. ts \in Seq(T)
        BY <3>1, BoundedSeq
      <3> QED BY <3>2 DEF T
    <2> QED BY <1>1, <2>1, TokensRead
  <1>2. \A ts \in UNION {[1 .. n -> Tokens] : n \in 0 .. 3} :
          Separate(ts) => Parse(WrittenAll(ts)).items = ts /\ ~isError(WrittenAll(ts))
    BY <1>1
  <1> QED BY <1>2 DEF Grammar

\* For any alphabet, names and patterns: an accepted pattern of any length bound says what its items say, and
\* what the grammar of the comment says is read as it is (log.cpp:291-438).
THEOREM PatternsHoldAlways == Spec => []PatternsHold
  <1>1. TypeOK => PatternsHold
    BY PatternKeptHolds, GrammarHolds DEF PatternsHold
  <1> QED BY <1>1, TypeCorrect, PTL
=============================================================================
