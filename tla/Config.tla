-------------------------------- MODULE Config --------------------------------
(***************************************************************************)
(* The configuration of sylar/config.{h,cpp}: variables that are looked up  *)
(* by name, their listeners and the read-write lock of each, setValue, and *)
(* LoadFromConfDir, which reads a file again when its time has changed.     *)
(*                                                                         *)
(* Any thread may be in any call.  A step is a critical section, or what   *)
(* happens between two accesses to memory that no common lock protects.    *)
(* Callbacks return without calling back into the variable.  Calls that    *)
(* only read (getValue, toString, getListener, Visit) change nothing.      *)
(***************************************************************************)
EXTENDS Integers

CONSTANTS Threads,
          Loaders,    \* the threads that call LoadFromConfDir
          Names,      \* names that Lookup accepts
          TypeOf,     \* [Names -> type]: s_fun_id exists once per type
          Listeners,  \* callbacks
          Values, Default,
          Bad,        \* a text that FromStr throws at
          Contents,   \* what the file may hold: sets of <<name, value or Bad>>
          Broken,     \* a file that YAML::LoadFile throws at
          MaxCalls,   \* bound on the calls of the threads
          MaxEdits,   \* bound on the edits of the file
          None

ASSUME ConfigAssumption ==
  /\ Loaders \subseteq Threads /\ Default \in Values /\ Bad \notin Values
  /\ MaxCalls \in Nat /\ MaxEdits \in Nat /\ None \notin Threads \cup Listeners \cup Names
  /\ \A c \in Contents \ {Broken} : \A i \in c : i[2] \in Values \cup {Bad}

VARIABLES
  m_datas,                       \* Config: the names registered
  m_val, m_cbs,                  \* ConfigVar: value; callbacks, as pairs <<key, listener>>
  readers, writer,               \* m_mutex of a ConfigVar
  s_fun_id,                      \* the counter of addListener, one for a type
  content, mtime,                \* the file
  s_file2modifytime,             \* the time of the file that is loaded
  pc, name, arg,                 \* a thread: control, the variable and value or listener
  st, todo, left, tmp,           \* st_mtime; what is still to set, to call; ++s_fun_id
  calls,
  key,                           \* what addListener returned for a listener
  where,                         \* history: the variable a listener was added to
  raced,                         \* history: types in whose counter two threads were at once
  touched,                       \* history: names registered or set by the program since a load
  lapped                         \* history: another load was under way during the last one

varVars    == <<m_val, m_cbs, readers, writer, s_fun_id>>
fileVars   == <<content, mtime>>
threadVars == <<pc, name, arg, st, todo, left, tmp>>
keyVars    == <<key, where>>
ghostVars  == <<raced, touched, lapped>>
vars == <<m_datas, varVars, fileVars, s_file2modifytime, threadVars, calls, keyVars, ghostVars>>

Pairs == Nat \X Listeners

Members == UNION (Contents \ {Broken})

VarTypeOK ==
  /\ m_datas \subseteq Names
  /\ m_val \in [Names -> Values] /\ m_cbs \in [Names -> SUBSET Pairs]
  /\ readers \in [Names -> SUBSET Threads] /\ writer \in [Names -> Threads \cup {None}]
  /\ s_fun_id \in [{TypeOf[n] : n \in Names} -> Nat]

FileTypeOK ==
  /\ content \in Contents /\ mtime \in 1 .. MaxEdits + 1
  /\ s_file2modifytime \in 0 .. mtime /\ st \in [Threads -> 0 .. mtime]

ThreadTypeOK ==
  /\ pc \in [Threads -> {"idle", "stat", "parse", "apply", "set", "notify", "write",
                         "count", "insert", "return"}]
  /\ name \in [Threads -> Names \cup {None}]
  /\ arg \in [Threads -> Values \cup Listeners \cup {None}]
  /\ todo \in [Threads -> SUBSET Members] /\ left \in [Threads -> SUBSET Pairs]
  /\ tmp \in [Threads -> Nat] /\ calls \in 0 .. MaxCalls

KeyTypeOK == key \in [Listeners -> Nat] /\ where \in [Listeners -> Names \cup {None}]

GhostTypeOK ==
  raced \subseteq {TypeOf[n] : n \in Names} /\ touched \subseteq m_datas /\ lapped \in BOOLEAN

TypeOK == VarTypeOK /\ FileTypeOK /\ ThreadTypeOK /\ KeyTypeOK /\ GhostTypeOK

Init ==
  /\ m_datas = {} /\ m_val = [n \in Names |-> Default]
  /\ m_cbs = [n \in Names |-> {}]
  /\ readers = [n \in Names |-> {}] /\ writer = [n \in Names |-> None]
  /\ s_fun_id = [t \in {TypeOf[n] : n \in Names} |-> 0]
  /\ content \in Contents /\ mtime = 1 /\ s_file2modifytime = 0
  /\ pc = [t \in Threads |-> "idle"] /\ name = [t \in Threads |-> None]
  /\ arg = [t \in Threads |-> None] /\ st = [t \in Threads |-> 0]
  /\ todo = [t \in Threads |-> {}] /\ left = [t \in Threads |-> {}]
  /\ tmp = [t \in Threads |-> 0] /\ calls = 0
  /\ key = [l \in Listeners |-> 0] /\ where = [l \in Listeners |-> None]
  /\ raced = {} /\ touched = {} /\ lapped = FALSE

-----------------------------------------------------------------------------
MayCall(t) == pc[t] = "idle" /\ calls < MaxCalls /\ calls' = calls + 1
Goto(t, here) == pc' = [pc EXCEPT ![t] = here]

\* A call on variable n begins, or ends: a loader goes on with its file.
Enter(t, here, n, x) == /\ Goto(t, here)
                        /\ name' = [name EXCEPT ![t] = n]
                        /\ arg' = [arg EXCEPT ![t] = x]
Leave(t) == Enter(t, IF todo[t] = {} THEN "idle" ELSE "apply", None, None)

\* Lookup: find or create, under the lock of the registry.
Lookup(t, n) ==
  /\ MayCall(t)
  /\ m_datas' = m_datas \cup {n}
  /\ touched' = IF n \in m_datas THEN touched ELSE touched \cup {n}
  /\ UNCHANGED <<varVars, fileVars, s_file2modifytime, threadVars, keyVars, raced, lapped>>

\* The program gives a variable a value.
SetValue(t, n, v) ==
  /\ MayCall(t) /\ n \in m_datas
  /\ Enter(t, "set", n, v)
  /\ UNCHANGED <<m_datas, varVars, fileVars, s_file2modifytime, st, todo, left, tmp, keyVars, ghostVars>>

-----------------------------------------------------------------------------
(* setValue: compare and notify under the read lock, write under the write lock. *)

Compare(t) ==
  LET n == name[t] IN
  /\ pc[t] = "set" /\ writer[n] = None
  /\ IF arg[t] = m_val[n]
     THEN Leave(t) /\ UNCHANGED <<readers, left>>
     ELSE /\ readers' = [readers EXCEPT ![n] = @ \cup {t}]
          /\ left' = [left EXCEPT ![t] = m_cbs[n]]
          /\ Goto(t, "notify")
          /\ UNCHANGED <<name, arg>>
  /\ UNCHANGED <<m_datas, m_val, m_cbs, writer, s_fun_id, fileVars, s_file2modifytime, st, todo, tmp,
                 calls, keyVars, ghostVars>>

\* The callbacks run in the order of their keys.
Notify(t) ==
  \E c \in left[t] :
    /\ pc[t] = "notify"
    /\ \A d \in left[t] : c[1] <= d[1]
    /\ left' = [left EXCEPT ![t] = @ \ {c}]
    /\ UNCHANGED <<m_datas, varVars, fileVars, s_file2modifytime, pc, name, arg, st, todo, tmp, calls,
                   keyVars, ghostVars>>

\* Mutated form of Released: the scope of the read lock is the whole function.
KeptLocked(t, rs) == rs
Released(t, rs) == rs \ {t}

\* Mutated form of MayChange: addListener, delListener and setValue take the read lock.
MayChangeShared(n) == writer[n] = None
\* The write lock is free.
MayChange(n) == readers[n] = {} /\ writer[n] = None

Notified(t) ==
  /\ pc[t] = "notify" /\ left[t] = {}
  /\ readers' = [readers EXCEPT ![name[t]] = Released(t, @)]
  /\ Goto(t, "write")
  /\ UNCHANGED <<m_datas, m_val, m_cbs, writer, s_fun_id, fileVars, s_file2modifytime, name, arg, st,
                 todo, left, tmp, calls, keyVars, ghostVars>>

Write(t) ==
  /\ pc[t] = "write" /\ MayChange(name[t])
  /\ m_val' = [m_val EXCEPT ![name[t]] = arg[t]]
  /\ touched' = IF t \in Loaders THEN touched ELSE touched \cup {name[t]}
  /\ Leave(t)
  /\ UNCHANGED <<m_datas, m_cbs, readers, writer, s_fun_id, fileVars, s_file2modifytime, st, todo, left,
                 tmp, calls, keyVars, raced, lapped>>

-----------------------------------------------------------------------------
(* Listeners.  The counter belongs to the type, the lock to the variable: built without   *)
(* optimisation, ++s_fun_id, m_cbs[s_fun_id] and the return each read the counter again. *)

\* Mutated form of NextKey: the counter stays.
NextKeySame(n) == s_fun_id[TypeOf[n]]
NextKey(n) == s_fun_id[TypeOf[n]] + 1

\* Another thread is in addListener of a variable of the same type.
Counting(n) == \E u \in Threads : pc[u] \in {"count", "insert", "return"} /\ TypeOf[name[u]] = TypeOf[n]

AddListener(t, n, l) ==
  /\ MayCall(t) /\ n \in m_datas /\ where[l] = None
  /\ \A u \in Threads : arg[u] # l
  /\ MayChange(n)
  /\ writer' = [writer EXCEPT ![n] = t]
  /\ tmp' = [tmp EXCEPT ![t] = NextKey(n)]
  /\ Enter(t, "count", n, l)
  /\ raced' = IF Counting(n) THEN raced \cup {TypeOf[n]} ELSE raced
  /\ UNCHANGED <<m_datas, m_val, m_cbs, readers, s_fun_id, fileVars, s_file2modifytime, st, todo, left,
                 keyVars, touched, lapped>>

AddCount(t) ==
  /\ pc[t] = "count"
  /\ s_fun_id' = [s_fun_id EXCEPT ![TypeOf[name[t]]] = tmp[t]]
  /\ Goto(t, "insert")
  /\ UNCHANGED <<m_datas, m_val, m_cbs, readers, writer, fileVars, s_file2modifytime, name, arg, st, todo,
                 left, tmp, calls, keyVars, ghostVars>>

AddInsert(t) ==
  LET n == name[t]
      k == s_fun_id[TypeOf[n]]
  IN
  /\ pc[t] = "insert"
  /\ m_cbs' = [m_cbs EXCEPT ![n] = {c \in @ : c[1] # k} \cup {<<k, arg[t]>>}]
  /\ Goto(t, "return")
  /\ UNCHANGED <<m_datas, m_val, readers, writer, s_fun_id, fileVars, s_file2modifytime, name, arg, st,
                 todo, left, tmp, calls, keyVars, ghostVars>>

AddReturn(t) ==
  /\ pc[t] = "return"
  /\ key' = [key EXCEPT ![arg[t]] = s_fun_id[TypeOf[name[t]]]]
  /\ where' = [where EXCEPT ![arg[t]] = name[t]]
  /\ writer' = [writer EXCEPT ![name[t]] = None]
  /\ tmp' = [tmp EXCEPT ![t] = 0]
  /\ Leave(t)
  /\ UNCHANGED <<m_datas, m_val, m_cbs, readers, s_fun_id, fileVars, s_file2modifytime, st, todo, left,
                 calls, ghostVars>>

\* delListener, with the key that addListener returned.
DelListener(t, l) ==
  LET n == where[l] IN
  /\ MayCall(t) /\ n # None /\ MayChange(n)
  /\ m_cbs' = [m_cbs EXCEPT ![n] = {c \in @ : c[1] # key[l]}]
  /\ key' = [key EXCEPT ![l] = 0] /\ where' = [where EXCEPT ![l] = None]
  /\ UNCHANGED <<m_datas, m_val, readers, writer, s_fun_id, fileVars, s_file2modifytime, threadVars,
                 ghostVars>>

ClearListener(t, n) ==
  /\ MayCall(t) /\ n \in m_datas /\ MayChange(n)
  /\ m_cbs' = [m_cbs EXCEPT ![n] = {}]
  /\ key' = [l \in Listeners |-> IF where[l] = n THEN 0 ELSE key[l]]
  /\ where' = [l \in Listeners |-> IF where[l] = n THEN None ELSE where[l]]
  /\ UNCHANGED <<m_datas, m_val, readers, writer, s_fun_id, fileVars, s_file2modifytime, threadVars,
                 ghostVars>>

-----------------------------------------------------------------------------
(* LoadFromConfDir, of a directory with one file. *)

\* A loader is in LoadFromConfDir, or in the setValue of a member.
Loading(t) == t \in Loaders /\ pc[t] \in {"stat", "parse", "apply", "set", "notify", "write"}
OtherLoading(t) == \E u \in Threads \ {t} : Loading(u)

\* lstat, before the lock.
Stat(t) ==
  /\ t \in Loaders /\ MayCall(t)
  /\ st' = [st EXCEPT ![t] = mtime]
  /\ Goto(t, "stat")
  /\ lapped' = (lapped \/ OtherLoading(t))
  /\ UNCHANGED <<m_datas, varVars, fileVars, s_file2modifytime, name, arg, todo, left, tmp, keyVars,
                 raced, touched>>

\* The time is recorded before the file is read.
RecordTime(t, force) ==
  /\ pc[t] = "stat"
  /\ IF ~force /\ s_file2modifytime = st[t]
     THEN Goto(t, "idle") /\ UNCHANGED s_file2modifytime
     ELSE Goto(t, "parse") /\ s_file2modifytime' = st[t]
  /\ st' = [st EXCEPT ![t] = 0]
  /\ UNCHANGED <<m_datas, varVars, fileVars, name, arg, todo, left, tmp, calls, keyVars, ghostVars>>

\* The members of the document.
AllMembers == IF content = Broken THEN {} ELSE content

\* LoadFile, and the list of all members; what LoadFile throws is caught.
Parse(t) ==
  /\ pc[t] = "parse"
  /\ todo' = [todo EXCEPT ![t] = AllMembers]
  /\ touched' = {} /\ lapped' = OtherLoading(t)
  /\ Goto(t, IF AllMembers = {} THEN "idle" ELSE "apply")
  /\ UNCHANGED <<m_datas, varVars, fileVars, s_file2modifytime, name, arg, st, left, tmp, calls, keyVars,
                 raced>>

\* Mutated form of AfterThrow: the exception of one member ends the load.
AfterThrowNone(rest) == {}
AfterThrow(rest) == rest

\* A member: a name that nobody looked up is passed over, so is a text that does not convert.
Apply(t) ==
  \E i \in todo[t] :
    LET rest == IF i[1] \in m_datas /\ i[2] = Bad THEN AfterThrow(todo[t] \ {i}) ELSE todo[t] \ {i} IN
    /\ pc[t] = "apply"
    /\ todo' = [todo EXCEPT ![t] = rest]
    /\ IF i[1] \in m_datas /\ i[2] # Bad
       THEN Enter(t, "set", i[1], i[2])
       ELSE Goto(t, IF rest = {} THEN "idle" ELSE "apply") /\ UNCHANGED <<name, arg>>
    /\ UNCHANGED <<m_datas, varVars, fileVars, s_file2modifytime, st, left, tmp, calls, keyVars, ghostVars>>

\* Somebody saves the file; no two edits have the same time.
Edit(c) ==
  /\ mtime <= MaxEdits
  /\ content' = c /\ mtime' = mtime + 1
  /\ UNCHANGED <<m_datas, varVars, s_file2modifytime, threadVars, calls, keyVars, ghostVars>>

-----------------------------------------------------------------------------
\* What a thread does once its call has begun.
Proceed(t) == \/ Compare(t) \/ Notify(t) \/ Notified(t) \/ Write(t)
              \/ AddCount(t) \/ AddInsert(t) \/ AddReturn(t)
              \/ \E force \in BOOLEAN : RecordTime(t, force)
              \/ Parse(t) \/ Apply(t)

Begin(t) == \/ \E n \in Names : Lookup(t, n) \/ ClearListener(t, n)
            \/ \E n \in Names, v \in Values : t \notin Loaders /\ SetValue(t, n, v)
            \/ \E n \in Names, l \in Listeners : AddListener(t, n, l)
            \/ \E l \in Listeners : DelListener(t, l)
            \/ Stat(t)

Next == \/ \E t \in Threads : Begin(t) \/ Proceed(t)
        \/ \E c \in Contents : Edit(c)

Spec == Init /\ [][Next]_vars

\* Threads run; a lock that is free for good is taken.
FairSpec == Spec /\ \A t \in Threads : WF_vars(Proceed(t))

-----------------------------------------------------------------------------
(* Properties. *)

\* The callbacks that a setValue is about to run are registered: once delListener has returned,
\* the callback does not run again, and what it refers to may be freed.  setValue keeps the read
\* lock while it notifies (config.h:431-440) and delListener needs the write lock (config.h:470).
CalledIsRegistered == \A t \in Threads : left[t] \subseteq UNION {m_cbs[n] : n \in Names}

\* Outside addListener, m_cbs holds exactly the callbacks that their owners believe registered,
\* each under the key its owner was given (config.h:455-462): no callback replaces another, and
\* none is out of reach of delListener. Any number of variables may share a counter: what it does
\* not survive is two threads that are in addListener of the same type at once.
KeysHold == \A n \in Names : writer[n] = None /\ TypeOf[n] \notin raced =>
              m_cbs[n] = {<<key[l], l>> : l \in {k \in Listeners : where[k] = n}}

\* When LoadFromConfDir has returned and found the file as it is now, a variable has the value of
\* the file, unless the program registered or set it since the load.  The time is recorded before
\* the file is read (config.cpp:77-87), so an edit in between is seen by the next load, and a
\* member that does not convert keeps no other from its value (config.h:400-414).  Any thread may
\* have loaded before: only loads at the same time may leave older values, until the next one.
FileWins ==
  (\A t \in Loaders : ~Loading(t)) /\ ~lapped /\ s_file2modifytime = mtime /\ content # Broken
  => \A i \in content : i[1] \in m_datas \ touched /\ i[2] # Bad => m_val[i[1]] = i[2]

\* Every call returns: no thread waits for a lock for ever (config.h:429-444).
CallsReturn == \A t \in Threads : pc[t] # "idle" ~> pc[t] = "idle"
=============================================================================
