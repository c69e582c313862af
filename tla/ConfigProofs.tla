----------------------------- MODULE ConfigProofs -----------------------------
(***************************************************************************)
(* Config's safety properties for any number of threads, variables,        *)
(* listeners, calls and edits of the file.                                 *)
(***************************************************************************)
EXTENDS Config, TLAPS

Adding  == {"count", "insert", "return"}
Setting == {"set", "notify", "write"}

(***************************************************************************)
(* The inductive invariants.  Exclusion is what the read-write locks give; *)
(* Keys and Loaded rest on it.                                             *)
(***************************************************************************)
\* A writer is alone; who notifies is a reader and calls what is registered.
Exclusion ==
  /\ \A n \in Names : writer[n] # None =>
       readers[n] = {} /\ pc[writer[n]] \in Adding /\ name[writer[n]] = n
  /\ \A t \in Threads :
       /\ pc[t] \in Setting => name[t] \in m_datas /\ arg[t] \in Values
       /\ pc[t] \in Adding => name[t] \in Names /\ arg[t] \in Listeners /\ writer[name[t]] = t
       /\ pc[t] = "notify" => t \in readers[name[t]] /\ left[t] \subseteq m_cbs[name[t]]
       /\ pc[t] # "notify" => left[t] = {}

IInv == TypeOK /\ Exclusion

\* The callbacks that their owners believe registered.
Registered(n) == {<<key[l], l>> : l \in {k \in Listeners : where[k] = n}}

Inserted(n) == writer[n] # None /\ pc[writer[n]] = "return"

\* No two threads have been in addListener of the type of n at once.
Orderly(n) == TypeOf[n] \notin raced

\* Nor are they now: who counts has the counter of the type to itself.
CountsAlone ==
  \A t, u \in Threads : /\ pc[t] \in Adding /\ pc[u] \in Adding /\ TypeOf[name[t]] = TypeOf[name[u]]
                        /\ Orderly(name[t])
                        => t = u

\* The counter of a type is ahead of the keys of its variables.
Ahead ==
  /\ \A l \in Listeners : where[l] # None /\ Orderly(where[l]) => key[l] <= s_fun_id[TypeOf[where[l]]]
  /\ \A t \in Threads : Orderly(name[t]) =>
       /\ pc[t] = "count" => tmp[t] = s_fun_id[TypeOf[name[t]]] + 1
       /\ pc[t] \in {"insert", "return"} =>
            \A l \in Listeners : where[l] = name[t] => key[l] < s_fun_id[TypeOf[name[t]]]

\* No two listeners of a variable have one key.
Distinct == \A l, m \in Listeners :
              where[l] # None /\ Orderly(where[l]) /\ where[l] = where[m] /\ key[l] = key[m] => l = m

\* A listener is added once, by one thread.
AddedOnce ==
  /\ \A t \in Threads : pc[t] \in Adding => where[arg[t]] = None
  /\ \A t, u \in Threads : pc[t] \in Adding /\ pc[u] \in Adding /\ arg[t] = arg[u] => t = u

\* m_cbs is behind what its owners believe by what addListener is about to return.
Kept == \A n \in Names : Orderly(n) =>
          m_cbs[n] = IF Inserted(n) THEN Registered(n) \cup {<<s_fun_id[TypeOf[n]], arg[writer[n]]>>}
                                    ELSE Registered(n)

Keys == CountsAlone /\ Ahead /\ Distinct /\ AddedOnce /\ Kept

\* Only loaders load, what is left to set is left while members are set, and while no load has lapped
\* another, nobody loads but one.
Loads ==
  /\ \A t \in Threads : /\ t \notin Loaders => pc[t] \notin {"stat", "parse", "apply"}
                        /\ (Loading(t) /\ pc[t] \notin {"stat", "parse"}) \/ todo[t] = {}
  /\ ~lapped => \A t, u \in Threads : Loading(t) /\ Loading(u) => t = u

\* The loader t is about to give i[1] the value i[2].
Underway(t, i) == i \in todo[t] \/ (pc[t] \in Setting /\ name[t] = i[1] /\ arg[t] = i[2])

\* The file is the one that was read last, by a load without another.
Current == /\ ~lapped /\ s_file2modifytime = mtime /\ content # Broken
           /\ \A t \in Threads : pc[t] # "parse"

\* While it is, a loader has set, or will set, what it says.
Loaded ==
  Current => /\ \A t \in Loaders : /\ todo[t] \subseteq content
                                   /\ pc[t] \in Setting => \E i \in content : name[t] = i[1] /\ arg[t] = i[2]
             /\ \A i \in content : i[1] \in m_datas \ touched /\ i[2] # Bad =>
                  (\E t \in Loaders : Underway(t, i)) \/ m_val[i[1]] = i[2]

-----------------------------------------------------------------------------
(* Types. *)

\* Every step keeps the types of the variables' state.
LEMMA VarTypes == ASSUME IInv, [Next]_vars PROVE VarTypeOK'
<1> USE DEF IInv, TypeOK, VarTypeOK, ThreadTypeOK
<1>1. ASSUME NEW t \in Threads, NEW n \in Names, Lookup(t, n) PROVE VarTypeOK'
  BY <1>1 DEF Lookup, varVars
<1>2. ASSUME NEW t \in Threads, Compare(t) \/ Notified(t) PROVE VarTypeOK'
  BY <1>2 DEF Compare, Notified, Released
<1>3. ASSUME NEW t \in Threads, Write(t) PROVE VarTypeOK'
  <2>1. arg[t] \in Values BY <1>3 DEF Write, Exclusion, Setting
  <2> QED BY <1>3, <2>1 DEF Write
<1>4. ASSUME NEW t \in Threads, NEW n \in Names, NEW l \in Listeners, AddListener(t, n, l) PROVE VarTypeOK'
  BY <1>4 DEF AddListener
<1>5. ASSUME NEW t \in Threads, AddCount(t) PROVE VarTypeOK'
  BY <1>5 DEF AddCount
<1>6. ASSUME NEW t \in Threads, AddInsert(t) PROVE VarTypeOK'
  <2>1. name[t] \in Names /\ arg[t] \in Listeners BY <1>6 DEF AddInsert, Exclusion, Adding
  <2>2. <<s_fun_id[TypeOf[name[t]]], arg[t]>> \in Pairs BY <2>1 DEF Pairs
  <2>3. UNCHANGED <<m_datas, m_val, readers, writer, s_fun_id>> BY <1>6 DEF AddInsert
  <2>4. m_cbs' \in [Names -> SUBSET Pairs] BY <1>6, <2>1, <2>2 DEF AddInsert
  <2> QED BY <2>3, <2>4
<1>7. ASSUME NEW t \in Threads, AddReturn(t) PROVE VarTypeOK'
  BY <1>7 DEF AddReturn
<1>8. ASSUME NEW t \in Threads, NEW l \in Listeners, DelListener(t, l) PROVE VarTypeOK'
  BY <1>8 DEF DelListener
<1>9. ASSUME NEW t \in Threads, NEW n \in Names, ClearListener(t, n) PROVE VarTypeOK'
  BY <1>9 DEF ClearListener
<1>10. ASSUME NEW t \in Threads, Parse(t) PROVE VarTypeOK'
  BY <1>10 DEF Parse, varVars
<1>11. ASSUME NEW t \in Threads, \/ Notify(t) \/ Stat(t) \/ Apply(t)
                                 \/ \E force \in BOOLEAN : RecordTime(t, force)
                                 \/ \E n \in Names, v \in Values : SetValue(t, n, v)
       PROVE  VarTypeOK'
  BY <1>11 DEF Notify, Stat, Apply, RecordTime, SetValue, varVars
<1>12. ASSUME NEW c \in Contents, Edit(c) PROVE VarTypeOK'
  BY <1>12 DEF Edit, varVars
<1>13. CASE UNCHANGED vars
  BY <1>13 DEF vars, varVars
<1> QED
  BY <1>1, <1>2, <1>3, <1>4, <1>5, <1>6, <1>7, <1>8, <1>9, <1>10, <1>11, <1>12, <1>13
     DEF Next, Begin, Proceed

\* Nobody's time is later than the file's.
LEMMA FileTypes == ASSUME IInv, [Next]_vars PROVE FileTypeOK'
<1> USE DEF IInv, TypeOK, FileTypeOK
<1>1. ASSUME NEW t \in Threads, Stat(t) PROVE FileTypeOK'
  BY <1>1 DEF Stat, fileVars
<1>2. ASSUME NEW t \in Threads, NEW force \in BOOLEAN, RecordTime(t, force) PROVE FileTypeOK'
  BY <1>2 DEF RecordTime, fileVars
<1>3. ASSUME NEW c \in Contents, Edit(c) PROVE FileTypeOK'
  BY <1>3, ConfigAssumption DEF Edit, threadVars
<1>4. ASSUME NEW t \in Threads, \/ Compare(t) \/ Notify(t) \/ Notified(t) \/ Write(t)
                                \/ AddCount(t) \/ AddInsert(t) \/ AddReturn(t) \/ Parse(t) \/ Apply(t)
      PROVE  FileTypeOK'
  BY <1>4 DEF Compare, Notify, Notified, Write, AddCount, AddInsert, AddReturn, Parse, Apply, fileVars
<1>5. ASSUME NEW t \in Threads, \/ \E n \in Names : Lookup(t, n) \/ ClearListener(t, n)
                                \/ \E n \in Names, v \in Values : SetValue(t, n, v)
                                \/ \E n \in Names, l \in Listeners : AddListener(t, n, l)
                                \/ \E l \in Listeners : DelListener(t, l)
      PROVE  FileTypeOK'
  BY <1>5 DEF Lookup, ClearListener, SetValue, AddListener, DelListener, fileVars, threadVars
<1>6. CASE UNCHANGED vars
  BY <1>6 DEF vars, fileVars, threadVars
<1> QED BY <1>1, <1>2, <1>3, <1>4, <1>5, <1>6 DEF Next, Begin, Proceed

\* Threads are where the code has them, with what their calls were given.
LEMMA ThreadTypes == ASSUME IInv, [Next]_vars PROVE ThreadTypeOK'
<1> USE DEF IInv, TypeOK, ThreadTypeOK, Goto, Enter, Leave
<1>1. ASSUME NEW t \in Threads, MayCall(t) PROVE calls' \in 0 .. MaxCalls
  BY <1>1, ConfigAssumption DEF MayCall
<1>2. ASSUME NEW t \in Threads, \/ \E n \in Names : Lookup(t, n) \/ ClearListener(t, n)
                                \/ \E l \in Listeners : DelListener(t, l)
      PROVE  ThreadTypeOK'
  BY <1>1, <1>2 DEF Lookup, ClearListener, DelListener, threadVars
<1>3. ASSUME NEW t \in Threads, NEW n \in Names, NEW v \in Values, SetValue(t, n, v) PROVE ThreadTypeOK'
  BY <1>1, <1>3 DEF SetValue
<1>4. ASSUME NEW t \in Threads, NEW n \in Names, NEW l \in Listeners, AddListener(t, n, l) PROVE ThreadTypeOK'
  BY <1>1, <1>4 DEF AddListener, NextKey, VarTypeOK
<1>5. ASSUME NEW t \in Threads, Stat(t) PROVE ThreadTypeOK'
  BY <1>1, <1>5 DEF Stat
<1>6. ASSUME NEW t \in Threads, Compare(t) PROVE ThreadTypeOK'
  <2>1. m_cbs[name[t]] \in SUBSET Pairs BY <1>6 DEF Compare, Exclusion, Setting, VarTypeOK
  <2>2. left' \in [Threads -> SUBSET Pairs] BY <1>6, <2>1 DEF Compare
  <2> QED BY <1>6, <2>2 DEF Compare
<1>7. ASSUME NEW t \in Threads, Notify(t) \/ Notified(t) PROVE ThreadTypeOK'
  BY <1>7 DEF Notify, Notified
<1>8. ASSUME NEW t \in Threads, Write(t) \/ AddCount(t) \/ AddInsert(t) PROVE ThreadTypeOK'
  BY <1>8 DEF Write, AddCount, AddInsert
<1>9. ASSUME NEW t \in Threads, AddReturn(t) PROVE ThreadTypeOK'
  BY <1>9 DEF AddReturn
<1>10. ASSUME NEW t \in Threads, NEW force \in BOOLEAN, RecordTime(t, force) PROVE ThreadTypeOK'
  BY <1>10 DEF RecordTime
<1>11. ASSUME NEW t \in Threads, Parse(t) PROVE ThreadTypeOK'
  <2>1. AllMembers \subseteq Members BY DEF AllMembers, Members, FileTypeOK
  <2> QED BY <1>11, <2>1 DEF Parse
<1>12. ASSUME NEW t \in Threads, Apply(t) PROVE ThreadTypeOK'
  <2>1. PICK i \in todo[t] : /\ todo' \in [Threads -> SUBSET Members]
                             /\ UNCHANGED <<left, tmp, calls>>
                             /\ \/ i[1] \in m_datas /\ i[2] # Bad /\ Enter(t, "set", i[1], i[2])
                                \/ /\ pc' \in [Threads -> {"idle", "stat", "parse", "apply", "set", "notify",
                                                           "write", "count", "insert", "return"}]
                                   /\ UNCHANGED <<name, arg>>
    BY <1>12 DEF Apply, AfterThrow
  <2>2. i[1] \in m_datas /\ i[2] # Bad => i[1] \in Names /\ i[2] \in Values
    BY <2>1, ConfigAssumption DEF VarTypeOK, Members
  <2> QED BY <2>1, <2>2
<1>13. CASE UNCHANGED vars \/ \E c \in Contents : Edit(c)
  BY <1>13 DEF vars, Edit, threadVars
<1> QED
  BY <1>2, <1>3, <1>4, <1>5, <1>6, <1>7, <1>8, <1>9, <1>10, <1>11, <1>12, <1>13 DEF Next, Begin, Proceed

\* Keys are numbers, and listeners belong to variables.
LEMMA KeyTypes == ASSUME IInv, [Next]_vars PROVE KeyTypeOK'
<1> USE DEF IInv, TypeOK, KeyTypeOK
<1>1. ASSUME NEW t \in Threads, AddReturn(t) PROVE KeyTypeOK'
  <2>1. name[t] \in Names /\ s_fun_id[TypeOf[name[t]]] \in Nat
    BY <1>1 DEF AddReturn, Exclusion, Adding, VarTypeOK
  <2> QED BY <1>1, <2>1 DEF AddReturn
<1>2. ASSUME NEW t \in Threads, NEW l \in Listeners, DelListener(t, l) PROVE KeyTypeOK'
  BY <1>2 DEF DelListener
<1>3. ASSUME NEW t \in Threads, NEW n \in Names, ClearListener(t, n) PROVE KeyTypeOK'
  BY <1>3 DEF ClearListener
<1>4. ASSUME UNCHANGED keyVars PROVE KeyTypeOK'
  BY <1>4 DEF keyVars
<1>5. ASSUME NEW t \in Threads, \/ Compare(t) \/ Notify(t) \/ Notified(t) \/ Write(t) \/ AddCount(t)
                                \/ AddInsert(t) \/ Parse(t) \/ Apply(t) \/ Stat(t)
                                \/ \E force \in BOOLEAN : RecordTime(t, force)
      PROVE UNCHANGED keyVars
  BY <1>5 DEF Compare, Notify, Notified, Write, AddCount, AddInsert, Parse, Apply, Stat, RecordTime
<1>6. ASSUME NEW t \in Threads, \/ \E n \in Names : Lookup(t, n)
                                \/ \E n \in Names, v \in Values : SetValue(t, n, v)
                                \/ \E n \in Names, l \in Listeners : AddListener(t, n, l)
      PROVE UNCHANGED keyVars
  BY <1>6 DEF Lookup, SetValue, AddListener
<1>7. CASE UNCHANGED vars \/ \E c \in Contents : Edit(c)
  BY <1>4, <1>7 DEF vars, Edit
<1> QED BY <1>1, <1>2, <1>3, <1>4, <1>5, <1>6, <1>7 DEF Next, Begin, Proceed

\* What the histories record is about types and names that there are.
LEMMA GhostTypes == ASSUME IInv, [Next]_vars PROVE GhostTypeOK'
<1> USE DEF IInv, TypeOK, GhostTypeOK
<1>1. ASSUME UNCHANGED <<m_datas, ghostVars>> PROVE GhostTypeOK'
  BY <1>1 DEF ghostVars
<1>2. ASSUME NEW t \in Threads, NEW n \in Names, Lookup(t, n) PROVE GhostTypeOK'
  BY <1>2 DEF Lookup
<1>3. ASSUME NEW t \in Threads, Write(t) PROVE GhostTypeOK'
  <2>1. name[t] \in m_datas BY <1>3 DEF Write, Exclusion, Setting
  <2>2. touched' \subseteq touched \cup {name[t]} /\ UNCHANGED <<m_datas, raced, lapped>> BY <1>3 DEF Write
  <2> QED BY <2>1, <2>2
<1>4. ASSUME NEW t \in Threads, NEW n \in Names, NEW l \in Listeners, AddListener(t, n, l) PROVE GhostTypeOK'
  BY <1>4 DEF AddListener
<1>5. ASSUME NEW t \in Threads, Stat(t) \/ Parse(t) PROVE GhostTypeOK'
  <2>1. OtherLoading(t) \in BOOLEAN BY DEF OtherLoading
  <2> QED BY <1>5, <2>1 DEF Stat, Parse
<1>6. ASSUME NEW t \in Threads, \/ Compare(t) \/ Notify(t) \/ Notified(t) \/ AddCount(t) \/ AddInsert(t)
                                \/ AddReturn(t) \/ Apply(t) \/ \E force \in BOOLEAN : RecordTime(t, force)
      PROVE UNCHANGED <<m_datas, ghostVars>>
  BY <1>6 DEF Compare, Notify, Notified, AddCount, AddInsert, AddReturn, Apply, RecordTime
<1>7. ASSUME NEW t \in Threads, \/ \E n \in Names, v \in Values : SetValue(t, n, v)
                                \/ \E n \in Names : ClearListener(t, n)
                                \/ \E l \in Listeners : DelListener(t, l)
      PROVE UNCHANGED <<m_datas, ghostVars>>
  BY <1>7 DEF SetValue, ClearListener, DelListener
<1>8. CASE UNCHANGED vars \/ \E c \in Contents : Edit(c)
  BY <1>1, <1>8 DEF vars, Edit
<1> QED BY <1>1, <1>2, <1>3, <1>4, <1>5, <1>6, <1>7, <1>8 DEF Next, Begin, Proceed

-----------------------------------------------------------------------------
(* What the locks exclude. *)

\* setValue holds the read lock while it notifies (config.h:429-441).
LEMMA SetExcludes ==
  ASSUME IInv, NEW t \in Threads, Compare(t) \/ Notify(t) \/ Notified(t) \/ Write(t) PROVE Exclusion'
<1> USE DEF IInv, TypeOK, VarTypeOK, ThreadTypeOK, Exclusion, Setting, Adding, Goto, Enter, Leave
<1>1. CASE Compare(t) /\ arg[t] = m_val[name[t]]
  BY <1>1 DEF Compare
<1>2. CASE Compare(t) /\ arg[t] # m_val[name[t]]
  BY <1>2 DEF Compare
<1>3. CASE Notify(t)
  BY <1>3 DEF Notify, varVars
<1>4. CASE Notified(t)
  BY <1>4 DEF Notified, Released
<1>5. CASE Write(t)
  BY <1>5 DEF Write
<1> QED BY <1>1, <1>2, <1>3, <1>4, <1>5 DEF Compare

\* addListener, delListener and clearListener hold the write lock (config.h:455-472, 489-493).
LEMMA ListenersExclude ==
  ASSUME IInv, NEW t \in Threads,
         \/ AddCount(t) \/ AddInsert(t) \/ AddReturn(t)
         \/ \E n \in Names, l \in Listeners : AddListener(t, n, l)
         \/ \E l \in Listeners : DelListener(t, l)
         \/ \E n \in Names : ClearListener(t, n)
  PROVE  Exclusion'
<1> USE DEF IInv, TypeOK, VarTypeOK, ThreadTypeOK, Exclusion, Setting, Adding, Goto, Enter, Leave, MayCall,
            MayChange
<1>1. ASSUME NEW n \in Names, NEW l \in Listeners, AddListener(t, n, l) PROVE Exclusion'
  BY <1>1, ConfigAssumption DEF AddListener
<1>2. CASE AddCount(t)
  BY <1>2 DEF AddCount
<1>3. CASE AddInsert(t)
  BY <1>3, ConfigAssumption DEF AddInsert
<1>4. CASE AddReturn(t)
  BY <1>4, ConfigAssumption DEF AddReturn
<1>5. ASSUME NEW l \in Listeners, DelListener(t, l) PROVE Exclusion'
  BY <1>5 DEF DelListener, threadVars
<1>6. ASSUME NEW n \in Names, ClearListener(t, n) PROVE Exclusion'
  BY <1>6 DEF ClearListener, threadVars
<1> QED BY <1>1, <1>2, <1>3, <1>4, <1>5, <1>6

\* The other steps take no lock of a variable, and begin only calls that do (config.cpp:42-94).
LEMMA OthersExclude ==
  ASSUME IInv, \/ UNCHANGED vars \/ \E c \in Contents : Edit(c)
               \/ \E t \in Threads : \/ \E n \in Names : Lookup(t, n)
                                     \/ \E n \in Names, v \in Values : SetValue(t, n, v)
                                     \/ \E force \in BOOLEAN : RecordTime(t, force)
                                     \/ Stat(t) \/ Parse(t) \/ Apply(t)
  PROVE  Exclusion'
<1> USE DEF IInv, TypeOK, VarTypeOK, ThreadTypeOK, Exclusion, Setting, Adding, Goto, Enter, MayCall, varVars
<1>1. CASE UNCHANGED vars \/ \E c \in Contents : Edit(c)
  BY <1>1 DEF vars, Edit, threadVars
<1>2. ASSUME NEW t \in Threads, NEW n \in Names, Lookup(t, n) PROVE Exclusion'
  BY <1>2 DEF Lookup, threadVars
<1>3. ASSUME NEW t \in Threads, NEW n \in Names, NEW v \in Values, SetValue(t, n, v) PROVE Exclusion'
  BY <1>3 DEF SetValue
<1>4. ASSUME NEW t \in Threads, \/ \E force \in BOOLEAN : RecordTime(t, force)
                                \/ Stat(t) \/ Parse(t)
      PROVE  Exclusion'
  BY <1>4 DEF RecordTime, Stat, Parse
<1>5. ASSUME NEW t \in Threads, Apply(t) PROVE Exclusion'
  <2>1. PICK i \in todo[t] :
          /\ pc[t] = "apply" /\ UNCHANGED <<m_datas, varVars, left>>
          /\ \/ i[1] \in m_datas /\ i[2] # Bad /\ Enter(t, "set", i[1], i[2])
             \/ \E here \in {"idle", "apply"} : Goto(t, here) /\ UNCHANGED <<name, arg>>
    BY <1>5 DEF Apply
  <2>2. \A n \in Names : writer[n] # None => writer[n] # t /\ writer[n] \in Threads BY <2>1
  <2>3. UNCHANGED <<m_datas, m_cbs, readers, writer, left>> BY <2>1
  <2>4. CASE i[1] \in m_datas /\ i[2] # Bad /\ Enter(t, "set", i[1], i[2])
    <3>1. i[1] \in m_datas /\ i[2] \in Values
      <4>1. i \in Members BY <2>1
      <4> QED BY <2>4, <4>1, ConfigAssumption DEF Members
    <3>2. pc'[t] = "set" /\ name'[t] = i[1] /\ arg'[t] = i[2] BY <2>4
    <3>3. \A u \in Threads : u # t => pc'[u] = pc[u] /\ name'[u] = name[u] /\ arg'[u] = arg[u] BY <2>4
    <3> QED BY <2>1, <2>2, <2>3, <3>1, <3>2, <3>3
  <2>5. ASSUME NEW here \in {"idle", "apply"}, Goto(t, here), UNCHANGED <<name, arg>> PROVE Exclusion'
    <3>1. pc'[t] \in {"idle", "apply"} /\ \A u \in Threads : u # t => pc'[u] = pc[u] BY <2>5
    <3> QED BY <2>1, <2>2, <2>3, <2>5, <3>1
  <2> QED BY <2>1, <2>4, <2>5
<1> HIDE DEF IInv, TypeOK, VarTypeOK, ThreadTypeOK, Exclusion, Setting, Adding, Goto, Enter, MayCall, varVars
<1> QED BY <1>1, <1>2, <1>3, <1>4, <1>5

\* Every step keeps the inductive invariant.
LEMMA NextHolds == IInv /\ [Next]_vars => IInv'
<1> SUFFICES ASSUME IInv, [Next]_vars PROVE IInv'
  OBVIOUS
<1>1. TypeOK' BY VarTypes, FileTypes, ThreadTypes, KeyTypes, GhostTypes DEF TypeOK
<1>2. Exclusion' BY SetExcludes, ListenersExclude, OthersExclude DEF Next, Begin, Proceed
<1> QED BY <1>1, <1>2 DEF IInv

\* Nothing is registered, and no lock is held, at first.
LEMMA InitHolds == Init => IInv
<1> USE ConfigAssumption
<1>1. Init => VarTypeOK BY DEF Init, VarTypeOK
<1>2. Init => FileTypeOK BY DEF Init, FileTypeOK
<1>3. Init => ThreadTypeOK /\ KeyTypeOK BY DEF Init, ThreadTypeOK, KeyTypeOK
<1>5. Init => GhostTypeOK BY DEF Init, GhostTypeOK
<1>4. Init => Exclusion BY DEF Init, Exclusion, Setting, Adding
<1> QED BY <1>1, <1>2, <1>3, <1>4, <1>5 DEF IInv, TypeOK

\* IInv is an invariant.
LEMMA Inductive == Spec => []IInv
BY InitHolds, NextHolds, PTL DEF Spec

\* Everything has its type, on any step of any call (config.h:429-493, config.cpp:42-94).
THEOREM TypeCorrect == Spec => []TypeOK
<1>1. IInv => TypeOK BY DEF IInv
<1> QED BY <1>1, Inductive, PTL

\* The callbacks that setValue is about to run are registered: once delListener has returned, its callback
\* does not run again (config.h:429-441, 468-472).
THEOREM CalledIsRegisteredHolds == Spec => []CalledIsRegistered
<1>1. IInv => CalledIsRegistered
  <2> SUFFICES ASSUME IInv, NEW t \in Threads, NEW c \in left[t] PROVE \E n \in Names : c \in m_cbs[n]
    BY DEF CalledIsRegistered
  <2>1. pc[t] = "notify" /\ c \in m_cbs[name[t]] BY DEF IInv, Exclusion
  <2>2. name[t] \in Names BY <2>1 DEF IInv, TypeOK, VarTypeOK, Exclusion, Setting
  <2> QED BY <2>1, <2>2
<1> QED BY <1>1, Inductive, PTL

-----------------------------------------------------------------------------
(* Keys. *)

\* Steps in which nobody adds or removes a listener.
LEMMA KeysStay ==
  ASSUME IInv, Keys, UNCHANGED <<m_cbs, writer, s_fun_id, keyVars, raced>>,
         \A u \in Threads : pc[u] \in Adding \/ pc'[u] \in Adding =>
           pc'[u] = pc[u] /\ name'[u] = name[u] /\ arg'[u] = arg[u] /\ tmp'[u] = tmp[u]
  PROVE  Keys'
<1>1. UNCHANGED <<m_cbs, writer, s_fun_id, key, where, raced>> BY DEF keyVars
<1> USE DEF Orderly
<1>2. Ahead'
  <2>1. \A t \in Threads : pc'[t] \in {"count", "insert", "return"} => pc[t] = pc'[t] /\ name'[t] = name[t] /\ tmp'[t] = tmp[t]
    BY DEF Adding
  <2> QED BY <1>1, <2>1 DEF Keys, Ahead
<1>3. Distinct' BY <1>1 DEF Keys, Distinct
<1>4. AddedOnce' BY <1>1 DEF Keys, AddedOnce
<1>5. Kept'
  <2>1. \A n \in Names : Registered(n)' = Registered(n) BY <1>1 DEF Registered
  <2>2. \A n \in Names : writer[n] # None =>
          writer[n] \in Threads /\ pc'[writer[n]] = pc[writer[n]] /\ arg'[writer[n]] = arg[writer[n]]
    BY DEF IInv, TypeOK, VarTypeOK, Exclusion
  <2>3. \A n \in Names : Inserted(n)' <=> Inserted(n) BY <1>1, <2>2 DEF Inserted
  <2>4. \A n \in Names : Inserted(n) => writer[n] # None BY DEF Inserted
  <2>5. ASSUME NEW n \in Names, Orderly(n)
        PROVE  m_cbs'[n] = IF Inserted(n)' THEN Registered(n)' \cup {<<s_fun_id'[TypeOf[n]], arg'[writer'[n]]>>}
                                           ELSE Registered(n)'
    <3>1. m_cbs[n] = IF Inserted(n) THEN Registered(n) \cup {<<s_fun_id[TypeOf[n]], arg[writer[n]]>>}
                                    ELSE Registered(n)
      BY <2>5 DEF Keys, Kept
    <3> HIDE DEF Orderly
    <3> QED BY <1>1, <2>1, <2>2, <2>3, <2>4, <3>1
  <2> QED BY <1>1, <2>5 DEF Kept
<1>6. CountsAlone' BY <1>1 DEF Keys, CountsAlone
<1> QED BY <1>2, <1>3, <1>4, <1>5, <1>6 DEF Keys

\* Who begins addListener is alone in the counter of the type, or the type is known to have been raced.
LEMMA AddBegins ==
  ASSUME IInv, Keys, NEW t \in Threads, NEW n \in Names, NEW l \in Listeners, AddListener(t, n, l)
  PROVE  Keys'
<1> USE DEF IInv, TypeOK, VarTypeOK, ThreadTypeOK, KeyTypeOK, Goto, Enter, Adding
<1>1. /\ pc[t] = "idle" /\ where[l] = None /\ writer[n] = None /\ \A u \in Threads : arg[u] # l
      /\ UNCHANGED <<m_cbs, s_fun_id, key, where>>
      /\ pc'[t] = "count" /\ name'[t] = n /\ arg'[t] = l /\ tmp'[t] = s_fun_id[TypeOf[n]] + 1
      /\ writer' = [writer EXCEPT ![n] = t]
      /\ \A u \in Threads : u # t => /\ pc'[u] = pc[u] /\ name'[u] = name[u]
                                     /\ arg'[u] = arg[u] /\ tmp'[u] = tmp[u]
      /\ raced' = IF Counting(n) THEN raced \cup {TypeOf[n]} ELSE raced
  BY DEF AddListener, MayCall, MayChange, NextKey, keyVars
<1>2. \A m : Orderly(m)' => Orderly(m) BY <1>1 DEF Orderly
<1>3. Orderly(n)' => \A u \in Threads : pc[u] \in Adding => TypeOf[name[u]] # TypeOf[n]
  BY <1>1 DEF Orderly, Counting
<1>4. \A m : TypeOf[m] = TypeOf[n] => (Orderly(m)' <=> Orderly(n)') BY DEF Orderly
<1>5. CountsAlone'
  <2> SUFFICES ASSUME NEW u \in Threads, NEW v \in Threads, u # v, pc'[u] \in Adding, pc'[v] \in Adding,
                      TypeOf[name'[u]] = TypeOf[name'[v]], TypeOf[name'[u]] \notin raced'
               PROVE  FALSE
    BY DEF CountsAlone, Orderly
  <2>1. CASE u # t /\ v # t
    <3>1. TypeOf[name[u]] \notin raced BY <1>1, <2>1
    <3> QED BY <1>1, <2>1, <3>1 DEF Keys, CountsAlone, Orderly
  <2>2. CASE u = t BY <1>1, <1>3, <2>2 DEF Orderly
  <2>3. CASE v = t BY <1>1, <1>3, <2>3 DEF Orderly
  <2> QED BY <2>1, <2>2, <2>3
<1>6. Ahead'
  <2>1. ASSUME NEW m \in Listeners, where'[m] # None, TypeOf[where'[m]] \notin raced'
        PROVE  key'[m] <= s_fun_id'[TypeOf[where'[m]]]
    <3>1. where[m] # None /\ TypeOf[where[m]] \notin raced BY <1>1, <2>1
    <3> QED BY <1>1, <3>1 DEF Keys, Ahead, Orderly
  <2>2. ASSUME NEW u \in Threads, TypeOf[name'[u]] \notin raced'
        PROVE  /\ pc'[u] = "count" => tmp'[u] = s_fun_id'[TypeOf[name'[u]]] + 1
               /\ pc'[u] \in {"insert", "return"} =>
                    \A m \in Listeners : where'[m] = name'[u] => key'[m] < s_fun_id'[TypeOf[name'[u]]]
    <3>1. CASE u = t BY <1>1, <3>1
    <3>2. CASE u # t
      <4>1. name'[u] = name[u] /\ TypeOf[name[u]] \notin raced BY <1>1, <2>2, <3>2
      <4> QED BY <1>1, <3>2, <4>1 DEF Keys, Ahead, Orderly
    <3> QED BY <3>1, <3>2
  <2> HIDE DEF IInv, TypeOK, VarTypeOK, ThreadTypeOK, KeyTypeOK
  <2> QED BY <2>1, <2>2 DEF Ahead, Orderly
<1>7. Distinct' BY <1>1 DEF Keys, Distinct, Orderly
<1>8. AddedOnce' BY <1>1 DEF Keys, AddedOnce
<1>9. Kept'
  <2>1. \A m \in Names : Registered(m)' = Registered(m) BY <1>1 DEF Registered
  <2>2. ~Inserted(n)' /\ ~Inserted(n) BY <1>1, ConfigAssumption DEF Inserted
  <2>3. \A m \in Names : m # n => writer'[m] = writer[m] /\ writer[m] # t
    BY <1>1, ConfigAssumption DEF Exclusion
  <2>4. \A m \in Names : Orderly(m)' => Orderly(m) BY <1>2
  <2> QED BY <1>1, <2>1, <2>2, <2>3, <2>4 DEF Keys, Kept, Inserted
<1> QED BY <1>5, <1>6, <1>7, <1>8, <1>9 DEF Keys

\* addListener takes a key that no callback of the variable has, inserts under it and returns it
\* (config.h:455-462).
LEMMA AddKeeps ==
  ASSUME IInv, Keys, NEW t \in Threads, AddCount(t) \/ AddInsert(t) \/ AddReturn(t)
  PROVE  Keys'
<1> USE DEF IInv, TypeOK, VarTypeOK, ThreadTypeOK, KeyTypeOK, Goto, Enter, Leave, Adding
<1>1. raced' = raced BY DEF AddCount, AddInsert, AddReturn, ghostVars
<1>2. PICK n \in Names : n = name[t]
  BY DEF AddCount, AddInsert, AddReturn, Exclusion
<1>3. /\ writer[n] = t /\ arg[t] \in Listeners /\ n # None
      /\ \A u \in Threads : u # t /\ pc[u] \in Adding => name[u] # n /\ name[u] \in Names
      /\ \A m \in Names : m # n => writer[m] # t
  BY <1>2, ConfigAssumption DEF AddCount, AddInsert, AddReturn, Exclusion
<1>4. \A u \in Threads : u # t /\ pc[u] \in Adding /\ Orderly(name[u]) => TypeOf[name[u]] # TypeOf[n]
  BY <1>2 DEF AddCount, AddInsert, AddReturn, Keys, CountsAlone, Orderly
<1>5. CountsAlone'
  <2>1. /\ pc[t] \in Adding /\ \A u \in Threads : pc'[u] \in Adding => pc[u] \in Adding /\ name'[u] = name[u]
    BY DEF AddCount, AddInsert, AddReturn
  <2> QED BY <1>1, <2>1 DEF Keys, CountsAlone, Orderly
<1>6. CASE AddCount(t)
  <2>1. /\ pc[t] = "count" /\ s_fun_id' = [s_fun_id EXCEPT ![TypeOf[n]] = tmp[t]]
        /\ s_fun_id[TypeOf[n]] \in Nat
        /\ UNCHANGED <<m_cbs, writer, name, arg, tmp, key, where>>
        /\ pc'[t] = "insert" /\ \A u \in Threads : u # t => pc'[u] = pc[u]
    BY <1>2, <1>6 DEF AddCount, keyVars
  <2>2. Orderly(n) => s_fun_id'[TypeOf[n]] = s_fun_id[TypeOf[n]] + 1
    BY <1>2, <2>1 DEF Keys, Ahead
  <2>3. \A m \in Names : TypeOf[m] # TypeOf[n] => s_fun_id'[TypeOf[m]] = s_fun_id[TypeOf[m]]
    BY <2>1
  <2>4. \A m \in Names : TypeOf[m] = TypeOf[n] /\ Orderly(m) => Orderly(n)
    BY DEF Orderly
  <2>5. \A m \in Names : Orderly(m)' <=> Orderly(m) BY <1>1 DEF Orderly
  <2>6. Ahead'
    <3>1. ASSUME NEW l \in Listeners, where[l] # None, Orderly(where[l])
          PROVE  key[l] <= s_fun_id'[TypeOf[where[l]]]
      <4>1. where[l] \in Names /\ key[l] <= s_fun_id[TypeOf[where[l]]] /\ key[l] \in Nat
        BY <3>1 DEF Keys, Ahead
      <4>2. CASE TypeOf[where[l]] # TypeOf[n] BY <2>3, <4>1, <4>2
      <4>3. CASE TypeOf[where[l]] = TypeOf[n]
        <5>1. s_fun_id'[TypeOf[n]] = s_fun_id[TypeOf[n]] + 1 BY <2>2, <2>4, <3>1, <4>1, <4>3
        <5> QED BY <2>1, <4>1, <4>3, <5>1
      <4> QED BY <4>2, <4>3
    <3>2. ASSUME NEW u \in Threads, Orderly(name[u])
          PROVE  /\ pc'[u] = "count" => tmp[u] = s_fun_id'[TypeOf[name[u]]] + 1
                 /\ pc'[u] \in {"insert", "return"} =>
                      \A l \in Listeners : where[l] = name[u] => key[l] < s_fun_id'[TypeOf[name[u]]]
      <4>1. CASE u = t
        <5>1. s_fun_id'[TypeOf[n]] = s_fun_id[TypeOf[n]] + 1 BY <1>2, <2>2, <3>2, <4>1
        <5>2. \A l \in Listeners : where[l] = n => key[l] <= s_fun_id[TypeOf[n]] /\ key[l] \in Nat
          BY <1>2, <1>3, <3>2, <4>1 DEF Keys, Ahead
        <5> QED BY <1>2, <2>1, <4>1, <5>1, <5>2
      <4>2. CASE u # t /\ pc[u] \in Adding
        <5>1. s_fun_id'[TypeOf[name[u]]] = s_fun_id[TypeOf[name[u]]] BY <1>3, <1>4, <2>3, <3>2, <4>2
        <5> QED BY <2>1, <3>2, <4>2, <5>1 DEF Keys, Ahead
      <4>3. CASE u # t /\ pc[u] \notin Adding BY <2>1, <4>3
      <4> QED BY <4>1, <4>2, <4>3
    <3> QED BY <1>1, <2>1, <3>1, <3>2 DEF Ahead, Orderly
  <2>7. Distinct' /\ AddedOnce' BY <1>1, <2>1 DEF Keys, Distinct, AddedOnce, Orderly
  <2>8. Kept'
    <3>1. \A m \in Names : Registered(m)' = Registered(m) BY <2>1 DEF Registered
    <3>2. \A m \in Names : Inserted(m)' <=> Inserted(m)
      BY <1>3, <2>1 DEF Inserted, Exclusion
    <3>3. \A m \in Names : Orderly(m) /\ Inserted(m) => TypeOf[m] # TypeOf[n]
      <4>1. \A m \in Names : Inserted(m) => /\ writer[m] \in Threads /\ pc[writer[m]] \in Adding
                                            /\ name[writer[m]] = m /\ writer[m] # t
        BY <2>1 DEF Inserted, Exclusion
      <4> QED BY <1>4, <4>1
    <3> QED BY <2>1, <2>3, <2>5, <3>1, <3>2, <3>3 DEF Keys, Kept
  <2> QED BY <1>5, <2>6, <2>7, <2>8 DEF Keys
<1>7. CASE AddInsert(t)
  <2> DEFINE k == s_fun_id[TypeOf[n]]
  <2>1. /\ pc[t] = "insert" /\ m_cbs' = [m_cbs EXCEPT ![n] = {c \in @ : c[1] # k} \cup {<<k, arg[t]>>}]
        /\ UNCHANGED <<s_fun_id, writer, name, arg, tmp, key, where>>
        /\ pc'[t] = "return" /\ \A u \in Threads : u # t => pc'[u] = pc[u]
    BY <1>2, <1>7 DEF AddInsert, keyVars
  <2>2. Ahead' BY <1>1, <2>1 DEF Keys, Ahead, Orderly
  <2>3. Distinct' /\ AddedOnce' BY <1>1, <2>1 DEF Keys, Distinct, AddedOnce, Orderly
  <2>4. Kept'
    <3>1. \A m \in Names : Registered(m)' = Registered(m) BY <2>1 DEF Registered
    <3>2. Inserted(n)' /\ ~Inserted(n) /\ writer[n] = t
      BY <1>3, <2>1, ConfigAssumption DEF Inserted
    <3>3. Orderly(n) => m_cbs[n] = Registered(n) BY <3>2 DEF Keys, Kept
    <3>4. Orderly(n) => \A l \in Listeners : where[l] = n => key[l] # k
      BY <1>2, <2>1 DEF Keys, Ahead
    <3>5. Orderly(n) => \A c \in Registered(n) : c[1] # k BY <3>4 DEF Registered
    <3>6. Orderly(n) => m_cbs'[n] = Registered(n) \cup {<<k, arg[t]>>} BY <2>1, <3>3, <3>5
    <3>7. \A m \in Names : m # n => m_cbs'[m] = m_cbs[m] BY <2>1
    <3>8. \A m \in Names : Orderly(m)' <=> Orderly(m) BY <1>1 DEF Orderly
    <3>9. \A m \in Names : m # n => (Inserted(m)' <=> Inserted(m)) BY <1>3, <2>1 DEF Inserted, Exclusion
    <3>10. ASSUME NEW m \in Names, m # n, Orderly(m)
           PROVE  m_cbs'[m] = IF Inserted(m)' THEN Registered(m)' \cup {<<s_fun_id'[TypeOf[m]], arg'[writer'[m]]>>}
                                              ELSE Registered(m)'
      BY <2>1, <3>1, <3>7, <3>9, <3>10 DEF Keys, Kept
    <3> QED BY <2>1, <3>1, <3>2, <3>6, <3>8, <3>10 DEF Kept
  <2> QED BY <1>5, <2>2, <2>3, <2>4 DEF Keys
<1>8. CASE AddReturn(t)
  <2>1. PICK l \in Listeners : l = arg[t] BY <1>3
  <2> DEFINE k == s_fun_id[TypeOf[n]]
  <2>2. /\ pc[t] = "return" /\ key' = [key EXCEPT ![l] = k] /\ where' = [where EXCEPT ![l] = n]
        /\ writer' = [writer EXCEPT ![n] = None] /\ UNCHANGED <<s_fun_id, m_cbs>> /\ k \in Nat
        /\ pc'[t] \in {"idle", "apply"}
        /\ \A u \in Threads : u # t => /\ pc'[u] = pc[u] /\ name'[u] = name[u]
                                       /\ arg'[u] = arg[u] /\ tmp'[u] = tmp[u]
    BY <1>2, <1>8, <2>1 DEF AddReturn
  <2>3. /\ where[l] = None /\ (Orderly(n) => \A m \in Listeners : where[m] = n => key[m] < k)
        /\ \A u \in Threads : u # t /\ pc[u] \in Adding => arg[u] # l
    BY <1>2, <2>1, <2>2 DEF Keys, Ahead, AddedOnce
  <2>4. /\ key'[l] = k /\ where'[l] = n
        /\ \A m \in Listeners : m # l => key'[m] = key[m] /\ where'[m] = where[m]
    BY <2>2
  <2>5. Ahead'
    <3>1. ASSUME NEW m \in Listeners, where'[m] # None, Orderly(where'[m])
          PROVE  key'[m] <= s_fun_id[TypeOf[where'[m]]]
      BY <2>2, <2>4, <3>1 DEF Keys, Ahead
    <3>2. ASSUME NEW u \in Threads, Orderly(name'[u])
          PROVE  /\ pc'[u] = "count" => tmp'[u] = s_fun_id[TypeOf[name'[u]]] + 1
                 /\ pc'[u] \in {"insert", "return"} =>
                      \A m \in Listeners : where'[m] = name'[u] => key'[m] < s_fun_id[TypeOf[name'[u]]]
      <4>1. CASE u = t BY <2>2, <4>1
      <4>2. CASE u # t /\ pc[u] \in Adding
        <5>1. name[u] # n /\ name'[u] = name[u] BY <1>3, <2>2, <4>2
        <5> QED BY <2>2, <2>4, <3>2, <4>2, <5>1 DEF Keys, Ahead
      <4>3. CASE u # t /\ pc[u] \notin Adding BY <2>2, <4>3
      <4> QED BY <4>1, <4>2, <4>3
    <3> QED BY <1>1, <2>2, <3>1, <3>2 DEF Ahead, Orderly
  <2>6. Distinct'
    <3>1. Orderly(n) => \A m \in Listeners : m # l /\ where'[m] = n => key'[m] < k BY <2>3, <2>4
    <3>2. \A m \in Listeners : key[m] \in Nat OBVIOUS
    <3>3. \A m : Orderly(m)' <=> Orderly(m) BY <1>1 DEF Orderly
    <3> QED BY <2>2, <2>4, <3>1, <3>2, <3>3 DEF Keys, Distinct
  <2>7. AddedOnce' BY <2>2, <2>3, <2>4 DEF Keys, AddedOnce, Exclusion
  <2>8. Kept'
    <3>1. Registered(n)' = Registered(n) \cup {<<k, l>>}
      <4>1. {m \in Listeners : where'[m] = n} = {m \in Listeners : where[m] = n} \cup {l} BY <2>4
      <4>2. \A m \in Listeners : where[m] = n => m # l /\ key'[m] = key[m]
        BY <1>3, <2>3, <2>4
      <4> QED BY <2>4, <4>1, <4>2 DEF Registered
    <3>2. \A m \in Names : m # n => Registered(m)' = Registered(m)
      BY <2>3, <2>4, ConfigAssumption DEF Registered
    <3>3. Inserted(n) /\ ~Inserted(n)' /\ writer[n] = t
      BY <1>3, <2>2, ConfigAssumption DEF Inserted
    <3>4. Orderly(n) => m_cbs[n] = Registered(n) \cup {<<k, l>>} BY <2>1, <3>3 DEF Keys, Kept
    <3>5. \A m \in Names : m # n => writer'[m] = writer[m] /\ writer[m] # t BY <1>3, <2>2
    <3>6. \A m \in Names : m # n /\ writer[m] # None =>
            pc'[writer[m]] = pc[writer[m]] /\ arg'[writer[m]] = arg[writer[m]]
      BY <2>2, <3>5
    <3>7. \A m \in Names : m # n => (Inserted(m)' <=> Inserted(m)) BY <3>5, <3>6 DEF Inserted
    <3>8. \A m \in Names : m # n /\ Orderly(m) => m_cbs[m] = IF Inserted(m)
            THEN Registered(m) \cup {<<s_fun_id[TypeOf[m]], arg[writer[m]]>>} ELSE Registered(m)
      BY DEF Keys, Kept
    <3>9. m_cbs' = m_cbs /\ s_fun_id' = s_fun_id BY <2>2
    <3>10. \A m \in Names : m # n /\ Orderly(m) => m_cbs'[m] = IF Inserted(m)'
             THEN Registered(m)' \cup {<<s_fun_id'[TypeOf[m]], arg'[writer'[m]]>>} ELSE Registered(m)'
      BY <3>2, <3>5, <3>6, <3>7, <3>8, <3>9 DEF Inserted
    <3>11. \A m \in Names : Orderly(m)' <=> Orderly(m) BY <1>1 DEF Orderly
    <3> QED BY <3>1, <3>3, <3>4, <3>9, <3>10, <3>11 DEF Kept
  <2> QED BY <1>5, <2>5, <2>6, <2>7, <2>8 DEF Keys
<1> QED BY <1>6, <1>7, <1>8

\* delListener and clearListener remove what their callers believe (config.h:468-472, 489-493).
LEMMA RemoveKeeps ==
  ASSUME IInv, Keys, NEW t \in Threads,
         \/ \E l \in Listeners : DelListener(t, l)
         \/ \E n \in Names : ClearListener(t, n)
  PROVE  Keys'
<1> USE DEF IInv, TypeOK, VarTypeOK, ThreadTypeOK, KeyTypeOK, MayCall, MayChange
<1>0. raced' = raced /\ \A m : Orderly(m)' <=> Orderly(m)
  BY DEF DelListener, ClearListener, ghostVars, Orderly
<1>1. ASSUME NEW l \in Listeners, DelListener(t, l) PROVE Keys'
  <2>1. PICK n \in Names : n = where[l] BY <1>1 DEF DelListener
  <2>2. /\ writer[n] = None /\ n # None /\ m_cbs' = [m_cbs EXCEPT ![n] = {c \in @ : c[1] # key[l]}]
        /\ key' = [key EXCEPT ![l] = 0] /\ where' = [where EXCEPT ![l] = None]
        /\ UNCHANGED <<writer, s_fun_id, pc, name, arg, tmp>>
    BY <1>1, <2>1 DEF DelListener, threadVars
  <2>3. /\ where'[l] = None
        /\ \A m \in Listeners : m # l => key'[m] = key[m] /\ where'[m] = where[m]
    BY <2>2
  <2>4. \A u \in Threads : pc[u] \in Adding => name[u] # None
    BY ConfigAssumption DEF Exclusion
  <2>5. Ahead'
    <3>1. \A m \in Listeners : where'[m] # None => where'[m] = where[m] /\ key'[m] = key[m] BY <2>3
    <3>2. \A u \in Threads : pc'[u] \in Adding => name'[u] # None BY <2>2, <2>4
    <3>3. \A u \in Threads, m \in Listeners :
            pc'[u] \in Adding /\ where'[m] = name'[u] => where[m] = name[u] /\ key'[m] = key[m]
      BY <2>2, <3>1, <3>2
    <3> QED BY <1>0, <2>2, <3>1, <3>3 DEF Keys, Ahead, Orderly, Adding
  <2>6. Distinct' BY <1>0, <2>3 DEF Keys, Distinct
  <2>7. AddedOnce' BY <2>2, <2>3 DEF Keys, AddedOnce, Exclusion
  <2>8. Kept'
    <3>1. Orderly(n) => m_cbs[n] = Registered(n) BY <2>2 DEF Keys, Kept, Inserted
    <3>2. Orderly(n) => \A m \in Listeners : where[m] = n /\ m # l => key[m] # key[l]
      BY <2>1, <2>2 DEF Keys, Distinct
    <3>3. Orderly(n) => {c \in Registered(n) : c[1] # key[l]} = Registered(n)'
      BY <2>1, <2>2, <2>3, <3>2 DEF Registered
    <3>4. \A m \in Names : m # n => Registered(m)' = Registered(m)
      BY <2>1, <2>3, ConfigAssumption DEF Registered
    <3>5. (Orderly(n) => m_cbs'[n] = Registered(n)') /\ \A m \in Names : m # n => m_cbs'[m] = m_cbs[m]
      BY <2>2, <3>1, <3>3
    <3> QED BY <1>0, <2>2, <3>4, <3>5 DEF Keys, Kept, Inserted
  <2>9. CountsAlone' BY <1>0, <2>2 DEF Keys, CountsAlone
  <2> QED BY <2>5, <2>6, <2>7, <2>8, <2>9 DEF Keys
<1>2. ASSUME NEW n \in Names, ClearListener(t, n) PROVE Keys'
  <2>1. /\ writer[n] = None /\ n # None /\ m_cbs' = [m_cbs EXCEPT ![n] = {}]
        /\ \A l \in Listeners : /\ where'[l] = IF where[l] = n THEN None ELSE where[l]
                                /\ where[l] # n => key'[l] = key[l]
        /\ UNCHANGED <<writer, s_fun_id, pc, name, arg, tmp>>
    BY <1>2, ConfigAssumption DEF ClearListener, threadVars
  <2>2. \A u \in Threads : pc[u] \in Adding => name[u] # None
    BY ConfigAssumption DEF Exclusion
  <2>3. Ahead'
    <3>1. \A m \in Listeners : where'[m] # None => where'[m] = where[m] /\ key'[m] = key[m] BY <2>1
    <3>2. \A u \in Threads : pc'[u] \in Adding => name'[u] # None BY <2>1, <2>2
    <3>3. \A u \in Threads, m \in Listeners :
            pc'[u] \in Adding /\ where'[m] = name'[u] => where[m] = name[u] /\ key'[m] = key[m]
      BY <2>1, <3>1, <3>2
    <3> QED BY <1>0, <2>1, <3>1, <3>3 DEF Keys, Ahead, Orderly, Adding
  <2>4. Distinct' BY <1>0, <2>1 DEF Keys, Distinct
  <2>5. AddedOnce' BY <2>1 DEF Keys, AddedOnce, Exclusion
  <2>6. Kept'
    <3>1. Registered(n)' = {} BY <2>1, ConfigAssumption DEF Registered
    <3>2. \A m \in Names : m # n => Registered(m)' = Registered(m)
      BY <2>1, ConfigAssumption DEF Registered
    <3> QED BY <1>0, <2>1, <3>1, <3>2 DEF Keys, Kept, Inserted
  <2>7. CountsAlone' BY <1>0, <2>1 DEF Keys, CountsAlone
  <2> QED BY <2>3, <2>4, <2>5, <2>6, <2>7 DEF Keys
<1> QED BY <1>1, <1>2

\* The other steps add and remove nothing.
LEMMA OthersKeep ==
  ASSUME IInv, Keys, \/ UNCHANGED vars \/ \E c \in Contents : Edit(c)
                     \/ \E t \in Threads : \/ Compare(t) \/ Notify(t) \/ Notified(t) \/ Write(t)
                                           \/ \E n \in Names : Lookup(t, n)
                                           \/ \E n \in Names, v \in Values : SetValue(t, n, v)
                                           \/ \E force \in BOOLEAN : RecordTime(t, force)
                                           \/ Stat(t) \/ Parse(t) \/ Apply(t)
  PROVE  Keys'
<1>1. CASE UNCHANGED vars \/ \E c \in Contents : Edit(c)
  BY <1>1, KeysStay DEF vars, Edit, varVars, threadVars, ghostVars
<1>2. ASSUME NEW t \in Threads, NEW n \in Names, Lookup(t, n) PROVE Keys'
  BY <1>2, KeysStay DEF Lookup, varVars, threadVars
<1>3. ASSUME NEW t \in Threads, UNCHANGED <<m_cbs, writer, s_fun_id, keyVars, tmp, raced>>,
             pc[t] \notin Adding, pc'[t] \notin Adding,
             \A u \in Threads : u # t => pc'[u] = pc[u] /\ name'[u] = name[u] /\ arg'[u] = arg[u]
      PROVE  Keys'
  BY <1>3, KeysStay
<1> USE DEF IInv, TypeOK, ThreadTypeOK, Goto, Enter, Leave, MayCall, Adding, ghostVars
<1>4. ASSUME NEW t \in Threads, Compare(t) PROVE Keys' BY <1>3, <1>4 DEF Compare
<1>5. ASSUME NEW t \in Threads, Notify(t) PROVE Keys' BY <1>3, <1>5 DEF Notify, varVars
<1>6. ASSUME NEW t \in Threads, Notified(t) PROVE Keys' BY <1>3, <1>6 DEF Notified
<1>7. ASSUME NEW t \in Threads, Write(t) PROVE Keys' BY <1>3, <1>7 DEF Write
<1>8. ASSUME NEW t \in Threads, NEW n \in Names, NEW v \in Values, SetValue(t, n, v) PROVE Keys'
  BY <1>3, <1>8 DEF SetValue, varVars
<1>9. ASSUME NEW t \in Threads, NEW force \in BOOLEAN, RecordTime(t, force) PROVE Keys'
  BY <1>3, <1>9 DEF RecordTime, varVars
<1>10. ASSUME NEW t \in Threads, Stat(t) PROVE Keys' BY <1>3, <1>10 DEF Stat, varVars
<1>11. ASSUME NEW t \in Threads, Parse(t) PROVE Keys' BY <1>3, <1>11 DEF Parse, varVars
<1>12. ASSUME NEW t \in Threads, Apply(t) PROVE Keys' BY <1>3, <1>12 DEF Apply, varVars
<1> QED BY <1>1, <1>2, <1>4, <1>5, <1>6, <1>7, <1>8, <1>9, <1>10, <1>11, <1>12

\* Nobody has listened to anything at first.
LEMMA KeysInit == Init => Keys
BY ConfigAssumption
   DEF Init, Keys, CountsAlone, Ahead, Distinct, AddedOnce, Kept, Inserted, Registered, Adding

\* The callbacks of a variable are those that their owners believe registered, each under the key its owner
\* was given, however many variables share the counter of their type, as long as no two threads have been in
\* addListener of that type at once: it counts under the lock of the variable only (config.h:455-493).
THEOREM KeysHoldAlways == Spec => []KeysHold
<1>1. IInv /\ Keys /\ [Next]_vars => Keys'
  BY AddBegins, AddKeeps, RemoveKeeps, OthersKeep DEF Next, Begin, Proceed
<1>2. Keys => KeysHold BY DEF Keys, Kept, KeysHold, Inserted, Registered, Orderly
<1> QED BY <1>1, <1>2, KeysInit, Inductive, PTL DEF Spec

-----------------------------------------------------------------------------
(* The file, which names a variable once. *)

NamesOnce == \A c \in Contents \ {Broken} : \A i, j \in c : i[1] = j[1] => i = j

\* A load begins when no other is under way, or is known to have lapped one.
LEMMA LoadsStay == ASSUME IInv, Loads, [Next]_vars PROVE Loads'
<1> USE DEF IInv, TypeOK, ThreadTypeOK, Goto, Enter, Leave, MayCall, Loads, Loading
<1>1. ASSUME NEW t \in Threads, UNCHANGED <<lapped, todo>>, \A u \in Threads : u # t => pc'[u] = pc[u],
             t \notin Loaders => pc'[t] \notin {"stat", "parse", "apply"},
             Loading(t)' => Loading(t),
             (Loading(t)' /\ pc'[t] \notin {"stat", "parse"}) \/ todo[t] = {}
      PROVE  Loads'
  BY <1>1
<1>2. ASSUME NEW t \in Threads, \/ \E n \in Names : Lookup(t, n) \/ ClearListener(t, n)
                                \/ \E l \in Listeners : DelListener(t, l)
      PROVE  Loads'
  BY <1>2 DEF Lookup, ClearListener, DelListener, threadVars, ghostVars
<1>3. ASSUME NEW t \in Threads, NEW n \in Names, NEW v \in Values, t \notin Loaders, SetValue(t, n, v) PROVE Loads'
  BY <1>1, <1>3 DEF SetValue, ghostVars
<1>4. ASSUME NEW t \in Threads, NEW n \in Names, NEW l \in Listeners, AddListener(t, n, l) PROVE Loads'
  BY <1>1, <1>4 DEF AddListener
<1>5. ASSUME NEW t \in Threads, Stat(t) PROVE Loads'
  <2>1. /\ t \in Loaders /\ pc[t] = "idle" /\ pc' = [pc EXCEPT ![t] = "stat"] /\ todo' = todo
        /\ lapped' = (lapped \/ \E u \in Threads \ {t} : Loading(u))
    BY <1>5 DEF Stat, OtherLoading
  <2> QED BY <2>1
<1>6. ASSUME NEW t \in Threads, Compare(t) PROVE Loads'
  BY <1>1, <1>6 DEF Compare, ghostVars
<1>7. ASSUME NEW t \in Threads, Notify(t) \/ Notified(t) PROVE Loads'
  BY <1>1, <1>7 DEF Notify, Notified, ghostVars
<1>8. ASSUME NEW t \in Threads, Write(t) PROVE Loads'
  BY <1>1, <1>8 DEF Write
<1>9. ASSUME NEW t \in Threads, AddCount(t) \/ AddInsert(t) \/ AddReturn(t) PROVE Loads'
  BY <1>1, <1>9 DEF AddCount, AddInsert, AddReturn, ghostVars
<1>10. ASSUME NEW t \in Threads, NEW force \in BOOLEAN, RecordTime(t, force) PROVE Loads'
  BY <1>1, <1>10 DEF RecordTime, ghostVars
<1>11. ASSUME NEW t \in Threads, Parse(t) PROVE Loads'
  <2>1. /\ pc[t] = "parse" /\ t \in Loaders /\ lapped' = (\E u \in Threads \ {t} : Loading(u))
        /\ todo' = [todo EXCEPT ![t] = AllMembers]
        /\ pc' = [pc EXCEPT ![t] = IF AllMembers = {} THEN "idle" ELSE "apply"]
    BY <1>11 DEF Parse, OtherLoading
  <2>2. /\ \A u \in Threads : u # t => pc'[u] = pc[u] /\ todo'[u] = todo[u]
        /\ pc'[t] = "apply" \/ (pc'[t] = "idle" /\ todo'[t] = {})
    BY <2>1
  <2>3. \A u \in Threads : Loading(u)' => Loading(u) BY <2>1, <2>2
  <2> QED BY <2>1, <2>2, <2>3
<1>12. ASSUME NEW t \in Threads, Apply(t) PROVE Loads'
  <2>1. PICK i \in todo[t] :
          /\ pc[t] = "apply" /\ lapped' = lapped /\ todo' = [todo EXCEPT ![t] = todo[t] \ {i}]
          /\ \/ pc' = [pc EXCEPT ![t] = "set"]
             \/ pc' = [pc EXCEPT ![t] = IF todo[t] \ {i} = {} THEN "idle" ELSE "apply"]
    BY <1>12, Zenon DEF Apply, AfterThrow, ghostVars
  <2>2. t \in Loaders BY <2>1
  <2>3. \A u \in Threads : u # t => pc'[u] = pc[u] /\ todo'[u] = todo[u] BY <2>1
  <2>4. pc'[t] \in {"set", "apply"} \/ (pc'[t] = "idle" /\ todo'[t] = {}) BY <2>1
  <2>5. \A u \in Threads : Loading(u)' => Loading(u) BY <2>1, <2>2, <2>3
  <2> QED BY <2>1, <2>2, <2>3, <2>4, <2>5
<1>13. CASE UNCHANGED vars \/ \E c \in Contents : Edit(c)
  BY <1>13 DEF vars, Edit, threadVars, ghostVars
<1> QED
  BY <1>2, <1>3, <1>4, <1>5, <1>6, <1>7, <1>8, <1>9, <1>10, <1>11, <1>12, <1>13 DEF Next, Begin, Proceed

\* Steps that set nothing of the file, and leave what is to be set.
LEMMA LoadedStays ==
  ASSUME Loaded, Current' => Current, UNCHANGED <<content, m_val, todo>>,
         m_datas' \ touched' \subseteq m_datas \ touched,
         \A t \in Loaders : /\ pc'[t] \in Setting => pc[t] \in Setting /\ UNCHANGED <<name[t], arg[t]>>
                            /\ pc[t] \in Setting /\ pc'[t] \notin Setting => m_val[name[t]] = arg[t]
  PROVE  Loaded'
BY DEF Loaded, Underway

\* What a thread does in a call, step by step (config.cpp:42-94, config.h:400-444).
LEMMA ProceedLoads ==
  ASSUME IInv, Loads, NamesOnce, Loaded, NEW t \in Threads, Proceed(t)
  PROVE  Loaded'
<1> USE DEF IInv, TypeOK, ThreadTypeOK, FileTypeOK, Goto, Enter, Leave, Setting, fileVars
<1>1. ASSUME UNCHANGED <<content, mtime, s_file2modifytime, m_val, m_datas, touched, lapped, todo>>,
             pc[t] # "parse", \A u \in Threads : u # t => UNCHANGED <<pc[u], name[u], arg[u]>>,
             pc'[t] \in Setting => pc[t] \in Setting /\ UNCHANGED <<name[t], arg[t]>>,
             pc[t] \in Setting /\ pc'[t] \notin Setting => m_val[name[t]] = arg[t]
      PROVE  Loaded'
  <2>1. Current' => Current BY <1>1 DEF Current
  <2> QED BY <1>1, <2>1, LoadedStays, ConfigAssumption
<1>2. CASE Compare(t)
  <2>1. CASE arg[t] = m_val[name[t]] BY <1>1, <1>2, <2>1 DEF Compare, ghostVars
  <2>2. CASE arg[t] # m_val[name[t]] BY <1>1, <1>2, <2>2 DEF Compare, ghostVars
  <2> QED BY <2>1, <2>2
<1>3. CASE Notify(t) \/ Notified(t) BY <1>1, <1>3 DEF Notify, Notified, varVars, ghostVars
<1>4. CASE Write(t)
  <2>1. /\ m_val' = [m_val EXCEPT ![name[t]] = arg[t]] /\ name[t] \in Names
        /\ UNCHANGED <<content, mtime, s_file2modifytime, m_datas, lapped, todo>>
        /\ pc[t] = "write" /\ pc'[t] \in {"idle", "apply"}
        /\ \A u \in Threads : u # t => UNCHANGED <<pc[u], name[u], arg[u]>>
        /\ touched' = IF t \in Loaders THEN touched ELSE touched \cup {name[t]}
    BY <1>4 DEF Write, Exclusion, VarTypeOK
  <2>2. \A n \in Names : m_val'[n] = IF n = name[t] THEN arg[t] ELSE m_val[n] BY <2>1 DEF VarTypeOK
  <2> SUFFICES ASSUME Current'
               PROVE  /\ \A u \in Loaders : /\ todo[u] \subseteq content
                                            /\ pc'[u] \in Setting =>
                                                 \E i \in content : name'[u] = i[1] /\ arg'[u] = i[2]
                      /\ \A i \in content : i[1] \in m_datas \ touched' /\ i[2] # Bad =>
                           (\E u \in Loaders : Underway(u, i)') \/ m_val'[i[1]] = i[2]
    BY <2>1 DEF Loaded
  <2>3. Current BY <2>1 DEF Current
  <2>4. /\ \A u \in Loaders : /\ todo[u] \subseteq content
                              /\ pc[u] \in Setting => \E i \in content : name[u] = i[1] /\ arg[u] = i[2]
        /\ \A i \in content : i[1] \in m_datas \ touched /\ i[2] # Bad =>
             (\E u \in Loaders : Underway(u, i)) \/ m_val[i[1]] = i[2]
    BY <2>3 DEF Loaded
  <2>5. \A u \in Loaders : pc'[u] \in Setting => \E i \in content : name'[u] = i[1] /\ arg'[u] = i[2]
    BY <2>1, <2>4, ConfigAssumption
  <2>6. ASSUME NEW i \in content, i[1] \in m_datas \ touched', i[2] # Bad,
               ~\E u \in Loaders : Underway(u, i)'
        PROVE  m_val'[i[1]] = i[2]
    <3>1. i[1] \in Names /\ i[1] \notin touched BY <2>1, <2>6 DEF VarTypeOK
    <3>2. \A u \in Loaders : u # t => ~Underway(u, i)
      BY <2>1, <2>6, ConfigAssumption DEF Underway
    <3>3. i \notin todo[t] \/ t \notin Loaders BY <2>1, <2>6 DEF Underway
    <3>4. CASE t \in Loaders
      <4>1. PICK j \in content : name[t] = j[1] /\ arg[t] = j[2] BY <2>1, <2>4, <3>4
      <4>2. i[1] = name[t] => i = j BY <2>3, <4>1 DEF NamesOnce, Current
      <4>3. (name[t] = i[1] /\ arg[t] = i[2]) \/ m_val[i[1]] = i[2]
        BY <2>4, <2>6, <3>1, <3>2, <3>3, <3>4 DEF Underway
      <4> QED BY <2>2, <3>1, <4>1, <4>2, <4>3
    <3>5. CASE t \notin Loaders
      <4>1. i[1] # name[t] BY <2>1, <2>6, <3>5
      <4>2. m_val[i[1]] = i[2] BY <2>4, <2>6, <3>1, <3>2, <3>5
      <4> QED BY <2>2, <3>1, <4>1, <4>2
    <3> QED BY <3>4, <3>5
  <2> QED BY <2>4, <2>5, <2>6
<1>5. CASE AddCount(t) \/ AddInsert(t) \/ AddReturn(t)
  BY <1>1, <1>5 DEF AddCount, AddInsert, AddReturn, ghostVars
<1>6. ASSUME NEW force \in BOOLEAN, RecordTime(t, force) PROVE Loaded'
  <2>1. CASE s_file2modifytime' = s_file2modifytime /\ pc'[t] = "idle"
    BY <1>1, <1>6, <2>1 DEF RecordTime, varVars, ghostVars
  <2>2. CASE pc'[t] = "parse" BY <2>2 DEF Loaded, Current
  <2> QED BY <1>6, <2>1, <2>2 DEF RecordTime
<1>7. CASE Parse(t)
  <2>1. /\ pc[t] = "parse" /\ t \in Loaders /\ lapped' = (\E u \in Threads \ {t} : Loading(u))
        /\ todo' = [todo EXCEPT ![t] = AllMembers] /\ touched' = {}
        /\ UNCHANGED <<content, mtime, s_file2modifytime, m_val, m_datas, name, arg>>
        /\ pc' = [pc EXCEPT ![t] = IF AllMembers = {} THEN "idle" ELSE "apply"]
    BY <1>7 DEF Parse, OtherLoading, varVars, Loads
  <2> SUFFICES ASSUME Current'
               PROVE  /\ \A u \in Loaders : todo'[u] \subseteq content /\ pc'[u] \notin Setting
                      /\ \A i \in content : i \in todo'[t]
    BY <2>1 DEF Loaded, Underway
  <2>2. AllMembers = content BY <2>1 DEF Current, AllMembers
  <2>3. \A u \in Loaders : u # t => ~Loading(u) BY <2>1, ConfigAssumption DEF Current
  <2>4. \A u \in Loaders : u # t => todo[u] = {} /\ pc[u] \notin Setting
    BY <2>3, ConfigAssumption DEF Loads, Loading
  <2>5. todo'[t] = content /\ pc'[t] \notin Setting BY <2>1, <2>2
  <2>6. \A u \in Loaders : u # t => todo'[u] = {} /\ pc'[u] \notin Setting BY <2>1, <2>4, ConfigAssumption
  <2> QED BY <2>5, <2>6
<1>8. CASE Apply(t)
  <2>0. PICK i \in todo[t] :
          /\ pc[t] = "apply" /\ todo' = [todo EXCEPT ![t] = todo[t] \ {i}]
          /\ UNCHANGED <<content, mtime, s_file2modifytime, m_val, m_datas, touched, lapped>>
          /\ IF i[1] \in m_datas /\ i[2] # Bad
             THEN /\ pc' = [pc EXCEPT ![t] = "set"]
                  /\ name' = [name EXCEPT ![t] = i[1]] /\ arg' = [arg EXCEPT ![t] = i[2]]
             ELSE /\ \E here \in {"idle", "apply"} : pc' = [pc EXCEPT ![t] = here]
                  /\ UNCHANGED <<name, arg>>
    BY <1>8, Zenon DEF Apply, AfterThrow, varVars, ghostVars
  <2>1. /\ t \in Loaders
        /\ \A u \in Threads : u # t => UNCHANGED <<pc[u], name[u], arg[u]>>
        /\ IF i[1] \in m_datas /\ i[2] # Bad
           THEN pc'[t] = "set" /\ name'[t] = i[1] /\ arg'[t] = i[2]
           ELSE pc'[t] \in {"idle", "apply"}
    BY <2>0 DEF Loads
  <2>2. Current' => Current BY <2>0 DEF Current
  <2>3. \A u \in Loaders : u # t => UNCHANGED <<pc[u], name[u], arg[u], todo[u]>>
    BY <2>0, <2>1, ConfigAssumption
  <2>4. todo'[t] = todo[t] \ {i} BY <2>0
  <2> QED BY <2>0, <2>1, <2>2, <2>3, <2>4 DEF Loaded, Underway
<1> QED BY <1>2, <1>3, <1>4, <1>5, <1>6, <1>7, <1>8 DEF Proceed

\* Calls that begin, and the editor of the file.
LEMMA BeginLoads ==
  ASSUME IInv, Loads, Loaded, \/ UNCHANGED vars \/ \E c \in Contents : Edit(c)
                              \/ \E t \in Threads : Begin(t)
  PROVE  Loaded'
<1> USE DEF IInv, TypeOK, ThreadTypeOK, FileTypeOK, Goto, Enter, MayCall, fileVars
<1>1. CASE UNCHANGED vars
  <2>1. Current' => Current BY <1>1 DEF Current, vars, threadVars, ghostVars
  <2> QED BY <1>1, <2>1, LoadedStays DEF vars, varVars, threadVars, ghostVars
<1>2. ASSUME NEW c \in Contents, Edit(c) PROVE Loaded'
  <2>1. s_file2modifytime' # mtime'
    BY <1>2, ConfigAssumption DEF Edit, threadVars
  <2> QED BY <2>1 DEF Loaded, Current
<1>3. ASSUME NEW t \in Threads, UNCHANGED <<content, mtime, s_file2modifytime, m_val, todo>>, lapped => lapped',
             m_datas' \ touched' \subseteq m_datas \ touched,
             pc[t] = "idle", \A u \in Threads : u # t => UNCHANGED <<pc[u], name[u], arg[u]>>,
             t \notin Loaders \/ pc'[t] \notin Setting
      PROVE  Loaded'
  <2>1. Current' => Current BY <1>3 DEF Current
  <2> QED BY <1>3, <2>1, LoadedStays, ConfigAssumption DEF Setting
<1>4. ASSUME NEW t \in Threads, NEW n \in Names, Lookup(t, n) PROVE Loaded'
  BY <1>3, <1>4 DEF Lookup, varVars, threadVars, Setting
<1>5. ASSUME NEW t \in Threads, \/ \E n \in Names : ClearListener(t, n)
                                \/ \E l \in Listeners : DelListener(t, l)
      PROVE  Loaded'
  BY <1>3, <1>5 DEF ClearListener, DelListener, threadVars, ghostVars, Setting
<1>6. ASSUME NEW t \in Threads, t \notin Loaders, NEW n \in Names, NEW v \in Values, SetValue(t, n, v)
      PROVE  Loaded'
  BY <1>3, <1>6 DEF SetValue, varVars, ghostVars
<1>7. ASSUME NEW t \in Threads, NEW n \in Names, NEW l \in Listeners, AddListener(t, n, l) PROVE Loaded'
  BY <1>3, <1>7 DEF AddListener, Setting
<1>8. ASSUME NEW t \in Threads, Stat(t) PROVE Loaded'
  BY <1>3, <1>8 DEF Stat, varVars, Setting
<1> QED BY <1>1, <1>2, <1>4, <1>5, <1>6, <1>7, <1>8 DEF Begin

\* When every LoadFromConfDir has returned, the last of them had no other beside it and the file is still as it
\* was when its time was recorded, a variable has the value of the file, unless the program registered or set
\* it since, for any threads that load a file that names each variable once (config.cpp:42-94, config.h:400-444).
THEOREM FileWinsHolds == ASSUME NamesOnce PROVE Spec => []FileWins
<1>1. Init => Loads /\ Loaded
  <2>1. Init => Loads BY DEF Init, Loads, Loading
  <2>2. Init => Loaded BY DEF Init, Loaded, Current
  <2> QED BY <2>1, <2>2
<1>2. IInv /\ Loads /\ Loaded /\ [Next]_vars => Loads' /\ Loaded'
  BY LoadsStay, ProceedLoads, BeginLoads DEF Next
<1>3. IInv /\ Loads /\ Loaded => FileWins
  <2> SUFFICES ASSUME IInv, Loads, Loaded, \A t \in Loaders : ~Loading(t), ~lapped,
                      s_file2modifytime = mtime, content # Broken,
                      NEW i \in content, i[1] \in m_datas \ touched, i[2] # Bad
               PROVE  m_val[i[1]] = i[2]
    BY DEF FileWins
  <2>1. Current BY DEF Current, Loads, Loading
  <2>2. \A t \in Loaders : ~Underway(t, i) BY ConfigAssumption DEF Underway, Loads, Loading, Setting
  <2> QED BY <2>1, <2>2 DEF Loaded
<1> QED BY <1>1, <1>2, <1>3, Inductive, PTL DEF Spec
=============================================================================
