---------------------------------- MODULE Env ----------------------------------
(***************************************************************************)
(* The program's arguments and their help texts (sylar/env.cpp), used by   *)
(* threads while their owner constructs, joins and destroys them. Each     *)
(* method holds m_mutex by a guard for its scope, and addHelp two scopes   *)
(* one after the other. The threads also use a lock of their own.          *)
(***************************************************************************)
EXTENDS Thread, Lists, FiniteSets

CONSTANTS
  m_mutex,        \* of Env; the other mutexes are the threads' own
  Keys, Values,
  Dash, NoText,   \* the argument "-", the empty text
  Argv,           \* the arguments the program is started with
  MaxArgs,        \* bound: arguments of the command lines that InitMeansGrammar looks at
  MaxCalls        \* bound: calls of Env and scopes of other locks

ASSUME EnvAssumption ==
  /\ m_mutex \in Mutexes /\ None \notin Threads \cup Keys
  /\ Keys \cap Values = {} /\ {Dash, NoText} \cap (Keys \cup Values) = {} /\ Dash # NoText
  /\ Argv \in Seq(Keys \cup Values \cup {Dash})
  /\ MaxArgs \in Nat /\ MaxCalls \in Nat /\ MaxSignals \in Nat

-----------------------------------------------------------------------------
(* init(): a key stands for an argument with a dash and a text, a value for one without dash. *)

Put(f, k, v) == [x \in DOMAIN f \cup {k} |-> IF x = k THEN v ELSE f[x]]

\* A key that is not followed by a value has the empty one.
Flush(s) == IF s.now_key = None THEN s.args ELSE Put(s.args, s.now_key, NoText)

NextArg(s, arg) ==
  IF ~s.ret THEN s
  ELSE IF arg \in Keys THEN [s EXCEPT !.args = Flush(s), !.now_key = arg]
  ELSE IF arg = Dash \/ s.now_key = None THEN [s EXCEPT !.ret = FALSE]
  ELSE [s EXCEPT !.args = Put(@, s.now_key, arg), !.now_key = None]

\* What init() leaves in m_args, and what it returns.
init(argv) ==
  LET state[i \in 0 .. Len(argv)] ==
        IF i = 0 THEN [args |-> <<>>, now_key |-> None, ret |-> TRUE]
        ELSE NextArg(state[i - 1], argv[i])
      last == state[Len(argv)]
  IN [ret |-> last.ret, args |-> IF last.ret THEN Flush(last) ELSE last.args]

-----------------------------------------------------------------------------
VARIABLES
  m_args, m_helps,
  call,        \* thread -> the method it is in, or NoCall
  calls,       \* thread -> number of calls so far
  met          \* history: keys with texts of calls of addHelp that overlapped

envVars == <<m_args, m_helps, call, calls, met>>
vars == <<lockVars, threadVars, envVars>>

NoCall == [op |-> "none", key |-> None]
Methods == {"add", "del", "get", "addHelp", "removeHelp"}
Calls == {NoCall} \cup [op : Methods \cup {"pushHelp"}, key : Keys]

\* The threads that are in addHelp of the key.
Adding(k) == {t \in Threads : call[t].op \in {"addHelp", "pushHelp"} /\ call[t].key = k}

\* Mutated form of EraseHelp: the entry after one that is erased is passed over.
EraseHelpSkip(helps, k) ==
  LET kept[i \in 0 .. Len(helps)] ==
        IF i = 0 THEN [seq |-> <<>>, skip |-> FALSE]
        ELSE IF helps[i][1] = k /\ ~kept[i - 1].skip THEN [seq |-> kept[i - 1].seq, skip |-> TRUE]
        ELSE [seq |-> Append(kept[i - 1].seq, helps[i]), skip |-> FALSE]
  IN kept[Len(helps)].seq
EraseHelp(helps, k) == Picked(helps, {i \in DOMAIN helps : helps[i][1] # k})

InCallback(t) == pc[t] = "cb" /\ call[t] = NoCall

Call(t) ==
  /\ InCallback(t) /\ calls < MaxCalls
  /\ \E op \in Methods, k \in Keys :
       /\ call' = [call EXCEPT ![t] = [op |-> op, key |-> k]]
       /\ met' = IF op = "addHelp" /\ Adding(k) # {} THEN met \cup {k} ELSE met
  /\ calls' = calls + 1
  /\ UNCHANGED <<lockVars, threadVars, m_args, m_helps>>

Enter(t) ==
  /\ call[t] # NoCall
  /\ Construct(t, m_mutex, IF call[t].op = "get" THEN "read" ELSE "write")
  /\ UNCHANGED <<threadVars, envVars>>

\* What the method does under its guard, whose scope ends. addHelp, which has called
\* removeHelp, goes on with a guard of its own.
Leave(t) ==
  LET op == call[t].op
      k  == call[t].key
  IN /\ call[t] # NoCall
     /\ Destruct(t, m_mutex)
     /\ m_args' = CASE op = "add" -> Put(m_args, k, t)
                    [] op = "del" -> [x \in DOMAIN m_args \ {k} |-> m_args[x]]
                    [] OTHER      -> m_args
     /\ m_helps' = CASE op \in {"addHelp", "removeHelp"} -> EraseHelp(m_helps, k)
                     [] op = "pushHelp" -> Append(m_helps, <<k, t>>)
                     [] OTHER           -> m_helps
     /\ call' = [call EXCEPT ![t] = IF op = "addHelp" THEN [op |-> "pushHelp", key |-> k] ELSE NoCall]
     /\ met' = IF op \in {"addHelp", "removeHelp"} /\ Adding(k) \subseteq {t} THEN met \ {k} ELSE met
     /\ UNCHANGED <<threadVars, calls>>

\* The code of a thread uses guards of locks that it shares with others.
UseGuard(t) ==
  /\ InCallback(t)
  /\ \E l \in Mutexes \ {m_mutex} :
       \/ /\ calls < MaxCalls
          /\ \E mode \in {"read", "write"} : Construct(t, l, mode)
          /\ calls' = calls + 1
       \/ (GuardLock(t, l) \/ GuardUnlock(t, l) \/ Destruct(t, l)) /\ UNCHANGED calls
  /\ UNCHANGED <<threadVars, m_args, m_helps, call, met>>

Run(t) ==
  \/ (RunInit(t) \/ RunNotify(t)) /\ UNCHANGED <<lockVars, envVars>>
  \/ Call(t) \/ Enter(t) \/ Leave(t) \/ UseGuard(t)
  \/ /\ InCallback(t) /\ \A l \in Mutexes : guard[t][l] = "none"
     /\ RunEnd(t) /\ UNCHANGED <<lockVars, envVars>>

Owner(t) ==
  /\ Create(t) \/ Constructed(t) \/ Interrupted(t) \/ Join(t) \/ Destroy(t)
  /\ UNCHANGED <<lockVars, envVars>>

Next == \E t \in Threads : Run(t) \/ Owner(t)

Init ==
  /\ LocksInit /\ ThreadInit
  /\ m_args = init(Argv).args /\ m_helps = <<>>
  /\ call = [t \in Threads |-> NoCall] /\ calls = 0 /\ met = {}

Spec == Init /\ [][Next]_vars

-----------------------------------------------------------------------------
(* Properties. *)

\* The variables have their types; m_args maps keys to values, or the threads that added them.
TypeOK ==
  /\ DOMAIN m_args \subseteq Keys
  /\ \A k \in DOMAIN m_args : m_args[k] \in Threads \cup Values \cup {NoText}
  /\ m_helps \in Seq(Keys \X Threads)
  /\ call \in [Threads -> Calls] /\ calls \in 0 .. MaxCalls /\ met \subseteq Keys

\* A guard says that it is locked exactly while its thread has the lock in its mode, through any
\* sequence of lock(), unlock() and the end of its scope; so two threads are in the scopes of locked
\* guards of one lock only to read (mutex.h:22-160).
GuardsExclude ==
  /\ LocksTypeOK
  /\ \A l \in Mutexes : \A t \in Threads :
       /\ m_locked[t][l] => guard[t][l] # "none"
       /\ (m_locked[t][l] /\ guard[t][l] = "write") <=> writer[l] = t
       /\ (m_locked[t][l] /\ guard[t][l] = "read")  <=> t \in readers[l]
       /\ \A u \in Threads \ {t} :
            m_locked[t][l] /\ m_locked[u][l] => guard[t][l] = "read" /\ guard[u][l] = "read"

\* addHelp is two scopes of m_mutex: a key has one text, unless calls of addHelp for it overlapped
\* and none that ran alone, nor a removeHelp, came since (env.cpp:97-119).
HelpReplaced ==
  \A k \in Keys \ met : Cardinality({i \in DOMAIN m_helps : m_helps[i][1] = k}) <= 1

\* init() accepts a command line exactly if it has no single dash and every value follows its
\* key, and then each key has the value that follows its last occurrence, or the empty one; of one
\* that is refused it keeps what came before, but for a key still without value (env.cpp:28-69).
MeansGrammar(argv) ==
  LET Wrong(i) == argv[i] = Dash \/ (argv[i] \in Values /\ (i = 1 \/ argv[i - 1] \notin Keys))
      Good     == {i \in DOMAIN argv : \A j \in 1 .. i : ~Wrong(j)}
      n        == Cardinality(Good)
      ok       == n = Len(argv)
      Given(i) == argv[i] \in Keys /\ (ok \/ i < n)
      At(k)    == {i \in Good : argv[i] = k /\ Given(i)}
      Value(i) == IF i < n /\ argv[i + 1] \in Values THEN argv[i + 1] ELSE NoText
  IN /\ init(argv).ret = ok
     /\ DOMAIN init(argv).args = {k \in Keys : At(k) # {}}
     /\ \A k \in DOMAIN init(argv).args :
          \E i \in At(k) : (\A j \in At(k) : j <= i) /\ init(argv).args[k] = Value(i)

\* The command lines with which main() may be called here mean that.
InitMeansGrammar ==
  \A argv \in UNION {[1 .. n -> Keys \cup Values \cup {Dash}] : n \in 0 .. MaxArgs} : MeansGrammar(argv)

\* What Env promises: the types, what a command line means and one help text for a key (env.cpp:28-119).
EnvHolds == TypeOK /\ InitMeansGrammar /\ HelpReplaced
=============================================================================
