-------------------------------- MODULE FSUtil --------------------------------
(***************************************************************************)
(* The helpers of sylar/util.cpp that change the file system.              *)
(*                                                                         *)
(* A path is a sequence of names below the root <<>>. A file system is     *)
(* what exists, the directories and the other files, and what the process  *)
(* may do with it: nothing is made or removed in a directory of `readonly',*)
(* and one of `unreadable' cannot be opened. An operation returns the      *)
(* entries that exist afterwards, and what its caller is told.             *)
(***************************************************************************)
EXTENDS Naturals, Sequences, FiniteSets

CONSTANT Paths  \* the paths of the file systems the properties are checked of

ASSUME PathsAssumption == IsFiniteSet(Paths) /\ Paths \subseteq Seq(STRING) \ {<<>>}

Entries(fs)      == fs.dirs \cup fs.files
Dirname(p)       == SubSeq(p, 1, Len(p) - 1)
IsBelow(p, q)    == Len(q) < Len(p) /\ SubSeq(p, 1, Len(q)) = q
Children(fs, p)  == {c \in Entries(fs) : Len(c) = Len(p) + 1 /\ IsBelow(c, p)}

\* Whether an entry may be made or removed: its directory is there and may be written.
Writable(fs, p) == p # <<>> /\ Dirname(p) \in fs.dirs \ fs.readonly

-----------------------------------------------------------------------------
(* Mkdir: every missing directory of the path, up to the first that cannot be made. What is *)
(* there already counts as made, even a file: the next one below it then fails.             *)

Prefixes(p) == {SubSeq(p, 1, n) : n \in 1 .. Len(p)}

MkdirMade(fs, p) ==
  LET missing == Prefixes(p) \ Entries(fs)
  IN {d \in missing : \A e \in missing : Len(e) <= Len(d) =>
        Dirname(e) \in (fs.dirs \ fs.readonly) \cup missing}

Mkdir(fs, p) ==
  LET made == MkdirMade(fs, p)
  IN [dirs |-> fs.dirs \cup made, ret |-> p \in Entries(fs) \/ p \in made]

-----------------------------------------------------------------------------
(* Rm: what is gone, and the answers the caller may get. The answer of a child is          *)
(* overwritten by that of the next, and readdir returns the children in any order.         *)

\* Mutated form of RmDir: the result of rmdir is ignored.
RmDirIgnored(removed, answers) == IF answers = {} THEN {TRUE} ELSE answers
RmDir(removed, answers) == {removed /\ a : a \in IF answers = {} THEN {TRUE} ELSE answers}

RmAll(fs) ==
  LET rm[p \in Entries(fs)] ==
        IF p \in fs.files
        THEN [gone |-> IF Writable(fs, p) THEN {p} ELSE {}, rets |-> {Writable(fs, p)}]
        ELSE IF p \in fs.unreadable
        THEN [gone |-> {}, rets |-> {FALSE}]
        ELSE LET kids    == Children(fs, p)
                 gone    == UNION {rm[k].gone : k \in kids}
                 removed == kids \subseteq gone /\ Writable(fs, p)
             IN [gone |-> gone \cup (IF removed THEN {p} ELSE {}),
                 rets |-> RmDir(removed, UNION {rm[k].rets : k \in kids})]
  IN rm

Rm(fs, p) == IF p \in Entries(fs) THEN RmAll(fs)[p] ELSE [gone |-> {}, rets |-> {TRUE}]

Without(fs, gone) == [fs EXCEPT !.dirs = @ \ gone, !.files = @ \ gone]

-----------------------------------------------------------------------------
(* Mv: `to' is removed, then `from' renamed; a failure of the second leaves neither done nor *)
(* undone what the first did.                                                                *)

\* rename(2): over nothing, a file over a file, or a directory over an empty one.
MayRename(fs, from, to) ==
  /\ from \in Entries(fs) /\ Writable(fs, from) /\ Writable(fs, to)
  /\ ~IsBelow(to, from)
  /\ \/ to \notin Entries(fs)
     \/ {from, to} \subseteq fs.files
     \/ {from, to} \subseteq fs.dirs /\ Children(fs, to) = {}

Renamed(fs, from, to) ==
  LET Move(p) == IF p = from \/ IsBelow(p, from)
                 THEN to \o SubSeq(p, Len(from) + 1, Len(p)) ELSE p
  IN [fs EXCEPT !.dirs = {Move(p) : p \in @}, !.files = {Move(p) : p \in @}]

Rename(fs, from, to) ==
  IF MayRename(fs, from, to) THEN [fs |-> Renamed(fs, from, to), ret |-> TRUE]
  ELSE [fs |-> fs, ret |-> FALSE]

\* The file systems and answers Mv may leave and give.
Mv(fs, from, to) ==
  LET r    == Rm(fs, to)
      left == Without(fs, r.gone)
  IN {IF ok THEN Rename(left, from, to) ELSE [fs |-> left, ret |-> FALSE] : ok \in r.rets}

-----------------------------------------------------------------------------
(* Properties, of every file system over Paths in which at most one directory cannot be     *)
(* written and one cannot be opened.                                                        *)

FileSystems ==
  {fs \in UNION {[dirs : {ds \cup {<<>>}}, files : SUBSET (Paths \ ds),
                  readonly : {{}} \cup {{d} : d \in ds \cup {<<>>}},
                  unreadable : {{}} \cup {{d} : d \in ds}] : ds \in SUBSET Paths} :
     \A p \in Entries(fs) \ {<<>>} : Dirname(p) \in fs.dirs}

\* Mkdir says true exactly if the path exists afterwards, has then made what was missing of it, and
\* fails only where a file or a directory that cannot be written is in the way (util.cpp:183-214).
MkdirMakes ==
  \A fs \in FileSystems : \A p \in Paths :
    LET r == Mkdir(fs, p)
    IN /\ r.ret <=> p \in r.dirs \cup fs.files
       /\ \A d \in r.dirs \ {<<>>} : Dirname(d) \in r.dirs
       /\ ~r.ret => \E q \in Prefixes(p) \cup {<<>>} : q \in fs.files \cup fs.readonly

\* Rm says true exactly if the path is gone, although it forgets the answers of all children but
\* the last (util.cpp:280): whatever was left makes rmdir fail. What remains is a file system.
RmMeansGone ==
  \A fs \in FileSystems : \A p \in Paths :
    LET r == Rm(fs, p)
    IN /\ \A ret \in r.rets : ret <=> p \notin Entries(Without(fs, r.gone))
       /\ \A q \in Entries(Without(fs, r.gone)) \ {<<>>} : Dirname(q) \in Without(fs, r.gone).dirs

\* Mv, of two paths neither of which is within the other: when it says true the target is what the
\* source was, and the source is gone; when it says false the source is as it was. The target may be lost
\* all the same (util.cpp:290-297).
MvMovesOrKeeps ==
  \A fs \in FileSystems : \A from, to \in Paths :
    from # to /\ ~IsBelow(from, to) /\ ~IsBelow(to, from) =>
      \A r \in Mv(fs, from, to) :
        IF r.ret
        THEN /\ from \notin Entries(r.fs)
             /\ \A q \in Entries(fs) : IsBelow(q, from) =>
                  to \o SubSeq(q, Len(from) + 1, Len(q)) \in Entries(r.fs)
             /\ to \in r.fs.files <=> from \in fs.files
        ELSE \A q \in Entries(fs) : q = from \/ IsBelow(q, from) => q \in Entries(r.fs)
=============================================================================
