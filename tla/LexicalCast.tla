------------------------------- MODULE LexicalCast -------------------------------
(***************************************************************************)
(* Texts and values (sylar/config.h, LexicalCast), and the members of a    *)
(* document (sylar/config.cpp, ListAllMember).                             *)
(*                                                                         *)
(* A container is converted by loading its text as YAML and converting the *)
(* text that each of its nodes is written as. yaml-cpp is external: a text *)
(* is the node it is read as and how that is dressed, plainly, in quotes   *)
(* or by nothing at all. A type is a tuple: <<"vector", <<"int">>>>; list  *)
(* is as vector, and the unordered containers are as the ordered ones.     *)
(***************************************************************************)
EXTENDS Naturals, Sequences, FiniteSets

CONSTANTS
  Words,     \* what a scalar says
  Numerals,  \* those that lexical_cast makes a number of
  Number,    \* [Numerals -> that number]
  Dressed,   \* those that are written in quotes
  ReadAs,    \* the nodes that they are read as without
  Legal,     \* those made of the characters that a name may have
  Types, Documents  \* that the properties are checked of

ASSUME CastAssumption ==
  /\ Numerals \cup Dressed \cup Legal \subseteq Words /\ Numerals \cap Dressed = {}
  /\ Number \in [Numerals -> Nat]

-----------------------------------------------------------------------------
(* Nodes and texts. A map is its pairs, in order: a key may be there twice. *)

Null         == [type |-> "null"]
Scalar(w)    == [type |-> "scalar", word |-> w]
Sequence(ns) == [type |-> "seq", nodes |-> ns]
Mapping(ps)  == [type |-> "map", pairs |-> ps]
NodesOf(n)   == IF n.type = "seq" THEN n.nodes ELSE <<>>
PairsOf(n)   == IF n.type = "map" THEN n.pairs ELSE <<>>

Plain(n)    == [node |-> n, dress |-> "plain"]
NothingText == [node |-> Null, dress |-> "nothing"]

Load(text) ==
  IF text.dress = "plain" /\ text.node.type = "scalar" /\ text.node.word \in Dressed
  THEN ReadAs[text.node.word] ELSE text.node
Emit(n) ==
  [node |-> n, dress |-> IF n.type = "scalar" /\ n.word \in Dressed THEN "quotes" ELSE "plain"]

\* Mutated form of ItemText: Scalar() instead of `ss << node'.
ItemTextScalar(n) == IF n.type = "scalar" THEN Plain(n) ELSE NothingText
ItemText(n) == Emit(n)

\* node[k] of a map: the value of the first key that reads as the number k, or nothing.
Indexed(ps, k) ==
  LET found == {i \in DOMAIN ps : ps[i][1] \in Numerals /\ Number[ps[i][1]] = k}
  IN IF found = {} THEN NothingText ELSE ItemText(ps[CHOOSE i \in found : \A j \in found : i <= j][2])

\* The text of node[i] for each i below size(): a scalar has no elements.
Elements(n) == [i \in DOMAIN NodesOf(n) |-> ItemText(NodesOf(n)[i])]
               \o [i \in DOMAIN PairsOf(n) |-> Indexed(PairsOf(n), i - 1)]

-----------------------------------------------------------------------------
(* Conversions: LexicalCast<std::string, T> and LexicalCast<T, std::string>. *)

Ok(v)  == [ok |-> TRUE, val |-> v]
Throws == [ok |-> FALSE]
All(rs) == IF \A i \in DOMAIN rs : rs[i].ok THEN Ok([i \in DOMAIN rs |-> rs[i].val]) ELSE Throws

\* Of pairs with the same key, insert takes the first.
Insert(ks, i) == \A j \in DOMAIN ks : ks[j] = ks[i] => i <= j

RECURSIVE FromString(_, _), ToString(_, _)

FromVector(T, text) ==
  LET es == Elements(Load(text))
  IN All([i \in DOMAIN es |-> FromString(T, es[i])])

FromSet(T, text) ==
  LET r == FromVector(T, text)
  IN IF r.ok THEN Ok({r.val[i] : i \in DOMAIN r.val}) ELSE Throws

\* Iterated as a map, an element of a sequence has no key, and asking for it throws.
FromMap(T, text) ==
  LET ps   == PairsOf(Load(text))
      ks   == [i \in DOMAIN ps |-> ps[i][1]]
      vals == All([i \in DOMAIN ps |-> FromString(T, ItemText(ps[i][2]))])
      At(k) == CHOOSE i \in DOMAIN ks : ks[i] = k /\ Insert(ks, i)
  IN IF NodesOf(Load(text)) # <<>> THEN Throws
     ELSE IF vals.ok THEN Ok([k \in {ks[i] : i \in DOMAIN ks} |-> vals.val[At(k)]])
     ELSE Throws

FromString(T, text) ==
  CASE T[1] = "string" -> Ok(text)
    [] T[1] = "int" -> IF text \in {Plain(Scalar(w)) : w \in Numerals} THEN Ok(Load(text).word)
                       ELSE Throws
    [] T[1] = "vector" -> FromVector(T[2], text)
    [] T[1] = "set" -> FromSet(T[2], text)
    [] T[1] = "map" -> FromMap(T[2], text)

\* Some order of a set: that of an unordered one is anything.
Listed(S) == CHOOSE f \in [1 .. Cardinality(S) -> S] : \A x \in S : \E i \in DOMAIN f : f[i] = x

ToVector(T, v) == Emit(Sequence([i \in DOMAIN v |-> Load(ToString(T, v[i]))]))
ToSet(T, v)    == ToVector(T, Listed(v))
ToMap(T, v) ==
  LET ks == Listed(DOMAIN v)
  IN Emit(Mapping([i \in DOMAIN ks |-> <<ks[i], Load(ToString(T, v[ks[i]]))>>]))

ToString(T, v) ==
  CASE T[1] = "string" -> v
    [] T[1] = "int" -> Plain(Scalar(v))
    [] T[1] = "vector" -> ToVector(T[2], v)
    [] T[1] = "set" -> ToSet(T[2], v)
    [] T[1] = "map" -> ToMap(T[2], v)

-----------------------------------------------------------------------------
(* LoadFromYaml: the members of a document with their names, each before its own members, and *)
(* the text that a variable of that name is set from.                                         *)

Refused(path) == \E i \in DOMAIN path : path[i] \notin Legal

RECURSIVE ListAllMember(_, _)
ListAllMember(path, n) ==
  LET ps == PairsOf(n)
      below[i \in 0 .. Len(ps)] ==
        IF i = 0 THEN <<>> ELSE below[i - 1] \o ListAllMember(Append(path, ps[i][1]), ps[i][2])
  IN IF Refused(path) THEN <<>> ELSE <<[path |-> path, node |-> n]>> \o below[Len(ps)]

\* A scalar is taken as it reads, undressed; all else as it is written.
MemberText(n) == IF n.type = "scalar" THEN Plain(n) ELSE Emit(n)

-----------------------------------------------------------------------------
(* Properties. *)

RECURSIVE ListsFit(_, _), Shaped(_, _), Meaning(_)

\* There is no map where the type has a list.
ListsFit(T, n) ==
  CASE T[1] \in {"vector", "set"} ->
         n.type # "map" /\ \A i \in DOMAIN NodesOf(n) : ListsFit(T[2], NodesOf(n)[i])
    [] T[1] = "map" -> \A i \in DOMAIN PairsOf(n) : ListsFit(T[2], PairsOf(n)[i][2])
    [] OTHER -> TRUE

\* The node has the shape of the type.
Shaped(T, n) ==
  CASE T[1] = "string" -> TRUE
    [] T[1] = "int" -> n.type = "scalar" /\ n.word \in Numerals
    [] T[1] = "map" -> /\ n.type = "map"
                       /\ \A i, j \in DOMAIN n.pairs : n.pairs[i][1] = n.pairs[j][1] => i = j
                       /\ \A i \in DOMAIN n.pairs : Shaped(T[2], n.pairs[i][2])
    [] OTHER -> n.type = "seq" /\ \A i \in DOMAIN n.nodes : Shaped(T[2], n.nodes[i])

\* A node, but for the order of maps.
Meaning(n) ==
  CASE n.type = "seq" -> [seq |-> [i \in DOMAIN n.nodes |-> Meaning(n.nodes[i])]]
    [] n.type = "map" -> [map |-> {<<n.pairs[i][1], Meaning(n.pairs[i][2])>> : i \in DOMAIN n.pairs}]
    [] OTHER -> n

HasSet(T) == T[1] = "set" \/ (Len(T) > 1 /\ T[2][1] = "set")

\* What a variable has from a document, right or wrong, is what it has again from its own
\* toString(): exporting and loading is a fixed point for any nesting of containers. Not so of
\* lists that were given a map: their texts are nothing, and come back as `~' (config.h:88-347).
KeepsValues ==
  \A T \in Types, n \in Documents :
    LET r == FromString(T, MemberText(n))
    IN r.ok /\ ListsFit(T, Load(MemberText(n))) => FromString(T, ToString(T, r.val)) = r

\* A document of the shape of a container is converted, and the value is written as a document that
\* says the same: no element, key or inner container is lost or doubled on the way through texts
\* (config.h:88-347). A string of its own is written as it reads, which may be something else.
KeepsMeaning ==
  \A T \in Types, n \in Documents :
    T # <<"string">> /\ ~HasSet(T) /\ Shaped(T, n) =>
      LET r == FromString(T, MemberText(n))
      IN r.ok /\ Meaning(Load(ToString(T, r.val))) = Meaning(n)

\* The members that are set are those on whose way down every name is legal, each once, after the
\* member it belongs to, however names repeat (config.cpp:24-40).
MembersListed ==
  \A n \in Documents :
    LET L == ListAllMember(<<>>, n)
        Below(m) == {i \in DOMAIN PairsOf(m) : PairsOf(m)[i][1] \in Legal}
        Ways == {<<>>} \cup {<<i>> : i \in Below(n)}
                \cup {<<i, j>> : i \in Below(n), j \in UNION {Below(PairsOf(n)[k][2]) : k \in Below(n)}}
        Real(w) == Len(w) = 2 => w[2] \in Below(PairsOf(n)[w[1]][2])
    IN /\ Len(L) = Cardinality({w \in Ways : Real(w)})
       /\ \A k \in DOMAIN L : L[k].path # <<>> =>
            \E p \in 1 .. k - 1 : \E i \in DOMAIN PairsOf(L[p].node) :
              /\ L[k].path = Append(L[p].path, PairsOf(L[p].node)[i][1])
              /\ L[k].node = PairsOf(L[p].node)[i][2]
              /\ PairsOf(L[p].node)[i][1] \in Legal
=============================================================================
