------------------------------- MODULE MCConfig -------------------------------
(* Values of Config's and LexicalCast's constants for TLC. *)
EXTENDS Config, LexicalCast

CONSTANTS a, b

TwoNames == {a, b}

\* Two variables of one type share the counter of addListener.
OneType == [n \in TwoNames |-> "int"]

ZeroOne  == {0, 1}

\* One file that sets both, one of whose members does not convert, one that cannot be read.
ThreeFiles == {{<<a, 1>>, <<b, 1>>}, {<<a, 0>>, <<b, Bad>>}, Broken}

-----------------------------------------------------------------------------
\* A word, a number, a word that is not a legal name and one that is written in quotes.
FourWords == {"x", "1", "X", "x: 1"}
AMap == [w \in {"x: 1"} |-> Mapping(<<<<"x", Scalar("1")>>>>)]

Flat == {<<"string">>, <<"int">>}
Containers == {"vector", "set", "map"}
AllTypes == Flat \cup {<<c, T>> : c \in Containers, T \in Flat \cup {<<c, T>> : c \in Containers, T \in Flat}}

UpTo(n, S) == UNION {[1 .. k -> S] : k \in 0 .. n}

\* What nests two deep, with up to two elements and one within.
Leaves == {Null} \cup {Scalar(w) : w \in FourWords}
TwoKeys == {"x", "X"}
OneIsOne == [w \in {"1"} |-> 1]
Inner  == Leaves \cup {Sequence(ns) : ns \in UpTo(2, Leaves)}
                 \cup {Mapping(ps) : ps \in UpTo(2, TwoKeys \X {Scalar("1"), Scalar("x: 1")})}
AllDocuments ==
  Inner \cup {Sequence(<<m>> \o ns) : m \in Inner, ns \in UpTo(1, Leaves)}
        \cup {Mapping(<<p>> \o ps) : p \in TwoKeys \X Inner, ps \in UpTo(1, TwoKeys \X Leaves)}
        \cup {Mapping(<<<<"1", m>>, p>>) : m \in Inner, p \in TwoKeys \X Leaves}

\* What a document says is what variables of any type have and say again, and the variables of the state
\* machine have their types (config.cpp:24-65, config.h:77-347).
DocumentsHold == TypeOK /\ KeepsValues /\ KeepsMeaning /\ MembersListed
=============================================================================
