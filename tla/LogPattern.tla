------------------------------- MODULE LogPattern -------------------------------
(***************************************************************************)
(* The parser of log patterns (sylar/log.cpp, LogFormatter::init): a       *)
(* pattern, a sequence of characters, becomes the items of a line.         *)
(*                                                                         *)
(*   %name         an item, of a name that the factory knows               *)
(*   %name{text}   an item with a format of its own                        *)
(*                                                                         *)
(* All else is text. The comment above the parser has `%%' for a percent   *)
(* sign as well; the code writes one and goes on at the second.            *)
(***************************************************************************)
EXTENDS Naturals, Sequences, FiniteSets

CONSTANTS
  Alpha,       \* the characters isalpha() holds of
  Signs,       \* other characters than these, %, { and }
  Registered,  \* the names of items: CLASS_STRING_REGISTER
  MaxPattern   \* bound: length of the patterns that PatternKept looks at

ASSUME PatternAssumption ==
  /\ Alpha \cap Signs = {} /\ {"%", "{", "}"} \cap (Alpha \cup Signs) = {}
  /\ Registered \subseteq Seq(Alpha) /\ <<>> \notin Registered /\ MaxPattern \in Nat

Literal(s)    == [kind |-> "text", name |-> s, fmt |-> <<>>]
Item(n, fmt) == [kind |-> "item", name |-> n, fmt |-> fmt]
PatternError == [kind |-> "error", name |-> <<>>, fmt |-> <<>>]

\* The first place from n on with a character of the set, or one beyond the end.
Find(p, n, chars) ==
  CHOOSE i \in n .. Len(p) + 1 :
    /\ i = Len(p) + 1 \/ p[i] \in chars
    /\ \A j \in n .. i - 1 : p[j] \notin chars

\* Where the name that begins at n ends.
NameEnd(p, n) == Find(p, n, {"%", "{"} \cup Signs)

\* The item whose `%' is at i, and where the pattern goes on; no item if its format has no end.
Directive(p, i) ==
  LET b == NameEnd(p, i + 1)
      e == Find(p, b + 1, {"}"})
      word == SubSeq(p, i + 1, b - 1)
  IN IF b > Len(p) \/ p[b] # "{" THEN [item |-> Item(word, <<>>), next |-> b]
     ELSE IF e > Len(p) THEN [item |-> PatternError, next |-> i + 1]
     ELSE [item |-> Item(word, SubSeq(p, b + 1, e - 1)), next |-> e + 1]

\* Mutated form of Flushed: the text before an item is forgotten.
FlushedNever(s) == s.vec
Flushed(s) == IF s.text = <<>> THEN s.vec ELSE Append(s.vec, Literal(s.text))

\* One round of the loop: a character of text, a percent sign, or an item. A format without end
\* leaves the text before it to come after the error.
Step(p, s) ==
  LET Plain(c) == [s EXCEPT !.text = Append(@, c), !.i = @ + 1]
      d == Directive(p, s.i)
  IN IF s.i > Len(p) THEN s
     ELSE IF p[s.i] # "%" THEN Plain(p[s.i])
     ELSE IF s.i < Len(p) /\ p[s.i + 1] = "%" THEN Plain("%")
     ELSE IF d.item = PatternError
     THEN [s EXCEPT !.vec = Append(@, PatternError), !.error = TRUE, !.i = d.next]
     ELSE [s EXCEPT !.vec = Append(Flushed(s), d.item), !.text = <<>>, !.i = d.next]

\* Factory::CreateObj knows the registered names; another one becomes a text that says so.
Unknown(item) == item.kind = "item" /\ item.name \notin Registered

Parse(p) ==
  LET s[k \in 0 .. Len(p)] ==
        IF k = 0 THEN [i |-> 1, text |-> <<>>, vec |-> <<>>, error |-> FALSE] ELSE Step(p, s[k - 1])
      items == Flushed(s[Len(p)])
  IN [items |-> items, m_error |-> s[Len(p)].error \/ \E k \in DOMAIN items : Unknown(items[k])]

isError(p) == Parse(p).m_error

-----------------------------------------------------------------------------
(* Properties. *)

Written(item) ==
  CASE item.kind = "text" -> item.name
    [] item.kind = "item" /\ item.fmt = <<>> -> <<"%">> \o item.name
    [] OTHER -> <<"%">> \o item.name \o <<"{">> \o item.fmt \o <<"}">>

WrittenAll(items) ==
  LET w[k \in 0 .. Len(items)] == IF k = 0 THEN <<>> ELSE w[k - 1] \o Written(items[k])
  IN w[Len(items)]

Has(p, a, b) == \E i \in 1 .. Len(p) - 1 : p[i] = a /\ p[i + 1] = b

\* Every pattern that is accepted says what its items say, in order, with no character lost, doubled
\* or read twice, and texts in one piece; an error is found only where a format has no end. Empty
\* formats and the sign `%%' are left out (log.cpp:292-438).
PatternKept ==
  \A p \in UNION {[1 .. n -> Alpha \cup Signs \cup {"%", "{", "}"}] : n \in 0 .. MaxPattern} :
    ~Has(p, "%", "%") /\ ~Has(p, "{", "}") =>
      LET items == Parse(p).items
          ends  == \A k \in DOMAIN items : items[k].kind # "error"
      IN /\ ends => WrittenAll(items) = p
         /\ ~ends => \E i \in DOMAIN p : p[i] = "{" /\ \A j \in i .. Len(p) : p[j] # "}"
         /\ ends => \A k \in 1 .. Len(items) - 1 :
                      ~(items[k].kind = "text" /\ items[k + 1].kind = "text")

\* What the grammar of the comment is made of: characters of text, items, and items with a format.
Formats == {<<>>} \cup {<<"%", c>> : c \in Alpha}
Tokens  == {Literal(<<c>>) : c \in Alpha \cup Signs} \cup {Item(n, f) : n \in Registered, f \in Formats}

\* A text does not continue the name before it (log.cpp:291), and texts are in one piece.
Separate(ts) ==
  \A k \in 1 .. Len(ts) - 1 :
    /\ ts[k].kind = "item" /\ ts[k].fmt = <<>> /\ ts[k + 1].kind = "text" => ts[k + 1].name[1] \in Signs
    /\ ~(ts[k].kind = "text" /\ ts[k + 1].kind = "text")

\* What is written in that grammar, in whatever order, comes out as it is (log.cpp:292-438).
Grammar ==
  \A ts \in UNION {[1 .. n -> Tokens] : n \in 0 .. 3} :
    Separate(ts) => /\ Parse(WrittenAll(ts)).items = ts
                    /\ ~isError(WrittenAll(ts))
=============================================================================
