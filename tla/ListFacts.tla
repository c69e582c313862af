------------------------------- MODULE ListFacts -------------------------------
(***************************************************************************)
(* Induction without an operator as parameter: what holds of a set of      *)
(* numbers, that a loop of n rounds has the states its rounds say, and     *)
(* what is picked from a list.                                             *)
(***************************************************************************)
EXTENDS Lists, Integers, SequenceTheorems, WellFoundedInduction, TLAPS

\* Numbers have a least one among them.
LEMMA LeastOf ==
  ASSUME NEW T \in SUBSET Nat, T # {}
  PROVE  \E n \in T : \A m \in T : n <= m
<1>1. \E x \in T : \A y \in T : ~(<<y, x>> \in OpToRel(<, Nat))
  <2> HIDE DEF OpToRel
  <2> QED BY NatLessThanWellFounded, WFMin
<1>2. PICK x \in T : \A y \in T : ~(<<y, x>> \in OpToRel(<, Nat))
  BY <1>1
<1>3. ASSUME NEW y \in T PROVE x <= y
  <2>1. ~(<<y, x>> \in {p \in Nat \X Nat : p[1] < p[2]}) BY <1>2 DEF OpToRel
  <2> QED BY <2>1
<1> QED BY <1>3

\* A set with 0, and with each number after one that it has, has all of them.
LEMMA Climb ==
  ASSUME NEW n \in Nat, NEW A, 0 \in A, \A i \in 0 .. n - 1 : i \in A => i + 1 \in A
  PROVE  \A i \in 0 .. n : i \in A
<1> SUFFICES ASSUME {i \in 0 .. n : i \notin A} # {} PROVE FALSE
  OBVIOUS
<1>1. PICK m \in {i \in 0 .. n : i \notin A} : \A x \in {i \in 0 .. n : i \notin A} : m <= x
  <2>1. {i \in 0 .. n : i \notin A} \in SUBSET Nat OBVIOUS
  <2> QED BY <2>1, LeastOf
<1>2. m - 1 \in 0 .. n - 1 /\ m - 1 \notin {i \in 0 .. n : i \notin A}
  BY <1>1
<1>3. m - 1 \in A BY <1>2
<1>4. (m - 1) + 1 = m BY <1>1
<1> QED BY <1>1, <1>2, <1>3, <1>4

\* The states of a loop that begins with z and has n rounds, the i-th of which makes G[i][s] of s.
LoopStates(n, S, z, G) ==
  {f \in [0 .. n -> S] : f[0] = z /\ \A i \in 1 .. n : f[i] = G[i][f[i - 1]]}

\* There are such states.
LEMMA Rounds ==
  ASSUME NEW n \in Nat, NEW S, NEW z \in S, NEW G \in [1 .. n -> [S -> S]]
  PROVE  LoopStates(n, S, z, G) # {}
<1> USE DEF LoopStates
<1> DEFINE Upto(m) == {f \in [0 .. m -> S] : f[0] = z /\ \A i \in 1 .. m : f[i] = G[i][f[i - 1]]}
           A == {m \in 0 .. n : Upto(m) # {}}
<1>1. 0 \in A
  <2>1. [i \in 0 .. 0 |-> z] \in Upto(0) OBVIOUS
  <2> QED BY <2>1
<1>2. ASSUME NEW m \in 0 .. n - 1, m \in A PROVE m + 1 \in A
  <2>1. PICK f \in Upto(m) : TRUE BY <1>2
  <2> DEFINE g == [i \in 0 .. m + 1 |-> IF i = m + 1 THEN G[m + 1][f[m]] ELSE f[i]]
  <2>2. f \in [0 .. m -> S] /\ f[0] = z /\ \A i \in 1 .. m : f[i] = G[i][f[i - 1]] BY <2>1
  <2>3. g \in [0 .. m + 1 -> S]
    <3>1. G[m + 1] \in [S -> S] /\ f[m] \in S BY <2>2
    <3>2. G[m + 1][f[m]] \in S BY <3>1
    <3> QED BY <2>2, <3>2
  <2>4. g[0] = z BY <2>2
  <2>5. ASSUME NEW i \in 1 .. m + 1 PROVE g[i] = G[i][g[i - 1]]
    <3>1. CASE i = m + 1
      <4>1. g[m + 1] = G[m + 1][f[m]] /\ g[m] = f[m] /\ (m + 1) - 1 = m OBVIOUS
      <4> QED BY <3>1, <4>1
    <3>2. CASE i \in 1 .. m
      <4>1. g[i] = f[i] /\ g[i - 1] = f[i - 1] BY <3>2
      <4> QED BY <2>2, <3>2, <4>1
    <3> QED BY <3>1, <3>2
  <2>6. g \in Upto(m + 1) BY <2>3, <2>4, <2>5
  <2>7. Upto(m + 1) # {}
    <3> HIDE DEF Upto, g
    <3> QED BY <2>6
  <2>8. m + 1 \in 0 .. n OBVIOUS
  <2> HIDE DEF Upto
  <2> QED BY <2>7, <2>8
<1>3. n \in A
  <2>1. \A i \in 0 .. n - 1 : i \in A => i + 1 \in A BY <1>2
  <2>2. \A i \in 0 .. n : i \in A
    <3> HIDE DEF A
    <3> QED BY <1>1, <2>1, Climb, Zenon
  <2> QED BY <2>2
<1> QED BY <1>3

\* The list that the loop of Picked has after each round.
PickedUpto(s, ok) ==
  CHOOSE got : got = [i \in 0 .. Len(s) |->
    IF i = 0 THEN <<>> ELSE IF i \in ok THEN Append(got[i - 1], s[i]) ELSE got[i - 1]]

\* It begins with the empty list, and a round appends an element or leaves the list as it is.
LEMMA PickedLoop ==
  ASSUME NEW S, NEW s \in Seq(S), NEW ok
  PROVE  /\ PickedUpto(s, ok) \in [0 .. Len(s) -> Seq(S)]
         /\ PickedUpto(s, ok)[0] = <<>>
         /\ \A i \in 1 .. Len(s) :
              PickedUpto(s, ok)[i] = IF i \in ok THEN Append(PickedUpto(s, ok)[i - 1], s[i])
                                     ELSE PickedUpto(s, ok)[i - 1]
         /\ Picked(s, ok) = PickedUpto(s, ok)[Len(s)]
<1> DEFINE n == Len(s)
           H(i) == [got \in Seq(S) |-> IF i \in ok THEN Append(got, s[i]) ELSE got]
           G == [i \in 1 .. n |-> H(i)]
           Eq(f) == f = [i \in 0 .. Len(s) |->
             IF i = 0 THEN <<>> ELSE IF i \in ok THEN Append(f[i - 1], s[i]) ELSE f[i - 1]]
<1>1. n \in Nat /\ <<>> \in Seq(S) /\ \A i \in 1 .. n : s[i] \in S OBVIOUS
<1>2. G \in [1 .. n -> [Seq(S) -> Seq(S)]]
  <2>1. ASSUME NEW i \in 1 .. n PROVE H(i) \in [Seq(S) -> Seq(S)]
    BY <1>1
  <2> QED BY <2>1
<1>3. \E f \in [0 .. n -> Seq(S)] : f[0] = <<>> /\ \A i \in 1 .. n : f[i] = G[i][f[i - 1]]
  <2> DEFINE Q == Seq(S)
             z == <<>>
  <2>1. n \in Nat BY <1>1
  <2>2. z \in Q BY <1>1
  <2>3. G \in [1 .. n -> [Q -> Q]] BY <1>2
  <2>4. LoopStates(n, Q, z, G) # {}
    <3> HIDE DEF n, G, Q, z
    <3> QED BY <2>1, <2>2, <2>3, Rounds
  <2> HIDE DEF n, G
  <2> QED BY <2>4 DEF LoopStates
<1>3a. PICK f \in [0 .. n -> Seq(S)] : f[0] = <<>> /\ \A i \in 1 .. n : f[i] = G[i][f[i - 1]]
  <2> HIDE DEF n, G
  <2> QED BY <1>3
<1>4. ASSUME NEW i \in 1 .. n
      PROVE f[i] = IF i \in ok THEN Append(f[i - 1], s[i]) ELSE f[i - 1]
  <2>1. f[i - 1] \in Seq(S)
    <3>1. i - 1 \in 0 .. n BY <1>1
    <3> HIDE DEF n
    <3> QED BY <3>1
  <2>2. f[i] = G[i][f[i - 1]] BY <1>3a
  <2>3. G[i] = H(i) OBVIOUS
  <2>4. H(i)[f[i - 1]] = IF i \in ok THEN Append(f[i - 1], s[i]) ELSE f[i - 1] BY <2>1
  <2> HIDE DEF G, H
  <2> QED BY <2>2, <2>3, <2>4
<1>5. Eq(f)
  <2> DEFINE e == [i \in 0 .. Len(s) |->
             IF i = 0 THEN <<>> ELSE IF i \in ok THEN Append(f[i - 1], s[i]) ELSE f[i - 1]]
  <2>1. f = [i \in 0 .. n |-> f[i]] OBVIOUS
  <2>2. ASSUME NEW i \in 0 .. n PROVE f[i] = e[i]
    <3> HIDE DEF G, H
    <3>1. CASE i = 0 BY <3>1, <1>3a
    <3>2. CASE i # 0
      <4>1. i \in 1 .. n BY <3>2, <1>1
      <4> QED BY <4>1, <1>4, <3>2
    <3> QED BY <3>1, <3>2
  <2>3. e = [i \in 0 .. n |-> e[i]] OBVIOUS
  <2>4. f = e
    <3> HIDE DEF e, n
    <3> QED BY <2>1, <2>2, <2>3
  <2> QED BY <2>4
<1>6. PickedUpto(s, ok) = CHOOSE g : Eq(g) BY DEF PickedUpto
<1> DEFINE g == PickedUpto(s, ok)
<1>7. Eq(g)
  <2> HIDE DEF Eq
  <2> QED BY <1>5, <1>6
<1>8. g[0] = <<>>
  <2>1. 0 \in 0 .. Len(s) BY <1>1
  <2> HIDE DEF g
  <2> QED BY <1>7, <2>1
<1>8a. ASSUME NEW i \in 1 .. n PROVE g[i] = IF i \in ok THEN Append(g[i - 1], s[i]) ELSE g[i - 1]
  <2>1. i \in 0 .. Len(s) /\ i # 0 BY <1>1
  <2> HIDE DEF g
  <2> QED BY <1>7, <2>1
<1>9. \A i \in 0 .. n : g[i] \in Seq(S)
  <2> DEFINE A == {i \in 0 .. n : g[i] \in Seq(S)}
  <2>1. 0 \in A
    <3>1. 0 \in 0 .. n /\ <<>> \in Seq(S) BY <1>1
    <3> HIDE DEF g, n
    <3> QED BY <3>1, <1>8
  <2>2. ASSUME NEW i \in 0 .. n - 1, i \in A PROVE i + 1 \in A
    <3> HIDE DEF g
    <3>1. i + 1 \in 1 .. n /\ (i + 1) - 1 = i BY <1>1
    <3>2. g[i + 1] = IF i + 1 \in ok THEN Append(g[i], s[i + 1]) ELSE g[i]
      <4>1. g[i + 1] = IF i + 1 \in ok THEN Append(g[(i + 1) - 1], s[i + 1]) ELSE g[(i + 1) - 1]
        BY <1>8a, <3>1
      <4> QED BY <4>1, <3>1
    <3>3. g[i] \in Seq(S) /\ s[i + 1] \in S BY <1>1, <2>2, <3>1
    <3>4. g[i + 1] \in Seq(S) BY <3>2, <3>3
    <3> QED BY <3>1, <3>4
  <2>3. \A i \in 0 .. n : i \in A
    <3>1. \A i \in 0 .. n - 1 : i \in A => i + 1 \in A BY <2>2
    <3> HIDE DEF A, n
    <3> QED BY <1>1, <2>1, <3>1, Climb, Zenon
  <2> QED BY <2>3
<1>10. g \in [0 .. n -> Seq(S)]
  <2>1. g = [i \in 0 .. n |-> g[i]]
    <3> DEFINE e == [i \in 0 .. Len(s) |->
             IF i = 0 THEN <<>> ELSE IF i \in ok THEN Append(g[i - 1], s[i]) ELSE g[i - 1]]
    <3>1. g = e BY <1>7
    <3>2. e = [i \in 0 .. n |-> e[i]] OBVIOUS
    <3> HIDE DEF g, e, n
    <3> QED BY <3>1, <3>2
  <2> HIDE DEF g, n
  <2> QED BY <1>9, <2>1
<1>11. Picked(s, ok) = g[n] BY DEF Picked, PickedUpto
<1> QED
  <2> HIDE DEF PickedUpto
  <2> QED BY <1>8, <1>8a, <1>10, <1>11

\* What is picked are elements at places of ok, in their order and each once.
LEMMA PickedFrom ==
  ASSUME NEW S, NEW s \in Seq(S), NEW ok
  PROVE  /\ Picked(s, ok) \in Seq(S)
         /\ \E h \in [1 .. Len(Picked(s, ok)) -> {i \in 1 .. Len(s) : i \in ok}] :
              /\ \A i \in 1 .. Len(Picked(s, ok)) : Picked(s, ok)[i] = s[h[i]]
              /\ \A i, j \in 1 .. Len(Picked(s, ok)) : i < j => h[i] < h[j]
<1> DEFINE n == Len(s)
           g == PickedUpto(s, ok)
           Places(i) == {j \in 1 .. i : j \in ok}
           From(i, h) == /\ h \in [1 .. Len(g[i]) -> Places(i)]
                         /\ \A j \in 1 .. Len(g[i]) : g[i][j] = s[h[j]]
                         /\ \A j, k \in 1 .. Len(g[i]) : j < k => h[j] < h[k]
           A == {i \in 0 .. n : \E h : From(i, h)}
<1>1. n \in Nat /\ \A i \in 1 .. n : s[i] \in S OBVIOUS
<1>2. /\ g \in [0 .. n -> Seq(S)] /\ g[0] = <<>> /\ Picked(s, ok) = g[n]
      /\ \A i \in 1 .. n : g[i] = IF i \in ok THEN Append(g[i - 1], s[i]) ELSE g[i - 1]
  BY PickedLoop
<1> HIDE DEF g
<1>3. 0 \in A
  <2>1. Len(g[0]) = 0 BY <1>2
  <2>2. From(0, [j \in 1 .. Len(g[0]) |-> 0]) BY <2>1
  <2> QED BY <1>1, <2>2
<1>4. ASSUME NEW i \in 0 .. n - 1, i \in A PROVE i + 1 \in A
  <2>0. i + 1 \in 1 .. n /\ (i + 1) - 1 = i /\ i \in 0 .. n BY <1>1
  <2>1. PICK h : From(i, h) BY <1>4
  <2>2. g[i] \in Seq(S) BY <1>2, <2>0
  <2>3. CASE i + 1 \notin ok
    <3>1. g[i + 1] = g[i] BY <1>2, <2>0, <2>3
    <3>2. Places(i) \subseteq Places(i + 1) BY <2>0
    <3>3. From(i + 1, h) BY <2>1, <3>1, <3>2
    <3> QED BY <2>0, <3>3
  <2>4. CASE i + 1 \in ok
    <3> DEFINE m == Len(g[i])
               e == [j \in 1 .. m + 1 |-> IF j = m + 1 THEN i + 1 ELSE h[j]]
    <3>1. g[i + 1] = Append(g[i], s[i + 1]) BY <1>2, <2>0, <2>4
    <3>2. m \in Nat /\ Len(g[i + 1]) = m + 1 BY <2>2, <3>1
    <3>3. \A j \in 1 .. m : g[i + 1][j] = g[i][j] BY <2>2, <3>1
    <3>4. g[i + 1][m + 1] = s[i + 1] BY <2>2, <3>1
    <3>5. \A j \in 1 .. m : h[j] \in Places(i) BY <2>1
    <3>6. e \in [1 .. m + 1 -> Places(i + 1)]
      <4>1. ASSUME NEW j \in 1 .. m + 1 PROVE e[j] \in Places(i + 1)
        <5>1. CASE j = m + 1 BY <5>1, <2>0, <2>4
        <5>2. CASE j \in 1 .. m BY <5>2, <3>5, <3>2, <2>0
        <5> QED BY <5>1, <5>2, <3>2
      <4> HIDE DEF Places, m
      <4> QED BY <4>1
    <3>7. ASSUME NEW j \in 1 .. m + 1 PROVE g[i + 1][j] = s[e[j]]
      <4>1. CASE j = m + 1 BY <4>1, <3>4
      <4>2. CASE j \in 1 .. m BY <4>2, <3>3, <3>2, <2>1
      <4> QED BY <4>1, <4>2, <3>2
    <3>8. ASSUME NEW j \in 1 .. m + 1, NEW k \in 1 .. m + 1, j < k PROVE e[j] < e[k]
      <4>1. j \in 1 .. m BY <3>8, <3>2
      <4>2. e[j] = h[j] /\ h[j] \in 1 .. i BY <4>1, <3>2, <3>5
      <4>3. CASE k = m + 1 BY <4>2, <4>3, <2>0
      <4>4. CASE k \in 1 .. m
        <5>1. e[k] = h[k] BY <4>4, <3>2
        <5> QED BY <4>1, <4>2, <4>4, <5>1, <2>1, <3>8
      <4> QED BY <4>3, <4>4, <3>2
    <3>9. From(i + 1, e)
      <4> HIDE DEF e, m, Places
      <4> QED BY <3>2, <3>6, <3>7, <3>8
    <3> HIDE DEF From
    <3> QED BY <2>0, <3>9
  <2> QED BY <2>3, <2>4
<1>5. n \in A
  <2>1. \A i \in 0 .. n - 1 : i \in A => i + 1 \in A BY <1>4
  <2>2. \A i \in 0 .. n : i \in A
    <3> HIDE DEF A, n
    <3> QED BY <1>1, <1>3, <2>1, Climb, Zenon
  <2> QED BY <1>1, <2>2
<1>6. PICK h : From(n, h) BY <1>5
<1>7. g[n] \in Seq(S) BY <1>1, <1>2
<1> QED BY <1>2, <1>6, <1>7

\* Picking every place gives the list itself.
LEMMA PickedAll ==
  ASSUME NEW S, NEW s \in Seq(S), NEW ok, 1 .. Len(s) \subseteq ok
  PROVE  Picked(s, ok) = s
<1> DEFINE n == Len(s)
           g == PickedUpto(s, ok)
           A == {i \in 0 .. n : Len(g[i]) = i /\ \A j \in 1 .. i : g[i][j] = s[j]}
<1>1. n \in Nat /\ \A i \in 1 .. n : s[i] \in S OBVIOUS
<1>2. /\ g \in [0 .. n -> Seq(S)] /\ g[0] = <<>> /\ Picked(s, ok) = g[n]
      /\ \A i \in 1 .. n : g[i] = IF i \in ok THEN Append(g[i - 1], s[i]) ELSE g[i - 1]
  BY PickedLoop
<1> HIDE DEF g
<1>3. 0 \in A BY <1>1, <1>2
<1>4. ASSUME NEW i \in 0 .. n - 1, i \in A PROVE i + 1 \in A
  <2>0. i + 1 \in 1 .. n /\ (i + 1) - 1 = i /\ i \in 0 .. n BY <1>1
  <2>1. g[i] \in Seq(S) /\ s[i + 1] \in S BY <1>1, <1>2, <2>0
  <2>2. g[i + 1] = Append(g[i], s[i + 1]) BY <1>2, <2>0
  <2>3. Len(g[i + 1]) = i + 1 BY <1>4, <2>1, <2>2
  <2>4. ASSUME NEW j \in 1 .. i + 1 PROVE g[i + 1][j] = s[j]
    <3>1. CASE j = i + 1 BY <1>4, <2>1, <2>2, <3>1
    <3>2. CASE j \in 1 .. i BY <1>4, <2>1, <2>2, <3>2
    <3> QED BY <3>1, <3>2, <2>0
  <2> QED BY <2>0, <2>3, <2>4
<1>5. n \in A
  <2>1. \A i \in 0 .. n - 1 : i \in A => i + 1 \in A BY <1>4
  <2>2. \A i \in 0 .. n : i \in A
    <3> HIDE DEF A, n
    <3> QED BY <1>1, <1>3, <2>1, Climb, Zenon
  <2> QED BY <1>1, <2>2
<1>6. g[n] \in Seq(S) BY <1>1, <1>2
<1>7. Len(g[n]) = Len(s) /\ \A j \in 1 .. Len(s) : g[n][j] = s[j] BY <1>5
<1>8. g[n] = s
  <2> DEFINE u == g[n]
  <2> HIDE DEF u, n
  <2>1. u \in Seq(S) /\ Len(u) = Len(s) /\ \A j \in 1 .. Len(s) : u[j] = s[j] BY <1>6, <1>7 DEF u
  <2>2. u = s BY <2>1, SeqEqual
  <2> QED BY <2>2 DEF u
<1> QED BY <1>2, <1>8
=============================================================================
