------------------------ MODULE SessionRefinement_proofs -----------------------
(***************************************************************************)
(* The incremental session implements AbstractSanitizer, whatever the      *)
(* limits and the hosts, for every detector set that meets                 *)
(* SessionContract: what it releases up to any unit is what one call on    *)
(* the text up to there returns, findings included, and a failure is one   *)
(* that the whole input shows.  Hence however a text is cut into appends,  *)
(* the outcome is that of the whole-input call.                            *)
(***************************************************************************)
EXTENDS IncrementalSession_proofs

------------------------------------------------------------------------------
(* Pieces put together, and counting.                                      *)

(* Concatenation is associative and the empty sequence changes nothing.    *)
LEMMA Concatenation ==
  ASSUME NEW S, NEW a \in Seq(S), NEW b \in Seq(S), NEW c \in Seq(S)
  PROVE  a \o (b \o c) = (a \o b) \o c
  OBVIOUS

(* Putting two sequences together adds their lengths.                      *)
LEMMA Joined ==
  ASSUME NEW S, NEW a \in Seq(S), NEW b \in Seq(S)
  PROVE  a \o b \in Seq(S) /\ Len(a \o b) = Len(a) + Len(b)
  OBVIOUS

(* The empty sequence is neutral.                                          *)
LEMMA JoinedToNothing ==
  ASSUME NEW S, NEW a \in Seq(S)
  PROVE  <<>> \o a = a /\ a \o <<>> = a /\ <<>> \in Seq(S)
  OBVIOUS

(* What is in a sequence.                                                  *)
LEMMA InSequence ==
  ASSUME NEW T, NEW q \in Seq(T)
  PROVE  Len(q) \in Nat /\ \A i \in 1..Len(q) : q[i] \in T
  OBVIOUS

(* The text put together up to each of the pieces.                         *)
JoinsUp(f, pieces, S) ==
  /\ f \in [0..Len(pieces) -> Seq(S)]
  /\ f[0] = <<>>
  /\ \A i \in 1..Len(pieces) : f[i] = f[i - 1] \o pieces[i]

(* Every sequence of pieces can be put together piece by piece.            *)
LEMMA JoinExists ==
  ASSUME NEW S, NEW pieces \in Seq(Seq(S))
  PROVE  \E f : JoinsUp(f, pieces, S)
<1> DEFINE n == Len(pieces)
           Upto(f, m) == f[0] = <<>> /\ \A i \in 1..m : f[i] = f[i - 1] \o pieces[i]
           P == {m \in Nat : m <= n => \E f \in [0..n -> Seq(S)] : Upto(f, m)}
<1>1. 0 \in P
  <2> DEFINE f == [k \in 0..n |-> <<>>]
  <2>1. f \in [0..n -> Seq(S)] /\ f[0] = <<>>
    <3>1. <<>> \in Seq(S) /\ 0 \in 0..n
      OBVIOUS
    <3> QED
      BY <3>1
  <2>2. Upto(f, 0)
    BY <2>1
  <2> QED
    BY <2>1, <2>2
<1>2. ASSUME NEW m \in P
      PROVE  m + 1 \in P
  <2>1. m \in Nat
    OBVIOUS
  <2>2. CASE m + 1 <= n
    <3>1. PICK f \in [0..n -> Seq(S)] : Upto(f, m)
      <4>1. m <= n
        BY <2>1, <2>2
      <4> HIDE DEF Upto
      <4> QED
        BY <4>1
    <3> DEFINE x == f[m] \o pieces[m + 1]
               g == [f EXCEPT ![m + 1] = x]
    <3>2. m + 1 \in 1..n /\ m \in 0..n /\ m + 1 \in 0..n /\ x \in Seq(S)
      <4>1. m + 1 \in 1..n /\ m \in 0..n /\ m + 1 \in 0..n
        BY <2>1, <2>2
      <4>2. f[m] \in Seq(S)
        BY <4>1
      <4>3. pieces[m + 1] \in Seq(S)
        BY <4>1, InSequence
      <4> QED
        BY <4>1, <4>2, <4>3, Joined, Zenon
    <3> HIDE DEF x
    <3>3. g \in [0..n -> Seq(S)] /\ g[m + 1] = x /\ \A j \in 0..m : g[j] = f[j]
      BY <2>1, <3>1, <3>2
    <3> HIDE DEF g
    <3>4. ASSUME NEW i \in 1..(m + 1)
          PROVE  g[i] = g[i - 1] \o pieces[i]
      <4>1. CASE i = m + 1
        <5>1. i - 1 = m /\ m \in 0..m
          BY <2>1, <4>1
        <5> QED
          BY <3>3, <4>1, <5>1 DEF x
      <4>2. CASE i # m + 1
        <5>1. i \in 1..m /\ i \in 0..m /\ i - 1 \in 0..m
          BY <2>1, <4>2
        <5> QED
          BY <3>1, <3>3, <5>1
      <4> QED
        BY <4>1, <4>2
    <3>5. g[0] = <<>>
      BY <2>1, <3>1, <3>3
    <3>6. Upto(g, m + 1)
      BY <3>4, <3>5
    <3> HIDE DEF Upto
    <3> QED
      BY <2>1, <3>3, <3>6
  <2>3. CASE ~(m + 1 <= n)
    <3> HIDE DEF Upto
    <3> QED
      BY <2>1, <2>3
  <2> QED
    BY <2>2, <2>3
<1>3. \E f \in [0..n -> Seq(S)] : Upto(f, n)
  <2> HIDE DEF Upto
  <2>1. P \subseteq Nat
    OBVIOUS
  <2>2. P = Nat
    <3> HIDE DEF P
    <3> QED
      BY <1>1, <1>2, <2>1, StepsReachAll
  <2>3. n \in P
    <3> HIDE DEF P
    <3> QED
      BY <2>2
  <2>4. n <= n
    OBVIOUS
  <2> QED
    BY <2>3, <2>4, Zenon
<1> QED
  BY <1>3 DEF JoinsUp

(* FlattenSeq puts the pieces together.                                    *)
LEMMA FlattenJoins ==
  ASSUME NEW S, NEW pieces \in Seq(Seq(S)), NEW f, JoinsUp(f, pieces, S)
  PROVE  FlattenSeq(pieces) = f[Len(pieces)] /\ FlattenSeq(pieces) \in Seq(S)
<1> DEFINE n == Len(pieces)
<1>1. n \in Nat /\ f[n] \in Seq(S)
  BY DEF JoinsUp
<1>2. CASE n = 0
  <2>1. pieces = <<>>
    BY <1>2
  <2>2. FlattenSeq(pieces) = pieces
    BY <1>2 DEF FlattenSeq
  <2> QED
    BY <1>1, <1>2, <2>1, <2>2 DEF JoinsUp
<1>3. CASE n # 0
  <2> DEFINE Flattens(g) == g = [i \in 1..n |-> IF i = 1 THEN pieces[i] ELSE g[i - 1] \o pieces[i]]
             h == [i \in 1..n |-> f[i]]
             c == CHOOSE g : Flattens(g)
  <2>1. Flattens(h)
    <3>1. ASSUME NEW i \in 1..n
          PROVE  h[i] = IF i = 1 THEN pieces[i] ELSE h[i - 1] \o pieces[i]
      <4>1. CASE i = 1
        <5>1. pieces[1] \in Seq(S)
          BY <1>1, <4>1
        <5>2. f[1] = f[0] \o pieces[1] /\ f[0] = <<>>
          <6>1. 1 \in 1..Len(pieces) /\ 1 - 1 = 0
            BY <1>1, <4>1
          <6> QED
            BY <6>1 DEF JoinsUp
        <5>3. <<>> \o pieces[1] = pieces[1]
          BY <5>1, JoinedToNothing
        <5> QED
          BY <4>1, <5>2, <5>3
      <4>2. CASE i # 1
        <5>1. i - 1 \in 1..n
          BY <1>1, <4>2
        <5>2. f[i] = f[i - 1] \o pieces[i]
          BY DEF JoinsUp
        <5> QED
          BY <4>2, <5>1, <5>2
      <4> QED
        BY <4>1, <4>2
    <3>2. h = [i \in 1..n |-> IF i = 1 THEN pieces[i] ELSE h[i - 1] \o pieces[i]]
      BY <3>1, Zenon
    <3> QED
      BY <3>2
  <2>2. Flattens(c)
    BY <2>1, Zenon
  <2>3. FlattenSeq(pieces) = c[n]
    BY <1>3 DEF FlattenSeq
  <2> DEFINE d == [i \in 0..n |-> IF i = 0 THEN <<>> ELSE c[i]]
  <2>4. ASSUME NEW i \in 1..n
        PROVE  d[i] = d[i - 1] \o pieces[i]
    <3>1. c[i] = IF i = 1 THEN pieces[i] ELSE c[i - 1] \o pieces[i]
      BY <2>2
    <3> HIDE DEF c
    <3>2. d[i] = c[i] /\ d[i - 1] = IF i = 1 THEN <<>> ELSE c[i - 1]
      OBVIOUS
    <3>3. pieces[i] \in Seq(S)
      OBVIOUS
    <3>4. <<>> \o pieces[i] = pieces[i]
      BY <3>3
    <3> QED
      BY <3>1, <3>2, <3>4
  <2>5. d[0] = f[0]
    BY <1>1 DEF JoinsUp
  <2>6. d[n] = c[n]
    BY <1>1, <1>3
  <2> HIDE DEF d, c
  <2>7. d[n] = f[n]
    <3>1. \A i \in 1..n : f[i] = f[i - 1] \o pieces[i]
      BY DEF JoinsUp
    <3>2. \A i \in 1..n : d[i] = d[i - 1] \o pieces[i]
      BY <2>4
    <3> DEFINE e == d
    <3> HIDE DEF e
    <3>3. /\ e[0] = f[0] /\ \A i \in 1..Len(pieces) : e[i] = e[i - 1] \o pieces[i]
          /\ \A i \in 1..Len(pieces) : f[i] = f[i - 1] \o pieces[i]
      BY <2>5, <3>1, <3>2 DEF e
    <3>4. \A i \in 0..Len(pieces) : e[i] = f[i]
      <4> DEFINE P == {m \in Nat : m <= n => e[m] = f[m]}
      <4>1. 0 \in P
        BY <3>3
      <4>2. ASSUME NEW m \in P
            PROVE  m + 1 \in P
        <5>1. CASE m + 1 <= n
          <6>1. m + 1 \in 1..n /\ (m + 1) - 1 = m /\ e[m] = f[m]
            BY <5>1
          <6>2. e[m + 1] = f[m + 1]
            BY <3>3, <6>1
          <6> QED
            BY <6>2
        <5> QED
          BY <5>1
      <4>3. P = Nat
        <5>1. P \subseteq Nat
          OBVIOUS
        <5> HIDE DEF P
        <5> QED
          BY <4>1, <4>2, <5>1, StepsReachAll
      <4> QED
        BY <4>3
    <3> QED
      BY <1>1, <3>4 DEF e
  <2> QED
    BY <1>1, <2>3, <2>6, <2>7
<1> QED
  BY <1>2, <1>3

(* Pieces over one alphabet make a text over it.                           *)
LEMMA FlattenIsText ==
  ASSUME NEW S, NEW pieces \in Seq(Seq(S))
  PROVE  FlattenSeq(pieces) \in Seq(S)
<1>1. PICK f : JoinsUp(f, pieces, S)
  BY JoinExists
<1> QED
  BY <1>1, FlattenJoins

(* A slice of any sequence.                                                *)
LEMMA PartOfSeq ==
  ASSUME NEW S, NEW q \in Seq(S), NEW from \in Nat, NEW to \in Nat, from <= to, to <= Len(q)
  PROVE  /\ Slice(q, from, to) \in Seq(S)
         /\ Len(Slice(q, from, to)) = to - from
         /\ \A i \in 1..(to - from) : Slice(q, from, to)[i] = q[from + i]
  BY DEF Slice

(* Flattening a sequence of pieces, one part after the other.              *)
LEMMA FlattenInParts ==
  ASSUME NEW S, NEW pieces \in Seq(Seq(S)), NEW a \in Nat, NEW b \in Nat,
         a <= b, b <= Len(pieces)
  PROVE  FlattenSeq(Slice(pieces, 0, b))
           = FlattenSeq(Slice(pieces, 0, a)) \o FlattenSeq(Slice(pieces, a, b))
<1> DEFINE whole == Slice(pieces, 0, b)
           first == Slice(pieces, 0, a)
           then == Slice(pieces, a, b)
<1>1. /\ whole \in Seq(Seq(S)) /\ Len(whole) = b /\ \A i \in 1..b : whole[i] = pieces[i]
      /\ first \in Seq(Seq(S)) /\ Len(first) = a /\ \A i \in 1..a : first[i] = pieces[i]
  <2>1. 0 \in Nat /\ 0 <= a /\ 0 <= b /\ a <= Len(pieces)
    OBVIOUS
  <2>2. /\ whole \in Seq(Seq(S)) /\ Len(whole) = b - 0
        /\ \A i \in 1..(b - 0) : whole[i] = pieces[0 + i]
    BY <2>1, PartOfSeq, Zenon
  <2>3. /\ first \in Seq(Seq(S)) /\ Len(first) = a - 0
        /\ \A i \in 1..(a - 0) : first[i] = pieces[0 + i]
    BY <2>1, PartOfSeq, Zenon
  <2> HIDE DEF whole, first
  <2> QED
    BY <2>2, <2>3
<1>2. /\ then \in Seq(Seq(S)) /\ Len(then) = b - a
      /\ \A i \in 1..(b - a) : then[i] = pieces[a + i]
  BY PartOfSeq, Zenon
<1> HIDE DEF whole, first, then
<1>3. PICK f : JoinsUp(f, first, S)
  BY <1>1, JoinExists
<1>4. PICK g : JoinsUp(g, then, S)
  BY <1>2, JoinExists
<1> DEFINE h == [i \in 0..b |-> IF i <= a THEN f[i] ELSE f[a] \o g[i - a]]
<1>5. f \in [0..a -> Seq(S)] /\ g \in [0..(b - a) -> Seq(S)] /\ g[0] = <<>> /\ f[a] \in Seq(S)
  BY <1>1, <1>2, <1>3, <1>4 DEF JoinsUp
<1>6. h \in [0..b -> Seq(S)]
  <2>1. ASSUME NEW i \in 0..b
        PROVE  (IF i <= a THEN f[i] ELSE f[a] \o g[i - a]) \in Seq(S)
    <3>1. CASE i <= a
      BY <1>5, <3>1
    <3>2. CASE ~(i <= a)
      <4>1. i - a \in 0..(b - a)
        BY <3>2
      <4>2. g[i - a] \in Seq(S)
        BY <1>5, <4>1
      <4> QED
        BY <1>5, <3>2, <4>2
    <3> QED
      BY <3>1, <3>2
  <2> QED
    BY <2>1
<1>7. h[0] = <<>>
  BY <1>1, <1>3 DEF JoinsUp
<1>8. ASSUME NEW i \in 1..b
      PROVE  h[i] = h[i - 1] \o whole[i]
  <2>1. whole[i] = pieces[i] /\ pieces[i] \in Seq(S) /\ i - 1 \in 0..b
    BY <1>1
  <2>2. CASE i <= a
    <3>1. i \in 1..a /\ i - 1 <= a
      BY <2>2
    <3>2. f[i] = f[i - 1] \o first[i] /\ first[i] = pieces[i]
      BY <1>1, <1>3, <3>1 DEF JoinsUp
    <3>3. h[i] = f[i] /\ h[i - 1] = f[i - 1]
      BY <2>1, <2>2, <3>1
    <3> HIDE DEF h
    <3> QED
      BY <2>1, <3>2, <3>3
  <2>3. CASE ~(i <= a)
    <3> DEFINE j == i - a
    <3>1. j \in 1..(b - a) /\ j - 1 \in 0..(b - a) /\ a + j = i /\ (i - 1) - a = j - 1
      BY <2>3
    <3> HIDE DEF j
    <3>2. g[j] = g[j - 1] \o then[j] /\ then[j] = pieces[i] /\ g[j - 1] \in Seq(S)
      BY <1>2, <1>4, <1>5, <3>1 DEF JoinsUp
    <3>3. h[i] = f[a] \o g[j]
      BY <2>3 DEF j
    <3>4. h[i - 1] = f[a] \o g[j - 1]
      <4>1. CASE i - 1 <= a
        <5>1. i - 1 = a /\ j - 1 = 0
          BY <2>3, <3>1, <4>1
        <5>2. f[a] \o <<>> = f[a]
          BY <1>5
        <5> QED
          BY <1>5, <2>1, <4>1, <5>1, <5>2
      <4>2. CASE ~(i - 1 <= a)
        BY <2>1, <3>1, <4>2
      <4> QED
        BY <4>1, <4>2
    <3>5. f[a] \o (g[j - 1] \o pieces[i]) = (f[a] \o g[j - 1]) \o pieces[i]
      <4>1. f[a] \in Seq(S) /\ g[j - 1] \in Seq(S) /\ pieces[i] \in Seq(S)
        BY <1>5, <2>1, <3>2
      <4> DEFINE u == f[a]
                 v == g[j - 1]
                 w == pieces[i]
      <4>2. u \in Seq(S) /\ v \in Seq(S) /\ w \in Seq(S)
        BY <4>1
      <4> HIDE DEF u, v, w
      <4>3. u \o (v \o w) = (u \o v) \o w
        BY <4>2, Concatenation
      <4> QED
        BY <4>3 DEF u, v, w
    <3> HIDE DEF h
    <3> QED
      BY <2>1, <3>2, <3>3, <3>4, <3>5
  <2> QED
    BY <2>2, <2>3
<1>9. h[b] = f[a] \o g[b - a]
  <2>1. CASE b <= a
    <3>1. b = a
      BY <2>1
    <3>2. f[a] \o <<>> = f[a] /\ g[b - a] = <<>>
      BY <1>5, <3>1
    <3> QED
      BY <2>1, <3>1, <3>2
  <2>2. CASE ~(b <= a)
    <3>1. b \in 0..b
      OBVIOUS
    <3> QED
      BY <2>2, <3>1
  <2> QED
    BY <2>1, <2>2
<1> HIDE DEF h
<1>10. FlattenSeq(whole) = h[b]
  BY <1>1, <1>6, <1>7, <1>8, FlattenJoins DEF JoinsUp
<1>11. FlattenSeq(first) = f[a]
  BY <1>1, <1>3, FlattenJoins
<1>12. FlattenSeq(then) = g[b - a]
  BY <1>2, <1>4, FlattenJoins
<1> QED
  BY <1>9, <1>10, <1>11, <1>12 DEF whole, first, then

(* Pieces that are themselves parts of a longer sequence, one after the    *)
(* other from `ends[1]` to the last of the ends.                           *)
LEMMA FlattenChain ==
  ASSUME NEW S, NEW pieces \in Seq(Seq(S)), NEW n \in Nat,
         NEW at \in [0..n -> Nat],
         \A k \in 1..n : at[k - 1] <= at[k], at[n] <= Len(pieces),
         NEW parts, parts = [k \in 1..n |-> FlattenSeq(Slice(pieces, at[k - 1], at[k]))]
  PROVE  FlattenSeq(Slice(pieces, 0, at[n]))
           = FlattenSeq(Slice(pieces, 0, at[0])) \o FlattenSeq(parts)
<1> DEFINE Up(b) == FlattenSeq(Slice(pieces, 0, b))
<1>1. \A k \in 0..n : at[k] <= at[n]
  <2> DEFINE P == {m \in Nat : m <= n => at[n - m] <= at[n]}
  <2>1. 0 \in P
    BY DEF P
  <2>2. ASSUME NEW m \in P
        PROVE  m + 1 \in P
    <3>1. CASE m + 1 <= n
      <4>1. n - m \in 1..n /\ (n - m) - 1 = n - (m + 1) /\ n - (m + 1) \in 0..n /\ n - m \in 0..n /\ n \in 0..n
        BY <3>1
      <4>2. at[n - m] <= at[n] /\ at[n - (m + 1)] <= at[n - m]
        BY <3>1, <4>1
      <4>3. at[n - (m + 1)] \in Nat /\ at[n - m] \in Nat /\ at[n] \in Nat
        BY <4>1
      <4>4. at[n - (m + 1)] <= at[n]
        BY <4>2, <4>3
      <4> QED
        BY <4>4
    <3> QED
      BY <3>1
  <2>3. P = Nat
    <3>1. P \subseteq Nat
      OBVIOUS
    <3> HIDE DEF P
    <3> QED
      BY <2>1, <2>2, <3>1, StepsReachAll
  <2>4. ASSUME NEW k \in 0..n
        PROVE  at[k] <= at[n]
    <3> DEFINE j == n - k
    <3>1. j \in Nat /\ j <= n /\ n - j = k
      OBVIOUS
    <3> HIDE DEF j
    <3>2. j \in P
      <4> HIDE DEF P
      <4> QED
        BY <2>3, <3>1
    <3>3. at[n - j] <= at[n]
      BY <3>1, <3>2
    <3> QED
      BY <3>1, <3>3
  <2> QED
    BY <2>4
<1>2. \A k \in 0..n : at[k] \in Nat /\ at[k] <= Len(pieces)
  <2>1. ASSUME NEW k \in 0..n
        PROVE  at[k] \in Nat /\ at[k] <= Len(pieces)
    <3>1. at[k] \in Nat /\ at[n] \in Nat /\ at[k] <= at[n] /\ Len(pieces) \in Nat
      BY <1>1
    <3> QED
      BY <3>1
  <2> QED
    BY <2>1
<1>3. \A k \in 1..n : /\ Up(at[k]) = Up(at[k - 1]) \o parts[k]
                      /\ parts[k] \in Seq(S)
  <2>1. ASSUME NEW k \in 1..n
        PROVE  Up(at[k]) = Up(at[k - 1]) \o parts[k] /\ parts[k] \in Seq(S)
    <3>1. /\ k - 1 \in 0..n /\ k \in 0..n
          /\ at[k - 1] \in Nat /\ at[k] \in Nat /\ at[k - 1] <= at[k] /\ at[k] <= Len(pieces)
      BY <1>2
    <3>2. Slice(pieces, at[k - 1], at[k]) \in Seq(Seq(S))
      BY <3>1, PartOfSeq
    <3>3. parts[k] = FlattenSeq(Slice(pieces, at[k - 1], at[k]))
      OBVIOUS
    <3> QED
      BY <3>1, <3>2, <3>3, FlattenInParts, FlattenIsText
  <2> QED
    BY <2>1
<1>4. parts \in Seq(Seq(S)) /\ Len(parts) = n
  BY <1>3
<1>5. \A k \in 0..n : Up(at[k]) \in Seq(S)
  <2>1. ASSUME NEW k \in 0..n
        PROVE  Up(at[k]) \in Seq(S)
    <3>1. at[k] \in Nat /\ at[k] <= Len(pieces) /\ 0 \in Nat /\ 0 <= at[k]
      BY <1>2
    <3>2. Slice(pieces, 0, at[k]) \in Seq(Seq(S))
      BY <3>1, PartOfSeq
    <3> QED
      BY <3>2, FlattenIsText
  <2> QED
    BY <2>1
<1> HIDE DEF Up
<1>6. PICK g : JoinsUp(g, parts, S)
  BY <1>4, JoinExists
<1> DEFINE Q == {m \in Nat : m <= n => Up(at[m]) = Up(at[0]) \o g[m]}
<1>7. g \in [0..n -> Seq(S)] /\ g[0] = <<>> /\ \A i \in 1..n : g[i] = g[i - 1] \o parts[i]
  BY <1>4, <1>6 DEF JoinsUp
<1>8. 0 \in Q
  <2>1. Up(at[0]) \in Seq(S)
    BY <1>5
  <2>2. Up(at[0]) = Up(at[0]) \o <<>>
    BY <2>1
  <2> QED
    BY <1>7, <2>2
<1>9. ASSUME NEW m \in Q
      PROVE  m + 1 \in Q
  <2>1. m \in Nat
    OBVIOUS
  <2>2. CASE m + 1 <= n
    <3>1. m + 1 \in 1..n /\ (m + 1) - 1 = m /\ m \in 0..n /\ 0 \in 0..n
      BY <2>1, <2>2
    <3>2. Up(at[m]) = Up(at[0]) \o g[m]
      BY <2>1, <2>2
    <3>3. Up(at[m + 1]) = (Up(at[0]) \o g[m]) \o parts[m + 1]
      BY <1>3, <3>1, <3>2
    <3>4. Up(at[0]) \in Seq(S) /\ g[m] \in Seq(S) /\ parts[m + 1] \in Seq(S)
      BY <1>3, <1>5, <1>7, <3>1
    <3>5. Up(at[m + 1]) = Up(at[0]) \o (g[m] \o parts[m + 1])
      <4> DEFINE u == Up(at[0])
                 v == g[m]
                 w == parts[m + 1]
      <4>1. u \in Seq(S) /\ v \in Seq(S) /\ w \in Seq(S)
        BY <3>4
      <4> HIDE DEF u, v, w
      <4>2. u \o (v \o w) = (u \o v) \o w
        BY <4>1, Concatenation
      <4> QED
        BY <3>3, <4>2 DEF u, v, w
    <3>6. g[m + 1] = g[m] \o parts[m + 1]
      BY <1>7, <3>1
    <3>7. m + 1 \in Nat /\ Up(at[m + 1]) = Up(at[0]) \o g[m + 1]
      BY <2>1, <3>5, <3>6
    <3> QED
      BY <3>7
  <2> QED
    BY <2>1, <2>2
<1>10. Q = Nat
  <2>1. Q \subseteq Nat
    OBVIOUS
  <2> HIDE DEF Q
  <2> QED
    BY <1>8, <1>9, <2>1, StepsReachAll
<1>11. Up(at[n]) = Up(at[0]) \o g[n]
  <2>1. n \in Q
    <3> HIDE DEF Q
    <3> QED
      BY <1>10
  <2> QED
    BY <2>1
<1>12. FlattenSeq(parts) = g[n]
  BY <1>4, <1>6, FlattenJoins
<1> QED
  BY <1>11, <1>12 DEF Up

------------------------------------------------------------------------------
(* Ranges, findings and their number.                                      *)

(* What candidates are made of.                                            *)
RangeSet == [type : Types, start : Nat, end : Nat]

(* Findings as they are before and after they are moved.                   *)
FindingSet ==
  [id : Nat, start : Int, end : Int, type : Types, action : Actions \cup {"fails"}]

(* A one-to-one image of a finite set has as many elements.                *)
LEMMA ImageCount ==
  ASSUME NEW S, IsFiniteSet(S), NEW T, NEW f \in [S -> T],
         \A x, y \in S : f[x] = f[y] => x = y,
         \A z \in T : \E x \in S : z = f[x]
  PROVE  IsFiniteSet(T) /\ Cardinality(T) = Cardinality(S)
<1>1. f \in Surjection(S, T)
  BY DEF Surjection
<1>2. f \in Injection(S, T)
  BY DEF Injection, IsInjective
<1> QED
  BY <1>1, <1>2, FS_Surjection

(* Two disjoint parts of a finite set add up to it.                        *)
LEMMA TwoPartsCount ==
  ASSUME NEW S, IsFiniteSet(S), NEW A, NEW B, S = A \cup B, A \cap B = {}
  PROVE  /\ IsFiniteSet(A) /\ IsFiniteSet(B)
         /\ Cardinality(A) \in Nat /\ Cardinality(B) \in Nat
         /\ Cardinality(S) = Cardinality(A) + Cardinality(B)
<1>1. A \in SUBSET S /\ B \in SUBSET S
  OBVIOUS
<1>2. IsFiniteSet(A) /\ IsFiniteSet(B)
  BY <1>1, FS_Subset, Zenon
<1>3. Cardinality(A) \in Nat /\ Cardinality(B) \in Nat
  BY <1>2, FS_CardinalityType, Zenon
<1>4. Cardinality(A \cup B) = Cardinality(A) + Cardinality(B) - Cardinality(A \cap B)
  BY <1>2, FS_Union, Zenon
<1>5. Cardinality({}) = 0
  BY FS_EmptySet, Zenon
<1>6. Cardinality(S) = Cardinality(A) + Cardinality(B) - 0
  BY <1>4, <1>5
<1> QED
  BY <1>2, <1>3, <1>6

(* A part of a finite set is finite.                                       *)
LEMMA SubsetCount ==
  ASSUME NEW S, IsFiniteSet(S), NEW A \in SUBSET S
  PROVE  IsFiniteSet(A) /\ Cardinality(A) \in Nat
  BY FS_Subset, FS_CardinalityType, Zenon

(* Moving a range or a finding.                                            *)
LEMMA MovedRange ==
  ASSUME NEW r \in [type : Types, start : Int, end : Int], NEW by \in Int
  PROVE  /\ Moved(r, by) = [type |-> r.type, start |-> r.start + by, end |-> r.end + by]
         /\ by = 0 => Moved(r, by) = r
<1>1. /\ r = [type |-> r.type, start |-> r.start, end |-> r.end]
      /\ r.start \in Int /\ r.end \in Int
  OBVIOUS
<1>2. Moved(r, by) = [type |-> r.type, start |-> r.start + by, end |-> r.end + by]
  <2> DEFINE m == Moved(r, by)
  <2>1. m.type = r.type /\ m.start = r.start + by /\ m.end = r.end + by
    BY DEF Moved
  <2>2. m = [x \in {"type", "start", "end"} |-> m[x]]
    BY DEF Moved
  <2> HIDE DEF m
  <2>3. m = [type |-> m.type, start |-> m.start, end |-> m.end]
    BY <2>2
  <2> QED
    BY <2>1, <2>3 DEF m
<1>3. ASSUME by = 0
      PROVE  Moved(r, by) = r
  <2>1. r.start + by = r.start /\ r.end + by = r.end
    BY <1>1, <1>3
  <2> QED
    BY <1>1, <1>2, <2>1
<1> QED
  BY <1>2, <1>3

(* Moving a range twice is moving it by the sum.                           *)
LEMMA MovedRangeBack ==
  ASSUME NEW r \in [type : Types, start : Int, end : Int], NEW a \in Int, NEW b \in Int
  PROVE  Moved(Moved(r, a), b) = Moved(r, a + b)
<1> DEFINE m == [type |-> r.type, start |-> r.start + a, end |-> r.end + a]
<1>1. Moved(r, a) = m
  BY MovedRange
<1>2. m \in [type : Types, start : Int, end : Int]
  OBVIOUS
<1>3. Moved(m, b) = [type |-> m.type, start |-> m.start + b, end |-> m.end + b]
  BY <1>2, MovedRange
<1>4. Moved(r, a + b) = [type |-> r.type, start |-> r.start + (a + b), end |-> r.end + (a + b)]
  BY MovedRange
<1> QED
  BY <1>1, <1>3, <1>4

(* Moving a finding changes its two offsets and nothing else.              *)
LEMMA MovedFinding ==
  ASSUME NEW f \in FindingSet, NEW by \in Int
  PROVE  LET m == Moved(f, by) IN
         /\ m \in FindingSet
         /\ m.id = f.id /\ m.start = f.start + by /\ m.end = f.end + by
         /\ m.type = f.type /\ m.action = f.action
<1> DEFINE n == [id |-> f.id, start |-> f.start + by, end |-> f.end + by, type |-> f.type,
                 action |-> f.action]
<1>1. Moved(f, by) = n
  <2> DEFINE m == Moved(f, by)
  <2>1. /\ m.id = f.id /\ m.start = f.start + by /\ m.end = f.end + by
        /\ m.type = f.type /\ m.action = f.action
    BY DEF Moved, FindingSet
  <2>2. m = [x \in {"id", "start", "end", "type", "action"} |-> m[x]]
    BY DEF Moved, FindingSet
  <2> HIDE DEF m
  <2>3. m = [id |-> m.id, start |-> m.start, end |-> m.end, type |-> m.type,
             action |-> m.action]
    BY <2>2
  <2> QED
    BY <2>1, <2>3 DEF m
<1>2. /\ f.id \in Nat /\ f.start \in Int /\ f.end \in Int /\ f.type \in Types
      /\ f.action \in Actions \cup {"fails"}
  BY DEF FindingSet
<1>3. f.start + by \in Int /\ f.end + by \in Int
  BY <1>2
<1>4. n \in FindingSet
  BY <1>2, <1>3 DEF FindingSet
<1> QED
  BY <1>1, <1>4

(* A finding is its five fields.                                           *)
LEMMA FindingIs ==
  ASSUME NEW f \in FindingSet, NEW g \in FindingSet,
         f.id = g.id, f.start = g.start, f.end = g.end, f.type = g.type, f.action = g.action
  PROVE  f = g
  BY DEF FindingSet

(* Two findings moved alike to the same place are the same finding.        *)
LEMMA MovedOnce ==
  ASSUME NEW f \in FindingSet, NEW g \in FindingSet, NEW by \in Int, Moved(f, by) = Moved(g, by)
  PROVE  f = g
<1>1. f.id = g.id /\ f.type = g.type /\ f.action = g.action
  BY MovedFinding
<1>2. f.start + by = g.start + by /\ f.end + by = g.end + by
  BY MovedFinding
<1>3. f.start \in Int /\ g.start \in Int /\ f.end \in Int /\ g.end \in Int
  BY DEF FindingSet
<1>4. f.start = g.start /\ f.end = g.end
  BY <1>2, <1>3
<1> QED
  BY <1>1, <1>4, FindingIs

(* Moving findings leaves their number.                                    *)
LEMMA MovedCount ==
  ASSUME NEW S \in SUBSET FindingSet, IsFiniteSet(S), NEW by \in Int
  PROVE  IsFiniteSet(MovedAll(S, by)) /\ Cardinality(MovedAll(S, by)) = Cardinality(S)
<1> DEFINE f == [x \in S |-> Moved(x, by)]
<1>1. f \in [S -> MovedAll(S, by)]
  BY DEF MovedAll
<1>2. \A x, y \in S : f[x] = f[y] => x = y
  BY MovedOnce
<1>3. \A z \in MovedAll(S, by) : \E x \in S : z = f[x]
  BY DEF MovedAll
<1> HIDE DEF f
<1> QED
  BY <1>1, <1>2, <1>3, ImageCount

------------------------------------------------------------------------------
(* The findings of ranges that start at different places.                  *)
Distinct(ranges) == \A r, q \in ranges : r.start = q.start => r = q

(* A host whose policy answers for every type.                             *)
PolicyIsTotal(h) == h \in [policy : [Types -> Actions \cup {"fails"}], formatter : Formatters]

(* The finding that a candidate becomes.                                   *)
FindingOf(h, r, number) ==
  [id |-> number, start |-> r.start, end |-> r.end, type |-> r.type,
   action |-> h.policy[r.type]]

(* A rank is a number.                                                     *)
LEMMA RankIsNumber ==
  ASSUME NEW S, IsFiniteSet(S), NEW r
  PROVE  Rank(r, S) \in Nat
  BY SubsetCount, Zenon DEF Rank

(* Finalizing ranges makes one finding of each, numbered from the left.    *)
LEMMA FinalizedAre ==
  ASSUME NEW h, PolicyIsTotal(h), NEW R \in SUBSET RangeSet, IsFiniteSet(R), NEW before \in Nat
  PROVE  /\ Finalized(h, R, before) = {FindingOf(h, r, before + Rank(r, R)) : r \in R}
         /\ Finalized(h, R, before) \subseteq FindingSet
         /\ \A f \in Finalized(h, R, before) : f.start \in Nat /\ f.end \in Nat
<1>1. Finalized(h, R, before) = {FindingOf(h, r, before + Rank(r, R)) : r \in R}
  BY DEF Finalized, FindingOf
<1>2. ASSUME NEW r \in R
      PROVE  FindingOf(h, r, before + Rank(r, R)) \in FindingSet
  <2>1. before + Rank(r, R) \in Nat
    <3>1. Rank(r, R) \in Nat
      BY RankIsNumber
    <3> QED
      BY <3>1
  <2>2. r.type \in Types /\ r.start \in Nat /\ r.end \in Nat
    BY DEF RangeSet
  <2>3. h.policy[r.type] \in Actions \cup {"fails"}
    BY <2>2 DEF PolicyIsTotal
  <2> QED
    BY <2>1, <2>2, <2>3 DEF FindingOf, FindingSet
<1>3. ASSUME NEW r \in R, NEW n
      PROVE  FindingOf(h, r, n).start \in Nat /\ FindingOf(h, r, n).end \in Nat
  BY DEF FindingOf, RangeSet
<1> QED
  BY <1>1, <1>2, <1>3

(* ... and as many findings as there were ranges.                          *)
LEMMA FinalizedCount ==
  ASSUME NEW h, PolicyIsTotal(h), NEW R \in SUBSET RangeSet, IsFiniteSet(R), Distinct(R),
         NEW before \in Nat
  PROVE  /\ IsFiniteSet(Finalized(h, R, before))
         /\ Cardinality(Finalized(h, R, before)) = Cardinality(R)
<1> DEFINE F == Finalized(h, R, before)
           f == [r \in R |-> FindingOf(h, r, before + Rank(r, R))]
<1>1. F = {FindingOf(h, r, before + Rank(r, R)) : r \in R}
  BY FinalizedAre
<1> HIDE DEF F
<1>2. f \in [R -> F]
  BY <1>1
<1>3. \A x, y \in R : f[x] = f[y] => x = y
  <2>1. ASSUME NEW x \in R, NEW y \in R, f[x] = f[y]
        PROVE  x = y
    <3>1. f[x].start = x.start /\ f[y].start = y.start
      BY DEF FindingOf
    <3> QED
      BY <2>1, <3>1 DEF Distinct
  <2> QED
    BY <2>1
<1>4. \A z \in F : \E x \in R : z = f[x]
  BY <1>1
<1> HIDE DEF f
<1>5. IsFiniteSet(F) /\ Cardinality(F) = Cardinality(R)
  BY <1>2, <1>3, <1>4, ImageCount
<1> QED
  BY <1>5 DEF F

(* The findings that start before a position and those that do not.        *)
LEMMA FinalizedInParts ==
  ASSUME NEW h, PolicyIsTotal(h), NEW R \in SUBSET RangeSet, IsFiniteSet(R),
         NEW at \in Nat
  PROVE  LET F == Finalized(h, R, 0) IN
         /\ Below(F, at) = Finalized(h, Below(R, at), 0)
         /\ From(F, at) = Finalized(h, From(R, at), Cardinality(Below(R, at)))
         /\ F = Below(F, at) \cup From(F, at)
<1> DEFINE F == Finalized(h, R, 0)
           A == Below(R, at)
           B == From(R, at)
<1>1. /\ R = A \cup B /\ A \cap B = {} /\ A \in SUBSET RangeSet /\ B \in SUBSET RangeSet
      /\ \A r \in A : r.start < at
      /\ \A r \in B : ~(r.start < at)
  BY DEF Below, From, RangeSet
<1>2. IsFiniteSet(A) /\ IsFiniteSet(B) /\ Cardinality(A) \in Nat
  BY <1>1, TwoPartsCount
<1>3. /\ F = {FindingOf(h, r, 0 + Rank(r, R)) : r \in R}
      /\ Finalized(h, A, 0) = {FindingOf(h, r, 0 + Rank(r, A)) : r \in A}
      /\ Finalized(h, B, Cardinality(A)) = {FindingOf(h, r, Cardinality(A) + Rank(r, B)) : r \in B}
      /\ \A f \in F : f.start \in Nat
  BY <1>1, <1>2, FinalizedAre
<1>4. \A r \in R : r.start \in Nat
  BY DEF RangeSet
<1>5. ASSUME NEW r \in A
      PROVE  Rank(r, R) = Rank(r, A)
  <2>1. {g \in R : g.start <= r.start} = {g \in A : g.start <= r.start}
    BY <1>1, <1>4
  <2> QED
    BY <2>1 DEF Rank
<1>6. ASSUME NEW r \in B
      PROVE  0 + Rank(r, R) = Cardinality(A) + Rank(r, B)
  <2> DEFINE X == {g \in R : g.start <= r.start}
             Y == {g \in B : g.start <= r.start}
  <2>1. X = A \cup Y /\ A \cap Y = {}
    BY <1>1, <1>4
  <2>2. IsFiniteSet(X)
    BY SubsetCount
  <2> HIDE DEF X, Y
  <2>3. Cardinality(X) = Cardinality(A) + Cardinality(Y) /\ Cardinality(X) \in Nat
    BY <2>1, <2>2, TwoPartsCount, SubsetCount
  <2> QED
    BY <2>3 DEF Rank, X, Y
<1>7. \A r \in R : \A n : FindingOf(h, r, n).start = r.start
  BY DEF FindingOf
<1> HIDE DEF A, B, F
<1>8. Below(F, at) = {FindingOf(h, r, 0 + Rank(r, R)) : r \in A}
  <2>1. \A r \in A : r \in R /\ r.start < at
    BY <1>1
  <2>2. \A r \in R : r.start < at => r \in A
    BY <1>1
  <2>3. Below(F, at) = {f \in F : f.start < at}
    BY DEF Below
  <2>4. ASSUME NEW f \in F, f.start < at
        PROVE  \E r \in A : f = FindingOf(h, r, 0 + Rank(r, R))
    <3>1. PICK r \in R : f = FindingOf(h, r, 0 + Rank(r, R))
      BY <1>3
    <3> QED
      BY <1>7, <2>2, <2>4, <3>1
  <2>5. ASSUME NEW r \in A
        PROVE  /\ FindingOf(h, r, 0 + Rank(r, R)) \in F
               /\ FindingOf(h, r, 0 + Rank(r, R)).start < at
    BY <1>3, <1>7, <2>1
  <2> QED
    BY <2>3, <2>4, <2>5
<1>9. From(F, at) = {FindingOf(h, r, 0 + Rank(r, R)) : r \in B}
  <2>1. \A f \in F : (f.start >= at) <=> ~(f.start < at)
    BY <1>3
  <2> QED
    <3>1. \A r \in B : r \in R /\ ~(r.start < at)
      BY <1>1
    <3>2. \A r \in R : ~(r.start < at) => r \in B
      BY <1>1
    <3>3. From(F, at) = {f \in F : f.start >= at}
      BY DEF From
    <3>4. ASSUME NEW f \in F, f.start >= at
          PROVE  \E r \in B : f = FindingOf(h, r, 0 + Rank(r, R))
      <4>1. PICK r \in R : f = FindingOf(h, r, 0 + Rank(r, R))
        BY <1>3
      <4> QED
        BY <1>7, <2>1, <3>2, <3>4, <4>1
    <3>5. ASSUME NEW r \in B
          PROVE  /\ FindingOf(h, r, 0 + Rank(r, R)) \in F
                 /\ FindingOf(h, r, 0 + Rank(r, R)).start >= at
      <4>1. FindingOf(h, r, 0 + Rank(r, R)) \in F
        BY <1>3, <3>1
      <4>2. ~(FindingOf(h, r, 0 + Rank(r, R)).start < at)
        BY <1>7, <3>1
      <4> QED
        BY <2>1, <4>1, <4>2
    <3> QED
      BY <3>3, <3>4, <3>5
<1>10. {FindingOf(h, r, 0 + Rank(r, R)) : r \in A} = {FindingOf(h, r, 0 + Rank(r, A)) : r \in A}
  BY <1>5
<1>11. {FindingOf(h, r, 0 + Rank(r, R)) : r \in B}
         = {FindingOf(h, r, Cardinality(A) + Rank(r, B)) : r \in B}
  BY <1>6
<1>12. F = Below(F, at) \cup From(F, at)
  BY <1>3 DEF Below, From
<1> QED
  BY <1>3, <1>8, <1>9, <1>10, <1>11, <1>12 DEF A, B, F

------------------------------------------------------------------------------
(* Redaction of a part of a text.                                          *)

(* What released text is made of.                                          *)
Letters == Symbols \cup Range(EchoText) \cup UNION {Range(PlaceholderText(n)) : n \in Nat}

(* A sequence over a set is one over any larger set.                       *)
LEMMA WiderSeq ==
  ASSUME NEW S, NEW T, S \subseteq T, NEW q \in Seq(S)
  PROVE  q \in Seq(T)
  OBVIOUS

(* What a formatter answers is text.                                       *)
LEMMA FormattedIsText ==
  ASSUME NEW h, PlaceholdersAreTexts(Nat), NEW n \in Nat
  PROVE  Formatted(h, n) \in Seq(Letters)
<1>1. PlaceholderText(n) \in Seq(Letters)
  <2>1. PlaceholderText(n) \in Seq(Range(PlaceholderText(n)))
    BY DEF PlaceholdersAreTexts
  <2>2. Range(PlaceholderText(n)) \subseteq Letters
    BY DEF Letters
  <2> QED
    BY <2>1, <2>2, WiderSeq
<1>2. EchoText \in Seq(Letters)
  <2>1. EchoText \in Seq(Range(EchoText))
    BY DEF PlaceholdersAreTexts
  <2>2. Range(EchoText) \subseteq Letters
    BY DEF Letters
  <2> QED
    BY <2>1, <2>2, WiderSeq
<1>3. <<>> \in Seq(Letters)
  OBVIOUS
<1> QED
  BY <1>1, <1>2, <1>3 DEF Formatted

(* What redaction writes for the symbol at p: the placeholder where a      *)
(* finding starts, nothing inside one, and the symbol itself elsewhere.    *)
EmittedAt(h, text, replaced, before, p) ==
  IF \E f \in replaced : f.start = p
    THEN Formatted(h, before + Cardinality({f \in replaced : f.start <= p}))
  ELSE IF \E f \in replaced : f.start < p /\ p < f.end
    THEN <<>>
  ELSE <<text[p + 1]>>

(* What redaction writes, symbol by symbol.                                *)
Emission(h, text, marked, before) ==
  [i \in 1..Len(text) |-> EmittedAt(h, text, Replaced(marked), before, i - 1)]

(* Redacted text is the emissions put together.                            *)
LEMMA EmissionIsTexts ==
  ASSUME NEW h, PlaceholdersAreTexts(Nat), NEW text \in Seq(Symbols),
         NEW F, IsFiniteSet(F), NEW before \in Nat
  PROVE  /\ Redacted(h, text, F, before) = FlattenSeq(Emission(h, text, F, before))
         /\ Emission(h, text, F, before) \in Seq(Seq(Letters))
         /\ Len(Emission(h, text, F, before)) = Len(text)
<1>1. Redacted(h, text, F, before) = FlattenSeq(Emission(h, text, F, before))
  BY DEF Redacted, Emission, EmittedAt, Replaced
<1>2. ASSUME NEW i \in 1..Len(text)
      PROVE  EmittedAt(h, text, Replaced(F), before, i - 1) \in Seq(Letters)
  <2> DEFINE upTo == {f \in Replaced(F) : f.start <= i - 1}
  <2>1. before + Cardinality(upTo) \in Nat
    <3>1. upTo \in SUBSET F
      BY DEF Replaced
    <3>2. Cardinality(upTo) \in Nat
      BY <3>1, SubsetCount
    <3> QED
      BY <3>2
  <2>2. Formatted(h, before + Cardinality(upTo)) \in Seq(Letters)
    BY <2>1, FormattedIsText
  <2>3. <<text[(i - 1) + 1]>> \in Seq(Letters)
    <3>1. text[(i - 1) + 1] \in Symbols
      OBVIOUS
    <3>2. text[(i - 1) + 1] \in Letters
      BY <3>1 DEF Letters
    <3> QED
      BY <3>2
  <2>4. <<>> \in Seq(Letters)
    OBVIOUS
  <2> QED
    BY <2>2, <2>3, <2>4, Zenon DEF EmittedAt
<1> DEFINE E == Emission(h, text, F, before)
<1>3. Len(text) \in Nat
  OBVIOUS
<1>4. E \in [1..Len(text) -> Seq(Letters)]
  BY <1>2 DEF Emission
<1>5. E \in Seq(Seq(Letters)) /\ Len(E) = Len(text)
  <2> HIDE DEF E
  <2> QED
    BY <1>3, <1>4
<1> QED
  BY <1>1, <1>5

------------------------------------------------------------------------------
(* The findings that start in a part, and those parts of a text that no    *)
(* finding reaches across the edges of.                                    *)
Part(F, a, b) == {f \in F : a <= f.start /\ f.start < b}

(* No finding reaches over a.                                              *)
CleanAt(F, a) == \A f \in F : f.start < a => f.end <= a

(* Findings that lie in their text.                                        *)
SoundFindings(F, text) ==
  /\ F \in SUBSET FindingSet /\ IsFiniteSet(F)
  /\ \A f \in F : f.start \in Nat /\ f.end \in Nat /\ f.start < f.end /\ f.end <= Len(text)

(* How many placeholders were used up before a.                            *)
BeforePart(F, a) == Cardinality(Below(Replaced(F), a))

(* What redacting text[a..b] by itself releases.                           *)
PartText(h, text, F, a, b) ==
  Redacted(h, Slice(text, a, b), MovedAll(Part(F, a, b), -a), BeforePart(F, a))

(* The error that redacting text[a..b] by itself reports.                  *)
PartError(h, text, F, a, b) ==
  RedactError(h, Slice(text, a, b), MovedAll(Part(F, a, b), -a), BeforePart(F, a))

(* Findings stay what they are when they are moved.                        *)
LEMMA MovedPart ==
  ASSUME NEW F \in SUBSET FindingSet, NEW by \in Int
  PROVE  /\ MovedAll(F, by) \subseteq FindingSet
         /\ \A m \in MovedAll(F, by) : \E f \in F : m = Moved(f, by)
         /\ \A f \in F : Moved(f, by) \in MovedAll(F, by)
         /\ Replaced(MovedAll(F, by)) = MovedAll(Replaced(F), by)
         /\ by = 0 => MovedAll(F, by) = F
<1>1. \A f \in F : Moved(f, by) \in FindingSet /\ Moved(f, by).action = f.action
  BY MovedFinding
<1>2. /\ \A m \in MovedAll(F, by) : \E f \in F : m = Moved(f, by)
      /\ \A f \in F : Moved(f, by) \in MovedAll(F, by)
  BY DEF MovedAll
<1>3. Replaced(MovedAll(F, by)) = MovedAll(Replaced(F), by)
  BY <1>1 DEF MovedAll, Replaced, Replaces
<1>4. ASSUME by = 0
      PROVE  MovedAll(F, by) = F
  <2>1. ASSUME NEW f \in F
        PROVE  Moved(f, by) = f
    <3>1. f.start + by = f.start /\ f.end + by = f.end
      BY <1>4 DEF FindingSet
    <3>2. /\ Moved(f, by) \in FindingSet /\ Moved(f, by).id = f.id
          /\ Moved(f, by).start = f.start + by /\ Moved(f, by).end = f.end + by
          /\ Moved(f, by).type = f.type /\ Moved(f, by).action = f.action
      BY MovedFinding
    <3> QED
      BY <3>1, <3>2, FindingIs
  <2> QED
    BY <2>1 DEF MovedAll
<1> QED
  BY <1>1, <1>2, <1>3, <1>4

(* How many placeholders come first: those before the part and those       *)
(* before the place in it.                                                 *)
LEMMA PlaceInPart ==
  ASSUME NEW F \in SUBSET FindingSet, IsFiniteSet(F), NEW a \in Nat, NEW b \in Nat,
         NEW q \in Int, a <= q, q < b
  PROVE  Cardinality({f \in Replaced(F) : f.start <= q})
           = BeforePart(F, a)
             + Cardinality({m \in MovedAll(Replaced(Part(F, a, b)), -a) : m.start <= q - a})
<1> DEFINE R == Replaced(F)
           upTo == {f \in R : f.start <= q}
           first == Below(R, a)
           then == {f \in Replaced(Part(F, a, b)) : f.start <= q}
           moved == {m \in MovedAll(Replaced(Part(F, a, b)), -a) : m.start <= q - a}
<1>1. \A f \in F : f \in FindingSet /\ f.start \in Int
  BY DEF FindingSet
<1>2. upTo = first \cup then /\ first \cap then = {} /\ upTo \in SUBSET F
  BY <1>1 DEF Below, Part, Replaced
<1>3. IsFiniteSet(upTo)
  BY <1>2, SubsetCount
<1>4. IsFiniteSet(then) /\ Cardinality(upTo) = Cardinality(first) + Cardinality(then)
  <2> HIDE DEF upTo, first, then
  <2> QED
    BY <1>2, <1>3, TwoPartsCount
<1>5. then \in SUBSET FindingSet /\ -a \in Int
  BY <1>1, <1>2
<1>6. moved = MovedAll(then, -a)
  <2>1. \A f \in Replaced(Part(F, a, b)) : f \in FindingSet /\ f.start \in Int
    BY <1>1 DEF Replaced, Part
  <2>2. \A f \in Replaced(Part(F, a, b)) :
          Moved(f, -a).start <= q - a <=> f.start <= q
    <3>1. \A f \in Replaced(Part(F, a, b)) : Moved(f, -a).start = f.start + (-a)
      BY <1>5, <2>1, MovedFinding
    <3> QED
      BY <2>1, <3>1
  <2> QED
    BY <2>2 DEF MovedAll
<1>7. Cardinality(moved) = Cardinality(then)
  <2> HIDE DEF moved, then
  <2> QED
    BY <1>4, <1>5, <1>6, MovedCount
<1> QED
  BY <1>4, <1>7 DEF BeforePart

(* What is emitted for a part is that part of what is emitted.             *)
LEMMA EmissionOfPart ==
  ASSUME NEW h, NEW text \in Seq(Symbols), NEW F, SoundFindings(F, text),
         NEW a \in Nat, NEW b \in Nat, a <= b, b <= Len(text), CleanAt(F, a)
  PROVE  Emission(h, Slice(text, a, b), MovedAll(Part(F, a, b), -a), BeforePart(F, a))
           = Slice(Emission(h, text, F, 0), a, b)
<1> DEFINE part == Slice(text, a, b)
           marked == MovedAll(Part(F, a, b), -a)
           small == Emission(h, part, marked, BeforePart(F, a))
           whole == Emission(h, text, F, 0)
           R == Replaced(F)
           M == Replaced(marked)
<1>1. part \in Seq(Symbols) /\ Len(part) = b - a /\ \A i \in 1..(b - a) : part[i] = text[a + i]
  BY SliceProperties, Zenon
<1>2. /\ F \in SUBSET FindingSet /\ IsFiniteSet(F)
      /\ \A f \in F : f \in FindingSet /\ f.start \in Nat /\ f.end \in Nat
  BY DEF SoundFindings
<1>3. -a \in Int /\ Part(F, a, b) \in SUBSET FindingSet
  BY <1>2 DEF Part
<1>4. M = MovedAll(Replaced(Part(F, a, b)), -a)
  BY <1>3, MovedPart
<1>5. \A f \in Replaced(Part(F, a, b)) : /\ f \in R /\ a <= f.start /\ f.start < b
                                        /\ Moved(f, -a).start = f.start + (-a)
                                        /\ Moved(f, -a).end = f.end + (-a)
  <2>1. \A f \in Replaced(Part(F, a, b)) : f \in R /\ a <= f.start /\ f.start < b /\ f \in FindingSet
    BY <1>2 DEF Replaced, Part
  <2> QED
    BY <1>3, <2>1, MovedFinding
<1>6. \A f \in R : a <= f.start /\ f.start < b => f \in Replaced(Part(F, a, b))
  BY DEF Replaced, Part
<1>7. \A f \in R : f \in F /\ f.start \in Nat /\ f.end \in Nat
  BY <1>2 DEF Replaced
<1>8. ASSUME NEW i \in 1..(b - a)
      PROVE  EmittedAt(h, part, M, BeforePart(F, a), i - 1) = EmittedAt(h, text, R, 0, (a + i) - 1)
  <2> DEFINE p == i - 1
             q == (a + i) - 1
  <2>1. p \in Nat /\ q \in Nat /\ q - a = p /\ a <= q /\ q < b /\ q = a + p
    OBVIOUS
  <2> HIDE DEF p, q, M, R, part
  <2>2. (\E f \in M : f.start = p) <=> (\E f \in R : f.start = q)
    <3>1. ASSUME NEW m \in M, m.start = p
          PROVE  \E f \in R : f.start = q
      <4>1. PICK f \in Replaced(Part(F, a, b)) : m = Moved(f, -a)
        BY <1>4 DEF MovedAll
      <4>2. f \in R /\ f.start + (-a) = p /\ f.start \in Nat
        BY <1>5, <1>7, <3>1, <4>1
      <4> QED
        BY <2>1, <4>2
    <3>2. ASSUME NEW f \in R, f.start = q
          PROVE  \E m \in M : m.start = p
      <4>1. f \in Replaced(Part(F, a, b))
        BY <1>6, <2>1, <3>2
      <4>2. Moved(f, -a) \in M /\ Moved(f, -a).start = f.start + (-a)
        BY <1>4, <1>5, <4>1 DEF MovedAll
      <4>3. f.start + (-a) = p
        BY <2>1, <3>2
      <4> QED
        BY <4>2, <4>3
    <3> QED
      BY <3>1, <3>2
  <2>3. (\E f \in M : f.start < p /\ p < f.end) <=> (\E f \in R : f.start < q /\ q < f.end)
    <3>1. ASSUME NEW m \in M, m.start < p, p < m.end
          PROVE  \E f \in R : f.start < q /\ q < f.end
      <4>1. PICK f \in Replaced(Part(F, a, b)) : m = Moved(f, -a)
        BY <1>4 DEF MovedAll
      <4>2. f \in R /\ f.start + (-a) < p /\ p < f.end + (-a) /\ f.start \in Nat /\ f.end \in Nat
        BY <1>5, <1>7, <3>1, <4>1
      <4> QED
        BY <2>1, <4>2
    <3>2. ASSUME NEW f \in R, f.start < q, q < f.end
          PROVE  \E m \in M : m.start < p /\ p < m.end
      <4>1. f.start \in Nat /\ f.end \in Nat /\ f \in F
        BY <1>7
      <4>2. a <= f.start /\ f.start < b
        <5>1. ~(f.start < a)
          BY <2>1, <3>2, <4>1 DEF CleanAt
        <5> QED
          BY <2>1, <3>2, <4>1, <5>1
      <4>3. f \in Replaced(Part(F, a, b))
        BY <1>6, <4>2
      <4>4. Moved(f, -a) \in M /\ Moved(f, -a).start = f.start + (-a)
            /\ Moved(f, -a).end = f.end + (-a)
        BY <1>4, <1>5, <4>3 DEF MovedAll
      <4>5. f.start + (-a) < p /\ p < f.end + (-a)
        BY <2>1, <3>2, <4>1
      <4> QED
        BY <4>4, <4>5
    <3> QED
      BY <3>1, <3>2
  <2>4. Cardinality({f \in R : f.start <= q})
          = BeforePart(F, a) + Cardinality({m \in M : m.start <= p})
    <3>1. q \in Int
      BY <2>1
    <3>2. Cardinality({f \in Replaced(F) : f.start <= q})
            = BeforePart(F, a)
              + Cardinality({m \in MovedAll(Replaced(Part(F, a, b)), -a) : m.start <= q - a})
      BY <1>2, <2>1, <3>1, PlaceInPart
    <3> QED
      BY <1>4, <2>1, <3>2 DEF R
  <2>5. part[p + 1] = text[q + 1]
    <3>1. p + 1 = i /\ q + 1 = a + i
      BY DEF p, q
    <3> QED
      BY <1>1, <3>1
  <2>6. 0 + Cardinality({f \in R : f.start <= q}) = Cardinality({f \in R : f.start <= q})
    <3>1. {f \in R : f.start <= q} \in SUBSET F
      BY <1>7
    <3>2. Cardinality({f \in R : f.start <= q}) \in Nat
      BY <1>2, <3>1, SubsetCount
    <3> QED
      BY <3>2
  <2>7. EmittedAt(h, part, M, BeforePart(F, a), p) = EmittedAt(h, text, R, 0, q)
    BY <2>2, <2>3, <2>4, <2>5, <2>6, Zenon DEF EmittedAt
  <2> QED
    BY <2>7 DEF p, q
<1>9. small = [i \in 1..(b - a) |-> EmittedAt(h, part, M, BeforePart(F, a), i - 1)]
  BY <1>1 DEF Emission
<1>10. Slice(whole, a, b) = [i \in 1..(b - a) |-> EmittedAt(h, text, R, 0, (a + i) - 1)]
  <2>1. whole = [j \in 1..Len(text) |-> EmittedAt(h, text, R, 0, j - 1)]
    BY DEF Emission
  <2>2. Slice(whole, a, b) = [i \in 1..(b - a) |-> whole[a + i]]
    <3> HIDE DEF whole
    <3>1. b - (a + 1) + 1 = b - a
      OBVIOUS
    <3> QED
      BY DEF Slice
  <2>3. \A i \in 1..(b - a) : a + i \in 1..Len(text)
    <3>1. Len(text) \in Nat
      OBVIOUS
    <3> QED
      BY <3>1
  <2>4. \A i \in 1..(b - a) : whole[a + i] = EmittedAt(h, text, R, 0, (a + i) - 1)
    BY <2>1, <2>3
  <2> HIDE DEF whole, R
  <2> QED
    BY <2>2, <2>4
<1> HIDE DEF small, whole, part, M, R, marked
<1>11. small = Slice(whole, a, b)
  BY <1>8, <1>9, <1>10
<1> QED
  BY <1>11 DEF small, whole, part, marked

(* The text of a part.                                                     *)
LEMMA TextOfPart ==
  ASSUME NEW h, PlaceholdersAreTexts(Nat), NEW text \in Seq(Symbols), NEW F, SoundFindings(F, text),
         NEW a \in Nat, NEW b \in Nat, a <= b, b <= Len(text), CleanAt(F, a)
  PROVE  PartText(h, text, F, a, b) = FlattenSeq(Slice(Emission(h, text, F, 0), a, b))
<1> DEFINE part == Slice(text, a, b)
           marked == MovedAll(Part(F, a, b), -a)
<1>1. part \in Seq(Symbols)
  BY SliceProperties, Zenon
<1>2. IsFiniteSet(marked)
  <2>1. Part(F, a, b) \in SUBSET F /\ F \in SUBSET FindingSet /\ IsFiniteSet(F) /\ -a \in Int
    BY DEF Part, SoundFindings
  <2>2. Part(F, a, b) \in SUBSET FindingSet /\ IsFiniteSet(Part(F, a, b))
    BY <2>1, SubsetCount
  <2> QED
    BY <2>1, <2>2, MovedCount
<1>3. BeforePart(F, a) \in Nat
  <2>1. Below(Replaced(F), a) \in SUBSET F /\ IsFiniteSet(F)
    BY DEF Below, Replaced, SoundFindings
  <2> QED
    BY <2>1, SubsetCount DEF BeforePart
<1>4. Redacted(h, part, marked, BeforePart(F, a))
        = FlattenSeq(Emission(h, part, marked, BeforePart(F, a)))
  BY <1>1, <1>2, <1>3, EmissionIsTexts
<1>5. Emission(h, part, marked, BeforePart(F, a)) = Slice(Emission(h, text, F, 0), a, b)
  BY EmissionOfPart
<1> QED
  BY <1>4, <1>5 DEF PartText

(* A placeholder that redaction refuses: an empty one, or one that         *)
(* reproduces what one of the findings matched.                            *)
Refused(h, text, F, f, among) ==
  LET placeholder == Formatted(h, Rank(f, Replaced(F))) IN
  \/ placeholder = <<>>
  \/ \E g \in among : Occurs(Slice(text, g.start, g.end), placeholder)

(* When redaction of a part fails.                                         *)
LEMMA ErrorOfPart ==
  ASSUME NEW h, NEW text \in Seq(Symbols), NEW F, SoundFindings(F, text),
         NEW a \in Nat, NEW b \in Nat, a <= b, b <= Len(text), CleanAt(F, b)
  PROVE  /\ PartError(h, text, F, a, b) \in {"none", "PlaceholderFailure", "InvalidPlaceholder"}
         /\ PartError(h, text, F, a, b) # "none" <=>
              \E f \in Replaced(Part(F, a, b)) :
                h.formatter = "fails" \/ Refused(h, text, F, f, Part(F, a, b))
<1> DEFINE part == Slice(text, a, b)
           P == Part(F, a, b)
           marked == MovedAll(P, -a)
           M == Replaced(marked)
           before == BeforePart(F, a)
           Bad(m) == LET placeholder == Formatted(h, before + Rank(m, M)) IN
                     placeholder = <<>> \/ Reproduces(placeholder, part, marked)
           error == IF M = {} THEN "none"
                    ELSE IF h.formatter = "fails" THEN "PlaceholderFailure"
                    ELSE IF \E m \in M : Bad(m) THEN "InvalidPlaceholder" ELSE "none"
<1>1. PartError(h, text, F, a, b) = error
  BY DEF PartError, RedactError, Replaced
<1>2. /\ F \in SUBSET FindingSet /\ IsFiniteSet(F) /\ -a \in Int
      /\ P \in SUBSET FindingSet
      /\ \A f \in F : f \in FindingSet /\ f.start \in Nat /\ f.end \in Nat /\ f.start < f.end
      /\ \A f \in P : f \in F /\ a <= f.start /\ f.start < b
  BY DEF SoundFindings, Part
<1>3. M = MovedAll(Replaced(P), -a)
  BY <1>2, MovedPart
<1>4. \A f \in P : Moved(f, -a).start = f.start + (-a) /\ Moved(f, -a).end = f.end + (-a)
  BY <1>2, MovedFinding
<1>5. \A f \in Replaced(P) : f \in P
  BY DEF Replaced
<1>6. ASSUME NEW f \in Replaced(P)
      PROVE  before + Rank(Moved(f, -a), M) = Rank(f, Replaced(F))
  <2> DEFINE q == f.start
  <2>1. q \in Int /\ a <= q /\ q < b /\ Moved(f, -a).start = q - a
    BY <1>2, <1>4, <1>5
  <2> HIDE DEF q
  <2>2. Cardinality({g \in Replaced(F) : g.start <= q})
          = BeforePart(F, a)
            + Cardinality({m \in MovedAll(Replaced(Part(F, a, b)), -a) : m.start <= q - a})
    BY <1>2, <2>1, PlaceInPart
  <2>3. Rank(f, Replaced(F)) = Cardinality({g \in Replaced(F) : g.start <= q})
    BY DEF Rank, q
  <2>4. Rank(Moved(f, -a), M) = Cardinality({m \in M : m.start <= q - a})
    BY <2>1 DEF Rank
  <2> QED
    BY <1>3, <2>2, <2>3, <2>4
<1>7. ASSUME NEW g \in P
      PROVE  Slice(part, Moved(g, -a).start, Moved(g, -a).end) = Slice(text, g.start, g.end)
  <2>1. /\ g.start \in Nat /\ g.end \in Nat /\ a <= g.start /\ g.start < b /\ g.start < g.end
        /\ g \in F
    BY <1>2
  <2>2. g.end <= b
    BY <2>1 DEF CleanAt
  <2> DEFINE k == g.start + (-a)
             m == g.end + (-a)
  <2>3. k \in Nat /\ m \in Nat /\ k <= m /\ m <= b - a /\ a + k = g.start /\ a + m = g.end
    BY <2>1, <2>2
  <2>4. Moved(g, -a).start = k /\ Moved(g, -a).end = m
    BY <1>4
  <2> HIDE DEF k, m
  <2>5. Slice(Slice(text, a, b), k, m) = Slice(text, a + k, a + m)
    BY <2>3, SliceOfSlice
  <2> QED
    BY <2>3, <2>4, <2>5
<1>8. ASSUME NEW x
      PROVE  Reproduces(x, part, marked) <=> \E g \in P : Occurs(Slice(text, g.start, g.end), x)
  <2>1. Reproduces(x, part, marked)
          <=> \E g \in P : Occurs(Slice(part, Moved(g, -a).start, Moved(g, -a).end), x)
    BY DEF Reproduces, MovedAll
  <2> HIDE DEF part, P, marked
  <2> QED
    BY <1>7, <2>1
<1>9. ASSUME NEW f \in Replaced(P)
      PROVE  Bad(Moved(f, -a)) <=> Refused(h, text, F, f, P)
  <2>1. Bad(Moved(f, -a)) <=> LET placeholder == Formatted(h, Rank(f, Replaced(F))) IN
                              placeholder = <<>> \/ Reproduces(placeholder, part, marked)
    BY <1>6
  <2> HIDE DEF Bad, part, marked, P
  <2> QED
    BY <1>8, <2>1 DEF Refused
<1>10. (\E m \in M : Bad(m)) <=> \E f \in Replaced(P) : Refused(h, text, F, f, P)
  <2>1. (\E m \in M : Bad(m)) <=> \E f \in Replaced(P) : Bad(Moved(f, -a))
    <3> HIDE DEF Bad, M, P
    <3> QED
      BY <1>3 DEF MovedAll
  <2> HIDE DEF Bad, M, P
  <2> QED
    BY <1>9, <2>1
<1>11. M = {} <=> Replaced(P) = {}
  BY <1>3 DEF MovedAll
<1> HIDE DEF M, P, Bad, part, marked, before
<1>12. error \in {"none", "PlaceholderFailure", "InvalidPlaceholder"}
  BY Zenon
<1>13. error # "none" <=>
         M # {} /\ (h.formatter = "fails" \/ \E m \in M : Bad(m))
  OBVIOUS
<1>14. error # "none" <=>
         \E f \in Replaced(P) : h.formatter = "fails" \/ Refused(h, text, F, f, P)
  BY <1>10, <1>11, <1>13
<1> QED
  BY <1>1, <1>12, <1>14 DEF P

(* A part fails only if a part around it does.                             *)
LEMMA ErrorSpreads ==
  ASSUME NEW h, NEW text \in Seq(Symbols), NEW F, SoundFindings(F, text),
         NEW a \in Nat, NEW b \in Nat, a <= b, b <= Len(text), CleanAt(F, b),
         NEW c \in Nat, NEW d \in Nat, c <= a, b <= d, d <= Len(text), CleanAt(F, d),
         PartError(h, text, F, a, b) # "none"
  PROVE  PartError(h, text, F, c, d) # "none"
<1>1. Part(F, a, b) \subseteq Part(F, c, d)
  BY DEF Part, SoundFindings
<1>2. Replaced(Part(F, a, b)) \subseteq Replaced(Part(F, c, d))
  BY <1>1 DEF Replaced
<1>3. PICK f \in Replaced(Part(F, a, b)) :
        h.formatter = "fails" \/ Refused(h, text, F, f, Part(F, a, b))
  BY ErrorOfPart
<1>4. h.formatter = "fails" \/ Refused(h, text, F, f, Part(F, c, d))
  BY <1>1, <1>3 DEF Refused
<1>5. c <= d /\ f \in Replaced(Part(F, c, d))
  BY <1>2, <1>3
<1> QED
  BY <1>4, <1>5, ErrorOfPart

(* If no placeholder reproduces anything, the part that a refused          *)
(* placeholder is in fails by itself.                                      *)
NothingOccurs(h, text, F) ==
  \A n \in Nat, g \in F : ~Occurs(Slice(text, g.start, g.end), Formatted(h, n))

(* An error is one of some finding, and every part that the finding starts *)
(* in shows it.                                                            *)
LEMMA ErrorIsInAPart ==
  ASSUME NEW h, NEW text \in Seq(Symbols), NEW F, SoundFindings(F, text),
         NothingOccurs(h, text, F),
         NEW c \in Nat, NEW d \in Nat, c <= d, d <= Len(text), CleanAt(F, d),
         PartError(h, text, F, c, d) # "none"
  PROVE  \E f \in Part(F, c, d) :
           \A a, b \in Nat :
             a <= f.start /\ f.start < b /\ b <= Len(text) /\ CleanAt(F, b) =>
               PartError(h, text, F, a, b) # "none"
<1>1. PICK f \in Replaced(Part(F, c, d)) :
        h.formatter = "fails" \/ Refused(h, text, F, f, Part(F, c, d))
  BY ErrorOfPart
<1>2. f \in Part(F, c, d) /\ f \in F /\ f \in Replaced(F) /\ f.start \in Nat
  BY DEF Replaced, Part, SoundFindings
<1>3. \A g \in Part(F, c, d) : g \in F
  BY DEF Part
<1>4. Rank(f, Replaced(F)) \in Nat
  <2>1. Replaced(F) \in SUBSET F /\ IsFiniteSet(F)
    BY DEF Replaced, SoundFindings
  <2>2. IsFiniteSet(Replaced(F))
    BY <2>1, SubsetCount
  <2> QED
    BY <2>2, RankIsNumber
<1>5. h.formatter = "fails" \/ Formatted(h, Rank(f, Replaced(F))) = <<>>
  BY <1>1, <1>3, <1>4 DEF Refused, NothingOccurs
<1>6. ASSUME NEW a \in Nat, NEW b \in Nat, a <= f.start, f.start < b, b <= Len(text), CleanAt(F, b)
      PROVE  PartError(h, text, F, a, b) # "none"
  <2>1. a <= b
    BY <1>2, <1>6
  <2>2. f \in Replaced(Part(F, a, b))
    BY <1>2, <1>6 DEF Replaced, Part
  <2>3. h.formatter = "fails" \/ Refused(h, text, F, f, Part(F, a, b))
    BY <1>5 DEF Refused
  <2> QED
    BY <1>6, <2>1, <2>2, <2>3, ErrorOfPart
<1> QED
  BY <1>2, <1>6

(* All texts.                                                              *)
Texts == Seq(Symbols)

------------------------------------------------------------------------------
(* What detection finds.                                                   *)

(* The candidates of a text, one by one.                                   *)
LEMMA CandidatesAre ==
  ASSUME CandidatesAreRanges(Texts), NEW text \in Texts
  PROVE  /\ Candidates(text) \in SUBSET RangeSet /\ IsFiniteSet(Candidates(text))
         /\ \A c \in Candidates(text) :
              /\ c.start \in Nat /\ c.end \in Nat /\ c.type \in Types
              /\ c.start < c.end /\ c.end <= Len(text)
  BY DEF CandidatesAreRanges, RangeSet

(* What is kept of them, one by one.                                       *)
LEMMA FoundAre ==
  ASSUME CandidatesAreRanges(Texts), SelectionIsLocal(Texts), NEW text \in Texts
  PROVE  /\ Found(text) \in SUBSET Candidates(text)
         /\ Found(text) \in SUBSET RangeSet /\ IsFiniteSet(Found(text)) /\ Distinct(Found(text))
         /\ \A c \in Found(text) :
              /\ c.start \in Nat /\ c.end \in Nat /\ c.type \in Types
              /\ c.start < c.end /\ c.end <= Len(text)
<1>1. /\ Found(text) \in SUBSET Candidates(text)
      /\ \A c, d \in Found(text) : c # d => c.end <= d.start \/ d.end <= c.start
  BY DEF SelectionIsLocal
<1>2. /\ Candidates(text) \in SUBSET RangeSet /\ IsFiniteSet(Candidates(text))
      /\ \A c \in Candidates(text) :
           /\ c.start \in Nat /\ c.end \in Nat /\ c.type \in Types
           /\ c.start < c.end /\ c.end <= Len(text)
  BY CandidatesAre
<1>3. IsFiniteSet(Found(text))
  BY <1>1, <1>2, SubsetCount
<1>4. ASSUME NEW c \in Found(text), NEW d \in Found(text), c.start = d.start
      PROVE  c = d
  <2>1. /\ c.start \in Nat /\ c.end \in Nat /\ c.start < c.end
        /\ d.start \in Nat /\ d.end \in Nat /\ d.start < d.end
    BY <1>1, <1>2
  <2>2. ~(c.end <= d.start \/ d.end <= c.start)
    BY <1>4, <2>1
  <2> QED
    BY <1>1, <2>2
<1>5. Distinct(Found(text))
  BY <1>4 DEF Distinct
<1> QED
  BY <1>1, <1>2, <1>3, <1>5

(* Ranges that are moved, and moved back.                                  *)
LEMMA MovedRanges ==
  ASSUME NEW R \in SUBSET [type : Types, start : Int, end : Int], NEW a \in Int, NEW b \in Int
  PROVE  /\ MovedAll(R, 0) = R
         /\ MovedAll(MovedAll(R, a), b) = MovedAll(R, a + b)
         /\ MovedAll(R, a) \in SUBSET [type : Types, start : Int, end : Int]
         /\ \A r \in R : Moved(r, a).start = r.start + a /\ Moved(r, a).end = r.end + a
<1>1. ASSUME NEW r \in R
      PROVE  /\ Moved(r, 0) = r
             /\ Moved(Moved(r, a), b) = Moved(r, a + b)
             /\ Moved(r, a) \in [type : Types, start : Int, end : Int]
             /\ Moved(r, a).start = r.start + a /\ Moved(r, a).end = r.end + a
  <2>1. r \in [type : Types, start : Int, end : Int]
    OBVIOUS
  <2>2. Moved(r, a) = [type |-> r.type, start |-> r.start + a, end |-> r.end + a]
    BY <2>1, MovedRange
  <2>3. r.start + a \in Int /\ r.end + a \in Int /\ r.type \in Types
    BY <2>1
  <2>4. Moved(r, 0) = r
    BY <2>1, MovedRange
  <2>5. Moved(Moved(r, a), b) = Moved(r, a + b)
    BY <2>1, MovedRangeBack
  <2> QED
    BY <2>2, <2>3, <2>4, <2>5
<1>2. MovedAll(R, 0) = R
  BY <1>1 DEF MovedAll
<1>3. MovedAll(MovedAll(R, a), b) = MovedAll(R, a + b)
  <2>1. MovedAll(MovedAll(R, a), b) = {Moved(Moved(r, a), b) : r \in R}
    BY DEF MovedAll
  <2>2. {Moved(Moved(r, a), b) : r \in R} = {Moved(r, a + b) : r \in R}
    BY <1>1
  <2> QED
    BY <2>1, <2>2 DEF MovedAll
<1>4. MovedAll(R, a) \in SUBSET [type : Types, start : Int, end : Int]
  BY <1>1 DEF MovedAll
<1> QED
  BY <1>1, <1>2, <1>3, <1>4

(* Ranges may be moved to either side.                                     *)
LEMMA RangesAreMovable ==
  ASSUME NEW R \in SUBSET RangeSet
  PROVE  R \in SUBSET [type : Types, start : Int, end : Int]
  BY DEF RangeSet

(* Nothing is found in no text.                                            *)
LEMMA NothingIsFound ==
  ASSUME CandidatesAreRanges(Texts), SelectionIsLocal(Texts)
  PROVE  <<>> \in Texts /\ Candidates(<<>>) = {} /\ Found(<<>>) = {}
<1>1. <<>> \in Texts /\ Len(<<>>) = 0
  BY DEF Texts
<1>2. \A c \in Candidates(<<>>) : c.start \in Nat /\ c.end \in Nat /\ c.start < c.end /\ c.end <= 0
  BY <1>1, CandidatesAre
<1>3. Candidates(<<>>) = {}
  BY <1>2
<1>4. Found(<<>>) \in SUBSET Candidates(<<>>)
  BY <1>1, FoundAre
<1> QED
  BY <1>1, <1>3, <1>4

(* A released text settles what is found in it, and what is found below it *)
(* is found below its kept line alone.                                     *)
LEMMA FoundAcross ==
  ASSUME CandidatesAreRanges(Texts), SelectionIsLocal(Texts),
         NEW above \in Texts, NEW below \in Texts, Separable(above, below),
         Kept(above) \in Texts, Len(Kept(above)) <= Len(above)
  PROVE  LET at == Len(above)
             lead == Kept(above)
         IN /\ Below(Found(above \o below), at) = Found(above)
            /\ \A c \in Candidates(above \o below) : c.start < at => c.end < at
            /\ \A c \in Candidates(lead \o below) : c.start < Len(lead) => c.end < Len(lead)
            /\ MovedAll(From(Found(lead \o below), Len(lead)), -Len(lead))
                 = MovedAll(From(Found(above \o below), at), -at)
            /\ MovedAll(From(Candidates(lead \o below), Len(lead)), -Len(lead))
                 = MovedAll(From(Candidates(above \o below), at), -at)
<1> DEFINE at == Len(above)
           lead == Kept(above)
           l == Len(lead)
           text == above \o below
           read == lead \o below
           whole == Candidates(text)
           under == Candidates(read)
<1>1. /\ NoneReaches(whole, at)
      /\ Below(whole, at) = Candidates(above)
      /\ From(whole, at) = MovedAll(From(under, l), at - l)
      /\ NoneReaches(under, l)
  BY DEF Separable
<1>2. /\ text \in Texts /\ Len(text) = at + Len(below) /\ at \in Nat /\ Len(below) \in Nat
      /\ read \in Texts /\ Len(read) = l + Len(below) /\ l \in Nat /\ l <= at
  BY Joined DEF Texts
<1>3. at \in 0..Len(text) /\ l \in 0..Len(read) /\ l - at \in (-at)..0
  BY <1>2
<1> HIDE DEF at, lead, l, text, read
<1>4. /\ Found(text) = Select(Below(whole, at)) \cup Select(From(whole, at))
      /\ Select(Below(whole, at)) \subseteq Below(whole, at)
      /\ Select(From(whole, at)) \subseteq From(whole, at)
      /\ Select(MovedAll(From(whole, at), l - at)) = MovedAll(Select(From(whole, at)), l - at)
  BY <1>1, <1>2, <1>3 DEF SelectionIsLocal
<1>5. /\ Found(read) = Select(Below(under, l)) \cup Select(From(under, l))
      /\ Select(Below(under, l)) \subseteq Below(under, l)
      /\ Select(From(under, l)) \subseteq From(under, l)
  BY <1>1, <1>2, <1>3 DEF SelectionIsLocal
<1>6. /\ \A c \in whole : c.start \in Nat /\ whole \in SUBSET RangeSet
      /\ \A c \in under : c.start \in Nat /\ under \in SUBSET RangeSet
      /\ whole \in SUBSET RangeSet /\ under \in SUBSET RangeSet
  BY <1>2, CandidatesAre
<1> HIDE DEF whole, under
<1>7. Below(Found(text), at) = Select(Below(whole, at)) /\ From(Found(text), at) = Select(From(whole, at))
  BY <1>2, <1>4, <1>6 DEF Below, From
<1>8. From(Found(read), l) = Select(From(under, l))
  BY <1>2, <1>5, <1>6 DEF Below, From
<1>9. Below(Found(text), at) = Found(above)
  BY <1>1, <1>7 DEF Found
<1>10. /\ From(whole, at) \in SUBSET RangeSet /\ From(under, l) \in SUBSET RangeSet
       /\ From(Found(text), at) \in SUBSET RangeSet
  BY <1>4, <1>6, <1>7 DEF From
<1>11. MovedAll(From(whole, at), l - at) = From(under, l)
  <2>1. at - l \in Int /\ l - at \in Int /\ (at - l) + (l - at) = 0
    BY <1>2
  <2>2. MovedAll(MovedAll(From(under, l), at - l), l - at) = MovedAll(From(under, l), (at - l) + (l - at))
    BY <1>10, <2>1, MovedRanges, RangesAreMovable
  <2>3. MovedAll(From(under, l), 0) = From(under, l)
    BY <1>10, <2>1, MovedRanges, RangesAreMovable
  <2> QED
    BY <1>1, <2>1, <2>2, <2>3
<1>12. From(Found(read), l) = MovedAll(From(Found(text), at), l - at)
  BY <1>4, <1>7, <1>8, <1>11
<1>13. ASSUME NEW R \in SUBSET RangeSet
       PROVE  MovedAll(MovedAll(R, l - at), -l) = MovedAll(R, -at)
  <2>1. l - at \in Int /\ -l \in Int /\ (l - at) + (-l) = -at
    BY <1>2
  <2>2. MovedAll(MovedAll(R, l - at), -l) = MovedAll(R, (l - at) + (-l))
    BY <2>1, MovedRanges, RangesAreMovable
  <2> QED
    BY <2>1, <2>2
<1>14. MovedAll(From(Found(read), l), -l) = MovedAll(From(Found(text), at), -at)
  BY <1>10, <1>12, <1>13
<1>15. MovedAll(From(under, l), -l) = MovedAll(From(whole, at), -at)
  BY <1>10, <1>11, <1>13
<1>16. /\ \A c \in whole : c.start < at => c.end < at
       /\ \A c \in under : c.start < l => c.end < l
  BY <1>1 DEF NoneReaches
<1> QED
  BY <1>9, <1>14, <1>15, <1>16 DEF at, lead, l, text, read, whole, under

(* The line kept below a released text is a text, no longer than that one. *)
LEMMA KeptIsText ==
  ASSUME NEW text \in Texts
  PROVE  Kept(text) \in Texts /\ Len(Kept(text)) <= Len(text) /\ Kept(<<>>) = <<>>
<1>1. LastLine(text) \in Seq(Symbols) /\ Len(LastLine(text)) = Len(text) - LastLineStart(text)
  BY LastLineIsALine DEF Texts
<1>2. LastLineStart(text) \in 0..Len(text)
  BY LastLineStartRange DEF Texts
<1>3. Len(LastLine(text)) <= Len(text)
  BY <1>1, <1>2 DEF Texts
<1>4. <<>> \in Seq(Symbols) /\ Len(<<>>) = 0
  OBVIOUS
<1>5. Len(text) \in Nat
  BY DEF Texts
<1>6. LastLine(<<>>) \in Seq(Symbols) /\ Len(LastLine(<<>>)) = 0 - LastLineStart(<<>>)
      /\ LastLineStart(<<>>) \in 0..0
  BY <1>4, LastLineIsALine, LastLineStartRange
<1>7. LastLine(<<>>) = <<>>
  BY <1>6
<1> QED
  BY <1>1, <1>3, <1>4, <1>5, <1>7 DEF Kept, Texts

(* No text above is separable from whatever is below it.                   *)
LEMMA StartIsSettled ==
  ASSUME CandidatesAreRanges(Texts), SelectionIsLocal(Texts)
  PROVE  SettledOn(Texts, <<>>, <<>>)
<1> SUFFICES ASSUME NEW more \in Texts
             PROVE  Separable(<<>>, <<>> \o more)
  BY DEF SettledOn
<1>1. <<>> \o more = more /\ <<>> \o (<<>> \o more) = more /\ <<>> \in Texts /\ Len(<<>>) = 0
  BY JoinedToNothing DEF Texts
<1>2. Kept(<<>>) = <<>>
  BY <1>1, KeptIsText
<1> DEFINE C == Candidates(more)
<1>3. C \in SUBSET RangeSet /\ \A c \in C : c.start \in Nat
  BY CandidatesAre
<1>4. NoneReaches(C, 0) /\ Below(C, 0) = {} /\ From(C, 0) = C
  BY <1>3 DEF NoneReaches, Below, From
<1>5. MovedAll(C, 0) = C
  BY <1>3, MovedRanges, RangesAreMovable
<1>6. Candidates(<<>>) = {}
  BY NothingIsFound
<1> HIDE DEF C
<1>7. 0 - 0 = 0
  OBVIOUS
<1> QED
  BY <1>1, <1>2, <1>4, <1>5, <1>6, <1>7 DEF Separable, C

(* What is settled on a beginning is settled on more of it.                *)
LEMMA SettledLonger ==
  ASSUME NEW above \in Texts, NEW ahead \in Texts, NEW more \in Texts,
         SettledOn(Texts, above, ahead)
  PROVE  SettledOn(Texts, above, ahead \o more) /\ Separable(above, ahead \o more)
<1>1. ASSUME NEW rest0 \in Texts
      PROVE  Separable(above, (ahead \o more) \o rest0)
  <2>1. more \o rest0 \in Texts /\ ahead \o (more \o rest0) = (ahead \o more) \o rest0
    BY Concatenation, Joined DEF Texts
  <2> QED
    BY <2>1 DEF SettledOn
<1> QED
  BY <1>1 DEF SettledOn

------------------------------------------------------------------------------
(* The whole-input call on a text and on a beginning of it.                *)

(* The part of the contract that a whole-input call needs.                 *)
Finds(texts) == CandidatesAreRanges(texts) /\ SelectionIsLocal(texts)

(* The findings that a whole-input call on a text makes.                   *)
Marks(h, text) == Finalized(h, Found(text), 0)

(* A stage fails on the findings of a part.                                *)
PartFails(h, text, a, b) ==
  PolicyFails(h, Part(Found(text), a, b)) \/ PartError(h, text, Marks(h, text), a, b) # "none"

(* Where a text may be cut: at its end, and where its two sides separate.  *)
CutIn(text, at) ==
  /\ at \in 0..Len(text)
  /\ at = Len(text) \/ Separable(Slice(text, 0, at), Slice(text, at, Len(text)))

(* Moving by nothing, as a range above an empty lead is.                   *)
LEMMA MinusZero == -0 = 0
<1>1. \A x \in Int : -x = 0 - x
  OBVIOUS
<1>2. 0 \in Int
  OBVIOUS
<1>3. -0 = 0 - 0
  BY <1>1, <1>2, Zenon
<1>4. 0 - 0 = 0
  OBVIOUS
<1> QED
  BY <1>3, <1>4, Zenon

(* The findings of a whole-input call lie in the text, where its           *)
(* candidates do.                                                          *)
LEMMA MarksAre ==
  ASSUME Finds(Texts), NEW text \in Texts, NEW h, PolicyIsTotal(h)
  PROVE  /\ SoundFindings(Marks(h, text), text)
         /\ Marks(h, text) \in SUBSET FindingSet /\ IsFiniteSet(Marks(h, text))
         /\ \A f \in Marks(h, text) :
              /\ f.start \in Nat /\ f.end \in Nat
              /\ \E r \in Found(text) : f.start = r.start /\ f.end = r.end
         /\ \A r \in Found(text) : \E f \in Marks(h, text) : f.start = r.start /\ f.end = r.end
<1>1. /\ Found(text) \in SUBSET RangeSet /\ IsFiniteSet(Found(text)) /\ Distinct(Found(text))
      /\ \A c \in Found(text) :
           /\ c.start \in Nat /\ c.end \in Nat /\ c.type \in Types
           /\ c.start < c.end /\ c.end <= Len(text)
  BY FoundAre DEF Finds
<1>2. 0 \in Nat
  OBVIOUS
<1>3. /\ Marks(h, text) = {FindingOf(h, r, 0 + Rank(r, Found(text))) : r \in Found(text)}
      /\ Marks(h, text) \subseteq FindingSet
  BY <1>1, <1>2, FinalizedAre DEF Marks
<1>4. IsFiniteSet(Marks(h, text))
  BY <1>1, <1>2, FinalizedCount DEF Marks
<1>5. \A r \in Found(text) : \A n : FindingOf(h, r, n).start = r.start /\ FindingOf(h, r, n).end = r.end
  BY DEF FindingOf
<1>6. \A f \in Marks(h, text) : \E r \in Found(text) : f.start = r.start /\ f.end = r.end
  BY <1>3, <1>5
<1>7. \A r \in Found(text) : \E f \in Marks(h, text) : f.start = r.start /\ f.end = r.end
  BY <1>3, <1>5
<1>8. \A f \in Marks(h, text) : f.start \in Nat /\ f.end \in Nat /\ f.start < f.end /\ f.end <= Len(text)
  BY <1>1, <1>6
<1> QED
  BY <1>3, <1>4, <1>6, <1>7, <1>8 DEF SoundFindings

(* All of a text is a part of it.                                          *)
LEMMA WholeIs ==
  ASSUME Finds(Texts), NEW text \in Texts, NEW h, PolicyIsTotal(h)
  PROVE  LET whole == WholeInput(h, text)
             length == Len(text)
         IN /\ whole.error = "none" <=> ~DetectorFails(text) /\ ~PartFails(h, text, 0, length)
            /\ whole.error = "none" =>
                 /\ whole.text = PartText(h, text, Marks(h, text), 0, length)
                 /\ whole.findings = Marks(h, text)
<1> DEFINE F == Found(text)
           M == Marks(h, text)
           length == Len(text)
           detected == DetectUnits(text, 0, {})
           error == IF detected.status = "failed" THEN "DetectorFailure"
                    ELSE IF PolicyFails(h, detected.found) THEN "PolicyFailure"
                    ELSE RedactError(h, text, Finalized(h, detected.found, 0), 0)
<1>1. /\ F \in SUBSET RangeSet /\ F \in SUBSET [type : Types, start : Int, end : Int]
      /\ \A c \in F : c.start \in Nat /\ c.end \in Nat /\ c.start < c.end /\ c.end <= length
      /\ length \in Nat
  BY FoundAre, RangesAreMovable DEF Finds, Texts
<1>2. /\ SoundFindings(M, text) /\ M \in SUBSET FindingSet
      /\ \A f \in M : f.start \in Nat /\ f.end \in Nat /\ f.start < f.end /\ f.end <= length
  BY MarksAre DEF SoundFindings
<1>3. /\ detected.status = IF DetectorFails(text) THEN "failed" ELSE "ok"
      /\ ~DetectorFails(text) => detected.found = F
  <2>1. ~\E c \in Candidates(text) : Crosses(c, {}, Len(text))
    BY DEF Crosses
  <2>2. {d \in F : d.start >= 0} = F /\ 0 \in Int
    BY <1>1
  <2>3. MovedAll(F, 0) = F
    BY <1>1, <2>2, MovedRanges
  <2>4. {Moved(c, -0) : c \in {d \in F : d.start >= 0}} = F
    BY <2>2, <2>3, MinusZero, Zenon DEF MovedAll
  <2> QED
    BY <2>1, <2>4 DEF DetectUnits, ResolveUnits, Found
<1>4. Part(F, 0, length) = F /\ Part(M, 0, length) = M
  BY <1>1, <1>2 DEF Part
<1>5. MovedAll(M, -0) = M /\ Slice(text, 0, length) = text /\ BeforePart(M, 0) = 0
  <2>1. 0 \in Int /\ MovedAll(M, 0) = M
    BY <1>2, MovedPart
  <2>2. MovedAll(M, -0) = M
    BY <2>1, MinusZero, Zenon
  <2>3. Below(Replaced(M), 0) = {}
    BY <1>2 DEF Below, Replaced
  <2>4. BeforePart(M, 0) = 0
    BY <2>3, FS_EmptySet DEF BeforePart
  <2> QED
    BY <2>2, <2>4, SliceWhole DEF Texts
<1>6. /\ PartError(h, text, M, 0, length) = RedactError(h, text, M, 0)
      /\ PartText(h, text, M, 0, length) = Redacted(h, text, M, 0)
  BY <1>4, <1>5 DEF PartError, PartText
<1>7. /\ WholeInput(h, text).error = error
      /\ error = "none" => /\ WholeInput(h, text).text
                                = Redacted(h, text, Finalized(h, detected.found, 0), 0)
                           /\ WholeInput(h, text).findings = Finalized(h, detected.found, 0)
  BY DEF WholeInput
<1>8. ~DetectorFails(text) => Finalized(h, detected.found, 0) = M
  BY <1>3 DEF Marks
<1> HIDE DEF detected, F, M
<1>9. error = "none" <=> ~DetectorFails(text) /\ ~PolicyFails(h, F) /\ RedactError(h, text, M, 0) = "none"
  BY <1>3, <1>8
<1> QED
  BY <1>3, <1>4, <1>6, <1>7, <1>8, <1>9 DEF PartFails, F, M

(* What is found in a beginning that ends at a cut is what is found in the *)
(* text before the cut.                                                    *)
LEMMA CutParts ==
  ASSUME Finds(Texts), NEW text \in Texts, NEW at, CutIn(text, at), NEW h, PolicyIsTotal(h)
  PROVE  LET first == Slice(text, 0, at) IN
         /\ at \in Nat /\ at <= Len(text)
         /\ first \in Texts /\ Len(first) = at
         /\ Found(first) = Part(Found(text), 0, at) /\ Found(first) = Below(Found(text), at)
         /\ Marks(h, first) = Part(Marks(h, text), 0, at)
         /\ Marks(h, first) = Below(Marks(h, text), at)
         /\ CleanAt(Found(text), at) /\ CleanAt(Marks(h, text), at)
<1> DEFINE first == Slice(text, 0, at)
           then == Slice(text, at, Len(text))
           F == Found(text)
           M == Marks(h, text)
<1>1. at \in Nat /\ at <= Len(text) /\ Len(text) \in Nat /\ 0 <= at
  BY DEF CutIn, Texts
<1>2. first \in Texts /\ Len(first) = at /\ then \in Texts /\ first \o then = text
  <2>1. first \in Seq(Symbols) /\ Len(first) = at - 0
    BY <1>1, SliceProperties DEF Texts
  <2>2. then \in Seq(Symbols)
    BY <1>1, SliceProperties DEF Texts
  <2>3. first \o then = Slice(text, 0, Len(text))
    BY <1>1, SlicesJoin DEF Texts
  <2>4. Slice(text, 0, Len(text)) = text
    BY SliceWhole DEF Texts
  <2> QED
    BY <1>1, <2>1, <2>2, <2>3, <2>4 DEF Texts
<1>3. /\ F \in SUBSET RangeSet /\ IsFiniteSet(F)
      /\ \A c \in F : c.start \in Nat /\ c.end \in Nat /\ c.start < c.end /\ c.end <= Len(text)
      /\ F \in SUBSET Candidates(text)
  BY FoundAre DEF Finds
<1>4. /\ \A f \in M : f.start \in Nat /\ f.end \in Nat
      /\ \A f \in M : \E r \in F : f.start = r.start /\ f.end = r.end
  BY MarksAre
<1>5. Found(first) = Below(F, at) /\ CleanAt(F, at)
  <2>1. CASE at = Len(text)
    <3>1. first = text
      BY <2>1, SliceWhole DEF Texts
    <3>2. Below(F, at) = F
      BY <1>3, <2>1 DEF Below
    <3>3. CleanAt(F, at)
      BY <1>3, <2>1 DEF CleanAt
    <3> QED
      BY <3>1, <3>2, <3>3
  <2>2. CASE at # Len(text)
    <3>1. Separable(first, then)
      BY <2>2 DEF CutIn
    <3>2. Kept(first) \in Texts /\ Len(Kept(first)) <= Len(first)
      BY <1>2, KeptIsText
    <3> HIDE DEF first, then
    <3>3. /\ Below(Found(first \o then), Len(first)) = Found(first)
          /\ \A c \in Candidates(first \o then) : c.start < Len(first) => c.end < Len(first)
      BY <1>2, <3>1, <3>2, FoundAcross DEF Finds
    <3>4. Below(F, at) = Found(first) /\ \A c \in Candidates(text) : c.start < at => c.end < at
      BY <1>2, <3>3
    <3>5. CleanAt(F, at)
      BY <1>1, <1>3, <3>4 DEF CleanAt
    <3> QED
      BY <3>4, <3>5
  <2> QED
    BY <2>1, <2>2
<1>6. Below(F, at) = Part(F, 0, at) /\ Below(M, at) = Part(M, 0, at)
  BY <1>3, <1>4 DEF Below, Part
<1>7. CleanAt(M, at)
  BY <1>4, <1>5 DEF CleanAt
<1>8. Marks(h, first) = Below(M, at)
  <2>1. Below(Finalized(h, F, 0), at) = Finalized(h, Below(F, at), 0)
    BY <1>1, <1>3, FinalizedInParts
  <2> QED
    BY <1>5, <2>1 DEF Marks
<1> QED
  BY <1>1, <1>2, <1>5, <1>6, <1>7, <1>8

(* The whole-input call on a beginning is about a part of the text.        *)
LEMMA BeginningIs ==
  ASSUME Finds(Texts), NEW text \in Texts, NEW at, CutIn(text, at), NEW h, PolicyIsTotal(h)
  PROVE  LET whole == WholeInput(h, Slice(text, 0, at)) IN
         /\ whole.error = "none" <=>
              ~DetectorFails(Slice(text, 0, at)) /\ ~PartFails(h, text, 0, at)
         /\ whole.error = "none" =>
              /\ whole.text = PartText(h, text, Marks(h, text), 0, at)
              /\ whole.findings = Part(Marks(h, text), 0, at)
<1> DEFINE first == Slice(text, 0, at)
           F == Found(text)
           M == Marks(h, text)
<1>1. /\ at \in Nat /\ at <= Len(text)
      /\ first \in Texts /\ Len(first) = at
      /\ Found(first) = Part(F, 0, at)
      /\ Marks(h, first) = Part(M, 0, at)
  BY CutParts
<1>2. LET whole == WholeInput(h, first) IN
      /\ whole.error = "none" <=> ~DetectorFails(first) /\ ~PartFails(h, first, 0, at)
      /\ whole.error = "none" => /\ whole.text = PartText(h, first, Marks(h, first), 0, at)
                                 /\ whole.findings = Marks(h, first)
  BY <1>1, WholeIs
<1>3. Slice(first, 0, at) = Slice(text, 0, at)
  BY <1>1, SliceWhole DEF Texts
<1>4. Part(Part(M, 0, at), 0, at) = Part(M, 0, at) /\ Part(Part(F, 0, at), 0, at) = Part(F, 0, at)
  BY DEF Part
<1>5. BeforePart(M, 0) = 0 /\ BeforePart(Part(M, 0, at), 0) = 0
  <2>1. \A f \in M : f.start \in Nat
    BY MarksAre
  <2>2. Below(Replaced(M), 0) = {} /\ Below(Replaced(Part(M, 0, at)), 0) = {}
    BY <2>1 DEF Below, Replaced, Part
  <2> QED
    BY <2>2, FS_EmptySet DEF BeforePart
<1>6. /\ PartError(h, first, Marks(h, first), 0, at) = PartError(h, text, M, 0, at)
      /\ PartText(h, first, Marks(h, first), 0, at) = PartText(h, text, M, 0, at)
  <2> HIDE DEF M, first
  <2> QED
    BY <1>1, <1>3, <1>4, <1>5 DEF PartError, PartText, first
<1>7. PartFails(h, first, 0, at) <=> PartFails(h, text, 0, at)
  BY <1>1, <1>4, <1>6 DEF PartFails
<1> QED
  BY <1>1, <1>2, <1>6, <1>7

(* A part fails only if a part around it does.                             *)
LEMMA PartFailsAround ==
  ASSUME Finds(Texts), NEW text \in Texts, NEW h, PolicyIsTotal(h),
         NEW a \in Nat, NEW b, CutIn(text, b), NEW d, CutIn(text, d),
         NEW c \in Nat, c <= a, a <= b, b <= d,
         PartFails(h, text, a, b)
  PROVE  PartFails(h, text, c, d)
<1> DEFINE F == Found(text)
           M == Marks(h, text)
<1>1. b \in Nat /\ b <= Len(text) /\ CleanAt(M, b) /\ d \in Nat /\ d <= Len(text) /\ CleanAt(M, d)
  BY CutParts
<1>2. SoundFindings(M, text) /\ \A r \in F : r.start \in Nat
  BY MarksAre, FoundAre DEF Finds
<1>3. CASE PolicyFails(h, Part(F, a, b))
  <2>1. \A r \in Part(F, a, b) : r \in Part(F, c, d)
    BY <1>1, <1>2 DEF Part
  <2> QED
    BY <1>3, <2>1 DEF PartFails, PolicyFails
<1>4. CASE PartError(h, text, M, a, b) # "none"
  <2>1. PartError(h, text, M, c, d) # "none"
    BY <1>1, <1>2, <1>4, ErrorSpreads DEF Texts
  <2> QED
    BY <2>1 DEF PartFails
<1> QED
  BY <1>3, <1>4 DEF PartFails

(* A text begins with its first part.                                      *)
LEMMA PrefixOfBoth ==
  ASSUME NEW S, NEW a \in Seq(S), NEW b \in Seq(S)
  PROVE  IsPrefix(a, a \o b)
<1>1. Len(a) <= Len(a \o b)
  BY Joined
<1>2. SubSeq(a, 1, Len(a)) = SubSeq(a \o b, 1, Len(a))
  OBVIOUS
<1> QED
  BY <1>1, <1>2 DEF IsPrefix

(* What a cut leaves of a text, and the edges of a text.                   *)
LEMMA Edges ==
  ASSUME Finds(Texts), NEW text \in Texts, NEW h, PolicyIsTotal(h)
  PROVE  /\ CutIn(text, Len(text)) /\ Slice(text, 0, Len(text)) = text
         /\ CleanAt(Marks(h, text), 0) /\ SoundFindings(Marks(h, text), text)
         /\ Part(Marks(h, text), 0, Len(text)) = Marks(h, text)
<1>1. /\ SoundFindings(Marks(h, text), text)
      /\ \A f \in Marks(h, text) :
           f.start \in Nat /\ f.end \in Nat /\ f.start < f.end /\ f.end <= Len(text)
  BY MarksAre DEF SoundFindings
<1>2. CleanAt(Marks(h, text), 0) /\ Part(Marks(h, text), 0, Len(text)) = Marks(h, text)
  BY <1>1 DEF CleanAt, Part, Texts
<1>3. Slice(text, 0, Len(text)) = text
  BY SliceWhole DEF Texts
<1>4. Len(text) \in 0..Len(text)
  BY DEF Texts
<1> QED
  BY <1>1, <1>2, <1>3, <1>4 DEF CutIn

(* The redaction of a part of a text is that part of the redaction of the  *)
(* whole text, where no finding is cut.                                    *)
LEMMA PartTextIs ==
  ASSUME Finds(Texts), PlaceholdersAreTexts(Nat), NEW text \in Texts, NEW h, PolicyIsTotal(h),
         NEW a \in Nat, a = 0 \/ CutIn(text, a), NEW b \in Nat, a <= b, b <= Len(text)
  PROVE  /\ PartText(h, text, Marks(h, text), a, b)
              = FlattenSeq(Slice(Emission(h, text, Marks(h, text), 0), a, b))
         /\ Emission(h, text, Marks(h, text), 0) \in Seq(Seq(Letters))
         /\ Len(Emission(h, text, Marks(h, text), 0)) = Len(text)
         /\ PartText(h, text, Marks(h, text), a, b) \in Seq(Letters)
<1> DEFINE M == Marks(h, text)
           E == Emission(h, text, M, 0)
<1>1. CleanAt(M, a) /\ SoundFindings(M, text) /\ IsFiniteSet(M)
  <2>1. CASE a = 0
    BY <2>1, Edges, MarksAre
  <2>2. CASE CutIn(text, a)
    BY <2>2, CutParts, MarksAre
  <2> QED
    BY <2>1, <2>2
<1> HIDE DEF M
<1>2. PartText(h, text, M, a, b) = FlattenSeq(Slice(E, a, b))
  BY <1>1, TextOfPart DEF Texts
<1>3. E \in Seq(Seq(Letters)) /\ Len(E) = Len(text)
  <2>1. 0 \in Nat
    OBVIOUS
  <2> QED
    BY <1>1, <2>1, EmissionIsTexts DEF Texts
<1> HIDE DEF E
<1>4. Slice(E, a, b) \in Seq(Seq(Letters))
  BY <1>3, PartOfSeq
<1>5. FlattenSeq(Slice(E, a, b)) \in Seq(Letters)
  BY <1>4, FlattenIsText
<1> QED
  BY <1>2, <1>3, <1>5 DEF M, E

(* What was released above a cut stays what it is, whatever comes below.   *)
LEMMA Grows ==
  ASSUME Finds(Texts), PlaceholdersAreTexts(Nat), NEW text \in Texts, NEW at, CutIn(text, at),
         NEW h, PolicyIsTotal(h),
         WholeInput(h, Slice(text, 0, at)).error = "none", WholeInput(h, text).error = "none"
  PROVE  /\ IsPrefix(WholeInput(h, Slice(text, 0, at)).text, WholeInput(h, text).text)
         /\ WholeInput(h, Slice(text, 0, at)).findings \subseteq WholeInput(h, text).findings
<1> DEFINE M == Marks(h, text)
           E == Emission(h, text, M, 0)
           n == Len(text)
           first == WholeInput(h, Slice(text, 0, at))
<1>1. at \in Nat /\ at <= n /\ n \in Nat /\ 0 \in Nat /\ 0 <= at /\ 0 <= n
  BY CutParts DEF Texts
<1>2. first.text = PartText(h, text, M, 0, at) /\ first.findings = Part(M, 0, at)
  BY BeginningIs
<1>3. WholeInput(h, text).text = PartText(h, text, M, 0, n) /\ WholeInput(h, text).findings = M
  BY WholeIs
<1>4. /\ PartText(h, text, M, 0, at) = FlattenSeq(Slice(E, 0, at))
      /\ PartText(h, text, M, 0, n) = FlattenSeq(Slice(E, 0, n))
      /\ PartText(h, text, M, at, n) = FlattenSeq(Slice(E, at, n))
      /\ PartText(h, text, M, 0, at) \in Seq(Letters)
      /\ PartText(h, text, M, at, n) \in Seq(Letters)
      /\ E \in Seq(Seq(Letters)) /\ Len(E) = n
  BY <1>1, PartTextIs
<1> HIDE DEF E, M, n, first
<1>5. FlattenSeq(Slice(E, 0, n)) = FlattenSeq(Slice(E, 0, at)) \o FlattenSeq(Slice(E, at, n))
  <2>1. n <= Len(E)
    BY <1>1, <1>4
  <2> QED
    BY <1>1, <1>4, <2>1, FlattenInParts
<1>6. WholeInput(h, text).text = first.text \o PartText(h, text, M, at, n)
  BY <1>2, <1>3, <1>4, <1>5
<1>7. IsPrefix(first.text, WholeInput(h, text).text)
  BY <1>2, <1>4, <1>6, PrefixOfBoth
<1>8. first.findings \subseteq WholeInput(h, text).findings
  BY <1>2, <1>3 DEF Part
<1> QED
  BY <1>7, <1>8 DEF first

(* A failure above a cut is a failure of the whole.                        *)
LEMMA ErrorGrows ==
  ASSUME Finds(Texts), FailuresAreLocal(Texts), NEW text \in Texts, NEW at, CutIn(text, at),
         NEW h, PolicyIsTotal(h),
         WholeInput(h, Slice(text, 0, at)).error # "none"
  PROVE  WholeInput(h, text).error # "none"
<1> DEFINE first == Slice(text, 0, at)
           then == Slice(text, at, Len(text))
<1>1. at \in Nat /\ at <= Len(text) /\ first \in Texts /\ 0 \in Nat /\ 0 <= at /\ 0 <= 0
  BY CutParts
<1>2. DetectorFails(first) \/ PartFails(h, text, 0, at)
  BY BeginningIs
<1>3. CASE DetectorFails(first)
  <2>1. then \in Texts
    BY <1>1, SliceProperties DEF Texts
  <2>2. first \o then = Slice(text, 0, Len(text)) /\ Slice(text, 0, Len(text)) = text
    BY <1>1, SlicesJoin, SliceWhole DEF Texts
  <2> HIDE DEF first, then
  <2>3. first \o then = text
    BY <2>2
  <2>4. DetectorFails(first \o then)
    BY <1>1, <1>3, <2>1 DEF FailuresAreLocal
  <2>5. DetectorFails(text)
    BY <2>3, <2>4
  <2> QED
    BY <2>5, WholeIs
<1>4. CASE PartFails(h, text, 0, at)
  <2>1. CutIn(text, Len(text))
    BY Edges
  <2>2. PartFails(h, text, 0, Len(text))
    BY <1>1, <1>4, <2>1, PartFailsAround
  <2> QED
    BY <2>2, WholeIs
<1> QED
  BY <1>2, <1>3, <1>4

(* The edges of the parts a text falls into from `at[0]` on.               *)
Edged(text, n, at) ==
  /\ n \in Nat /\ at \in [0..n -> Nat]
  /\ \A k \in 1..n : at[k - 1] <= at[k]
  /\ \A k \in 0..n : CutIn(text, at[k])
  /\ at[n] = Len(text)

(* Every position from the first edge on is in one of the parts.           *)
LEMMA EdgesCover ==
  ASSUME NEW text \in Texts, NEW n, NEW at, Edged(text, n, at),
         NEW p \in Nat, at[0] <= p, p < Len(text)
  PROVE  \E k \in 1..n : at[k - 1] <= p /\ p < at[k]
<1> SUFFICES ASSUME \A k \in 1..n : ~(at[k - 1] <= p /\ p < at[k])
             PROVE  FALSE
  OBVIOUS
<1>1. n \in Nat /\ at \in [0..n -> Nat] /\ at[n] = Len(text)
  BY DEF Edged
<1> DEFINE P == {m \in Nat : m <= n => at[m] <= p}
<1>2. 0 \in P
  OBVIOUS
<1>3. ASSUME NEW m \in P
      PROVE  m + 1 \in P
  <2>1. CASE m + 1 <= n
    <3>1. m + 1 \in 1..n /\ (m + 1) - 1 = m /\ m <= n
      BY <1>1, <2>1
    <3>2. at[m] <= p /\ ~(at[m] <= p /\ p < at[m + 1])
      BY <3>1
    <3>3. at[m + 1] \in Nat
      BY <1>1, <3>1
    <3>4. at[m + 1] <= p
      BY <3>2, <3>3
    <3> QED
      BY <3>4
  <2> QED
    BY <2>1
<1>4. P \subseteq Nat
  OBVIOUS
<1> HIDE DEF P
<1>5. n \in P
  BY <1>1, <1>2, <1>3, <1>4, StepsReachAll
<1>6. at[n] <= p
  BY <1>1, <1>5 DEF P
<1> QED
  BY <1>1, <1>6 DEF Texts

(* The edges of the units lie in the text, in order.                       *)
LEMMA EdgesInOrder ==
  ASSUME NEW text \in Texts, NEW n, NEW at, Edged(text, n, at), NEW k \in 0..n
  PROVE  at[0] <= at[k] /\ at[k] <= Len(text) /\ at[k] \in Nat
<1>1. n \in Nat /\ at \in [0..n -> Nat] /\ CutIn(text, at[k]) /\ \A j \in 1..n : at[j - 1] <= at[j]
  BY DEF Edged
<1> DEFINE P == {m \in Nat : m <= n => at[0] <= at[m]}
<1>2. 0 \in P
  BY <1>1
<1>3. ASSUME NEW m \in P
      PROVE  m + 1 \in P
  <2>1. CASE m + 1 <= n
    <3>1. m + 1 \in 1..n /\ (m + 1) - 1 = m /\ m <= n /\ m \in 0..n /\ m + 1 \in 0..n /\ 0 \in 0..n
      BY <1>1, <2>1
    <3>2. at[0] <= at[m] /\ at[m] <= at[m + 1]
      BY <1>1, <3>1
    <3>3. at[m] \in Nat /\ at[m + 1] \in Nat /\ at[0] \in Nat
      BY <1>1, <3>1
    <3>4. at[0] <= at[m + 1]
      BY <3>2, <3>3
    <3> QED
      BY <3>4
  <2> QED
    BY <2>1
<1>4. P \subseteq Nat
  OBVIOUS
<1> HIDE DEF P
<1>5. k \in P
  <2>1. P = Nat
    BY <1>2, <1>3, <1>4, StepsReachAll
  <2>2. k \in Nat
    BY <1>1
  <2> QED
    BY <2>1, <2>2
<1>6. at[0] <= at[k]
  BY <1>5 DEF P
<1>7. at[k] <= Len(text) /\ at[k] \in Nat
  BY <1>1 DEF CutIn
<1> QED
  BY <1>6, <1>7

(* Text that is released part by part is what one call releases.           *)
LEMMA PartsMakeTheWhole ==
  ASSUME Finds(Texts), PlaceholdersAreTexts(Nat), NEW text \in Texts, NEW h, PolicyIsTotal(h),
         NothingOccurs(h, text, Marks(h, text)),
         NEW n, NEW at, Edged(text, n, at),
         WholeInput(h, Slice(text, 0, at[0])).error = "none",
         ~DetectorFails(text),
         \A k \in 1..n : ~PartFails(h, text, at[k - 1], at[k])
  PROVE  LET first == WholeInput(h, Slice(text, 0, at[0]))
             whole == WholeInput(h, text)
         IN /\ whole.error = "none"
            /\ whole.text = first.text
                 \o FlattenSeq([k \in 1..n |-> PartText(h, text, Marks(h, text), at[k - 1], at[k])])
            /\ whole.findings = first.findings \cup From(Marks(h, text), at[0])
            /\ first.findings = Below(Marks(h, text), at[0])
<1> DEFINE M == Marks(h, text)
           F == Found(text)
           E == Emission(h, text, M, 0)
           first == WholeInput(h, Slice(text, 0, at[0]))
           whole == WholeInput(h, text)
           Part0(k) == PartText(h, text, M, at[k - 1], at[k])
<1>1. /\ n \in Nat /\ at \in [0..n -> Nat] /\ at[n] = Len(text)
      /\ \A k \in 1..n : at[k - 1] <= at[k]
      /\ \A k \in 0..n : CutIn(text, at[k])
      /\ Len(text) \in Nat
  BY DEF Edged, Texts
<1>2. \A k \in 0..n : at[0] <= at[k] /\ at[k] <= Len(text) /\ at[k] \in Nat
  BY EdgesInOrder
<1>3. 0 \in 0..n /\ n \in 0..n /\ \A k \in 1..n : k \in 0..n /\ k - 1 \in 0..n
  BY <1>1
<1>4. /\ ~PartFails(h, text, 0, at[0])
      /\ first.text = PartText(h, text, M, 0, at[0])
      /\ first.findings = Part(M, 0, at[0])
  BY <1>1, <1>3, BeginningIs
<1>5. SoundFindings(M, text) /\ \A f \in M : f.start \in Nat /\ f.start < Len(text)
  BY MarksAre DEF SoundFindings
<1>6. \A r \in F : r.start \in Nat /\ r.start < Len(text)
  BY FoundAre DEF Finds
<1>7. ASSUME NEW p \in Nat, p < Len(text)
      PROVE  \/ 0 <= p /\ p < at[0]
             \/ \E k \in 1..n : at[k - 1] <= p /\ p < at[k]
  <2>1. at[0] \in Nat
    BY <1>1, <1>3
  <2>2. CASE at[0] <= p
    BY <1>7, <2>2, EdgesCover
  <2> QED
    BY <2>1, <2>2
<1>8. ~PartFails(h, text, 0, Len(text))
  <2>1. ASSUME PolicyFails(h, Part(F, 0, Len(text)))
        PROVE  FALSE
    <3>1. PICK r \in Part(F, 0, Len(text)) : h.policy[r.type] = "fails"
      BY <2>1 DEF PolicyFails
    <3>2. r \in F /\ r.start \in Nat /\ r.start < Len(text)
      BY <1>6, <3>1 DEF Part
    <3>3. CASE r.start < at[0]
      <4>1. r \in Part(F, 0, at[0])
        BY <3>2, <3>3 DEF Part
      <4> QED
        BY <1>4, <3>1, <4>1 DEF PartFails, PolicyFails
    <3>4. CASE \E k \in 1..n : at[k - 1] <= r.start /\ r.start < at[k]
      <4>1. PICK k \in 1..n : at[k - 1] <= r.start /\ r.start < at[k]
        BY <3>4
      <4>2. r \in Part(F, at[k - 1], at[k])
        BY <3>2, <4>1 DEF Part
      <4>3. ~PartFails(h, text, at[k - 1], at[k])
        BY <4>1
      <4> QED
        BY <3>1, <4>2, <4>3 DEF PartFails, PolicyFails
    <3> QED
      BY <1>7, <3>2, <3>3, <3>4
  <2>2. ASSUME PartError(h, text, M, 0, Len(text)) # "none"
        PROVE  FALSE
    <3>1. CleanAt(M, Len(text)) /\ \A k \in 0..n : CleanAt(M, at[k])
      BY <1>1, <1>3, CutParts
    <3>2. PICK f \in Part(M, 0, Len(text)) :
            \A a, b \in Nat :
              a <= f.start /\ f.start < b /\ b <= Len(text) /\ CleanAt(M, b) =>
                PartError(h, text, M, a, b) # "none"
      <4>1. 0 \in Nat /\ 0 <= Len(text) /\ Len(text) <= Len(text)
        BY <1>1
      <4> HIDE DEF M
      <4>2. NothingOccurs(h, text, M)
        BY DEF M
      <4> QED
        BY <1>1, <1>5, <2>2, <3>1, <4>1, <4>2, ErrorIsInAPart DEF Texts
    <3>3. f.start \in Nat /\ f.start < Len(text)
      BY <1>5, <3>2 DEF Part
    <3>4. CASE f.start < at[0]
      <4>1. PartError(h, text, M, 0, at[0]) # "none"
        BY <1>2, <1>3, <3>1, <3>2, <3>3, <3>4
      <4> QED
        BY <1>4, <4>1 DEF PartFails
    <3>5. CASE \E k \in 1..n : at[k - 1] <= f.start /\ f.start < at[k]
      <4>1. PICK k \in 1..n : at[k - 1] <= f.start /\ f.start < at[k]
        BY <3>5
      <4>2. at[k - 1] \in Nat /\ at[k] \in Nat /\ at[k] <= Len(text) /\ CleanAt(M, at[k])
        BY <1>2, <1>3, <3>1
      <4>3. PartError(h, text, M, at[k - 1], at[k]) # "none"
        BY <3>2, <4>1, <4>2
      <4> QED
        BY <4>1, <4>3 DEF PartFails
    <3> QED
      BY <1>7, <3>3, <3>4, <3>5
  <2> QED
    BY <2>1, <2>2 DEF PartFails
<1>9. /\ whole.error = "none" /\ whole.findings = M
      /\ whole.text = PartText(h, text, M, 0, Len(text))
  BY <1>8, WholeIs
<1>10. M = first.findings \cup From(M, at[0]) /\ first.findings = Below(M, at[0])
  <2>1. at[0] \in Nat
    BY <1>1, <1>3
  <2> QED
    BY <1>4, <1>5, <2>1 DEF Part, From, Below
<1>11. /\ PartText(h, text, M, 0, Len(text)) = FlattenSeq(Slice(E, 0, Len(text)))
       /\ PartText(h, text, M, 0, at[0]) = FlattenSeq(Slice(E, 0, at[0]))
       /\ E \in Seq(Seq(Letters)) /\ Len(E) = Len(text)
  <2>1. at[0] \in Nat /\ at[0] <= Len(text) /\ 0 \in Nat /\ 0 <= at[0] /\ 0 <= Len(text)
        /\ Len(text) <= Len(text)
    BY <1>1, <1>2, <1>3
  <2> QED
    BY <1>1, <2>1, PartTextIs
<1>12. \A k \in 1..n : Part0(k) = FlattenSeq(Slice(E, at[k - 1], at[k]))
  <2>1. ASSUME NEW k \in 1..n
        PROVE  Part0(k) = FlattenSeq(Slice(E, at[k - 1], at[k]))
    <3>1. CutIn(text, at[k - 1]) /\ at[k - 1] \in Nat /\ at[k] \in Nat /\ at[k - 1] <= at[k]
          /\ at[k] <= Len(text)
      BY <1>1, <1>2, <1>3
    <3> QED
      BY <3>1, PartTextIs
  <2> QED
    BY <2>1
<1> DEFINE parts == [k \in 1..n |-> Part0(k)]
<1>13. parts = [k \in 1..n |-> FlattenSeq(Slice(E, at[k - 1], at[k]))]
  BY <1>12
<1> HIDE DEF E, parts
<1>14. FlattenSeq(Slice(E, 0, at[n])) = FlattenSeq(Slice(E, 0, at[0])) \o FlattenSeq(parts)
  <2>1. at[n] <= Len(E)
    BY <1>1, <1>11
  <2> QED
    BY <1>1, <1>11, <1>13, <2>1, FlattenChain
<1>15. whole.text = first.text \o FlattenSeq(parts)
  BY <1>1, <1>4, <1>9, <1>11, <1>14
<1> QED
  BY <1>9, <1>10, <1>15 DEF parts

------------------------------------------------------------------------------
(* The batch.                                                              *)

(* What is released, and what ends where the batch does.                   *)
Above(s, text) == Slice(text, 0, s.finalizedBytes)

(* The text above the open unit.                                           *)
UpToUnit(s, text) == Slice(text, 0, Base(s) + s.unitStart)

(* Where the units of the batch begin and end in the whole text.           *)
EdgesOf(s) ==
  [k \in 0..Len(s.unitEnds) |-> IF k = 0 THEN s.finalizedBytes ELSE Base(s) + s.unitEnds[k]]

(* A batch that may be flushed.                                            *)
Flushable(s, text) ==
  /\ text \in Texts /\ Sound(s, text)
  /\ s.unitEnds # <<>> /\ s.unitEnds[Len(s.unitEnds)] = s.unitStart
  /\ Lead(s) = Kept(Above(s, text))
  /\ Separable(Above(s, text), Batch(s))
  /\ Edged(UpToUnit(s, text), Len(s.unitEnds), EdgesOf(s))

(* A part of the buffer is a part of the text.                             *)
LEMMA RetainedPart ==
  ASSUME NEW text \in Texts, NEW s, Sound(s, text),
         NEW i \in Nat, NEW j \in Nat, i <= j, j <= Len(s.retained)
  PROVE  /\ Slice(s.retained, i, j) = Slice(text, Base(s) + i, Base(s) + j)
         /\ Base(s) \in Nat /\ Base(s) + j <= Len(text)
<1>1. /\ s.retained \in Seq(Symbols) /\ s.leadLen \in Nat /\ s.finalizedBytes \in Nat
      /\ s.leadLen <= s.finalizedBytes
      /\ Base(s) + Len(s.retained) <= Len(text)
      /\ \A k \in 1..Len(s.retained) : s.retained[k] = text[Base(s) + k]
  BY DEF Sound, InOrder, HoldsPartOf, ReadTo
<1>2. Base(s) \in Nat /\ Len(s.retained) \in Nat /\ Len(text) \in Nat
  BY <1>1 DEF Base, Texts
<1> DEFINE a == Base(s) + i
           b == Base(s) + j
<1>3. a \in Nat /\ b \in Nat /\ a <= b /\ b <= Len(text) /\ b - a = j - i
  BY <1>1, <1>2
<1>4. /\ Slice(s.retained, i, j) \in Seq(Symbols)
      /\ Len(Slice(s.retained, i, j)) = j - i
      /\ \A k \in 1..(j - i) : Slice(s.retained, i, j)[k] = s.retained[i + k]
  BY <1>1, SliceProperties
<1>5. /\ Slice(text, a, b) \in Seq(Symbols)
      /\ Len(Slice(text, a, b)) = b - a
      /\ \A k \in 1..(b - a) : Slice(text, a, b)[k] = text[a + k]
  <2> HIDE DEF a, b
  <2> QED
    BY <1>3, SliceProperties DEF Texts
<1>6. \A k \in 1..(j - i) : s.retained[i + k] = text[a + k]
  <2>1. ASSUME NEW k \in 1..(j - i)
        PROVE  s.retained[i + k] = text[a + k]
    <3>1. i + k \in 1..Len(s.retained) /\ Base(s) + (i + k) = a + k
      BY <1>2
    <3> QED
      BY <1>1, <3>1
  <2> QED
    BY <2>1
<1> HIDE DEF a, b
<1>7. Slice(s.retained, i, j) = Slice(text, a, b)
  BY <1>3, <1>4, <1>5, <1>6, SameTexts
<1> QED
  BY <1>2, <1>3, <1>7 DEF a, b

(* The parts of a flushable batch.                                         *)
LEMMA BatchParts ==
  ASSUME NEW text, NEW s, Flushable(s, text)
  PROVE  LET whole == UpToUnit(s, text)
             above == Above(s, text)
             n == Len(s.unitEnds)
             at == EdgesOf(s)
         IN /\ whole \in Texts /\ above \in Texts /\ Batch(s) \in Texts /\ Lead(s) \in Texts
            /\ Len(whole) = Base(s) + s.unitStart /\ Len(above) = at[0]
            /\ Slice(whole, 0, at[0]) = above /\ above \o Batch(s) = whole
            /\ Slice(s.retained, 0, s.unitStart) = Lead(s) \o Batch(s)
            /\ Len(Lead(s)) = s.leadLen /\ Len(Batch(s)) = s.unitStart - s.leadLen
            /\ n \in Nat /\ n >= 1 /\ at \in [0..n -> Nat]
            /\ at[0] = s.finalizedBytes /\ at[0] = Base(s) + s.leadLen
            /\ \A k \in 1..n :
                 /\ UnitText(s, k) = Slice(whole, at[k - 1], at[k])
                 /\ UnitOffset(s, k) = at[k - 1]
                 /\ at[k - 1] = Base(s) + UnitFrom(s, k) /\ at[k] = Base(s) + s.unitEnds[k]
                 /\ UnitFrom(s, k) \in Nat /\ s.unitEnds[k] \in Nat
                 /\ s.leadLen <= UnitFrom(s, k)
                 /\ UnitFrom(s, k) <= s.unitEnds[k] /\ s.unitEnds[k] <= s.unitStart
<1> DEFINE whole == UpToUnit(s, text)
           above == Above(s, text)
           n == Len(s.unitEnds)
           at == EdgesOf(s)
           d == Base(s) + s.unitStart
<1>1. /\ text \in Texts /\ Sound(s, text) /\ s.unitEnds # <<>> /\ InOrder(s)
      /\ Edged(whole, n, at) /\ s.unitEnds \in Seq(Nat)
      /\ s.retained \in Seq(Symbols)
      /\ s.leadLen \in Nat /\ s.unitStart \in Nat /\ s.finalizedBytes \in Nat
      /\ s.leadLen <= s.unitStart /\ s.unitStart <= Len(s.retained) /\ s.leadLen <= s.finalizedBytes
      /\ \A k \in 1..n : UnitFrom(s, k) <= s.unitEnds[k] /\ s.unitEnds[k] <= s.unitStart
  BY DEF Flushable, Sound, InOrder
<1>2. n \in Nat /\ n >= 1 /\ at \in [0..n -> Nat] /\ \A k \in 1..n : at[k - 1] <= at[k]
  BY <1>1 DEF Edged
<1>3. Base(s) \in Nat /\ Base(s) = s.finalizedBytes - s.leadLen
      /\ d \in Nat /\ d <= Len(text) /\ Len(text) \in Nat /\ s.finalizedBytes <= d
  <2>1. Base(s) \in Nat /\ Base(s) + s.unitStart <= Len(text)
    <3>1. 0 \in Nat /\ 0 <= s.unitStart
      BY <1>1
    <3> QED
      BY <1>1, <3>1, RetainedPart
  <2> QED
    BY <1>1, <2>1 DEF Base, Texts
<1>4. at[0] = s.finalizedBytes /\ at[0] = Base(s) + s.leadLen
  BY <1>1, <1>2, <1>3 DEF EdgesOf
<1>t. text \in Seq(Symbols) /\ whole \in Texts /\ Len(whole) = d
  <2>1. 0 \in Nat /\ 0 <= d /\ d - 0 = d /\ text \in Seq(Symbols)
    BY <1>1, <1>3 DEF Texts
  <2>2. whole = Slice(text, 0, d)
    BY DEF UpToUnit
  <2> HIDE DEF d, whole
  <2> QED
    BY <1>3, <2>1, <2>2, SliceProperties DEF Texts
<1>5. ASSUME NEW k \in 1..n
      PROVE  /\ at[k - 1] = Base(s) + UnitFrom(s, k) /\ at[k] = Base(s) + s.unitEnds[k]
             /\ UnitFrom(s, k) \in Nat /\ s.unitEnds[k] \in Nat
             /\ s.leadLen <= UnitFrom(s, k)
  <2>1. k \in 0..n /\ k - 1 \in 0..n /\ 0 \in 0..n /\ k # 0
    BY <1>2
  <2>2. at[k] = Base(s) + s.unitEnds[k]
    BY <2>1 DEF EdgesOf
  <2>3. s.unitEnds[k] \in Nat
    BY <1>1
  <2>4. at[k - 1] = Base(s) + UnitFrom(s, k) /\ UnitFrom(s, k) \in Nat
    <3>1. CASE k = 1
      BY <1>1, <1>4, <3>1 DEF UnitFrom
    <3>2. CASE k # 1
      <4>1. k - 1 \in 1..n /\ k - 1 # 0
        BY <3>2
      <4> QED
        BY <1>1, <2>1, <3>2, <4>1 DEF EdgesOf, UnitFrom
    <3> QED
      BY <3>1, <3>2
  <2>5. at[0] <= at[k - 1]
    <3> HIDE DEF at, whole, n
    <3> QED
      BY <1>1, <1>t, <2>1, EdgesInOrder
  <2>6. s.leadLen <= UnitFrom(s, k)
    <3>1. s.leadLen \in Nat /\ Base(s) \in Nat
      BY <1>1, <1>3
    <3> HIDE DEF at
    <3> QED
      BY <1>4, <2>4, <2>5, <3>1
  <2> QED
    BY <2>2, <2>3, <2>4, <2>6
<1>6. /\ whole \in Texts /\ Len(whole) = d
      /\ above \in Texts /\ Len(above) = s.finalizedBytes
      /\ Slice(whole, 0, s.finalizedBytes) = above
      /\ Slice(whole, s.finalizedBytes, d) = Slice(text, s.finalizedBytes, d)
      /\ above \o Slice(text, s.finalizedBytes, d) = whole
  <2> DEFINE f == s.finalizedBytes
  <2>1. f \in Nat /\ f <= d /\ 0 \in Nat /\ 0 <= f /\ f <= Len(text) /\ 0 <= d /\ d <= d /\ f <= d - 0
        /\ d <= d - 0 /\ 0 + f = f /\ 0 + d = d /\ 0 + 0 = 0
    BY <1>1, <1>3
  <2> HIDE DEF f, d
  <2>2. Slice(text, 0, d) \in Seq(Symbols) /\ Len(Slice(text, 0, d)) = d - 0
    BY <1>1, <1>3, <2>1, SliceProperties DEF Texts
  <2>3. Slice(text, 0, f) \in Seq(Symbols) /\ Len(Slice(text, 0, f)) = f - 0
    BY <1>1, <2>1, SliceProperties DEF Texts
  <2>4. Slice(Slice(text, 0, d), 0, f) = Slice(text, 0 + 0, 0 + f)
    BY <1>1, <1>3, <2>1, SliceOfSlice DEF Texts
  <2>5. Slice(Slice(text, 0, d), f, d) = Slice(text, 0 + f, 0 + d)
    BY <1>1, <1>3, <2>1, SliceOfSlice DEF Texts
  <2>6. Slice(text, 0, f) \o Slice(text, f, d) = Slice(text, 0, d)
    <3>1. d \in Nat /\ d <= Len(text)
      BY <1>3
    <3> QED
      BY <1>t, <2>1, <3>1, SlicesJoin
  <2>7. whole = Slice(text, 0, d) /\ above = Slice(text, 0, f)
    BY DEF UpToUnit, Above, d, f
  <2> QED
    BY <1>3, <2>1, <2>2, <2>3, <2>4, <2>5, <2>6, <2>7 DEF f, Texts
<1>7. /\ Batch(s) = Slice(text, s.finalizedBytes, d)
      /\ Batch(s) \in Texts /\ Lead(s) \in Texts
      /\ Len(Lead(s)) = s.leadLen /\ Len(Batch(s)) = s.unitStart - s.leadLen
  <2>1. Slice(s.retained, s.leadLen, s.unitStart)
          = Slice(text, Base(s) + s.leadLen, Base(s) + s.unitStart)
    BY <1>1, RetainedPart
  <2> QED
    BY <1>1, <1>4, <2>1, Parts DEF Batch, Texts
<1>8. Slice(s.retained, 0, s.unitStart) = Lead(s) \o Batch(s)
  <2>1. 0 \in Nat /\ 0 <= s.leadLen
    BY <1>1
  <2> QED
    BY <1>1, <2>1, SlicesJoin DEF Lead, Batch
<1>9. ASSUME NEW k \in 1..n
      PROVE  UnitText(s, k) = Slice(whole, at[k - 1], at[k]) /\ UnitOffset(s, k) = at[k - 1]
  <2>1. /\ UnitFrom(s, k) \in Nat /\ s.unitEnds[k] \in Nat /\ UnitFrom(s, k) <= s.unitEnds[k]
        /\ s.unitEnds[k] <= s.unitStart /\ s.unitEnds[k] <= Len(s.retained)
        /\ at[k - 1] = Base(s) + UnitFrom(s, k) /\ at[k] = Base(s) + s.unitEnds[k]
    BY <1>1, <1>5
  <2>2. UnitText(s, k) = Slice(text, at[k - 1], at[k])
    BY <1>1, <2>1, RetainedPart DEF UnitText
  <2> DEFINE i == at[k - 1]
             j == at[k]
  <2>3. i \in Nat /\ j \in Nat /\ i <= j /\ j <= d - 0 /\ 0 + i = i /\ 0 + j = j /\ 0 \in Nat /\ 0 <= d
    <3>1. Base(s) \in Nat /\ s.unitStart \in Nat
      BY <1>1, <1>3
    <3> DEFINE u == UnitFrom(s, k)
               v == s.unitEnds[k]
    <3>2. u \in Nat /\ v \in Nat /\ u <= v /\ v <= s.unitStart /\ i = Base(s) + u /\ j = Base(s) + v
      BY <2>1
    <3> HIDE DEF u, v, i, j
    <3> QED
      BY <3>1, <3>2
  <2> HIDE DEF i, j, d
  <2>4. Slice(Slice(text, 0, d), i, j) = Slice(text, 0 + i, 0 + j)
    BY <1>t, <1>3, <2>3, SliceOfSlice
  <2>5. Slice(whole, i, j) = Slice(text, i, j)
    BY <2>3, <2>4 DEF UpToUnit, d
  <2>6. UnitOffset(s, k) = at[k - 1]
    BY <1>1, <1>3, <2>1 DEF UnitOffset, Base
  <2> QED
    BY <2>2, <2>5, <2>6 DEF i, j
<1> HIDE DEF whole, above, at
<1> QED
  BY <1>1, <1>2, <1>3, <1>4, <1>5, <1>6, <1>7, <1>8, <1>9 DEF whole, above, at

(* Detection of a text nothing is crossed in.                              *)
LEMMA DetectedWhole ==
  ASSUME NEW text, NEW lead, NEW ends, ~DetectorFails(text),
         \A c \in Candidates(text) : ~Crosses(c, ends, Len(text))
  PROVE  /\ DetectUnits(text, lead, ends).status = "ok"
         /\ DetectUnits(text, lead, ends).found = MovedAll(From(Found(text), lead), -lead)
<1>1. DetectUnits(text, lead, ends)
        = [status |-> "ok",
           found |-> {Moved(c, -lead) : c \in {d \in Select(Candidates(text)) : d.start >= lead}}]
  BY DEF DetectUnits, ResolveUnits
<1>2. {d \in Select(Candidates(text)) : d.start >= lead} = From(Found(text), lead)
  BY DEF From, Found
<1> QED
  BY <1>1, <1>2 DEF MovedAll

(* The ranges of a part, wherever they are counted from.                   *)
LEMMA PartMovedBack ==
  ASSUME NEW R \in SUBSET RangeSet, NEW a \in Nat, NEW i \in Int, NEW j \in Int
  PROVE  MovedAll(Part(MovedAll(R, -a), i, j), a) = Part(R, a + i, a + j)
<1> DEFINE some == {r \in R : a + i <= r.start /\ r.start < a + j}
<1>1. R \in SUBSET [type : Types, start : Int, end : Int] /\ -a \in Int /\ a \in Int /\ -a + a = 0
  BY RangesAreMovable
<1>2. \A r \in R : r.start \in Nat /\ Moved(r, -a).start = r.start + (-a)
  BY <1>1, MovedRanges DEF RangeSet
<1>3. {r \in MovedAll(R, -a) : i <= r.start /\ r.start < j} = MovedAll(some, -a)
  <2>1. \A r \in R : (i <= Moved(r, -a).start /\ Moved(r, -a).start < j)
                       <=> (a + i <= r.start /\ r.start < a + j)
    BY <1>2
  <2> QED
    BY <2>1 DEF MovedAll
<1>4. some \in SUBSET [type : Types, start : Int, end : Int]
  BY <1>1
<1> HIDE DEF some
<1>5. MovedAll(MovedAll(some, -a), a) = MovedAll(some, -a + a) /\ MovedAll(some, 0) = some
  BY <1>1, <1>4, MovedRanges
<1>6. MovedAll(MovedAll(some, -a), a) = some
  BY <1>1, <1>5
<1> QED
  BY <1>3, <1>6 DEF some, Part

(* What is found in the batch by all of it is what is found there by the   *)
(* whole text.                                                             *)
LEMMA BatchFinds ==
  ASSUME Finds(Texts), NEW text, NEW s, Flushable(s, text)
  PROVE  LET read == Lead(s) \o Batch(s)
             whole == UpToUnit(s, text)
             from == s.finalizedBytes
         IN /\ MovedAll(From(Found(read), s.leadLen), -s.leadLen)
                 = MovedAll(From(Found(whole), from), -from)
            /\ ~\E c \in Candidates(read) :
                  Crosses(c, Range(s.unitEnds) \cup ({s.leadLen} \ {0}), Len(read))
<1> DEFINE read == Lead(s) \o Batch(s)
           whole == UpToUnit(s, text)
           above == Above(s, text)
           from == s.finalizedBytes
           lead == Lead(s)
           l == s.leadLen
           n == Len(s.unitEnds)
           at == EdgesOf(s)
           ends == Range(s.unitEnds) \cup ({s.leadLen} \ {0})
<1>1. /\ whole \in Texts /\ above \in Texts /\ Batch(s) \in Texts /\ lead \in Texts
      /\ Len(whole) = Base(s) + s.unitStart /\ Len(above) = from
      /\ above \o Batch(s) = whole
      /\ Len(lead) = l /\ Len(Batch(s)) = s.unitStart - l
      /\ from = Base(s) + l
      /\ n \in Nat /\ at \in [0..n -> Nat]
      /\ \A k \in 1..n : at[k] = Base(s) + s.unitEnds[k] /\ s.unitEnds[k] \in Nat
                         /\ l <= s.unitEnds[k]
  <2>1. \A k \in 1..n : s.unitEnds[k] \in Nat /\ UnitFrom(s, k) \in Nat /\ s.leadLen \in Nat
                        /\ s.leadLen <= UnitFrom(s, k) /\ UnitFrom(s, k) <= s.unitEnds[k]
    BY BatchParts DEF Flushable, Sound, InOrder
  <2>2. \A k \in 1..n : l <= s.unitEnds[k]
    BY <2>1
  <2> QED
    BY <2>2, BatchParts
<1>2. /\ l \in Nat /\ s.unitStart \in Nat /\ from \in Nat /\ Base(s) \in Int
      /\ l <= s.unitStart /\ l <= from /\ s.unitEnds \in Seq(Nat)
      /\ lead = Kept(above) /\ Separable(above, Batch(s))
      /\ Edged(whole, n, at)
  BY DEF Flushable, Sound, InOrder, Base
<1>3. read \in Texts /\ Len(read) = s.unitStart
  <2>1. read \in Seq(Symbols) /\ Len(read) = Len(lead) + Len(Batch(s))
    <3> HIDE DEF lead
    <3>1. lead \o Batch(s) \in Seq(Symbols) /\ Len(lead \o Batch(s)) = Len(lead) + Len(Batch(s))
      BY <1>1, Joined DEF Texts
    <3> QED
      BY <3>1 DEF lead
  <2> HIDE DEF read, lead
  <2> QED
    BY <1>1, <1>2, <2>1 DEF Texts
<1>4. /\ MovedAll(From(Found(read), l), -l) = MovedAll(From(Found(whole), from), -from)
      /\ \A c \in Candidates(read) : c.start < l => c.end < l
      /\ MovedAll(From(Candidates(read), l), -l) = MovedAll(From(Candidates(whole), from), -from)
  <2>1. Kept(above) \in Texts /\ Len(Kept(above)) <= Len(above)
    BY <1>1, KeptIsText
  <2> HIDE DEF above, lead, whole, from, l
  <2>2. /\ MovedAll(From(Found(Kept(above) \o Batch(s)), Len(Kept(above))), -Len(Kept(above)))
             = MovedAll(From(Found(above \o Batch(s)), Len(above)), -Len(above))
        /\ \A c \in Candidates(Kept(above) \o Batch(s)) :
              c.start < Len(Kept(above)) => c.end < Len(Kept(above))
        /\ MovedAll(From(Candidates(Kept(above) \o Batch(s)), Len(Kept(above))), -Len(Kept(above)))
             = MovedAll(From(Candidates(above \o Batch(s)), Len(above)), -Len(above))
    BY <1>1, <1>2, <2>1, FoundAcross DEF Finds
  <2>3. Kept(above) = lead /\ Len(lead) = l /\ Len(above) = from /\ above \o Batch(s) = whole
    BY <1>1, <1>2
  <2>4. lead \o Batch(s) = read
    BY DEF lead
  <2> HIDE DEF read
  <2> QED
    BY <2>2, <2>3, <2>4
<1>5. /\ \A c \in Candidates(read) : c.start \in Nat /\ c.end \in Nat
      /\ \A c \in Candidates(whole) : c.start \in Nat /\ c.end \in Nat
      /\ Candidates(read) \in SUBSET RangeSet /\ Candidates(whole) \in SUBSET RangeSet
  BY <1>1, <1>3, CandidatesAre DEF Finds
<1>6. ASSUME NEW c \in Candidates(read), NEW e \in ends, e < Len(read), c.start < e, e <= c.end
      PROVE  FALSE
  <2>1. CASE c.start < l
    <3>1. c.end < l /\ l <= e
      <4>1. CASE e = l
        BY <1>2, <1>4, <2>1, <4>1
      <4>2. CASE e \in Range(s.unitEnds)
        <5>1. PICK k \in 1..n : e = s.unitEnds[k]
          BY <1>2, <4>2 DEF Range
        <5> QED
          BY <1>1, <1>4, <2>1, <5>1
      <4> QED
        BY <4>1, <4>2
    <3>2. e \in Nat
      BY <1>2 DEF Range
    <3> QED
      BY <1>2, <1>5, <1>6, <3>1, <3>2
  <2>2. CASE ~(c.start < l)
    <3>1. c \in From(Candidates(read), l)
      BY <1>2, <1>5, <2>2 DEF From
    <3>2. Moved(c, -l) \in MovedAll(From(Candidates(whole), from), -from)
      BY <1>4, <3>1 DEF MovedAll
    <3>3. PICK d \in From(Candidates(whole), from) : Moved(c, -l) = Moved(d, -from)
      BY <3>2 DEF MovedAll
    <3>4. d \in Candidates(whole) /\ c \in Candidates(read)
      BY <3>3 DEF From
    <3>5. -l \in Int /\ -from \in Int
      BY <1>2
    <3>6. Moved(c, -l).start = c.start + (-l) /\ Moved(c, -l).end = c.end + (-l)
      <4>1. Candidates(read) \in SUBSET [type : Types, start : Int, end : Int]
        BY <1>5, RangesAreMovable
      <4> QED
        BY <3>4, <3>5, <4>1, MovedRanges
    <3>7. Moved(d, -from).start = d.start + (-from) /\ Moved(d, -from).end = d.end + (-from)
      <4>1. Candidates(whole) \in SUBSET [type : Types, start : Int, end : Int]
        BY <1>5, RangesAreMovable
      <4> QED
        BY <3>4, <3>5, <4>1, MovedRanges
    <3>8. c.start + (-l) = d.start + (-from) /\ c.end + (-l) = d.end + (-from)
      BY <3>3, <3>6, <3>7
    <3>9. e # l
      BY <1>2, <1>5, <1>6, <2>2
    <3>10. PICK k \in 1..n : e = s.unitEnds[k]
      BY <1>2, <3>9 DEF Range
    <3> DEFINE p == at[k]
    <3>11. /\ p = Base(s) + e /\ e \in Nat /\ p < Len(whole) /\ CutIn(whole, p)
           /\ p \in Nat /\ 0 <= p
      <4>1. k \in 0..n
        BY <1>1
      <4>2. CutIn(whole, p) /\ p \in Nat
        BY <1>1, <1>2, <4>1 DEF Edged
      <4>3. p = Base(s) + e /\ e \in Nat
        BY <1>1, <3>10
      <4>4. e < s.unitStart
        BY <1>3, <1>6
      <4> QED
        BY <1>1, <1>2, <4>2, <4>3, <4>4
    <3> HIDE DEF p, whole, at
    <3>12. Separable(Slice(whole, 0, p), Slice(whole, p, Len(whole)))
      BY <3>11 DEF CutIn
    <3>13. /\ Slice(whole, 0, p) \o Slice(whole, p, Len(whole)) = whole
           /\ Len(Slice(whole, 0, p)) = p
      <4>1. whole \in Seq(Symbols) /\ Len(whole) \in Nat /\ p \in Nat /\ 0 \in Nat
            /\ p <= Len(whole) /\ Len(whole) <= Len(whole) /\ 0 <= p /\ p - 0 = p
        BY <1>1, <3>11 DEF Texts
      <4> HIDE DEF n, l, from
      <4>2. Slice(whole, 0, p) \o Slice(whole, p, Len(whole)) = Slice(whole, 0, Len(whole))
        BY <4>1, SlicesJoin
      <4>3. Slice(whole, 0, Len(whole)) = whole
        BY <4>1, SliceWhole
      <4>4. Len(Slice(whole, 0, p)) = p - 0
        BY <4>1, SliceProperties
      <4> QED
        BY <4>1, <4>2, <4>3, <4>4
    <3>14. d.start < p => d.end < p
      BY <3>4, <3>12, <3>13 DEF Separable, NoneReaches
    <3>15. from = Base(s) + l /\ p = Base(s) + e /\ Base(s) \in Int /\ l \in Nat /\ e \in Nat
      BY <1>1, <1>2, <3>11
    <3>16. c.start \in Nat /\ c.end \in Nat /\ d.start \in Nat /\ d.end \in Nat
      BY <1>5, <3>4
    <3>17. c.start < e /\ e <= c.end
      BY <1>6
    <3> DEFINE cs == c.start
               ce == c.end
               ds == d.start
               de == d.end
    <3>18. cs \in Nat /\ ce \in Nat /\ ds \in Nat /\ de \in Nat /\ cs < e /\ e <= ce
      BY <3>16, <3>17
    <3>19. cs + (-l) = ds + (-from) /\ ce + (-l) = de + (-from)
      BY <3>8
    <3>20. ds < p => de < p
      BY <3>14
    <3> HIDE DEF from, l, cs, ce, ds, de
    <3> QED
      BY <3>15, <3>18, <3>19, <3>20
  <2> QED
    BY <2>1, <2>2
<1>7. ~\E c \in Candidates(read) : Crosses(c, ends, Len(read))
  BY <1>6 DEF Crosses
<1> QED
  BY <1>4, <1>7

(* What is detected in each unit of a batch no detector fails on.          *)
LEMMA UnitsFind ==
  ASSUME Finds(Texts), NEW text, NEW s, Flushable(s, text),
         ~DetectorFails(Lead(s) \o Batch(s)), NEW k \in 1..Len(s.unitEnds)
  PROVE  LET found == UnitDetection(s, k, DetectBatch(s))
             at == EdgesOf(s)
         IN /\ found.status = "ok"
            /\ found.found = Part(Found(UpToUnit(s, text)), at[k - 1], at[k])
<1> DEFINE read == Lead(s) \o Batch(s)
           whole == UpToUnit(s, text)
           from == s.finalizedBytes
           l == s.leadLen
           n == Len(s.unitEnds)
           at == EdgesOf(s)
           ends == Range(s.unitEnds) \cup ({s.leadLen} \ {0})
           i == UnitFrom(s, k) - s.leadLen
           j == s.unitEnds[k] - s.leadLen
           R == From(Found(whole), from)
           batched == DetectBatch(s)
<1>1. /\ Slice(s.retained, 0, s.unitStart) = read
      /\ whole \in Texts /\ Batch(s) \in Texts /\ Len(Batch(s)) = s.unitStart - l
      /\ Len(whole) = Base(s) + s.unitStart
      /\ from = Base(s) + l /\ at[0] = from
      /\ n \in Nat /\ n >= 1 /\ at \in [0..n -> Nat]
      /\ at[k - 1] = Base(s) + UnitFrom(s, k) /\ at[k] = Base(s) + s.unitEnds[k]
      /\ UnitFrom(s, k) \in Nat /\ s.unitEnds[k] \in Nat /\ l <= UnitFrom(s, k)
      /\ UnitFrom(s, k) <= s.unitEnds[k]
      /\ Len(Lead(s)) = l
  <2>1. /\ Slice(s.retained, 0, s.unitStart) = read
        /\ whole \in Texts /\ Batch(s) \in Texts /\ Len(Batch(s)) = s.unitStart - l
        /\ Len(whole) = Base(s) + s.unitStart
        /\ from = Base(s) + l /\ at[0] = from
        /\ n \in Nat /\ n >= 1 /\ at \in [0..n -> Nat]
        /\ Len(Lead(s)) = l
    BY BatchParts
  <2>2. /\ at[k - 1] = Base(s) + UnitFrom(s, k) /\ at[k] = Base(s) + s.unitEnds[k]
        /\ UnitFrom(s, k) \in Nat /\ s.unitEnds[k] \in Nat /\ l <= UnitFrom(s, k)
        /\ UnitFrom(s, k) <= s.unitEnds[k]
    BY BatchParts
  <2> QED
    BY <2>1, <2>2
<1>2. /\ l \in Nat /\ s.unitStart \in Nat /\ from \in Nat /\ Base(s) \in Int
      /\ s.unitEnds[n] = s.unitStart /\ s.retained \in Seq(Symbols)
  BY DEF Flushable, Sound, InOrder, Base
<1>3. /\ MovedAll(From(Found(read), l), -l) = MovedAll(R, -from)
      /\ ~\E c \in Candidates(read) : Crosses(c, ends, Len(read))
  BY BatchFinds
<1>4. Found(whole) \in SUBSET RangeSet /\ R \in SUBSET RangeSet
      /\ \A r \in Found(whole) : r.start \in Nat /\ r.start < Len(whole)
  <2>1. Found(whole) \in SUBSET RangeSet
        /\ \A r \in Found(whole) : r.start \in Nat /\ r.end \in Nat /\ r.start < r.end /\ r.end <= Len(whole)
    BY <1>1, FoundAre DEF Finds
  <2>2. Len(whole) \in Nat
    BY <1>1 DEF Texts
  <2> QED
    BY <2>1, <2>2 DEF From
<1> HIDE DEF at, whole, read
<1>5. /\ i \in Int /\ j \in Int /\ from + i = at[k - 1] /\ from + j = at[k]
      /\ i >= 0 /\ at[k - 1] >= from
  <2> DEFINE u == UnitFrom(s, k)
             v == s.unitEnds[k]
             b == Base(s)
             x == at[k - 1]
             y == at[k]
  <2>1. /\ x = b + u /\ y = b + v /\ u \in Nat /\ v \in Nat /\ l <= u /\ from = b + l
        /\ l \in Nat /\ b \in Int /\ i = u - l /\ j = v - l
    BY <1>1, <1>2
  <2> HIDE DEF i, j, u, v, b, x, y, from, l
  <2>2. i \in Int /\ j \in Int /\ from + i = x /\ from + j = y /\ i >= 0 /\ x >= from
    BY <2>1
  <2> QED
    BY <2>2 DEF x, y
<1>6. {r \in R : from + i <= r.start /\ r.start < from + j}
        = Part(Found(whole), at[k - 1], at[k])
  <2> HIDE DEF i, j, from
  <2>1. at[k - 1] \in Int /\ at[k] \in Int /\ from \in Nat
    BY <1>2, <1>5
  <2> QED
    BY <1>4, <1>5, <2>1 DEF From, Part
<1>7. MovedAll({r \in MovedAll(R, -from) : i <= r.start /\ r.start < j}, from)
        = Part(Found(whole), at[k - 1], at[k])
  <2>0. R \in SUBSET RangeSet /\ from \in Nat /\ i \in Int /\ j \in Int
    BY <1>2, <1>4, <1>5
  <2> HIDE DEF R, i, j, from
  <2>1. MovedAll(Part(MovedAll(R, -from), i, j), from) = Part(R, from + i, from + j)
    BY <2>0, PartMovedBack
  <2> QED
    BY <1>6, <2>1 DEF R, i, j, from, Part
<1>8. CASE n > 1 \/ l > 0
  <2>1. batched = DetectUnits(read, l, ends)
    BY <1>1, <1>8 DEF DetectBatch
  <2>2. batched.status = "ok" /\ batched.found = MovedAll(R, -from)
    <3>1. \A c \in Candidates(read) : ~Crosses(c, ends, Len(read))
      BY <1>3
    <3> HIDE DEF read, ends, l, R, from
    <3>2. /\ DetectUnits(read, l, ends).status = "ok"
          /\ DetectUnits(read, l, ends).found = MovedAll(From(Found(read), l), -l)
      <4>1. ~DetectorFails(read)
        BY DEF read
      <4> QED
        BY <3>1, <4>1, DetectedWhole
    <3> QED
      BY <1>3, <2>1, <3>2
  <2>3. UnitDetection(s, k, batched).status = "ok"
        /\ UnitDetection(s, k, batched).found
             = MovedAll({r \in batched.found : i <= r.start /\ r.start < j}, from)
    <3>1. DOMAIN batched = {"status", "found"}
      <4>1. DOMAIN DetectUnits(read, l, ends) = {"status", "found"}
        BY DEF DetectUnits, ResolveUnits
      <4> QED
        BY <2>1, <4>1
    <3> HIDE DEF batched
    <3> QED
      BY <2>2, <3>1 DEF UnitDetection
  <2> QED
    BY <1>7, <2>2, <2>3 DEF at, whole
<1>9. CASE ~(n > 1 \/ l > 0)
  <2>1. n = 1 /\ k = 1 /\ l = 0 /\ UnitFrom(s, k) = 0 /\ s.unitEnds[k] = s.unitStart /\ i = 0
    <3>1. n = 1 /\ k = 1 /\ l = 0
      <4>1. n \in Nat /\ n >= 1 /\ l \in Nat /\ k \in 1..n /\ ~(n > 1 \/ l > 0)
        BY <1>1, <1>2, <1>9
      <4> HIDE DEF n, l
      <4> QED
        BY <4>1
    <3> QED
      BY <1>2, <3>1 DEF UnitFrom
  <2>2. batched = [status |-> "inseparable", found |-> {}]
    BY <1>9 DEF DetectBatch
  <2>3. Lead(s) = <<>> /\ read = Batch(s) /\ Len(read) = s.unitStart
    <3>1. Lead(s) \in Seq(Symbols) /\ Len(Lead(s)) = 0
      BY <2>1, BatchParts DEF Texts
    <3>2. Lead(s) = <<>>
      BY <3>1
    <3>3. Batch(s) \in Seq(Symbols) /\ Len(Batch(s)) = s.unitStart
      BY <1>1, <1>2, <2>1 DEF Texts
    <3> QED
      BY <3>2, <3>3, JoinedToNothing DEF read
  <2>4. DetectAlone(s, k) = DetectUnits(read, 0, {})
    <3>1. DetectAlone(s, k) = DetectAfter(Slice(s.retained, 0, s.unitStart), 0)
      <4>1. 0 - 0 = 0
        OBVIOUS
      <4> QED
        BY <2>1, <4>1 DEF DetectAlone
    <3>2. DetectAfter(read, 0) = DetectUnits(Slice(read, 0, Len(read)), 0, {})
      BY DEF DetectAfter, UnlessInseparable
    <3>3. Slice(read, 0, Len(read)) = read
      BY <1>1, <2>3, SliceWhole DEF Texts
    <3> QED
      BY <1>1, <3>1, <3>2, <3>3
  <2>5. /\ DetectAlone(s, k).status = "ok"
        /\ DetectAlone(s, k).found = MovedAll(R, -from)
    <3>1. \A c \in Candidates(read) : ~Crosses(c, {}, Len(read))
      BY DEF Crosses
    <3> DEFINE z == 0
    <3>2. DetectUnits(read, z, {}).status = "ok"
          /\ DetectUnits(read, z, {}).found = MovedAll(From(Found(read), z), -z)
      <4> HIDE DEF read, z
      <4>1. ~DetectorFails(read)
        BY DEF read
      <4> QED
        BY <3>1, <4>1, DetectedWhole
    <3>3. z = l
      BY <2>1
    <3> HIDE DEF z, R, from, l, read
    <3>4. MovedAll(From(Found(read), z), -z) = MovedAll(R, -from)
      BY <1>3, <3>3
    <3> QED
      BY <2>4, <3>2, <3>4 DEF z
  <2>6. UnitDetection(s, k, batched).status = "ok"
        /\ UnitDetection(s, k, batched).found = MovedAll(MovedAll(R, -from), from)
    <3>1. DOMAIN DetectAlone(s, k) = {"status", "found"}
      BY <2>4 DEF DetectUnits, ResolveUnits
    <3>2. from + i = from
      BY <1>2, <2>1
    <3> HIDE DEF R, batched
    <3>3. UnitDetection(s, k, batched).status = "ok"
          /\ UnitDetection(s, k, batched).found = MovedAll(MovedAll(R, -from), from + i)
      <4>1. batched.status # "ok"
        BY <2>2
      <4> HIDE DEF i, from
      <4>2. UnitDetection(s, k, batched)
              = [DetectAlone(s, k) EXCEPT !.found = MovedAll(@, s.finalizedBytes + (UnitFrom(s, k) - s.leadLen))]
        BY <4>1 DEF UnitDetection
      <4> QED
        BY <2>5, <3>1, <4>2 DEF i, from
    <3> QED
      BY <3>2, <3>3
  <2>7. {r \in MovedAll(R, -from) : i <= r.start /\ r.start < j} = MovedAll(R, -from)
    <3>1. \A r \in R : r.start \in Nat /\ from <= r.start /\ r.start < Len(whole)
      BY <1>4 DEF From
    <3>2. \A r \in R : Moved(r, -from).start = r.start + (-from)
      <4>1. R \in SUBSET [type : Types, start : Int, end : Int] /\ -from \in Int
        BY <1>2, <1>4, RangesAreMovable
      <4> HIDE DEF R
      <4> QED
        BY <4>1, MovedRanges
    <3>3. j = Len(whole) - from
      BY <1>1, <1>2, <2>1
    <3>4. Len(whole) \in Nat
      BY <1>1 DEF Texts
    <3> HIDE DEF R, i, j, whole
    <3>5. \A r \in R : i <= Moved(r, -from).start /\ Moved(r, -from).start < j
      BY <1>2, <2>1, <3>1, <3>2, <3>3, <3>4
    <3> QED
      BY <3>5 DEF MovedAll
  <2> QED
    BY <1>7, <2>6, <2>7 DEF at, whole
<1> QED
  BY <1>8, <1>9

(* A detector that fails on a batch fails on one of its units.             *)
LEMMA SomeUnitFails ==
  ASSUME Finds(Texts), FailuresAreLocal(Texts), NEW text, NEW s, Flushable(s, text),
         DetectorFails(Lead(s) \o Batch(s))
  PROVE  \E k \in 1..Len(s.unitEnds) : UnitDetection(s, k, DetectBatch(s)).status = "failed"
<1> DEFINE n == Len(s.unitEnds)
           l == s.leadLen
           R == s.retained
           batched == DetectBatch(s)
           Upto(j) == Slice(R, 0, s.unitEnds[j])
<1>1. /\ Slice(R, 0, s.unitStart) = Lead(s) \o Batch(s)
      /\ n \in Nat /\ n >= 1
      /\ \A k \in 1..n :
           /\ UnitFrom(s, k) \in Nat /\ s.unitEnds[k] \in Nat
           /\ l <= UnitFrom(s, k)
           /\ UnitFrom(s, k) <= s.unitEnds[k] /\ s.unitEnds[k] <= s.unitStart
  BY BatchParts
<1>2. /\ R \in Seq(Symbols) /\ s.unitEnds[n] = s.unitStart /\ s.unitStart <= Len(R)
      /\ l \in Nat /\ s.unitStart \in Nat /\ s.unitEnds \in Seq(Nat)
  BY DEF Flushable, Sound, InOrder
<1>3. batched.status # "ok"
  <2>1. DetectorFails(Slice(R, 0, s.unitStart))
    BY <1>1
  <2>2. \/ batched = [status |-> "failed", found |-> {}]
        \/ batched = [status |-> "inseparable", found |-> {}]
    BY <2>1 DEF DetectBatch, DetectUnits, ResolveUnits
  <2> QED
    BY <2>2
<1>4. ASSUME NEW k \in 1..n
      PROVE  UnitDetection(s, k, batched).status = DetectAlone(s, k).status
  <2>1. DOMAIN DetectAlone(s, k) = {"status", "found"}
    BY DEF DetectAlone, DetectAfter, UnlessInseparable, DetectUnits, ResolveUnits
  <2> HIDE DEF batched
  <2>2. \E x : UnitDetection(s, k, batched) = [DetectAlone(s, k) EXCEPT !.found = x]
    BY <1>3 DEF UnitDetection
  <2> QED
    BY <2>1, <2>2
<1>5. ASSUME NEW read, DetectorFails(read), Slice(read, 0, Len(read)) = read,
             NEW lead \in Nat
      PROVE  DetectAfter(read, lead).status = "failed"
  <2>1. DetectorFails(Slice(read, lead, Len(read))) \/ lead > 0
    BY <1>5
  <2>2. DetectUnits(read, lead, {lead}).status = "failed"
    BY <1>5 DEF DetectUnits, ResolveUnits
  <2>3. CASE lead > 0
    BY <2>2, <2>3 DEF DetectAfter, UnlessInseparable
  <2>4. CASE lead = 0
    <3>1. DetectAfter(read, lead) = DetectUnits(Slice(read, 0, Len(read)), 0, {})
      BY <2>4 DEF DetectAfter, UnlessInseparable
    <3>2. DetectAfter(read, lead) = DetectUnits(read, 0, {})
      BY <1>5, <3>1
    <3> QED
      BY <1>5, <3>2 DEF DetectUnits, ResolveUnits
  <2> QED
    BY <2>3, <2>4
<1>6. ASSUME NEW a \in Nat, NEW b \in Nat, NEW c \in Nat, a <= b, b <= c, c <= Len(R)
      PROVE  /\ Slice(R, a, c) \in Texts /\ Slice(R, a, b) \in Texts /\ Slice(R, b, c) \in Texts
             /\ Slice(R, 0, Len(R)) = R
             /\ Slice(Slice(R, a, c), 0, Len(Slice(R, a, c))) = Slice(R, a, c)
             /\ DetectorFails(Slice(R, a, c))
                  <=> DetectorFails(Slice(R, a, b)) \/ DetectorFails(Slice(R, b, c))
  <2> HIDE DEF R
  <2>1. /\ Slice(R, a, c) \in Seq(Symbols) /\ Slice(R, a, b) \in Seq(Symbols)
        /\ Slice(R, b, c) \in Seq(Symbols)
    <3>1. a <= c /\ b <= Len(R)
      BY <1>2, <1>6
    <3> QED
      BY <1>2, <1>6, <3>1, SliceProperties
  <2>2. Slice(R, a, b) \o Slice(R, b, c) = Slice(R, a, c)
    BY <1>2, <1>6, SlicesJoin
  <2>3. DetectorFails(Slice(R, a, b) \o Slice(R, b, c))
          <=> DetectorFails(Slice(R, a, b)) \/ DetectorFails(Slice(R, b, c))
    BY <2>1 DEF FailuresAreLocal, Texts
  <2>4. Slice(R, 0, Len(R)) = R
    BY <1>2, SliceWhole
  <2>5. Slice(Slice(R, a, c), 0, Len(Slice(R, a, c))) = Slice(R, a, c)
    BY <2>1, SliceWhole
  <2> QED
    BY <2>1, <2>2, <2>3, <2>4, <2>5 DEF Texts
<1>7. ASSUME NEW k \in 1..n, DetectorFails(UnitText(s, k)) \/ (k = 1 /\ DetectorFails(Lead(s)))
      PROVE  UnitDetection(s, k, batched).status = "failed"
  <2> DEFINE from == UnitFrom(s, k)
             leadFrom == IF k = 1 THEN 0 ELSE from - LeadAfter(Slice(R, UnitFrom(s, k - 1), from))
             read == Slice(R, leadFrom, s.unitEnds[k])
  <2>1. from \in Nat /\ s.unitEnds[k] \in Nat /\ from <= s.unitEnds[k] /\ s.unitEnds[k] <= Len(R)
    <3>1. Len(R) \in Nat
      BY <1>2
    <3> QED
      BY <1>1, <1>2, <3>1
  <2>2. leadFrom \in 0..from
    <3>1. CASE k = 1
      BY <2>1, <3>1
    <3>2. CASE k # 1
      <4>1. k - 1 \in 1..n
        BY <3>2
      <4> DEFINE below == UnitFrom(s, k - 1)
      <4>2. below \in Nat /\ below <= from
        BY <1>1, <3>2, <4>1 DEF UnitFrom
      <4> HIDE DEF below, from, R
      <4>3. from \in Nat /\ from <= Len(R)
        BY <1>2, <2>1 DEF from
      <4>4. Slice(R, below, from) \in Seq(Symbols) /\ Len(Slice(R, below, from)) = from - below
        BY <1>2, <4>2, <4>3, SliceProperties
      <4>5. LeadAfter(Slice(R, below, from)) \in 0..(from - below)
        BY <4>4, LeadAfterRange
      <4>6. from - LeadAfter(Slice(R, below, from)) \in 0..from
        BY <4>2, <4>3, <4>5
      <4> QED
        BY <3>2, <4>6 DEF below
    <3> QED
      BY <3>1, <3>2
  <2> HIDE DEF leadFrom
  <2>3. /\ read \in Texts /\ Slice(read, 0, Len(read)) = read
        /\ DetectorFails(read) <=> DetectorFails(Slice(R, leadFrom, from))
                                     \/ DetectorFails(Slice(R, from, s.unitEnds[k]))
    BY <1>6, <2>1, <2>2
  <2>4. DetectorFails(read)
    <3>1. CASE DetectorFails(UnitText(s, k))
      BY <2>3, <3>1 DEF UnitText
    <3>2. CASE k = 1 /\ DetectorFails(Lead(s))
      <4>1. Slice(R, leadFrom, from) = Lead(s)
        BY <3>2 DEF leadFrom, UnitFrom, Lead
      <4> QED
        BY <2>3, <3>2, <4>1
    <3> QED
      BY <1>7, <3>1, <3>2
  <2>5. from - leadFrom \in Nat
    BY <2>1, <2>2
  <2>6. DetectAlone(s, k) = DetectAfter(read, from - leadFrom)
    BY DEF DetectAlone, leadFrom
  <2>7. DetectAlone(s, k).status = "failed"
    <3> HIDE DEF read, from
    <3> QED
      BY <1>5, <2>3, <2>4, <2>5, <2>6
  <2> QED
    BY <1>4, <2>7
<1> SUFFICES ASSUME \A k \in 1..n : ~(UnitDetection(s, k, batched).status = "failed")
             PROVE  FALSE
  OBVIOUS
<1>8. \A k \in 1..n : ~DetectorFails(UnitText(s, k)) /\ ~(k = 1 /\ DetectorFails(Lead(s)))
  BY <1>7
<1> DEFINE Q == {j \in Nat : j + 1 <= n => ~DetectorFails(Upto(j + 1))}
<1>9. ASSUME NEW k \in 1..n
      PROVE  DetectorFails(Upto(k))
               <=> DetectorFails(Slice(R, 0, UnitFrom(s, k))) \/ DetectorFails(UnitText(s, k))
  <2>1. /\ UnitFrom(s, k) \in Nat /\ s.unitEnds[k] \in Nat /\ 0 <= UnitFrom(s, k)
        /\ UnitFrom(s, k) <= s.unitEnds[k] /\ s.unitEnds[k] <= Len(R) /\ 0 \in Nat
    <3>1. Len(R) \in Nat
      BY <1>2
    <3> QED
      BY <1>1, <1>2, <3>1
  <2> QED
    BY <1>6, <2>1 DEF UnitText
<1>10. 0 \in Q
  <2>1. 1 \in 1..n /\ 0 + 1 = 1 /\ UnitFrom(s, 1) = l
    BY <1>1 DEF UnitFrom
  <2>2. ~DetectorFails(Upto(1))
    BY <1>8, <1>9, <2>1 DEF Lead
  <2> QED
    BY <2>1, <2>2
<1>11. ASSUME NEW j \in Q
       PROVE  j + 1 \in Q
  <2>1. CASE j + 1 + 1 <= n
    <3>1. j + 1 + 1 \in 1..n /\ (j + 1 + 1) - 1 = j + 1 /\ j + 1 <= n /\ j + 1 + 1 # 1
      BY <2>1
    <3>2. ~DetectorFails(Upto(j + 1))
      BY <3>1
    <3>3. UnitFrom(s, j + 1 + 1) = s.unitEnds[j + 1]
      BY <3>1 DEF UnitFrom
    <3>4. ~DetectorFails(Upto(j + 1 + 1))
      BY <1>8, <1>9, <3>1, <3>2, <3>3
    <3> QED
      BY <3>4
  <2> QED
    BY <2>1
<1>12. Q = Nat
  <2>1. Q \subseteq Nat
    OBVIOUS
  <2> HIDE DEF Q
  <2> QED
    BY <1>10, <1>11, <2>1, StepsReachAll
<1>13. ~DetectorFails(Upto(n))
  <2>1. n - 1 \in Nat /\ (n - 1) + 1 = n /\ n <= n
    BY <1>1
  <2>2. n - 1 \in Q
    <3> HIDE DEF Q
    <3> QED
      BY <1>12, <2>1
  <2> QED
    BY <2>1, <2>2
<1> QED
  BY <1>1, <1>2, <1>13

------------------------------------------------------------------------------
(* What flushing a batch releases.                                         *)

(* The session has released, in all, what one call on the text above it    *)
(* returns, and has counted it.                                            *)
Released(s, text, out, fnd) ==
  LET above == WholeInput(host, Above(s, text)) IN
  /\ above.error = "none"
  /\ out \in Seq(Letters) /\ s.text \in Seq(Letters)
  /\ out \o s.text = above.text
  /\ fnd \cup s.found = above.findings
  /\ s.findingCount = Cardinality(above.findings)
  /\ s.placeholderCount = Cardinality(Replaced(above.findings))

(* The findings of a unit are a part of the findings of the whole text,    *)
(* with the numbers they have there.                                       *)
LEMMA BatchMarks ==
  ASSUME Finds(Texts), NEW text, NEW s, Flushable(s, text), host \in Hosts,
         NEW out, NEW fnd, Released(s, text, out, fnd),
         ~DetectorFails(Lead(s) \o Batch(s))
  PROVE  LET detected == Detections(s, DetectBatch(s))
             whole == UpToUnit(s, text)
             marks == Marks(host, whole)
             at == EdgesOf(s)
         IN /\ BatchFindings(s, detected) = From(marks, at[0])
            /\ \A k \in 1..Len(s.unitEnds) :
                 /\ detected[k].status = "ok"
                 /\ detected[k].found = Part(Found(whole), at[k - 1], at[k])
                 /\ UnitFindings(s, k, detected) = Part(marks, at[k - 1], at[k])
                 /\ PlaceholdersBefore(s, k, detected) = BeforePart(marks, at[k - 1])
<1> DEFINE whole == UpToUnit(s, text)
           above == Above(s, text)
           n == Len(s.unitEnds)
           at == EdgesOf(s)
           F == Found(whole)
           M == Marks(host, whole)
           detected == Detections(s, DetectBatch(s))
<1>1. /\ whole \in Texts /\ Slice(whole, 0, at[0]) = above /\ at[0] = s.finalizedBytes
      /\ n \in Nat /\ n >= 1 /\ at \in [0..n -> Nat]
      /\ \A k \in 1..n : UnitOffset(s, k) = at[k - 1]
  <2>1. /\ whole \in Texts /\ Slice(whole, 0, at[0]) = above /\ at[0] = s.finalizedBytes
        /\ n \in Nat /\ n >= 1 /\ at \in [0..n -> Nat]
    BY BatchParts
  <2>2. \A k \in 1..n : UnitOffset(s, k) = at[k - 1]
    BY BatchParts
  <2> QED
    BY <2>1, <2>2
<1>2. Edged(whole, n, at) /\ PolicyIsTotal(host)
  BY HostsAssumption DEF Flushable, PolicyIsTotal
<1>3. CutIn(whole, at[0]) /\ \A k \in 0..n : at[k] \in Nat
  BY <1>1, <1>2 DEF Edged
<1>4. \A k \in 1..n : detected[k].status = "ok" /\ detected[k].found = Part(F, at[k - 1], at[k])
  BY UnitsFind DEF Detections
<1>5. DOMAIN detected = 1..n
  BY DEF Detections
<1> HIDE DEF detected, whole, at, above
<1>6. F \in SUBSET RangeSet /\ IsFiniteSet(F) /\ Distinct(F)
      /\ \A r \in F : r.start \in Nat /\ r.start < Len(whole)
  <2>1. F \in SUBSET RangeSet /\ IsFiniteSet(F) /\ Distinct(F) /\ Len(whole) \in Nat
        /\ \A r \in F : r.start \in Nat /\ r.end \in Nat /\ r.start < r.end /\ r.end <= Len(whole)
    BY <1>1, FoundAre DEF Finds, Texts
  <2> QED
    BY <2>1
<1>7. /\ Found(above) = Below(F, at[0])
      /\ Marks(host, above) = Below(M, at[0])
  <2>1. /\ Found(Slice(whole, 0, at[0])) = Below(F, at[0])
        /\ Marks(host, Slice(whole, 0, at[0])) = Below(M, at[0])
    BY <1>1, <1>2, <1>3, CutParts
  <2> QED
    BY <1>1, <2>1
<1>8. /\ WholeInput(host, above).findings = Below(M, at[0])
      /\ s.findingCount = Cardinality(Below(M, at[0]))
      /\ s.placeholderCount = Cardinality(Replaced(Below(M, at[0])))
  <2>1. above \in Texts
    BY BatchParts DEF above
  <2>2. WholeInput(host, above).error = "none"
    BY DEF Released, above
  <2>3. WholeInput(host, above).findings = Marks(host, above)
    BY <1>2, <2>1, <2>2, WholeIs
  <2> QED
    BY <1>7, <2>3 DEF Released, above
<1>9. /\ Below(M, at[0]) = Finalized(host, Below(F, at[0]), 0)
      /\ From(M, at[0]) = Finalized(host, From(F, at[0]), Cardinality(Below(F, at[0])))
      /\ M = Below(M, at[0]) \cup From(M, at[0])
  BY <1>2, <1>3, <1>6, <1>1, FinalizedInParts DEF Marks
<1>10. s.findingCount = Cardinality(Below(F, at[0]))
  <2>1. Below(F, at[0]) \in SUBSET F
    BY DEF Below
  <2>2. Below(F, at[0]) \in SUBSET RangeSet /\ IsFiniteSet(Below(F, at[0]))
        /\ Distinct(Below(F, at[0])) /\ 0 \in Nat
    BY <1>6, <2>1, SubsetCount DEF Distinct
  <2> HIDE DEF F, M
  <2>3. Cardinality(Finalized(host, Below(F, at[0]), 0)) = Cardinality(Below(F, at[0]))
    BY <1>2, <2>2, FinalizedCount
  <2> QED
    BY <1>8, <1>9, <2>3
<1>11. UNION {detected[k].found : k \in DOMAIN detected} = From(F, at[0])
  <2>1. ASSUME NEW r \in From(F, at[0])
        PROVE  \E k \in 1..n : r \in detected[k].found
    <3>1. r \in F /\ at[0] <= r.start /\ r.start \in Nat /\ r.start < Len(whole)
      BY <1>3, <1>6 DEF From
    <3>2. PICK k \in 1..n : at[k - 1] <= r.start /\ r.start < at[k]
      BY <1>1, <1>2, <3>1, EdgesCover
    <3> QED
      BY <1>4, <3>1, <3>2 DEF Part
  <2>2. ASSUME NEW k \in 1..n, NEW r \in detected[k].found
        PROVE  r \in From(F, at[0])
    <3>1. r \in F /\ at[k - 1] <= r.start /\ r.start \in Nat
      BY <1>4, <1>6, <2>2 DEF Part
    <3>2. k - 1 \in 0..n
      BY <1>1
    <3>3. at[0] <= at[k - 1] /\ at[k - 1] \in Nat /\ at[0] \in Nat
      BY <1>1, <1>2, <1>3, <3>2, EdgesInOrder
    <3> QED
      BY <3>1, <3>3 DEF From
  <2> QED
    BY <1>5, <2>1, <2>2
<1>12. BatchFindings(s, detected) = From(M, at[0])
  BY <1>9, <1>10, <1>11 DEF BatchFindings
<1>13. /\ M \in SUBSET FindingSet /\ IsFiniteSet(M)
       /\ \A f \in M : f.start \in Nat /\ \E r \in F : f.start = r.start
  BY <1>1, <1>2, MarksAre
<1>14. ASSUME NEW k \in 1..n
       PROVE  /\ UnitFindings(s, k, detected) = Part(M, at[k - 1], at[k])
              /\ PlaceholdersBefore(s, k, detected) = BeforePart(M, at[k - 1])
  <2>1. k \in 0..n /\ k - 1 \in 0..n
    BY <1>1
  <2> DEFINE a == at[k - 1]
             b == at[k]
             z == at[0]
  <2>2. a \in Nat /\ b \in Nat /\ z \in Nat /\ z <= a
    BY <1>1, <1>2, <1>3, <2>1, EdgesInOrder
  <2>3. UnitOffset(s, k) = a /\ detected[k].found = Part(F, a, b) /\ BatchFindings(s, detected) = From(M, z)
    BY <1>1, <1>4, <1>12
  <2> HIDE DEF a, b, z, F, M
  <2>4. UnitFindings(s, k, detected) = {f \in From(M, z) : \E r \in Part(F, a, b) : r.start = f.start}
    BY <2>3 DEF UnitFindings
  <2>5. UnitFindings(s, k, detected) = Part(M, a, b)
    <3>1. ASSUME NEW f \in Part(M, a, b)
          PROVE  f \in From(M, z) /\ \E r \in Part(F, a, b) : r.start = f.start
      <4>1. f \in M /\ f.start \in Nat /\ a <= f.start /\ f.start < b
        BY <1>13 DEF Part
      <4>2. PICK r \in F : f.start = r.start
        BY <1>13, <4>1
      <4> QED
        BY <2>2, <4>1, <4>2 DEF Part, From
    <3>2. ASSUME NEW f \in From(M, z), NEW r \in Part(F, a, b), r.start = f.start
          PROVE  f \in Part(M, a, b)
      BY <3>2 DEF From, Part
    <3> QED
      BY <2>4, <3>1, <3>2
  <2>6. PlaceholdersBefore(s, k, detected) = BeforePart(M, a)
    <3> DEFINE S == Below(Replaced(M), a)
               A == Replaced(Below(M, z))
               B == {f \in Replaced(From(M, z)) : f.start < a}
    <3>1. S = A \cup B /\ A \cap B = {} /\ S \in SUBSET M
      BY <1>13, <2>2 DEF Below, From, Replaced
    <3>2. IsFiniteSet(S)
      BY <1>13, <3>1, SubsetCount
    <3> HIDE DEF A, B, S
    <3>3. Cardinality(S) = Cardinality(A) + Cardinality(B)
      BY <3>1, <3>2, TwoPartsCount
    <3>4. s.placeholderCount = Cardinality(A)
      BY <1>8 DEF A, z
    <3>5. PlaceholdersBefore(s, k, detected) = s.placeholderCount + Cardinality(B)
      BY <2>3 DEF PlaceholdersBefore, B
    <3> QED
      BY <3>3, <3>4, <3>5 DEF BeforePart, S
  <2> QED
    BY <2>5, <2>6 DEF a, b
<1> QED
  BY <1>4, <1>12, <1>14 DEF detected, whole, at

(* What finalizing a unit returns is what a part of the whole text does.   *)
LEMMA UnitIs ==
  ASSUME Finds(Texts), NEW text, NEW s, Flushable(s, text), host \in Hosts,
         NEW out, NEW fnd, Released(s, text, out, fnd),
         ~DetectorFails(Lead(s) \o Batch(s)), NEW k \in 1..Len(s.unitEnds)
  PROVE  LET detected == Detections(s, DetectBatch(s))
             whole == UpToUnit(s, text)
             at == EdgesOf(s)
         IN /\ UnitError(s, k, detected) = "none" <=> ~PartFails(host, whole, at[k - 1], at[k])
            /\ UnitRedacted(s, k, detected)
                 = PartText(host, whole, Marks(host, whole), at[k - 1], at[k])
<1> DEFINE whole == UpToUnit(s, text)
           at == EdgesOf(s)
           a == at[k - 1]
           b == at[k]
           M == Marks(host, whole)
           detected == Detections(s, DetectBatch(s))
<1>1. /\ detected[k].status = "ok"
      /\ detected[k].found = Part(Found(whole), a, b)
      /\ UnitFindings(s, k, detected) = Part(M, a, b)
      /\ PlaceholdersBefore(s, k, detected) = BeforePart(M, a)
  BY BatchMarks
<1>2. UnitText(s, k) = Slice(whole, a, b) /\ UnitOffset(s, k) = a
  <2>1. \A j \in 1..Len(s.unitEnds) :
          UnitText(s, j) = Slice(whole, at[j - 1], at[j]) /\ UnitOffset(s, j) = at[j - 1]
    BY BatchParts
  <2> QED
    BY <2>1
<1> HIDE DEF detected, whole, a, b, M
<1>3. RedactError(host, UnitText(s, k),
                  MovedAll(UnitFindings(s, k, detected), -UnitOffset(s, k)),
                  PlaceholdersBefore(s, k, detected))
        = PartError(host, whole, M, a, b)
  BY <1>1, <1>2, Zenon DEF PartError
<1>4. UnitError(s, k, detected) = "none" <=> ~PartFails(host, whole, a, b)
  BY <1>1, <1>3 DEF UnitError, PartFails, M
<1>5. UnitRedacted(s, k, detected) = PartText(host, whole, M, a, b)
  BY <1>1, <1>2, Zenon DEF UnitRedacted, PartText
<1> QED
  BY <1>4, <1>5 DEF detected, whole, a, b, M

(* No placeholder reproduces what was found.                               *)
LEMMA NothingDetectedOccurs ==
  ASSUME Finds(Texts), PlaceholdersAreNew(Texts, Nat), NEW text \in Texts,
         NEW h \in Hosts, PolicyIsTotal(h)
  PROVE  NothingOccurs(h, text, Marks(h, text))
<1> SUFFICES ASSUME NEW n \in Nat, NEW g \in Marks(h, text)
             PROVE  ~Occurs(Slice(text, g.start, g.end), Formatted(h, n))
  BY DEF NothingOccurs
<1>1. PICK r \in Found(text) : g.start = r.start /\ g.end = r.end
  BY MarksAre
<1>2. r \in Candidates(text)
  BY FoundAre DEF Finds
<1>3. ~Occurs(Slice(text, r.start, r.end), Formatted(h, n))
  BY <1>2 DEF PlaceholdersAreNew
<1> QED
  BY <1>1, <1>3

(* The first unit that fails is the one reported.                          *)
LEMMA BatchFailsWithAUnit ==
  ASSUME NEW s, NEW detected, Len(s.unitEnds) \in Nat
  PROVE  BatchError(s, detected) = "none"
           <=> \A k \in 1..Len(s.unitEnds) : UnitError(s, k, detected) = "none"
<1> DEFINE failing == {k \in 1..Len(s.unitEnds) : UnitError(s, k, detected) # "none"}
<1>1. CASE failing = {}
  BY <1>1 DEF BatchError
<1>2. CASE failing # {}
  <2>1. failing \in SUBSET Nat
    OBVIOUS
  <2> DEFINE first == Min(failing)
  <2>2. first \in failing
    <3> HIDE DEF failing
    <3> QED
      BY <1>2, <2>1, MinOfNaturals
  <2>3. BatchError(s, detected) = UnitError(s, first, detected)
    BY <1>2 DEF BatchError
  <2> HIDE DEF first
  <2> QED
    BY <2>2, <2>3
<1> QED
  BY <1>1, <1>2

(* A detector fails on a text when it fails on one of its two sides.       *)
LEMMA FailsOnASide ==
  ASSUME Finds(Texts), FailuresAreLocal(Texts), NEW text, NEW s, Flushable(s, text)
  PROVE  /\ DetectorFails(UpToUnit(s, text))
              <=> DetectorFails(Above(s, text)) \/ DetectorFails(Lead(s) \o Batch(s))
<1> DEFINE above == Above(s, text)
           whole == UpToUnit(s, text)
           start == LastLineStart(above)
<1>1. above \in Texts /\ Batch(s) \in Texts /\ Lead(s) \in Texts /\ above \o Batch(s) = whole
  BY BatchParts
<1>2. Lead(s) = Kept(above)
  BY DEF Flushable
<1> HIDE DEF above, whole
<1>3. DetectorFails(above \o Batch(s)) <=> DetectorFails(above) \/ DetectorFails(Batch(s))
  BY <1>1 DEF FailuresAreLocal
<1>4. DetectorFails(Lead(s) \o Batch(s)) <=> DetectorFails(Lead(s)) \/ DetectorFails(Batch(s))
  BY <1>1 DEF FailuresAreLocal
<1>5. DetectorFails(Lead(s)) => DetectorFails(above)
  <2>1. CASE Lead(s) = <<>>
    BY <2>1 DEF FailuresAreLocal
  <2>2. CASE Lead(s) = LastLine(above)
    <3>1. start \in Nat /\ start <= Len(above) /\ Len(above) \in Nat
      BY <1>1, LastLineStartRange DEF Texts
    <3> HIDE DEF start
    <3>2. Slice(above, 0, start) \in Texts /\ Slice(above, start, Len(above)) \in Texts
      BY <1>1, <3>1, SliceProperties DEF Texts
    <3>3. Slice(above, 0, start) \o Slice(above, start, Len(above)) = above
      <4>1. Slice(above, 0, start) \o Slice(above, start, Len(above)) = Slice(above, 0, Len(above))
        BY <1>1, <3>1, SlicesJoin DEF Texts
      <4> QED
        BY <1>1, <4>1, SliceWhole DEF Texts
    <3>4. DetectorFails(Slice(above, 0, start) \o Slice(above, start, Len(above)))
            <=> DetectorFails(Slice(above, 0, start))
                  \/ DetectorFails(Slice(above, start, Len(above)))
      BY <3>2 DEF FailuresAreLocal
    <3>5. DetectorFails(Slice(above, start, Len(above))) => DetectorFails(above)
      BY <3>3, <3>4
    <3> QED
      BY <2>2, <3>5 DEF LastLine, start
  <2> QED
    BY <1>2, <2>1, <2>2 DEF Kept
<1>6. DetectorFails(whole) <=> DetectorFails(above) \/ DetectorFails(Batch(s))
  BY <1>1, <1>3
<1> QED
  BY <1>4, <1>5, <1>6 DEF above, whole

(* A flush that succeeds releases what one call on all the text up to the  *)
(* open unit returns; one that fails does so on a text that call fails on. *)
LEMMA BatchReleases ==
  ASSUME Finds(Texts), FailuresAreLocal(Texts), PlaceholdersAreNew(Texts, Nat),
         PlaceholdersAreTexts(Nat),
         NEW text, NEW s, Flushable(s, text), host \in Hosts,
         NEW out, NEW fnd, Released(s, text, out, fnd)
  PROVE  LET detected == Detections(s, DetectBatch(s))
             above == WholeInput(host, Above(s, text))
             whole == WholeInput(host, UpToUnit(s, text))
         IN IF BatchError(s, detected) = "none"
              THEN /\ whole.error = "none"
                   /\ BatchText(s, detected) \in Seq(Letters)
                   /\ whole.text = above.text \o BatchText(s, detected)
                   /\ whole.findings = above.findings \cup BatchFindings(s, detected)
                   /\ above.findings = Below(whole.findings, s.finalizedBytes)
                   /\ BatchFindings(s, detected) = From(whole.findings, s.finalizedBytes)
                   /\ whole.findings = Marks(host, UpToUnit(s, text))
              ELSE whole.error # "none"
<1> DEFINE detected == Detections(s, DetectBatch(s))
           W == UpToUnit(s, text)
           n == Len(s.unitEnds)
           at == EdgesOf(s)
           M == Marks(host, W)
           above == WholeInput(host, Above(s, text))
           whole == WholeInput(host, W)
<1>1. /\ W \in Texts /\ Slice(W, 0, at[0]) = Above(s, text) /\ at[0] = s.finalizedBytes
      /\ n \in Nat /\ n >= 1 /\ at \in [0..n -> Nat] /\ Above(s, text) \in Texts
  BY BatchParts
<1>2. Edged(W, n, at) /\ PolicyIsTotal(host)
  BY HostsAssumption DEF Flushable, PolicyIsTotal
<1>3. above.error = "none"
  BY DEF Released
<1>4. ~DetectorFails(Above(s, text))
  BY <1>1, <1>2, <1>3, WholeIs
<1>5. DetectorFails(W) <=> DetectorFails(Lead(s) \o Batch(s))
  BY <1>4, FailsOnASide
<1>6. BatchError(s, detected) = "none" <=> \A k \in 1..n : UnitError(s, k, detected) = "none"
  BY <1>1, BatchFailsWithAUnit
<1>7. CASE DetectorFails(Lead(s) \o Batch(s))
  <2>1. PICK k \in 1..n : UnitDetection(s, k, DetectBatch(s)).status = "failed"
    BY <1>7, SomeUnitFails
  <2>2. UnitError(s, k, detected) = "DetectorFailure"
    BY <2>1 DEF UnitError, Detections
  <2>3. BatchError(s, detected) # "none"
    <3> HIDE DEF detected
    <3> QED
      BY <1>6, <2>2
  <2>4. whole.error # "none"
    BY <1>1, <1>2, <1>5, <1>7, WholeIs
  <2> QED
    BY <2>3, <2>4
<1>8. CASE ~DetectorFails(Lead(s) \o Batch(s))
  <2>1. BatchFindings(s, detected) = From(M, at[0])
    BY <1>8, BatchMarks
  <2>2. \A k \in 1..n :
          /\ UnitError(s, k, detected) = "none" <=> ~PartFails(host, W, at[k - 1], at[k])
          /\ UnitRedacted(s, k, detected) = PartText(host, W, M, at[k - 1], at[k])
    BY <1>8, UnitIs
  <2>3. CASE BatchError(s, detected) = "none"
    <3> DEFINE parts == [k \in 1..n |-> PartText(host, W, M, at[k - 1], at[k])]
    <3>1. BatchText(s, detected) = FlattenSeq(parts)
      <4>1. [k \in 1..n |-> UnitRedacted(s, k, detected)] = parts
        <5> HIDE DEF detected, W, M, at
        <5> QED
          BY <2>2
      <4> QED
        BY <4>1 DEF BatchText
    <3>2. NothingOccurs(host, W, M)
      BY <1>1, <1>2, NothingDetectedOccurs
    <3>3. \A k \in 1..n : ~PartFails(host, W, at[k - 1], at[k])
      <4> HIDE DEF detected, W, at
      <4> QED
        BY <1>6, <2>2, <2>3
    <3>4. WholeInput(host, Slice(W, 0, at[0])).error = "none"
      BY <1>1, <1>3
    <3>5. ~DetectorFails(W)
      BY <1>5, <1>8
    <3> HIDE DEF W, at
    <3>6. /\ whole.error = "none"
          /\ whole.text = WholeInput(host, Slice(W, 0, at[0])).text \o FlattenSeq(parts)
          /\ whole.findings = WholeInput(host, Slice(W, 0, at[0])).findings \cup From(M, at[0])
          /\ WholeInput(host, Slice(W, 0, at[0])).findings = Below(M, at[0])
      <4>1. W \in Texts
        BY <1>1
      <4> QED
        BY <4>1, <1>2, <3>2, <3>3, <3>4, <3>5, PartsMakeTheWhole, Zenon
    <3>7. whole.findings = M
      BY <1>1, <1>2, <3>6, WholeIs
    <3>8. FlattenSeq(parts) \in Seq(Letters)
      <4>1. ASSUME NEW k \in 1..n
            PROVE  PartText(host, W, M, at[k - 1], at[k]) \in Seq(Letters)
        <5>1. k \in 0..n /\ k - 1 \in 0..n
          BY <1>1
        <5> DEFINE a == at[k - 1]
                   b == at[k]
        <5>2. CutIn(W, a) /\ a \in Nat /\ b \in Nat /\ a <= b /\ b <= Len(W)
          <6>1. a <= b /\ CutIn(W, a) /\ a \in Nat
            BY <1>2, <5>1 DEF Edged
          <6>2. b <= Len(W) /\ b \in Nat
            BY <1>1, <1>2, <5>1, EdgesInOrder
          <6> QED
            BY <6>1, <6>2
        <5> HIDE DEF a, b
        <5>3. PartText(host, W, M, a, b) \in Seq(Letters)
          BY <1>1, <1>2, <5>2, PartTextIs
        <5> QED
          BY <5>3 DEF a, b
      <4>2. parts \in [1..n -> Seq(Letters)]
        BY <4>1
      <4>3. parts \in Seq(Seq(Letters))
        <5> HIDE DEF parts
        <5> QED
          BY <1>1, <4>2
      <4> QED
        BY <4>3, FlattenIsText
    <3>9. BatchText(s, detected) \in Seq(Letters)
      BY <3>1, <3>8
    <3>10. whole.text = above.text \o BatchText(s, detected)
      BY <1>1, <3>1, <3>6
    <3>11. whole.findings = above.findings \cup BatchFindings(s, detected)
      BY <1>1, <2>1, <3>6
    <3>12. /\ above.findings = Below(whole.findings, s.finalizedBytes)
           /\ BatchFindings(s, detected) = From(whole.findings, s.finalizedBytes)
      BY <1>1, <2>1, <3>6, <3>7
    <3> QED
      BY <2>3, <3>6, <3>7, <3>9, <3>10, <3>11, <3>12 DEF W
  <2>4. CASE BatchError(s, detected) # "none"
    <3>1. PICK k \in 1..n : UnitError(s, k, detected) # "none"
      BY <1>6, <2>4
    <3>2. PartFails(host, W, at[k - 1], at[k])
      <4> HIDE DEF detected, W, at
      <4> QED
        BY <2>2, <3>1
    <3> DEFINE a == at[k - 1]
               b == at[k]
    <3>3. k \in 0..n /\ k - 1 \in 0..n
      BY <1>1
    <3> HIDE DEF W, at
    <3>4. a \in Nat /\ a <= b /\ CutIn(W, b) /\ 0 \in Nat /\ 0 <= a
      <4>1. a <= b /\ CutIn(W, b) /\ a \in Nat
        BY <1>2, <3>3 DEF Edged
      <4> QED
        BY <4>1
    <3>5. CutIn(W, Len(W)) /\ b <= Len(W)
      BY <1>1, <1>2, <3>3, Edges, EdgesInOrder
    <3> HIDE DEF a, b
    <3>6. PartFails(host, W, 0, Len(W))
      <4>1. PartFails(host, W, a, b)
        BY <3>2 DEF a, b
      <4> QED
        BY <1>1, <1>2, <3>4, <3>5, <4>1, PartFailsAround
    <3>7. whole.error # "none"
      BY <1>1, <1>2, <3>6, WholeIs
    <3> QED
      BY <2>4, <3>7 DEF W
  <2> QED
    BY <2>3, <2>4
<1> QED
  BY <1>7, <1>8

------------------------------------------------------------------------------
(* What a flush leaves.                                                    *)

(* The line that is kept is the one the source cuts from the buffer.       *)
LEMMA KeptBelow ==
  ASSUME IdsAreOfTheLine(Texts), NEW s, InOrder(s), Tidy(s), s.unitEnds # <<>>,
         NEW above \in Texts, above = <<>> \/ EndsLine(above), Lead(s) = Kept(above)
  PROVE  /\ Slice(s.retained, KeepFrom(s), s.unitStart) = Kept(above \o Batch(s))
         /\ EndsLine(above \o Batch(s))
         /\ KeepFrom(s) \in 0..s.unitStart
<1> DEFINE batch == Batch(s)
           from == KeepFrom(s)
           next == Slice(s.retained, from, s.unitStart)
           whole == above \o batch
<1>1. /\ s.retained \in Seq(Symbols) /\ s.leadLen \in Nat /\ s.unitStart \in Nat
      /\ s.leadLen <= s.unitStart /\ s.unitStart <= Len(s.retained) /\ Len(s.retained) \in Nat
  BY DEF InOrder
<1>2. batch \in Seq(Symbols) /\ Len(batch) = s.unitStart - s.leadLen /\ EndsLine(batch)
  BY Parts DEF Tidy
<1>3. from \in 0..s.unitStart
  BY KeepFromRange
<1>4. batch # <<>> /\ Len(batch) > 0
  BY <1>2 DEF EndsLine
<1>5. /\ Lead(s) \in Seq(Symbols) /\ Len(Lead(s)) = s.leadLen
      /\ s.leadLen > 0 => Lead(s)[s.leadLen] = s.retained[s.leadLen]
  <2>1. /\ Lead(s) \in Seq(Symbols) /\ Len(Lead(s)) = s.leadLen
        /\ \A i \in 1..s.leadLen : Lead(s)[i] = s.retained[i]
    BY Parts
  <2> QED
    BY <1>1, <2>1
<1>6. above \in Seq(Symbols) /\ EndsLine(whole) /\ whole \in Seq(Symbols)
      /\ (batch # <<LF>> => LastLine(whole) = LastLine(batch))
  <2>1. above \in Seq(Symbols)
    BY DEF Texts
  <2> HIDE DEF batch
  <2> QED
    BY <1>2, <2>1, LastLineBehind
<1>7. ASSUME ~CompletesLead(s, batch), LastLine(whole) = LastLine(batch)
      PROVE  next = Kept(whole)
  <2> DEFINE k == LastLineStart(batch)
  <2>1. k \in 0..Len(batch) /\ k < Len(batch)
    BY <1>2, <1>4, LastLineStartRange, LastLineIsNotEmpty
  <2>2. Len(LastLine(batch)) = Len(batch) - k
    BY <1>2, LastLineIsALine
  <2>3. from = s.unitStart - LeadAfter(batch)
    BY <1>7 DEF KeepFrom
  <2> HIDE DEF k
  <2>4. CASE CarriesId(LastLine(batch))
    <3>1. LeadAfter(batch) = Len(batch) - k
      BY <2>2, <2>4 DEF LeadAfter
    <3>2. from = s.leadLen + k
      BY <1>1, <1>2, <2>1, <2>3, <3>1
    <3>3. next = LastLine(batch)
      <4>1. k \in Nat /\ Len(batch) \in Nat /\ k <= Len(batch)
            /\ Len(batch) <= s.unitStart - s.leadLen
            /\ s.leadLen + Len(batch) = s.unitStart
        BY <1>1, <1>2, <2>1
      <4>2. Slice(Slice(s.retained, s.leadLen, s.unitStart), k, Len(batch))
              = Slice(s.retained, s.leadLen + k, s.leadLen + Len(batch))
        BY <1>1, <4>1, SliceOfSlice
      <4> QED
        BY <3>2, <4>1, <4>2 DEF LastLine, Batch, k
    <3>4. Kept(whole) = LastLine(batch)
      <4> HIDE DEF batch, whole
      <4> QED
        BY <1>7, <2>4 DEF Kept
    <3> QED
      BY <3>3, <3>4
  <2>5. CASE ~CarriesId(LastLine(batch))
    <3>1. from = s.unitStart
      BY <1>1, <2>3, <2>5 DEF LeadAfter
    <3>2. next = <<>>
      <4>1. s.unitStart <= s.unitStart /\ s.unitStart - s.unitStart = 0
        BY <1>1
      <4>2. /\ Slice(s.retained, s.unitStart, s.unitStart) \in Seq(Symbols)
            /\ Len(Slice(s.retained, s.unitStart, s.unitStart)) = s.unitStart - s.unitStart
        BY <1>1, <4>1, SliceProperties, Zenon
      <4> QED
        BY <3>1, <4>1, <4>2
    <3>3. Kept(whole) = <<>>
      <4> HIDE DEF batch, whole
      <4> QED
        BY <1>7, <2>5 DEF Kept
    <3> QED
      BY <3>2, <3>3
  <2> QED
    BY <2>4, <2>5
<1>8. CASE batch # <<LF>>
  <2>1. ~CompletesLead(s, batch)
    BY <1>8 DEF CompletesLead
  <2> QED
    BY <1>3, <1>6, <1>7, <1>8, <2>1
<1>9. CASE batch = <<LF>> /\ (above = <<>> \/ above[Len(above)] # CR)
  <2>1. LastLineStart(<<LF>>) = 0 /\ <<LF>> \in Seq(Symbols) /\ <<LF>> # <<>>
    <3>1. <<LF>> \in Seq(Symbols) /\ <<LF>> # <<>> /\ Len(<<LF>>) = 1
      BY TerminatorAssumption
    <3>2. LastLineStart(<<LF>>) \in 0..1 /\ LastLineStart(<<LF>>) < 1
      BY <3>1, LastLineStartRange, LastLineIsNotEmpty
    <3> QED
      BY <3>1, <3>2
  <2>2. LastLineStart(whole) = Len(above) + 0
    <3> HIDE DEF batch, whole
    <3>1. LastLineStart(above \o <<LF>>) = Len(above) + LastLineStart(<<LF>>)
      BY <1>6, <1>9, <2>1, LastLineStartBehind
    <3> QED
      BY <1>9, <2>1, <3>1 DEF whole
  <2>3. LastLine(whole) = <<LF>>
    <3>1. Slice(above \o <<LF>>, Len(above), Len(above) + Len(<<LF>>))
            = Slice(above, Len(above), Len(above)) \o <<LF>>
      <4>1. Len(above) \in Nat /\ Len(above) <= Len(above)
            /\ Len(above) <= Len(above) + Len(<<LF>>) /\ Len(above) + Len(<<LF>>) \in Nat
        BY <1>6
      <4>2. Len(above) <= Len(above) => 
              Slice(above \o <<LF>>, Len(above), Len(above) + Len(<<LF>>))
                = Slice(above, Len(above), Len(above)) \o <<LF>>
        BY <1>6, <2>1, <4>1, SlicesOfBoth, Zenon
      <4> QED
        BY <4>1, <4>2
    <3>2. Slice(above, Len(above), Len(above)) = <<>>
      <4> DEFINE n == Len(above)
      <4>1. n \in Nat /\ n <= n /\ n - n = 0
        BY <1>6
      <4>2. Slice(above, n, n) \in Seq(Symbols) /\ Len(Slice(above, n, n)) = n - n
        <5> HIDE DEF n
        <5>1. n <= Len(above)
          BY <4>1 DEF n
        <5> QED
          BY <1>6, <4>1, <5>1, SliceProperties, Zenon
      <4> QED
        BY <4>1, <4>2
    <3>3. <<>> \o <<LF>> = <<LF>>
      BY <2>1
    <3>4. Len(above \o <<LF>>) = Len(above) + Len(<<LF>>) /\ Len(above) + 0 = Len(above)
      BY <1>6, <2>1
    <3>5. whole = above \o <<LF>> /\ LastLineStart(whole) = Len(above)
      BY <1>9, <2>2, <3>4
    <3> HIDE DEF whole, batch
    <3>6. LastLine(whole) = Slice(above \o <<LF>>, Len(above), Len(above) + Len(<<LF>>))
      BY <3>4, <3>5 DEF LastLine
    <3> QED
      BY <3>1, <3>2, <3>3, <3>6
  <2>4. LastLine(batch) = <<LF>>
    <3>1. Slice(<<LF>>, 0, Len(<<LF>>)) = <<LF>>
      BY <2>1, SliceWhole
    <3> QED
      BY <1>9, <2>1, <3>1 DEF LastLine
  <2>5. ~CompletesLead(s, batch)
    <3> SUFFICES ASSUME CompletesLead(s, batch) PROVE FALSE
      OBVIOUS
    <3>1. s.leadLen > 0 /\ s.retained[s.leadLen] = CR
      BY DEF CompletesLead
    <3>2. Lead(s) # <<>> /\ Lead(s)[s.leadLen] = CR
      BY <1>5, <3>1
    <3>3. Lead(s) = LastLine(above)
      BY <3>2 DEF Kept
    <3>4. above # <<>>
      <4> SUFFICES ASSUME above = <<>> PROVE FALSE
        OBVIOUS
      <4>1. Kept(above) = <<>>
        BY KeptIsText
      <4> QED
        BY <3>2, <4>1
    <3>5. LastLineStart(above) \in 0..Len(above) /\ LastLineStart(above) < Len(above)
      BY <1>6, <3>4, LastLineStartRange, LastLineIsNotEmpty
    <3> DEFINE k == LastLineStart(above)
               n == Len(above)
    <3>6. k \in Nat /\ n \in Nat /\ k <= n /\ n <= Len(above) /\ k < n
      BY <1>6, <3>5
    <3> HIDE DEF k, n
    <3>7. /\ Len(Slice(above, k, n)) = n - k
          /\ \A i \in 1..(n - k) : Slice(above, k, n)[i] = above[k + i]
      BY <1>6, <3>6, SliceProperties
    <3>8. Slice(above, k, n)[n - k] = above[n]
      <4>1. n - k \in 1..(n - k) /\ k + (n - k) = n
        BY <3>6
      <4> QED
        BY <3>7, <4>1
    <3>9. Lead(s) = Slice(above, k, n) /\ s.leadLen = n - k
      <4>1. Lead(s) = Slice(above, k, n)
        BY <3>3 DEF LastLine, k, n
      <4> QED
        BY <1>5, <3>7, <4>1
    <3> QED
      BY <1>9, <3>2, <3>4, <3>8, <3>9 DEF n
  <2>6. LastLine(whole) = LastLine(batch)
    BY <2>3, <2>4
  <2> QED
    BY <1>3, <1>6, <1>7, <2>5, <2>6
<1>10. CASE batch = <<LF>> /\ above # <<>> /\ above[Len(above)] = CR
  <2> DEFINE k == LastLineStart(above)
             n == Len(above)
             line == LastLine(above)
  <2>1. k \in Nat /\ n \in Nat /\ k <= n /\ n <= Len(above) /\ k < n
    BY <1>6, <1>10, LastLineStartRange, LastLineIsNotEmpty
  <2>2. line = Slice(above, k, n)
    BY DEF LastLine
  <2> HIDE DEF line
  <2>3. LastLineStart(above \o <<LF>>) = k
    BY <1>6, <1>10, LastLineStartOfPair DEF IsTerminated
  <2>4. <<LF>> \in Seq(Symbols) /\ Len(<<LF>>) = 1 /\ Len(above \o <<LF>>) = n + 1 /\ n + 1 \in Nat
    BY <1>6, TerminatorAssumption
  <2> HIDE DEF k, n
  <2>5. LastLine(whole) = line \o <<LF>>
    <3>1. Slice(above \o <<LF>>, k, Len(above) + Len(<<LF>>)) = Slice(above, k, Len(above)) \o <<LF>>
      <4>1. k <= Len(above) + Len(<<LF>>) /\ Len(above) + Len(<<LF>>) \in Nat /\ k <= Len(above)
        BY <2>1, <2>4 DEF n
      <4> QED
        BY <1>6, <2>1, <2>4, <4>1, SlicesOfBoth, Zenon
    <3>2. Len(above) + Len(<<LF>>) = Len(above \o <<LF>>)
      BY <2>4 DEF n
    <3>3. whole = above \o <<LF>>
      BY <1>10
    <3> HIDE DEF whole, batch
    <3>4. LastLine(whole) = Slice(above \o <<LF>>, k, Len(above \o <<LF>>))
      BY <2>3, <3>3 DEF LastLine
    <3> QED
      BY <2>2, <3>1, <3>2, <3>4 DEF n
  <2>6. /\ line \in Seq(Symbols) /\ Len(line) = n - k /\ n - k > 0
        /\ line[n - k] = CR /\ line # <<>>
    <3>1. /\ Slice(above, k, n) \in Seq(Symbols) /\ Len(Slice(above, k, n)) = n - k
          /\ \A i \in 1..(n - k) : Slice(above, k, n)[i] = above[k + i]
      BY <1>6, <2>1, SliceProperties
    <3>2. n - k \in 1..(n - k) /\ k + (n - k) = n
      BY <2>1
    <3>3. above[n] = CR
      BY <1>10 DEF n
    <3>4. Slice(above, k, n)[n - k] = CR /\ Slice(above, k, n) # <<>>
      BY <3>1, <3>2, <3>3
    <3> QED
      BY <2>1, <2>2, <3>1, <3>4
  <2>7. IsTerminated(line, CR)
    BY <2>6 DEF IsTerminated
  <2>8. CarriesId(line \o <<LF>>) = CarriesId(line) /\ ~CarriesId(<<LF>>)
    BY <2>6, <2>7 DEF IdsAreOfTheLine, Texts
  <2>9. CASE CarriesId(line)
    <3>1. Lead(s) = line
      BY <2>9 DEF Kept, line
    <3>2. CompletesLead(s, batch)
      <4>1. s.leadLen = n - k /\ s.leadLen > 0
        BY <1>5, <2>6, <3>1
      <4>2. s.retained[s.leadLen] = CR
        BY <1>5, <2>6, <3>1, <4>1
      <4> QED
        BY <1>10, <4>1, <4>2 DEF CompletesLead
    <3>3. from = 0
      BY <3>2 DEF KeepFrom
    <3>4. next = Lead(s) \o <<LF>>
      <4>1. Slice(s.retained, 0, s.leadLen) \o Slice(s.retained, s.leadLen, s.unitStart)
              = Slice(s.retained, 0, s.unitStart)
        <5>1. 0 \in Nat /\ 0 <= s.leadLen
          BY <1>1
        <5> QED
          BY <1>1, <5>1, SlicesJoin, Zenon
      <4> QED
        BY <1>10, <3>3, <4>1 DEF Lead, Batch
    <3>5. Kept(whole) = line \o <<LF>>
      <4> HIDE DEF whole
      <4> QED
        BY <2>5, <2>8, <2>9 DEF Kept
    <3> QED
      BY <1>3, <1>6, <3>1, <3>4, <3>5
  <2>10. CASE ~CarriesId(line)
    <3>1. Lead(s) = <<>> /\ s.leadLen = 0
      BY <1>5, <2>10 DEF Kept, line
    <3>2. ~CompletesLead(s, batch)
      BY <3>1 DEF CompletesLead
    <3>3. LastLine(batch) = <<LF>>
      <4>1. LastLineStart(<<LF>>) \in 0..1 /\ LastLineStart(<<LF>>) < 1
        <5>1. <<LF>> # <<>>
          BY <2>4
        <5> QED
          BY <2>4, <5>1, LastLineStartRange, LastLineIsNotEmpty
      <4>2. LastLineStart(<<LF>>) = 0
        BY <4>1
      <4>3. Slice(<<LF>>, 0, Len(<<LF>>)) = <<LF>>
        BY <2>4, SliceWhole
      <4> QED
        BY <1>10, <4>2, <4>3 DEF LastLine
    <3>4. from = s.unitStart
      <4>1. LeadAfter(batch) = 0
        <5> HIDE DEF batch
        <5> QED
          BY <2>8, <3>3 DEF LeadAfter
      <4> QED
        BY <1>1, <3>2, <4>1 DEF KeepFrom
    <3>5. next = <<>>
      <4>1. s.unitStart <= s.unitStart /\ s.unitStart - s.unitStart = 0
        BY <1>1
      <4>2. /\ Slice(s.retained, s.unitStart, s.unitStart) \in Seq(Symbols)
            /\ Len(Slice(s.retained, s.unitStart, s.unitStart)) = s.unitStart - s.unitStart
        BY <1>1, <4>1, SliceProperties, Zenon
      <4> QED
        BY <3>4, <4>1, <4>2
    <3>6. Kept(whole) = <<>>
      <4> HIDE DEF whole
      <4> QED
        BY <2>5, <2>8, <2>10 DEF Kept
    <3> QED
      BY <1>3, <1>6, <3>5, <3>6
  <2> QED
    BY <2>9, <2>10
<1> QED
  BY <1>8, <1>9, <1>10

(* Where the open unit begins in the whole text.                           *)
Place(s) == Base(s) + s.unitStart

(* What is assumed of the detectors, the formatters and the hints.         *)
Contract == SessionContract(Texts, Nat)

(* The closed units are settled: each where it begins, on its own text.    *)
ClosedOn(s, text) ==
  \A k \in 1..Len(s.unitEnds) :
    SettledOn(Texts, Slice(text, 0, EdgesOf(s)[k - 1]),
                     Slice(text, EdgesOf(s)[k - 1], EdgesOf(s)[k]))

(* What a session that has not failed satisfies at every step.             *)
Core(s, text, out, fnd) ==
  /\ text \in Texts /\ Sound(s, text) /\ Tidy(s)
  /\ s.unitEnds # <<>> => s.unitEnds[Len(s.unitEnds)] = s.unitStart
  /\ Lead(s) = Kept(Above(s, text))
  /\ Above(s, text) = <<>> \/ EndsLine(Above(s, text))
  /\ ClosedOn(s, text)
  /\ Released(s, text, out, fnd)

(* A flush changes nothing but the record fields FinalizeUnits sets.       *)
LEMMA FlushFields ==
  ASSUME NEW s, InOrder(s), s.unitEnds # <<>>, s.error = "none"
  PROVE  LET t == FlushBatch(s)
             detected == Detections(s, DetectBatch(s))
         IN /\ t.error = BatchError(s, detected)
            /\ t.error = "none" =>
                 /\ t.retained = Slice(s.retained, KeepFrom(s), Len(s.retained))
                 /\ t.leadLen = s.unitStart - KeepFrom(s)
                 /\ t.unitStart = s.unitStart - KeepFrom(s)
                 /\ t.unitEnds = <<>>
                 /\ t.finalizedBytes = s.finalizedBytes + s.unitStart - s.leadLen
                 /\ t.findingCount = s.findingCount + Cardinality(BatchFindings(s, detected))
                 /\ t.placeholderCount =
                      s.placeholderCount + Cardinality(Replaced(BatchFindings(s, detected)))
                 /\ t.text = s.text \o BatchText(s, detected)
                 /\ t.found = s.found \cup BatchFindings(s, detected)
<1> DEFINE t == FlushBatch(s)
           detected == Detections(s, DetectBatch(s))
<1>1. t = FinalizeUnits(s, detected)
  BY DEF FlushBatch
<1> HIDE DEF detected
<1>2. CASE BatchError(s, detected) # "none"
  <2>1. t = [s EXCEPT !.error = BatchError(s, detected)]
    BY <1>1, <1>2 DEF FinalizeUnits
  <2>2. t.error = BatchError(s, detected)
    BY <2>1 DEF InOrder, Fields
  <2> QED
    BY <1>2, <2>2 DEF detected
<1>3. CASE BatchError(s, detected) = "none"
  <2> HIDE DEF t
  <2>1. /\ t.error = "none"
        /\ t.retained = Slice(s.retained, KeepFrom(s), Len(s.retained))
        /\ t.leadLen = s.unitStart - KeepFrom(s)
        /\ t.unitStart = s.unitStart - KeepFrom(s)
        /\ t.unitEnds = <<>>
        /\ t.finalizedBytes = s.finalizedBytes + s.unitStart - s.leadLen
        /\ t.findingCount = s.findingCount + Cardinality(BatchFindings(s, detected))
        /\ t.placeholderCount =
             s.placeholderCount + Cardinality(Replaced(BatchFindings(s, detected)))
        /\ t.text = s.text \o BatchText(s, detected)
        /\ t.found = s.found \cup BatchFindings(s, detected)
    BY <1>1, <1>3 DEF FinalizeUnits, InOrder, Fields
  <2> QED
    BY <1>3, <2>1 DEF t, detected
<1> QED
  BY <1>2, <1>3

(* The findings up to a position are numbered as they are in the whole.    *)
LEMMA MarksCount ==
  ASSUME Finds(Texts), NEW text \in Texts, NEW h, PolicyIsTotal(h), NEW at \in Nat
  PROVE  LET M == Marks(h, text) IN
         /\ Cardinality(M) = Cardinality(Below(M, at)) + Cardinality(From(M, at))
         /\ Cardinality(Replaced(M))
              = Cardinality(Replaced(Below(M, at))) + Cardinality(Replaced(From(M, at)))
<1> DEFINE M == Marks(h, text)
           A == Below(M, at)
           B == From(M, at)
<1>1. IsFiniteSet(M) /\ \A f \in M : f.start \in Nat
  BY MarksAre
<1> HIDE DEF M
<1>2. M = A \cup B /\ A \cap B = {}
  BY <1>1 DEF Below, From
<1>3. /\ Replaced(M) = Replaced(A) \cup Replaced(B) /\ Replaced(A) \cap Replaced(B) = {}
      /\ Replaced(M) \in SUBSET M
  BY <1>2 DEF Replaced
<1>4. IsFiniteSet(Replaced(M))
  BY <1>1, <1>3, SubsetCount
<1> HIDE DEF A, B
<1>5. Cardinality(M) = Cardinality(A) + Cardinality(B)
  BY <1>1, <1>2, TwoPartsCount
<1>6. Cardinality(Replaced(M)) = Cardinality(Replaced(A)) + Cardinality(Replaced(B))
  BY <1>3, <1>4, TwoPartsCount
<1> QED
  BY <1>5, <1>6 DEF M, A, B

(* A flush releases what one call on the text up to the open unit returns. *)
LEMMA FlushReleases ==
  ASSUME Contract, NEW text, NEW s, Flushable(s, text), s.error = "none", host \in Hosts,
         NEW out, NEW fnd, Released(s, text, out, fnd)
  PROVE  LET t == FlushBatch(s) IN
         IF t.error = "none"
           THEN /\ Released(t, text, out, fnd)
                /\ t.finalizedBytes = Place(s)
                /\ Above(t, text) = UpToUnit(s, text)
           ELSE WholeInput(host, UpToUnit(s, text)).error # "none"
<1> DEFINE t == FlushBatch(s)
           detected == Detections(s, DetectBatch(s))
           W == UpToUnit(s, text)
           above == WholeInput(host, Above(s, text))
           whole == WholeInput(host, W)
<1>1. InOrder(s) /\ s.unitEnds # <<>>
  BY DEF Flushable, Sound
<1>2. /\ Finds(Texts) /\ FailuresAreLocal(Texts) /\ PlaceholdersAreNew(Texts, Nat)
      /\ PlaceholdersAreTexts(Nat) /\ PolicyIsTotal(host)
  BY HostsAssumption DEF Contract, SessionContract, Finds, PolicyIsTotal
<1>3. IF BatchError(s, detected) = "none"
        THEN /\ whole.error = "none"
             /\ BatchText(s, detected) \in Seq(Letters)
             /\ whole.text = above.text \o BatchText(s, detected)
             /\ whole.findings = above.findings \cup BatchFindings(s, detected)
             /\ above.findings = Below(whole.findings, s.finalizedBytes)
             /\ BatchFindings(s, detected) = From(whole.findings, s.finalizedBytes)
             /\ whole.findings = Marks(host, W)
        ELSE whole.error # "none"
  BY <1>2, BatchReleases
<1>4. t.error = BatchError(s, detected)
  BY <1>1, FlushFields
<1> HIDE DEF detected, W, t
<1>5. CASE t.error # "none"
  BY <1>3, <1>4, <1>5 DEF t, W
<1>6. CASE t.error = "none"
  <2>1. /\ t.finalizedBytes = s.finalizedBytes + s.unitStart - s.leadLen
        /\ t.findingCount = s.findingCount + Cardinality(BatchFindings(s, detected))
        /\ t.placeholderCount =
             s.placeholderCount + Cardinality(Replaced(BatchFindings(s, detected)))
        /\ t.text = s.text \o BatchText(s, detected)
        /\ t.found = s.found \cup BatchFindings(s, detected)
    BY <1>1, <1>6, FlushFields DEF t, detected
  <2>2. /\ whole.error = "none"
        /\ BatchText(s, detected) \in Seq(Letters)
        /\ whole.text = above.text \o BatchText(s, detected)
        /\ whole.findings = above.findings \cup BatchFindings(s, detected)
        /\ above.findings = Below(whole.findings, s.finalizedBytes)
        /\ BatchFindings(s, detected) = From(whole.findings, s.finalizedBytes)
        /\ whole.findings = Marks(host, W)
    BY <1>3, <1>4, <1>6
  <2>3. /\ out \in Seq(Letters) /\ s.text \in Seq(Letters) /\ out \o s.text = above.text
        /\ fnd \cup s.found = above.findings
        /\ s.findingCount = Cardinality(above.findings)
        /\ s.placeholderCount = Cardinality(Replaced(above.findings))
    BY DEF Released
  <2>4. s.finalizedBytes \in Nat /\ s.unitStart \in Nat /\ s.leadLen \in Nat /\ W \in Texts
    BY <1>1, BatchParts DEF InOrder, W
  <2>5. t.finalizedBytes = Place(s)
    BY <2>1, <2>4 DEF Place, Base
  <2>6. Above(t, text) = W
    BY <2>5 DEF Above, W, UpToUnit, Place
  <2> DEFINE more == BatchText(s, detected)
             given == s.text
  <2>7. t.text \in Seq(Letters) /\ out \o t.text = whole.text
    <3>1. more \in Seq(Letters) /\ given \in Seq(Letters) /\ out \in Seq(Letters)
          /\ t.text = given \o more /\ whole.text = (out \o given) \o more
      BY <2>1, <2>2, <2>3
    <3> HIDE DEF more, given, whole
    <3>2. given \o more \in Seq(Letters)
      BY <3>1, Joined
    <3>3. out \o (given \o more) = (out \o given) \o more
      BY <3>1, Concatenation
    <3> QED
      BY <3>1, <3>2, <3>3
  <2>8. fnd \cup t.found = whole.findings
    BY <2>1, <2>2, <2>3
  <2>9. /\ t.findingCount = Cardinality(whole.findings)
        /\ t.placeholderCount = Cardinality(Replaced(whole.findings))
    <3> DEFINE M == Marks(host, W)
               at == s.finalizedBytes
    <3>1. /\ Cardinality(M) = Cardinality(Below(M, at)) + Cardinality(From(M, at))
          /\ Cardinality(Replaced(M))
               = Cardinality(Replaced(Below(M, at))) + Cardinality(Replaced(From(M, at)))
      <4> HIDE DEF at
      <4>1. at \in Nat
        BY <2>4 DEF at
      <4> QED
        BY <1>2, <2>4, <4>1, MarksCount
    <3>2. whole.findings = M /\ above.findings = Below(M, at)
          /\ BatchFindings(s, detected) = From(M, at)
      BY <2>2
    <3> HIDE DEF M, at, whole, above
    <3> QED
      BY <2>1, <2>3, <3>1, <3>2
  <2>10. Released(t, text, out, fnd)
    BY <2>2, <2>3, <2>6, <2>7, <2>8, <2>9 DEF Released
  <2> QED
    BY <1>6, <2>5, <2>6, <2>10 DEF t, W
<1> QED
  BY <1>5, <1>6

(* A sound session's batch may be flushed.                                 *)
LEMMA SettledIsFlushable ==
  ASSUME NEW s, NEW text \in Texts, Sound(s, text), s.unitEnds # <<>>,
         s.unitEnds[Len(s.unitEnds)] = s.unitStart,
         Lead(s) = Kept(Above(s, text)), ClosedOn(s, text)
  PROVE  Flushable(s, text)
<1> DEFINE n == Len(s.unitEnds)
           at == EdgesOf(s)
           W == UpToUnit(s, text)
           d == Place(s)
<1>1. /\ InOrder(s) /\ s.unitEnds \in Seq(Nat) /\ s.retained \in Seq(Symbols)
      /\ s.leadLen \in Nat /\ s.unitStart \in Nat /\ s.finalizedBytes \in Nat
      /\ s.leadLen <= s.unitStart /\ s.unitStart <= Len(s.retained)
      /\ \A k \in 1..n : UnitFrom(s, k) <= s.unitEnds[k] /\ s.unitEnds[k] <= s.unitStart
      /\ s.leadLen <= s.finalizedBytes
  BY DEF Sound, InOrder
<1>2. n \in Nat /\ n >= 1
  BY <1>1
<1>3. Base(s) \in Nat /\ d \in Nat /\ d <= Len(text) /\ Len(text) \in Nat
      /\ s.finalizedBytes = Base(s) + s.leadLen
  <2>1. Base(s) \in Nat /\ Base(s) + s.unitStart <= Len(text)
    <3>1. 0 \in Nat /\ 0 <= s.unitStart
      BY <1>1
    <3> QED
      BY <1>1, <3>1, RetainedPart
  <2> QED
    BY <1>1, <2>1 DEF Place, Texts, Base
<1>4. \A k \in 0..n : at[k] = IF k = 0 THEN s.finalizedBytes ELSE Base(s) + s.unitEnds[k]
  BY DEF EdgesOf
<1>5. ASSUME NEW k \in 0..n
      PROVE  at[k] \in Nat /\ at[k] <= d
  <2>1. CASE k = 0
    BY <1>1, <1>3, <1>4, <2>1 DEF Place
  <2>2. CASE k # 0
    <3>1. k \in 1..n
      BY <1>2, <2>2
    <3>2. s.unitEnds[k] \in Nat /\ s.unitEnds[k] <= s.unitStart
      BY <1>1, <3>1
    <3>3. at[k] = Base(s) + s.unitEnds[k]
      BY <1>4, <2>2
    <3> DEFINE e == s.unitEnds[k]
    <3>4. e \in Nat /\ e <= s.unitStart /\ at[k] = Base(s) + e
      BY <3>2, <3>3
    <3> HIDE DEF e, at
    <3>5. d = Base(s) + s.unitStart
      BY DEF Place
    <3> HIDE DEF d
    <3> QED
      BY <1>1, <1>3, <3>4, <3>5
  <2> QED
    BY <2>1, <2>2
<1>6. at \in [0..n -> Nat]
  <2>1. at = [k \in 0..n |-> at[k]]
    BY DEF EdgesOf
  <2> QED
    BY <1>5, <2>1
<1>7. ASSUME NEW k \in 1..n
      PROVE  at[k - 1] <= at[k] /\ k \in 0..n /\ k - 1 \in 0..n
  <2>1. k \in 0..n /\ k - 1 \in 0..n /\ k # 0
    BY <1>2
  <2>2. at[k] = Base(s) + s.unitEnds[k] /\ UnitFrom(s, k) <= s.unitEnds[k]
    BY <1>1, <1>4, <2>1
  <2>3. at[k - 1] = Base(s) + UnitFrom(s, k)
    <3>1. CASE k = 1
      BY <1>3, <1>4, <2>1, <3>1 DEF UnitFrom
    <3>2. CASE k # 1
      <4>1. k - 1 # 0
        BY <3>2
      <4> QED
        BY <1>4, <2>1, <3>2, <4>1 DEF UnitFrom
    <3> QED
      BY <3>1, <3>2
  <2>4. UnitFrom(s, k) \in Nat /\ s.unitEnds[k] \in Nat
    <3>1. s.unitEnds[k] \in Nat /\ s.leadLen \in Nat
      BY <1>1
    <3>2. CASE k = 1
      BY <3>1, <3>2 DEF UnitFrom
    <3>3. CASE k # 1
      <4>1. k - 1 \in 1..n
        BY <3>3
      <4>2. s.unitEnds[k - 1] \in Nat
        BY <1>1, <4>1
      <4>3. UnitFrom(s, k) = s.unitEnds[k - 1]
        BY <3>3 DEF UnitFrom
      <4> QED
        BY <3>1, <4>2, <4>3
    <3> QED
      BY <3>2, <3>3
  <2> QED
    BY <1>3, <2>1, <2>2, <2>3, <2>4
<1>8. at[n] = d /\ Len(W) = d /\ W \in Texts /\ W = Slice(text, 0, d)
  <2>1. at[n] = d
    BY <1>2, <1>4 DEF Place
  <2>2. W = Slice(text, 0, d)
    BY DEF UpToUnit, Place
  <2> HIDE DEF d, W
  <2>3. 0 \in Nat /\ 0 <= d /\ d - 0 = d
    BY <1>3
  <2> QED
    BY <1>3, <2>1, <2>2, <2>3, SliceProperties DEF Texts
<1>9. ASSUME NEW k \in 1..n
      PROVE  LET a == at[k - 1] IN
             /\ Slice(W, 0, a) = Slice(text, 0, a)
             /\ Slice(W, a, d) = Slice(text, a, d)
             /\ Separable(Slice(text, 0, a), Slice(text, a, d))
  <2> DEFINE a == at[k - 1]
             b == at[k]
  <2>1. a \in Nat /\ b \in Nat /\ a <= b /\ b <= d /\ 0 \in Nat /\ 0 <= a /\ a <= d
        /\ a <= d - 0 /\ d <= d - 0 /\ 0 + a = a /\ 0 + d = d /\ 0 + 0 = 0
        /\ a <= Len(text) /\ b <= Len(text) /\ 0 <= d
    <3>1. a <= b /\ a \in Nat /\ b \in Nat /\ b <= d
      BY <1>5, <1>7
    <3> HIDE DEF a, b, d
    <3> QED
      BY <1>3, <3>1
  <2>2. SettledOn(Texts, Slice(text, 0, a), Slice(text, a, b))
    BY DEF ClosedOn
  <2> HIDE DEF a, b, d, W
  <2>3. Slice(W, 0, a) = Slice(text, 0, a)
    <3>1. Slice(Slice(text, 0, d), 0, a) = Slice(text, 0 + 0, 0 + a)
      BY <1>3, <2>1, SliceOfSlice DEF Texts
    <3> QED
      BY <1>8, <2>1, <3>1
  <2>4. Slice(W, a, d) = Slice(text, a, d)
    <3>1. Slice(Slice(text, 0, d), a, d) = Slice(text, 0 + a, 0 + d)
      BY <1>3, <2>1, SliceOfSlice DEF Texts
    <3> QED
      BY <1>8, <2>1, <3>1
  <2>5. /\ Slice(text, 0, a) \in Texts /\ Slice(text, a, b) \in Texts
        /\ Slice(text, b, d) \in Texts
    BY <1>3, <2>1, SliceProperties DEF Texts
  <2>6. Slice(text, a, b) \o Slice(text, b, d) = Slice(text, a, d)
    BY <1>3, <2>1, SlicesJoin DEF Texts
  <2>7. Separable(Slice(text, 0, a), Slice(text, a, b) \o Slice(text, b, d))
    BY <2>2, <2>5, SettledLonger
  <2> QED
    BY <2>3, <2>4, <2>6, <2>7 DEF a
<1>10. ASSUME NEW k \in 0..n
       PROVE  CutIn(W, at[k])
  <2>1. at[k] \in 0..Len(W)
    BY <1>3, <1>5, <1>8
  <2>2. CASE k = n
    BY <1>8, <2>1, <2>2 DEF CutIn
  <2>3. CASE k # n
    <3>1. k + 1 \in 1..n /\ (k + 1) - 1 = k
      BY <1>2, <2>3
    <3>2. Separable(Slice(W, 0, at[k]), Slice(W, at[k], d))
      <4> HIDE DEF at, W, d
      <4>1. LET a == at[(k + 1) - 1] IN
             /\ Slice(W, 0, a) = Slice(text, 0, a)
             /\ Slice(W, a, d) = Slice(text, a, d)
             /\ Separable(Slice(text, 0, a), Slice(text, a, d))
        BY <1>9, <3>1
      <4> QED
        BY <3>1, <4>1
    <3> QED
      BY <1>8, <2>1, <3>2 DEF CutIn
  <2> QED
    BY <2>2, <2>3
<1>11. Edged(W, n, at)
  BY <1>2, <1>6, <1>7, <1>8, <1>10 DEF Edged
<1>12. Separable(Above(s, text), Batch(s))
  <2>1. 1 \in 1..n /\ 1 - 1 = 0 /\ at[0] = s.finalizedBytes
    BY <1>2, <1>4
  <2>2. Separable(Slice(text, 0, at[0]), Slice(text, at[0], d))
    <3> HIDE DEF at, W, d
    <3>1. LET a == at[1 - 1] IN Separable(Slice(text, 0, a), Slice(text, a, d))
      BY <1>9, <2>1
    <3> QED
      BY <2>1, <3>1
  <2>3. Batch(s) = Slice(text, at[0], d)
    <3>1. Slice(s.retained, s.leadLen, s.unitStart)
            = Slice(text, Base(s) + s.leadLen, Base(s) + s.unitStart)
      BY <1>1, RetainedPart
    <3> QED
      BY <1>3, <2>1, <3>1 DEF Batch, Place
  <2> QED
    BY <2>1, <2>2, <2>3 DEF Above
<1> QED
  BY <1>11, <1>12 DEF Flushable

(* The text from d on is settled by its first n symbols.                   *)
Open(text, d, n) ==
  /\ d \in Nat /\ n \in Nat /\ d + n <= Len(text)
  /\ SettledOn(Texts, Slice(text, 0, d), Slice(text, d, d + n))
  /\ n = 0 \/ OneLine(Slice(text, d, d + n))

(* What a helper leaves: a session to go on with, or the reason it failed. *)
Outcome(t, text, out, fnd) ==
  IF t.error = "none"
    THEN Core(t, text, out, fnd)
    ELSE /\ t.error \in StageErrors => WholeInput(host, text).error # "none"
         /\ t.error \in LimitErrors =>
              WholeInput(host, Slice(text, 0, Place(t))).error = "none"

(* Settled text may be cut.                                                *)
LEMMA OpenCut ==
  ASSUME NEW text \in Texts, NEW d, NEW n, Open(text, d, n)
  PROVE  CutIn(text, d) /\ d \in Nat /\ d <= Len(text)
<1>1. d \in Nat /\ n \in Nat /\ d + n \in Nat /\ Len(text) \in Nat
      /\ d <= d + n /\ d + n <= Len(text) /\ d <= Len(text) /\ 0 <= d /\ 0 \in Nat
      /\ Len(text) <= Len(text)
  BY DEF Open, Texts
<1> DEFINE e == d + n
           l == Len(text)
<1>2. e \in Nat /\ l \in Nat /\ d <= e /\ e <= l /\ l <= Len(text)
      /\ SettledOn(Texts, Slice(text, 0, d), Slice(text, d, e))
  BY <1>1 DEF Open
<1> HIDE DEF e
<1>3. /\ Slice(text, 0, d) \in Texts /\ Slice(text, d, e) \in Texts /\ Slice(text, e, l) \in Texts
      /\ Slice(text, d, e) \o Slice(text, e, l) = Slice(text, d, l)
  BY <1>1, <1>2, SliceProperties, SlicesJoin DEF Texts
<1>4. Separable(Slice(text, 0, d), Slice(text, d, e) \o Slice(text, e, l))
  BY <1>2, <1>3, SettledLonger
<1>5. Separable(Slice(text, 0, d), Slice(text, d, l))
  BY <1>3, <1>4
<1> QED
  BY <1>1, <1>5 DEF CutIn

(* A call fails on a text if it fails on the settled beginning of it.      *)
LEMMA ErrorOfBeginning ==
  ASSUME Contract, host \in Hosts, NEW text \in Texts, NEW d, NEW n, Open(text, d, n),
         WholeInput(host, Slice(text, 0, d)).error # "none"
  PROVE  WholeInput(host, text).error # "none"
<1>1. Finds(Texts) /\ FailuresAreLocal(Texts) /\ PolicyIsTotal(host)
  BY HostsAssumption DEF Contract, SessionContract, Finds, PolicyIsTotal
<1>2. CutIn(text, d)
  BY OpenCut
<1> QED
  BY <1>1, <1>2, ErrorGrows

(* The parts of the text a session stands on.                              *)
LEMMA CoreParts ==
  ASSUME NEW s, NEW text, NEW out, NEW fnd, Core(s, text, out, fnd)
  PROVE  /\ text \in Texts /\ Sound(s, text) /\ InOrder(s)
         /\ Base(s) \in Nat /\ Place(s) \in Nat /\ Place(s) <= Len(text)
         /\ s.finalizedBytes = Base(s) + s.leadLen
         /\ Above(s, text) \in Texts /\ UpToUnit(s, text) \in Texts
         /\ UpToUnit(s, text) = Slice(text, 0, Place(s))
         /\ UpToUnit(s, text) = Above(s, text) \o Batch(s)
         /\ Unit(s) \in Texts /\ Unit(s) = Slice(text, Place(s), ReadTo(s))
         /\ ReadTo(s) = Place(s) + Len(Unit(s)) /\ ReadTo(s) \in Nat /\ ReadTo(s) <= Len(text)
<1>1. text \in Texts /\ Sound(s, text) /\ InOrder(s)
  BY DEF Core, Sound
<1> DEFINE l == s.leadLen
           u == s.unitStart
           r == Len(s.retained)
           b == Base(s)
<1>2. /\ s.retained \in Seq(Symbols) /\ l \in Nat /\ u \in Nat /\ s.finalizedBytes \in Nat
      /\ l <= u /\ u <= r /\ l <= s.finalizedBytes /\ r \in Nat /\ Len(text) \in Nat
      /\ text \in Seq(Symbols)
  BY <1>1 DEF InOrder, Texts
<1>3. b \in Nat /\ b + r <= Len(text)
  <2>1. 0 \in Nat /\ 0 <= r /\ r <= Len(s.retained)
    BY <1>2
  <2> QED
    BY <1>1, <1>2, <2>1, RetainedPart
<1>4. s.finalizedBytes = b + l /\ Place(s) = b + u /\ ReadTo(s) = b + r
  BY <1>2, <1>3 DEF Base, Place, ReadTo
<1>5. /\ Batch(s) = Slice(text, b + l, b + u)
      /\ Unit(s) = Slice(text, b + u, b + r)
  <2>1. r <= Len(s.retained) /\ u <= Len(s.retained)
    BY <1>2
  <2>2. Slice(s.retained, l, u) = Slice(text, b + l, b + u)
    BY <1>1, <1>2, <2>1, RetainedPart
  <2>3. Slice(s.retained, u, r) = Slice(text, b + u, b + r)
    BY <1>1, <1>2, <2>1, RetainedPart
  <2> QED
    BY <2>2, <2>3 DEF Batch, Unit
<1> DEFINE p == b + l
           d == b + u
           e == b + r
<1>6. /\ p \in Nat /\ d \in Nat /\ e \in Nat /\ p <= d /\ d <= e /\ e <= Len(text)
      /\ 0 \in Nat /\ 0 <= p /\ 0 <= d /\ d <= Len(text) /\ p <= Len(text)
      /\ e - d = r - u
  BY <1>2, <1>3
<1>7. /\ Above(s, text) = Slice(text, 0, p) /\ UpToUnit(s, text) = Slice(text, 0, d)
      /\ Unit(s) = Slice(text, d, e) /\ Batch(s) = Slice(text, p, d)
      /\ Place(s) = d /\ ReadTo(s) = e /\ s.finalizedBytes = p
  BY <1>4, <1>5 DEF Above, UpToUnit
<1> HIDE DEF p, d, e
<1>8. /\ Slice(text, 0, p) \in Seq(Symbols) /\ Slice(text, 0, d) \in Seq(Symbols)
      /\ Slice(text, d, e) \in Seq(Symbols) /\ Len(Slice(text, d, e)) = e - d
  BY <1>2, <1>6, SliceProperties
<1>9. Slice(text, 0, p) \o Slice(text, p, d) = Slice(text, 0, d)
  BY <1>2, <1>6, SlicesJoin
<1>10. e = d + Len(Unit(s))
  BY <1>6, <1>7, <1>8
<1> HIDE DEF l, u, r, b
<1> QED
  BY <1>1, <1>3, <1>4, <1>6, <1>7, <1>8, <1>9, <1>10 DEF Texts, b, l

(* What a flush does to a session.                                         *)
LEMMA FlushCore ==
  ASSUME Contract, host \in Hosts, NEW s, NEW text, NEW out, NEW fnd,
         Core(s, text, out, fnd), s.error = "none", NEW n, Open(text, Place(s), n)
  PROVE  LET t == FlushBatch(s) IN
         /\ Outcome(t, text, out, fnd)
         /\ t.error = "none" \/ t.error \in StageErrors
         /\ t.error = "none" =>
              /\ Place(t) = Place(s) /\ t.unitEnds = <<>> /\ t.finalizedBytes = Place(s)
              /\ Unit(t) = Unit(s) /\ ReadTo(t) = ReadTo(s)
<1> DEFINE t == FlushBatch(s)
<1>1. text \in Texts /\ Sound(s, text) /\ InOrder(s) /\ Tidy(s)
  BY CoreParts DEF Core
<1>2. CASE s.unitEnds = <<>>
  <2>1. t = s
    BY <1>2 DEF FlushBatch
  <2>2. s.finalizedBytes = Place(s)
    <3>1. s.unitStart = s.leadLen
      BY <1>1, <1>2 DEF InOrder
    <3> QED
      BY <3>1, CoreParts DEF Place
  <2> QED
    BY <1>2, <2>1, <2>2 DEF Outcome
<1>3. CASE s.unitEnds # <<>>
  <2>1. Flushable(s, text)
    BY <1>1, <1>3, SettledIsFlushable DEF Core
  <2>2. Released(s, text, out, fnd)
    BY DEF Core
  <2>3. IF t.error = "none"
          THEN /\ Released(t, text, out, fnd)
               /\ t.finalizedBytes = Place(s)
               /\ Above(t, text) = UpToUnit(s, text)
          ELSE WholeInput(host, UpToUnit(s, text)).error # "none"
    BY <2>1, <2>2, FlushReleases
  <2>4. /\ Sound(t, text) /\ ReadTo(t) = ReadTo(s)
        /\ t.error = "none" \/ t.error \in StageErrors
    BY <1>1, FlushBatchSound DEF Keeps
  <2>5. CASE t.error # "none"
    <3>1. WholeInput(host, text).error # "none"
      <4>1. WholeInput(host, Slice(text, 0, Place(s))).error # "none"
        BY <2>3, <2>5, CoreParts
      <4> QED
        BY <1>1, <4>1, ErrorOfBeginning
    <3>2. t.error \notin LimitErrors
      BY <2>4, <2>5 DEF StageErrors, LimitErrors
    <3> HIDE DEF t
    <3> QED
      BY <2>4, <2>5, <3>1, <3>2 DEF Outcome, t
  <2>6. CASE t.error = "none"
    <3>1. /\ Released(t, text, out, fnd) /\ t.finalizedBytes = Place(s)
          /\ Above(t, text) = UpToUnit(s, text)
      BY <2>3, <2>6
    <3>2. Tidy(t) /\ Unit(t) = Unit(s) /\ t.unitEnds = <<>>
      BY <1>1, <2>6, FlushBatchRests DEF Rests
    <3>3. /\ t.retained = Slice(s.retained, KeepFrom(s), Len(s.retained))
          /\ t.leadLen = s.unitStart - KeepFrom(s)
          /\ t.unitStart = t.leadLen
      BY <1>1, <1>3, <2>6, FlushFields
    <3>4. Place(t) = Place(s)
      <4>1. t.leadLen \in Nat /\ t.finalizedBytes \in Nat
        BY <2>4 DEF Sound, InOrder
      <4> HIDE DEF t
      <4> QED
        BY <3>1, <3>3, <4>1 DEF Place, Base
    <3>5. IdsAreOfTheLine(Texts)
      BY DEF Contract, SessionContract
    <3> DEFINE from == KeepFrom(s)
               m == Len(s.retained)
               above == Above(s, text)
    <3>6. /\ Slice(s.retained, from, s.unitStart) = Kept(above \o Batch(s))
          /\ EndsLine(above \o Batch(s)) /\ from \in 0..s.unitStart
      <4>1. above \in Texts /\ (above = <<>> \/ EndsLine(above)) /\ Lead(s) = Kept(above)
        BY CoreParts DEF Core
      <4> HIDE DEF above
      <4> QED
        BY <1>1, <1>3, <3>5, <4>1, KeptBelow
    <3>7. above \o Batch(s) = UpToUnit(s, text)
      BY CoreParts
    <3>8. Lead(t) = Slice(s.retained, from, s.unitStart)
      <4> DEFINE k == s.unitStart - from
      <4>1. /\ s.retained \in Seq(Symbols) /\ m \in Nat /\ s.unitStart \in Nat
            /\ s.unitStart <= m
        BY <1>1 DEF InOrder
      <4>2. 0 \in Nat /\ k \in Nat /\ from \in Nat /\ from <= m /\ 0 <= k /\ k <= m - from
            /\ m <= Len(s.retained) /\ from + 0 = from /\ from + k = s.unitStart
        BY <3>6, <4>1
      <4>3. t.retained = Slice(s.retained, from, m) /\ t.leadLen = k
        BY <3>3
      <4> HIDE DEF k, from, m, t
      <4>4. Slice(Slice(s.retained, from, m), 0, k) = Slice(s.retained, from + 0, from + k)
        BY <4>1, <4>2, SliceOfSlice
      <4> QED
        BY <4>2, <4>3, <4>4 DEF Lead
    <3>9. Lead(t) = Kept(Above(t, text)) /\ EndsLine(Above(t, text))
      BY <3>1, <3>6, <3>7, <3>8
    <3>10. ClosedOn(t, text)
      <4>1. Len(t.unitEnds) = 0
        BY <3>2
      <4> HIDE DEF t
      <4> QED
        BY <4>1 DEF ClosedOn
    <3>11. Core(t, text, out, fnd)
      <4> HIDE DEF t
      <4> QED
        BY <1>1, <2>4, <3>1, <3>2, <3>9, <3>10 DEF Core
    <3> HIDE DEF t
    <3> QED
      BY <2>4, <2>6, <3>1, <3>2, <3>4, <3>11 DEF Outcome, t
  <2> QED
    BY <2>5, <2>6
<1> QED
  BY <1>2, <1>3

(* Whether the line above the unit carries an ID is whether it is kept.    *)
LEMMA AboveIsKept ==
  ASSUME Contract, NEW s, NEW text, NEW out, NEW fnd, Core(s, text, out, fnd)
  PROVE  LineAboveCarriesId(s) = (Kept(UpToUnit(s, text)) # <<>>)
<1>1. InOrder(s) /\ Tidy(s) /\ IdsAreOfTheLine(Texts) /\ AwsIsOfItsLine
  BY CoreParts DEF Core, Contract, SessionContract, AwsIsOfItsLine, Texts
<1> DEFINE above == Above(s, text)
<1>2. /\ above \in Texts /\ (above = <<>> \/ EndsLine(above)) /\ Lead(s) = Kept(above)
      /\ UpToUnit(s, text) = above \o Batch(s) /\ UpToUnit(s, text) \in Texts
  BY CoreParts DEF Core
<1> HIDE DEF above
<1>3. CASE s.unitEnds = <<>>
  <2>1. s.unitStart = s.leadLen /\ s.leadLen \in Nat
    BY <1>1, <1>3 DEF InOrder
  <2>2. Batch(s) = <<>>
    <3>1. Batch(s) \in Seq(Symbols) /\ Len(Batch(s)) = s.unitStart - s.leadLen
      BY <1>1, Parts
    <3>2. Len(Batch(s)) = 0
      BY <2>1, <3>1
    <3> QED
      BY <3>1, <3>2
  <2>3. UpToUnit(s, text) = above
    <3>1. above \o <<>> = above
      BY <1>2 DEF Texts
    <3> QED
      BY <1>2, <2>2, <3>1
  <2>4. LineAboveCarriesId(s) = (s.leadLen > 0)
    BY <2>2 DEF LineAboveCarriesId
  <2>5. Lead(s) \in Seq(Symbols) /\ Len(Lead(s)) = s.leadLen
    BY <1>1, Parts
  <2>6. s.leadLen > 0 <=> Lead(s) # <<>>
    BY <2>1, <2>5
  <2>7. (s.leadLen > 0) = (Lead(s) # <<>>)
    BY <2>6
  <2> QED
    BY <1>2, <2>3, <2>4, <2>7
<1>4. CASE s.unitEnds # <<>>
  <2> DEFINE from == KeepFrom(s)
  <2>1. /\ Slice(s.retained, from, s.unitStart) = Kept(above \o Batch(s))
        /\ from \in 0..s.unitStart
    BY <1>1, <1>2, <1>4, KeptBelow
  <2>2. LineAboveCarriesId(s) = (s.unitStart - from > 0)
    BY <1>1, <1>4, FlushedLead
  <2> HIDE DEF from
  <2>3. /\ s.retained \in Seq(Symbols) /\ s.unitStart \in Nat /\ s.unitStart <= Len(s.retained)
        /\ from \in Nat /\ from <= s.unitStart
    BY <1>1, <2>1 DEF InOrder
  <2>4. /\ Slice(s.retained, from, s.unitStart) \in Seq(Symbols)
        /\ Len(Slice(s.retained, from, s.unitStart)) = s.unitStart - from
    BY <2>3, SliceProperties
  <2>5. s.unitStart - from > 0 <=> Slice(s.retained, from, s.unitStart) # <<>>
    BY <2>3, <2>4
  <2>6. (s.unitStart - from > 0) = (Slice(s.retained, from, s.unitStart) # <<>>)
    BY <2>5
  <2> QED
    BY <1>2, <2>1, <2>2, <2>6
<1> QED
  BY <1>3, <1>4

------------------------------------------------------------------------------
(* The helpers of append.                                                  *)

(* What is settled by some symbols is settled by more of them.             *)
LEMMA SettledSpan ==
  ASSUME NEW text \in Texts, NEW d, NEW n, Open(text, d, n),
         NEW e \in Nat, d + n <= e, e <= Len(text)
  PROVE  SettledOn(Texts, Slice(text, 0, d), Slice(text, d, e))
<1> DEFINE c == d + n
<1>1. d \in Nat /\ n \in Nat /\ Len(text) \in Nat
  BY DEF Open, Texts
<1>2. c \in Nat /\ d <= c /\ c <= e /\ c <= Len(text) /\ 0 \in Nat /\ 0 <= d /\ d <= Len(text)
      /\ SettledOn(Texts, Slice(text, 0, d), Slice(text, d, c))
  BY <1>1 DEF Open
<1> HIDE DEF c
<1>3. /\ Slice(text, 0, d) \in Texts /\ Slice(text, d, c) \in Texts /\ Slice(text, c, e) \in Texts
      /\ Slice(text, d, c) \o Slice(text, c, e) = Slice(text, d, e)
  BY <1>1, <1>2, SliceProperties, SlicesJoin DEF Texts
<1>4. SettledOn(Texts, Slice(text, 0, d), Slice(text, d, c) \o Slice(text, c, e))
  BY <1>2, <1>3, SettledLonger
<1> QED
  BY <1>3, <1>4

(* A step that leaves the batch and the results alone leaves the session   *)
(* sound.                                                                  *)
LEMMA SameCore ==
  ASSUME NEW s, NEW t, NEW text, NEW out, NEW fnd, Core(s, text, out, fnd),
         Sound(t, text), Tidy(t), Lead(t) = Lead(s),
         t.leadLen = s.leadLen, t.unitStart = s.unitStart, t.unitEnds = s.unitEnds,
         t.finalizedBytes = s.finalizedBytes, t.text = s.text, t.found = s.found,
         t.findingCount = s.findingCount, t.placeholderCount = s.placeholderCount
  PROVE  Core(t, text, out, fnd) /\ Place(t) = Place(s) /\ UpToUnit(t, text) = UpToUnit(s, text)
<1>1. Base(t) = Base(s)
  BY DEF Base
<1>2. EdgesOf(t) = EdgesOf(s)
  BY <1>1 DEF EdgesOf
<1>3. Above(t, text) = Above(s, text) /\ UpToUnit(t, text) = UpToUnit(s, text)
      /\ Place(t) = Place(s)
  BY <1>1 DEF Above, UpToUnit, Place
<1>4. ClosedOn(t, text)
  BY <1>2 DEF ClosedOn, Core
<1>5. Released(t, text, out, fnd)
  BY <1>3 DEF Released, Core
<1> QED
  BY <1>3, <1>4, <1>5 DEF Core

(* Part of the text follows what has been read up to it.                   *)
LEMMA NextFollows ==
  ASSUME NEW text \in Texts, NEW s, ReadTo(s) \in Nat, NEW e \in Nat, ReadTo(s) <= e, e <= Len(text)
  PROVE  Follows(Slice(text, ReadTo(s), e), s, text)
<1> DEFINE a == ReadTo(s)
           piece == Slice(text, a, e)
<1>1. /\ piece \in Seq(Symbols) /\ Len(piece) = e - a
      /\ \A i \in 1..(e - a) : piece[i] = text[a + i]
  BY SliceProperties DEF Texts
<1> HIDE DEF piece
<1>2. a + Len(piece) <= Len(text)
  BY <1>1 DEF Texts
<1>3. \A i \in 1..Len(piece) : piece[i] = text[ReadTo(s) + i]
  BY <1>1
<1> QED
  BY <1>1, <1>2, <1>3 DEF Follows, piece

(* Pushing a piece.                                                        *)
LEMMA PushCore ==
  ASSUME NEW s, NEW text, NEW out, NEW fnd, Core(s, text, out, fnd),
         NEW piece, Follows(piece, s, text)
  PROVE  Core(Push(s, piece), text, out, fnd) /\ Place(Push(s, piece)) = Place(s)
<1> DEFINE t == Push(s, piece)
<1>1. Sound(s, text) /\ InOrder(s) /\ Tidy(s) /\ piece \in Seq(Symbols)
  BY CoreParts DEF Core, Follows
<1>2. Sound(t, text) /\ Tidy(t)
  BY <1>1, PushSound, PushGrows
<1>3. /\ t.retained = s.retained \o piece
      /\ t.leadLen = s.leadLen /\ t.unitStart = s.unitStart /\ t.unitEnds = s.unitEnds
      /\ t.finalizedBytes = s.finalizedBytes /\ t.text = s.text /\ t.found = s.found
      /\ t.findingCount = s.findingCount /\ t.placeholderCount = s.placeholderCount
  BY <1>1 DEF Push, InOrder, Fields
<1> HIDE DEF t
<1>4. Lead(t) = Lead(s)
  <2>1. /\ s.retained \in Seq(Symbols) /\ s.leadLen \in Nat /\ 0 \in Nat /\ 0 <= s.leadLen
        /\ s.leadLen <= Len(s.retained)
    BY <1>1 DEF InOrder
  <2>2. Slice(s.retained \o piece, 0, s.leadLen) = Slice(s.retained, 0, s.leadLen)
    BY <1>1, <2>1, SliceOfFirst
  <2> QED
    BY <1>3, <2>2 DEF Lead
<1>5. Core(t, text, out, fnd) /\ Place(t) = Place(s)
  BY <1>2, <1>3, <1>4, SameCore
<1> QED
  BY <1>5 DEF t

(* A limit is reported when everything above the unit has been released.   *)
LEMMA EnforceLimitsCore ==
  ASSUME Contract, host \in Hosts, NEW s, NEW text, NEW out, NEW fnd,
         Core(s, text, out, fnd), s.error = "none", NEW n, Open(text, Place(s), n), NEW closesLine
  PROVE  LET t == EnforceLimits(s, closesLine) IN
         Outcome(t, text, out, fnd) /\ (t.error = "none" => Place(t) = Place(s))
<1> DEFINE t == EnforceLimits(s, closesLine)
           code == Exceeded(s, closesLine)
           flushed == FlushBatch(s)
<1>1. CASE code = "none"
  <2>1. t = s
    BY <1>1 DEF EnforceLimits
  <2> QED
    BY <2>1 DEF Outcome
<1>2. CASE code # "none"
  <2>1. t = ReportUnlessFailed(flushed, code)
    BY <1>2 DEF EnforceLimits
  <2>2. /\ Outcome(flushed, text, out, fnd)
        /\ flushed.error = "none" => flushed.finalizedBytes = Place(s) /\ Place(flushed) = Place(s)
    BY FlushCore
  <2>3. code \in LimitErrors /\ code \notin StageErrors
    BY <1>2 DEF Exceeded, LimitErrors, StageErrors
  <2> HIDE DEF flushed, t, code
  <2>4. CASE flushed.error # "none"
    <3>1. t = flushed
      BY <2>1, <2>4 DEF ReportUnlessFailed
    <3> QED
      BY <2>2, <2>4, <3>1 DEF t
  <2>5. CASE flushed.error = "none"
    <3>1. t = [flushed EXCEPT !.error = code]
      BY <2>1, <2>5 DEF ReportUnlessFailed
    <3>2. Core(flushed, text, out, fnd)
      BY <2>2, <2>5 DEF Outcome
    <3>3. DOMAIN flushed = Fields
      BY <3>2, CoreParts DEF InOrder
    <3>4. /\ t.error = code /\ t.finalizedBytes = flushed.finalizedBytes
          /\ t.leadLen = flushed.leadLen /\ t.unitStart = flushed.unitStart
      BY <3>1, <3>3 DEF Fields
    <3>5. Place(t) = Place(flushed)
      BY <3>4 DEF Place, Base
    <3>6. WholeInput(host, Above(flushed, text)).error = "none"
      BY <3>2 DEF Core, Released
    <3>7. WholeInput(host, Slice(text, 0, Place(t))).error = "none"
      BY <2>2, <2>5, <3>5, <3>6 DEF Above
    <3> QED
      BY <1>2, <2>3, <3>4, <3>7 DEF Outcome, t, code
  <2> QED
    BY <2>4, <2>5
<1> QED
  BY <1>1, <1>2

(* append_retained.                                                        *)
LEMMA AppendRetainedCore ==
  ASSUME Contract, host \in Hosts, NEW s, NEW text, NEW out, NEW fnd,
         Core(s, text, out, fnd), s.error = "none", NEW n, Open(text, Place(s), n),
         NEW piece, Follows(piece, s, text), NEW closesLine
  PROVE  LET t == AppendRetained(s, piece, closesLine) IN
         Outcome(t, text, out, fnd) /\ (t.error = "none" => Place(t) = Place(s))
<1> DEFINE roomy == MakeRoom(s, piece)
           pushed == Push(roomy, piece)
           t == AppendRetained(s, piece, closesLine)
<1>1. Outcome(roomy, text, out, fnd)
      /\ (roomy.error = "none" => Place(roomy) = Place(s) /\ ReadTo(roomy) = ReadTo(s))
  <2>1. CASE roomy = s
    BY <2>1 DEF Outcome
  <2>2. CASE roomy = FlushBatch(s)
    BY <2>2, FlushCore
  <2> QED
    BY <2>1, <2>2 DEF MakeRoom
<1>2. t = IF roomy.error # "none" THEN roomy ELSE EnforceLimits(pushed, closesLine)
  BY DEF AppendRetained, PushAndEnforce
<1> HIDE DEF roomy, t
<1>3. CASE roomy.error # "none"
  BY <1>1, <1>2, <1>3 DEF t
<1>4. CASE roomy.error = "none"
  <2>1. Core(roomy, text, out, fnd) /\ Follows(piece, roomy, text)
    BY <1>1, <1>4 DEF Outcome, Follows
  <2>2. Core(pushed, text, out, fnd) /\ Place(pushed) = Place(s)
    BY <1>1, <1>4, <2>1, PushCore
  <2>3. pushed.error = "none"
    BY <1>4, <2>1, PushSound, CoreParts
  <2> HIDE DEF pushed
  <2>4. /\ Outcome(EnforceLimits(pushed, closesLine), text, out, fnd)
        /\ EnforceLimits(pushed, closesLine).error = "none"
             => Place(EnforceLimits(pushed, closesLine)) = Place(s)
    BY <2>2, <2>3, EnforceLimitsCore
  <2> QED
    BY <1>2, <1>4, <2>4 DEF t
<1> QED
  BY <1>3, <1>4

(* Closing the unit, when it may be: the text below it is settled too.     *)
LEMMA CloseUnitCore ==
  ASSUME Contract, host \in Hosts, NEW s, NEW text, NEW out, NEW fnd,
         Core(s, text, out, fnd), s.error = "none", NEW n, Open(text, Place(s), n),
         n <= Len(Unit(s)), EndsLine(Unit(s)),
         NEW m \in Nat, ReadTo(s) + m <= Len(text),
         MayClose(Kept(UpToUnit(s, text)) # <<>>, Unit(s), Slice(text, ReadTo(s), ReadTo(s) + m)),
         m = 0 \/ OneLine(Slice(text, ReadTo(s), ReadTo(s) + m))
  PROVE  LET t == CloseUnit(s) IN
         /\ Outcome(t, text, out, fnd)
         /\ t.error = "none" =>
              /\ Place(t) = ReadTo(s) /\ ReadTo(t) = ReadTo(s)
              /\ Open(text, ReadTo(s), m)
<1> DEFINE separate == SeparateBatch(s)
           t == CloseUnit(s)
           d == Place(s)
           e == ReadTo(s)
           f == e + m
<1>1. /\ text \in Texts /\ Sound(s, text) /\ InOrder(s) /\ d \in Nat /\ e \in Nat
      /\ UpToUnit(s, text) \in Texts /\ UpToUnit(s, text) = Slice(text, 0, d)
      /\ Unit(s) \in Texts /\ Unit(s) = Slice(text, d, e)
      /\ e = d + Len(Unit(s)) /\ e <= Len(text) /\ Tidy(s)
  BY CoreParts DEF Core
<1>2. /\ n \in Nat /\ Len(Unit(s)) \in Nat /\ d <= e /\ d + n <= e /\ f \in Nat /\ e <= f
      /\ f <= Len(text) /\ d + n <= f /\ 0 \in Nat /\ 0 <= d /\ d <= Len(text)
  <2>1. n \in Nat /\ Len(Unit(s)) \in Nat
    BY <1>1 DEF Open, Texts
  <2> DEFINE l == Len(Unit(s))
  <2>2. l \in Nat /\ e = d + l /\ n <= l
    BY <1>1, <2>1
  <2> HIDE DEF l, d, e
  <2> QED
    BY <1>1, <2>1, <2>2 DEF e
<1>3. /\ Outcome(separate, text, out, fnd)
      /\ separate.error = "none" =>
           Place(separate) = d /\ ReadTo(separate) = e
  <2>1. CASE separate = s
    BY <2>1 DEF Outcome
  <2>2. CASE separate = FlushBatch(s)
    BY <2>2, FlushCore
  <2> QED
    BY <2>1, <2>2 DEF SeparateBatch
<1>4. t = IF separate.error # "none" THEN separate
          ELSE ResetUnitState([separate EXCEPT !.unitEnds = Append(@, Len(separate.retained)),
                                               !.unitStart = Len(separate.retained)])
  BY DEF CloseUnit, StartNextUnit
<1>5. CASE separate.error # "none"
  <2>1. t = separate
    BY <1>4, <1>5
  <2> QED
    BY <1>3, <1>5, <2>1
<1>6. CASE separate.error = "none"
  <2>1. Core(separate, text, out, fnd)
    BY <1>3, <1>6 DEF Outcome
  <2>2. InOrder(separate) /\ separate.finalizedBytes = Base(separate) + separate.leadLen
        /\ Base(separate) \in Nat
    BY <2>1, CoreParts
  <2> HIDE DEF separate
  <2> DEFINE r == Len(separate.retained)
             q == Len(separate.unitEnds)
  <2>3. /\ t.retained = separate.retained /\ t.leadLen = separate.leadLen
        /\ t.unitStart = r /\ t.unitEnds = Append(separate.unitEnds, r)
        /\ t.finalizedBytes = separate.finalizedBytes
        /\ t.text = separate.text /\ t.found = separate.found /\ t.error = "none"
        /\ t.findingCount = separate.findingCount
        /\ t.placeholderCount = separate.placeholderCount
    BY <1>4, <1>6, <2>2 DEF ResetUnitState, InOrder, Fields
  <2>4. Sound(t, text) /\ ReadTo(t) = e
    BY <1>1, CloseUnitSound
  <2>5. Tidy(t)
    BY <1>1, <2>3, CloseUnitCloses
  <2> HIDE DEF t
  <2>6. /\ separate.unitEnds \in Seq(Nat) /\ r \in Nat /\ q \in Nat
        /\ separate.unitStart \in Nat /\ separate.leadLen \in Nat
        /\ separate.unitEnds = <<>> => separate.unitStart = separate.leadLen
        /\ separate.unitEnds # <<>> => separate.unitEnds[q] = separate.unitStart
    BY <2>1, <2>2 DEF InOrder, Core
  <2>7. /\ Len(t.unitEnds) = q + 1 /\ t.unitEnds[q + 1] = r
        /\ \A k \in 1..q : t.unitEnds[k] = separate.unitEnds[k]
    BY <2>3, <2>6
  <2>8. Base(t) = Base(separate) /\ Above(t, text) = Above(separate, text)
        /\ Lead(t) = Lead(separate)
    BY <2>3 DEF Base, Above, Lead
  <2>9. Place(t) = e
    BY <1>3, <1>6, <2>3, <2>8 DEF Place, ReadTo
  <2>10. Released(t, text, out, fnd)
    BY <2>1, <2>3, <2>8 DEF Core, Released
  <2>11. /\ \A k \in 0..q : EdgesOf(t)[k] = EdgesOf(separate)[k]
         /\ EdgesOf(t)[q] = d /\ EdgesOf(t)[q + 1] = e
    <3>1. \A k \in 0..(q + 1) :
            EdgesOf(t)[k] = IF k = 0 THEN t.finalizedBytes ELSE Base(t) + t.unitEnds[k]
      BY <2>7 DEF EdgesOf
    <3>2. \A k \in 0..q :
            EdgesOf(separate)[k] = IF k = 0 THEN separate.finalizedBytes
                                   ELSE Base(separate) + separate.unitEnds[k]
      BY DEF EdgesOf
    <3>3. \A k \in 0..q : EdgesOf(t)[k] = EdgesOf(separate)[k]
      <4> SUFFICES ASSUME NEW k \in 0..q PROVE EdgesOf(t)[k] = EdgesOf(separate)[k]
        OBVIOUS
      <4>1. k \in 0..(q + 1)
        BY <2>6
      <4>2. CASE k = 0
        BY <2>3, <3>1, <3>2, <4>1, <4>2
      <4>3. CASE k # 0
        <5>1. k \in 1..q
          BY <2>6, <4>3
        <5> QED
          BY <2>7, <2>8, <3>1, <3>2, <4>1, <4>3, <5>1
      <4> QED
        BY <4>2, <4>3
    <3>4. EdgesOf(t)[q + 1] = e
      <4>1. q + 1 \in 0..(q + 1) /\ q + 1 # 0
        BY <2>6
      <4>2. EdgesOf(t)[q + 1] = Base(t) + t.unitEnds[q + 1]
        BY <3>1, <4>1
      <4>3. Base(separate) + r = e
        BY <1>3, <1>6 DEF ReadTo
      <4> QED
        BY <2>7, <2>8, <4>2, <4>3
    <3>5. EdgesOf(separate)[q] = d
      <4>1. Base(separate) + separate.unitStart = d
        BY <1>3, <1>6 DEF Place
      <4>2. q \in 0..q
        BY <2>6
      <4>3. CASE q = 0
        <5>1. separate.unitEnds = <<>>
          BY <2>6, <4>3
        <5> QED
          BY <2>2, <2>6, <3>2, <4>1, <4>2, <4>3, <5>1
      <4>4. CASE q # 0
        <5>1. separate.unitEnds # <<>>
          BY <2>6, <4>4
        <5> QED
          BY <2>6, <3>2, <4>1, <4>2, <4>4, <5>1
      <4> QED
        BY <4>3, <4>4
    <3>6. q \in 0..q
      BY <2>6
    <3> QED
      BY <3>3, <3>4, <3>5, <3>6
  <2>12. ClosedOn(t, text)
    <3>1. SettledOn(Texts, Slice(text, 0, d), Slice(text, d, e))
      <4> HIDE DEF d, e
      <4> QED
        BY <1>1, <1>2, SettledSpan DEF d
    <3> SUFFICES ASSUME NEW k \in 1..(q + 1)
                 PROVE  SettledOn(Texts, Slice(text, 0, EdgesOf(t)[k - 1]),
                                  Slice(text, EdgesOf(t)[k - 1], EdgesOf(t)[k]))
      BY <2>7 DEF ClosedOn
    <3>2. CASE k = q + 1
      <4>1. k - 1 = q
        BY <2>6, <3>2
      <4> QED
        BY <2>11, <3>1, <3>2, <4>1
    <3>3. CASE k # q + 1
      <4>1. k \in 1..q /\ k \in 0..q /\ k - 1 \in 0..q
        BY <2>6, <3>3
      <4>2. SettledOn(Texts, Slice(text, 0, EdgesOf(separate)[k - 1]),
                      Slice(text, EdgesOf(separate)[k - 1], EdgesOf(separate)[k]))
        BY <2>1, <4>1 DEF Core, ClosedOn
      <4> QED
        BY <2>11, <4>1, <4>2
    <3> QED
      BY <3>2, <3>3
  <2>13. t.unitEnds[Len(t.unitEnds)] = t.unitStart
    BY <2>3, <2>7
  <2>14. Core(t, text, out, fnd)
    BY <1>1, <2>1, <2>4, <2>5, <2>8, <2>10, <2>12, <2>13 DEF Core
  <2>15. Open(text, e, m)
    <3> DEFINE above == UpToUnit(s, text)
               unit == Unit(s)
               ahead == Slice(text, e, f)
    <3>1. SettledOn(Texts, Slice(text, 0, d), Slice(text, d, f))
      <4> HIDE DEF d, e, f
      <4> QED
        BY <1>1, <1>2, SettledSpan DEF d
    <3>2. above \in Texts /\ unit \in Texts /\ above = Slice(text, 0, d) /\ unit = Slice(text, d, e)
      BY <1>1
    <3>3. MayClose(Kept(above) # <<>>, unit, ahead)
      OBVIOUS
    <3>4. HintsSettle(Texts)
      BY DEF Contract, SessionContract
    <3> HIDE DEF above, unit, d, e, f
    <3>5. /\ ahead \in Texts
          /\ Slice(text, d, e) \o ahead = Slice(text, d, f)
          /\ Slice(text, 0, d) \o Slice(text, d, e) = Slice(text, 0, e)
      <4>1. text \in Seq(Symbols) /\ 0 \in Nat /\ d \in Nat /\ e \in Nat /\ f \in Nat
            /\ 0 <= d /\ d <= e /\ e <= f /\ e <= Len(text) /\ f <= Len(text)
        BY <1>1, <1>2 DEF Texts
      <4>2. ahead \in Texts
        BY <4>1, SliceProperties DEF ahead, Texts
      <4>3. Slice(text, d, e) \o Slice(text, e, f) = Slice(text, d, f)
        BY <4>1, SlicesJoin
      <4>4. Slice(text, 0, d) \o Slice(text, d, e) = Slice(text, 0, e)
        BY <4>1, SlicesJoin
      <4> QED
        BY <4>2, <4>3, <4>4 DEF ahead
    <3> HIDE DEF ahead
    <3>6. SettledOn(Texts, above, unit \o ahead)
      BY <3>1, <3>2, <3>5
    <3>7. SettledOn(Texts, above \o unit, ahead)
      BY <3>2, <3>3, <3>4, <3>5, <3>6 DEF HintsSettle
    <3>8. SettledOn(Texts, Slice(text, 0, e), Slice(text, e, f))
      BY <3>2, <3>5, <3>7 DEF ahead
    <3>9. m = 0 \/ OneLine(Slice(text, e, f))
      BY DEF e, f
    <3> QED
      BY <1>1, <1>2, <3>8, <3>9 DEF Open, f
  <2> QED
    BY <2>3, <2>4, <2>9, <2>14, <2>15 DEF Outcome, t
<1> QED
  BY <1>5, <1>6

(* A text that begins with a line and has another one: the last line       *)
(* starts behind the first.                                                *)
LEMMA FirstLineEndsBefore ==
  ASSUME NEW unit \in Texts, NEW n \in 0..Len(unit),
         n = 0 \/ OneLine(Slice(unit, 0, n)), LastLineStart(unit) > 0
  PROVE  n <= LastLineStart(unit)
<1> DEFINE first == Slice(unit, 0, n)
           tail == Slice(unit, n, Len(unit))
           k == LastLineStart(unit)
<1>1. unit \in Seq(Symbols) /\ Len(unit) \in Nat /\ n \in Nat /\ n <= Len(unit) /\ 0 \in Nat
      /\ 0 <= n /\ Len(unit) <= Len(unit) /\ k \in 0..Len(unit)
  BY LastLineStartRange DEF Texts
<1>2. /\ first \in Seq(Symbols) /\ Len(first) = n - 0
      /\ tail \in Seq(Symbols) /\ Len(tail) = Len(unit) - n
  BY <1>1, SliceProperties
<1>3. first \o tail = unit
  <2>1. first \o tail = Slice(unit, 0, Len(unit))
    BY <1>1, SlicesJoin
  <2> QED
    BY <1>1, <2>1, SliceWhole
<1> HIDE DEF first, tail
<1>4. CASE n = 0
  BY <1>1, <1>4
<1>5. CASE n # 0
  <2>1. EndsLine(first) /\ LastLineStart(first) = 0
    BY <1>5 DEF OneLine, first
  <2>2. CASE tail = <<>>
    <3>1. unit = first
      BY <1>2, <1>3, <2>2
    <3> QED
      BY <2>1, <3>1
  <2>3. CASE tail # <<>> /\ (tail = <<LF>> => first[Len(first)] # CR)
    <3>1. LastLineStart(first \o tail) = Len(first) + LastLineStart(tail)
      BY <1>2, <2>1, <2>3, LastLineStartBehind
    <3>2. LastLineStart(tail) \in Nat
      BY <1>2, LastLineStartRange
    <3> QED
      BY <1>1, <1>2, <1>3, <3>1, <3>2
  <2>4. CASE tail = <<LF>> /\ first[Len(first)] = CR
    <3>1. IsTerminated(first, CR)
      BY <2>1, <2>4 DEF IsTerminated, EndsLine
    <3>2. LastLineStart(first \o <<LF>>) = LastLineStart(first)
      BY <1>2, <3>1, LastLineStartOfPair
    <3>3. unit = first \o <<LF>>
      BY <1>3, <2>4
    <3>4. LastLineStart(unit) = 0
      BY <2>1, <3>2, <3>3
    <3> QED
      BY <3>4
  <2> QED
    BY <2>2, <2>3, <2>4
<1> QED
  BY <1>4, <1>5

(* The last line of a text ends as the text does.                          *)
LEMMA LastLineEnds ==
  ASSUME NEW unit \in Texts, EndsLine(unit)
  PROVE  OneLine(LastLine(unit))
<1> DEFINE k == LastLineStart(unit)
           line == LastLine(unit)
           l == Len(unit)
<1>1. /\ unit \in Seq(Symbols) /\ l \in Nat /\ k \in Nat /\ k <= l /\ unit # <<>> /\ k < l
      /\ unit[l] \in Terminators /\ l <= Len(unit)
  BY LastLineStartRange, LastLineIsNotEmpty DEF Texts, EndsLine
<1>2. line = Slice(unit, k, l)
  BY DEF LastLine
<1>3. /\ line \in Seq(Symbols) /\ Len(line) = l - k /\ line # <<>> /\ LastLineStart(line) = 0
  BY <1>1, LastLineIsALine
<1> HIDE DEF k, line, l
<1>4. \A i \in 1..(l - k) : line[i] = unit[k + i]
  BY <1>1, <1>2, SliceProperties
<1>5. l - k \in 1..(l - k) /\ k + (l - k) = l
  BY <1>1
<1>6. line[Len(line)] = unit[l]
  <2>1. line[l - k] = unit[k + (l - k)]
    BY <1>4, <1>5
  <2> QED
    BY <1>3, <1>5, <2>1
<1> QED
  BY <1>1, <1>3, <1>6 DEF OneLine, EndsLine, line

(* split_before_last_line: what the line leaves behind is closed, and the  *)
(* line is the next unit.                                                  *)
LEMMA SplitCore ==
  ASSUME Contract, host \in Hosts, NEW s, NEW text, NEW out, NEW fnd,
         Core(s, text, out, fnd), s.error = "none", NEW n, Open(text, Place(s), n),
         n <= Len(Unit(s)), EndsLine(Unit(s)), LastLineStart(Unit(s)) > 0,
         MayClose(Kept(UpToUnit(s, text)) # <<>>, LinesBeforeLast(Unit(s)), LastLine(Unit(s)))
  PROVE  LET t == SplitBeforeLastLine(s) IN
         /\ Outcome(t, text, out, fnd)
         /\ t.error = "none" =>
              /\ Unit(t) = LastLine(Unit(s))
              /\ Open(text, Place(t), Len(Unit(t)))
<1> DEFINE unit == Unit(s)
           k == LastLineStart(unit)
           l == Len(unit)
           line == LastLine(unit)
           d == Place(s)
           cut == [s EXCEPT !.retained = Slice(@, 0, s.unitStart + k)]
           closed == CloseUnit(cut)
           t == SplitBeforeLastLine(s)
           m == Len(line)
           a == d + k
           e == ReadTo(s)
<1>1. /\ text \in Texts /\ Sound(s, text) /\ InOrder(s) /\ Tidy(s) /\ unit \in Texts
      /\ unit \in Seq(Symbols) /\ d \in Nat /\ l \in Nat /\ unit = Slice(text, d, e)
      /\ e = d + l /\ e \in Nat /\ e <= Len(text) /\ text \in Seq(Symbols) /\ Len(text) \in Nat
  BY CoreParts DEF Core, Texts
<1>2. k \in 0..l /\ unit # <<>> /\ k < l /\ k > 0 /\ k \in Nat
  BY <1>1, LastLineStartRange, LastLineIsNotEmpty DEF EndsLine
<1>3. /\ line \in Seq(Symbols) /\ m = l - k /\ line = Slice(unit, k, l)
  BY <1>1, LastLineIsALine DEF LastLine
<1>4. OneLine(line)
  BY <1>1, LastLineEnds
<1>5. /\ a \in Nat /\ m \in Nat /\ a + m = e /\ d <= a /\ a <= e /\ d <= e /\ a <= Len(text)
      /\ n \in Nat /\ n <= l
  <2>1. n \in Nat
    BY DEF Open
  <2> HIDE DEF d, e, l, m, k
  <2> QED
    BY <1>1, <1>2, <1>3, <2>1 DEF l
<1>6. Slice(text, a, e) = line
  <2>1. d \in Nat /\ e \in Nat /\ k \in Nat /\ l \in Nat /\ d <= e /\ e <= Len(text) /\ k <= l
        /\ l <= e - d /\ d + l = e
    <3> HIDE DEF d, e, l, k
    <3> QED
      BY <1>1, <1>2
  <2> HIDE DEF d, e, l, k
  <2>2. Slice(Slice(text, d, e), k, l) = Slice(text, d + k, d + l)
    BY <1>1, <2>1, SliceOfSlice
  <2> QED
    BY <1>1, <1>3, <2>1, <2>2
<1>7. n <= k
  <2>1. n = 0 \/ OneLine(Slice(unit, 0, n))
    <3>1. n = 0 \/ OneLine(Slice(text, d, d + n))
      BY DEF Open
    <3>2. d \in Nat /\ e \in Nat /\ n \in Nat /\ 0 \in Nat /\ d <= e /\ e <= Len(text) /\ 0 <= n
          /\ n <= e - d /\ d + 0 = d
      <4> HIDE DEF d, e, l
      <4> QED
        BY <1>1, <1>5
    <3> HIDE DEF d, e
    <3>3. Slice(Slice(text, d, e), 0, n) = Slice(text, d + 0, d + n)
      BY <1>1, <3>2, SliceOfSlice
    <3> QED
      BY <1>1, <3>1, <3>2, <3>3
  <2>2. n \in 0..Len(unit)
    BY <1>5
  <2> HIDE DEF unit
  <2> QED
    BY <1>1, <1>2, <2>1, <2>2, FirstLineEndsBefore
<1>8. /\ Core(cut, text, out, fnd) /\ cut.error = "none" /\ Place(cut) = d
      /\ UpToUnit(cut, text) = UpToUnit(s, text)
      /\ ReadTo(cut) = a /\ Unit(cut) = LinesBeforeLast(unit)
      /\ Slice(s.retained, s.unitStart + k, Len(s.retained)) = line
  <2>1. /\ Sound(cut, text)
        /\ cut.error = s.error
        /\ Base(cut) = Base(s) /\ ReadTo(cut) = Base(s) + s.unitStart + k
        /\ Lead(cut) = Lead(s) /\ Batch(cut) = Batch(s) /\ cut.unitEnds = s.unitEnds
        /\ Unit(cut) = Slice(unit, 0, k)
        /\ Slice(s.retained, s.unitStart + k, Len(s.retained)) = Slice(unit, k, l)
    BY <1>1, <1>2, CutUnit
  <2>2. /\ cut.leadLen = s.leadLen /\ cut.unitStart = s.unitStart /\ cut.unitEnds = s.unitEnds
        /\ cut.finalizedBytes = s.finalizedBytes /\ cut.text = s.text /\ cut.found = s.found
        /\ cut.findingCount = s.findingCount /\ cut.placeholderCount = s.placeholderCount
    BY <1>1 DEF InOrder, Fields
  <2> HIDE DEF cut, k, l
  <2>3. Tidy(cut)
    BY <1>1, <2>1 DEF Tidy
  <2>4. Core(cut, text, out, fnd) /\ Place(cut) = Place(s)
        /\ UpToUnit(cut, text) = UpToUnit(s, text)
    BY <2>1, <2>2, <2>3, SameCore
  <2>5. ReadTo(cut) = Place(s) + k
    BY <2>1 DEF Place
  <2> QED
    BY <1>3, <2>1, <2>4, <2>5 DEF LinesBeforeLast, k
<1>9. t = IF closed.error # "none" THEN closed ELSE AppendRetained(closed, line, TRUE)
  BY <1>8 DEF SplitBeforeLastLine, AppendHeldLine
<1> HIDE DEF t, cut
<1>10. /\ Outcome(closed, text, out, fnd)
       /\ closed.error = "none" =>
            /\ Place(closed) = a /\ ReadTo(closed) = a
            /\ Open(text, a, m)
  <2>1. Len(Unit(cut)) = k
    <3>1. k \in Nat /\ 0 \in Nat /\ 0 <= k /\ k <= Len(unit)
      BY <1>2
    <3>2. Len(Slice(unit, 0, k)) = k - 0
      BY <1>1, <3>1, SliceProperties
    <3> QED
      BY <1>2, <1>8, <3>2 DEF LinesBeforeLast
  <2>2. MayClose(Kept(UpToUnit(cut, text)) # <<>>, Unit(cut),
                 Slice(text, ReadTo(cut), ReadTo(cut) + m))
    BY <1>5, <1>6, <1>8
  <2>3. m = 0 \/ OneLine(Slice(text, ReadTo(cut), ReadTo(cut) + m))
    BY <1>4, <1>5, <1>6, <1>8
  <2>4. EndsLine(Unit(cut))
    BY <2>2 DEF MayClose
  <2>5. m \in Nat /\ ReadTo(cut) + m <= Len(text) /\ n <= Len(Unit(cut))
    <3> HIDE DEF m, a, e, k
    <3> QED
      BY <1>1, <1>5, <1>7, <1>8, <2>1
  <2>6. Open(text, Place(cut), n)
    BY <1>8
  <2> HIDE DEF m, a
  <2>7. /\ Outcome(CloseUnit(cut), text, out, fnd)
        /\ CloseUnit(cut).error = "none" =>
              /\ Place(CloseUnit(cut)) = ReadTo(cut) /\ ReadTo(CloseUnit(cut)) = ReadTo(cut)
              /\ Open(text, ReadTo(cut), m)
    BY <1>8, <2>2, <2>3, <2>4, <2>5, <2>6, CloseUnitCore
  <2> QED
    BY <1>8, <2>7
<1> HIDE DEF closed
<1>11. CASE closed.error # "none"
  BY <1>9, <1>10, <1>11 DEF t
<1>12. CASE closed.error = "none"
  <2>1. Core(closed, text, out, fnd) /\ Open(text, Place(closed), m)
    BY <1>10, <1>12 DEF Outcome
  <2>2. Follows(line, closed, text)
    <3>1. ReadTo(closed) = a /\ ReadTo(closed) \in Nat /\ ReadTo(closed) <= e
      BY <1>5, <1>10, <1>12
    <3>2. Follows(Slice(text, ReadTo(closed), e), closed, text)
      <4> HIDE DEF e
      <4> QED
        BY <1>1, <3>1, NextFollows
    <3> QED
      BY <1>6, <3>1, <3>2
  <2> HIDE DEF line, m
  <2> DEFINE u == AppendRetained(closed, line, TRUE)
  <2>3. Outcome(u, text, out, fnd) /\ (u.error = "none" => Place(u) = Place(closed))
    BY <1>12, <2>1, <2>2, AppendRetainedCore
  <2>4. t = u
    BY <1>9, <1>12
  <2>5. t.error = "none" => Unit(t) = line
    BY <1>1, <1>2, SplitLeavesTheLine DEF t, line
  <2> HIDE DEF t, u
  <2>6. t.error = "none" => Open(text, Place(t), Len(Unit(t)))
    BY <2>1, <2>3, <2>4, <2>5 DEF m
  <2> QED
    BY <2>3, <2>4, <2>5, <2>6 DEF t, line
<1> QED
  BY <1>11, <1>12

(* What is held for an ID below it is held for nothing else.               *)
Waits(s) ==
  s.awsHeldLine # NoLine =>
    \E n \in 1..Len(Unit(s)) :
      /\ JudgedUpTo(Unit(s), n)
      /\ s.awsHeldLine = LastLineStart(Slice(Unit(s), 0, n))
      /\ ~HeldOtherwise(Slice(Unit(s), 0, n))

(* A session that may go on reading: its open unit begins with what        *)
(* settles the text above it.                                              *)
GoesOn(t, text) ==
  \E m \in 0..Len(Unit(t)) : Open(text, Place(t), m) /\ Waits(t)

(* Noting which line is held changes nothing else.                         *)
LEMMA NotedCore ==
  ASSUME NEW s, NEW text, NEW out, NEW fnd, Core(s, text, out, fnd), NEW line
  PROVE  LET t == [s EXCEPT !.awsHeldLine = line] IN
         /\ Core(t, text, out, fnd) /\ Place(t) = Place(s) /\ t.error = s.error
         /\ Unit(t) = Unit(s) /\ t.awsHeldLine = line
<1> DEFINE t == [s EXCEPT !.awsHeldLine = line]
<1>1. Sound(s, text) /\ InOrder(s) /\ Tidy(s) /\ DOMAIN s = Fields
  BY CoreParts DEF Core, InOrder
<1>2. t.awsHeldLine = line /\ Unit(t) = Unit(s) /\ Tidy(t)
  BY <1>1, NotedLine
<1>3. /\ DOMAIN t = Fields
      /\ t.retained = s.retained /\ t.leadLen = s.leadLen
      /\ t.unitStart = s.unitStart /\ t.unitEnds = s.unitEnds
      /\ t.finalizedBytes = s.finalizedBytes /\ t.totalInputBytes = s.totalInputBytes
      /\ t.text = s.text /\ t.found = s.found /\ t.error = s.error
      /\ t.findingCount = s.findingCount /\ t.placeholderCount = s.placeholderCount
  BY <1>1 DEF Fields
<1> HIDE DEF t
<1>4. Sound(t, text)
  BY <1>1, <1>3, SameBufferSound DEF SameBuffer
<1>5. Lead(t) = Lead(s)
  BY <1>3 DEF Lead
<1>6. Core(t, text, out, fnd) /\ Place(t) = Place(s)
  BY <1>2, <1>3, <1>4, <1>5, SameCore
<1> QED
  BY <1>2, <1>3, <1>6 DEF t

(* The last terminator of a text that ends with one is where it ends.      *)
LEMMA JudgedAtEnd ==
  ASSUME NEW unit \in Texts, EndsLine(unit)
  PROVE  /\ Len(unit) \in 1..Len(unit) /\ JudgedUpTo(unit, Len(unit))
         /\ Slice(unit, 0, Len(unit)) = unit
<1>1. unit \in Seq(Symbols) /\ Len(unit) \in Nat /\ unit # <<>> /\ unit[Len(unit)] \in Terminators
  BY DEF EndsLine, Texts
<1>2. Slice(unit, 0, Len(unit)) = unit
  BY <1>1, SliceWhole
<1>3. Len(unit) \in 1..Len(unit) /\ (Len(unit) + 1)..Len(unit) = {}
  BY <1>1
<1> QED
  BY <1>1, <1>2, <1>3 DEF JudgedUpTo

(* What append does with a line it has closed.                             *)
LEMMA JudgeLineCore ==
  ASSUME Contract, host \in Hosts, NEW s, NEW text, NEW out, NEW fnd,
         Core(s, text, out, fnd), s.error = "none", NEW n, Open(text, Place(s), n),
         n <= Len(Unit(s)), EndsLine(Unit(s)), ~BlockOpen(Unit(s)),
         s.awsHeldLine \notin {NoLine, LastLineStart(Unit(s))} =>
           LastLineStart(Unit(s)) > 0 /\ ~HeldOtherwise(LinesBeforeLast(Unit(s)))
  PROVE  LET t == JudgeLine(s) IN
         Outcome(t, text, out, fnd) /\ (t.error = "none" => GoesOn(t, text))
<1> DEFINE unit == Unit(s)
           other == OpenConstruct(unit)
           aws == OpenAwsCandidate(unit, LineAboveCarriesId(s))
           k == LastLineStart(unit)
           x == IF ~other /\ ~aws THEN CloseUnit(s)
                ELSE IF ~other /\ s.awsHeldLine \notin {NoLine, k} THEN SplitBeforeLastLine(s)
                ELSE s
           t == JudgeLine(s)
           above == UpToUnit(s, text)
<1>1. /\ text \in Texts /\ Sound(s, text) /\ unit \in Texts /\ unit \in Seq(Symbols)
      /\ ReadTo(s) \in Nat /\ ReadTo(s) <= Len(text) /\ Len(unit) \in Nat
      /\ text \in Seq(Symbols) /\ n \in Nat
  BY CoreParts DEF Texts, Open
<1>2. aws = OpenAwsCandidate(unit, Kept(above) # <<>>)
  BY AboveIsKept
<1>3. t = IF x.error # "none" THEN x
          ELSE [x EXCEPT !.awsHeldLine = IF ~other /\ aws THEN LastLineStart(Unit(x)) ELSE NoLine]
  BY DEF JudgeLine, HoldLine
<1> HIDE DEF t
<1> SUFFICES Outcome(t, text, out, fnd) /\ (t.error = "none" => GoesOn(t, text))
  BY DEF t
<1>4. ASSUME Outcome(x, text, out, fnd),
             x.error = "none" =>
               \E m \in 0..Len(Unit(x)) : Open(text, Place(x), m),
             x.error = "none" /\ ~other /\ aws => EndsLine(Unit(x)) /\ ~HeldOtherwise(Unit(x))
      PROVE  Outcome(t, text, out, fnd) /\ (t.error = "none" => GoesOn(t, text))
  <2> HIDE DEF x
  <2>1. CASE x.error # "none"
    BY <1>3, <1>4, <2>1
  <2>2. CASE x.error = "none"
    <3> DEFINE line == IF ~other /\ aws THEN LastLineStart(Unit(x)) ELSE NoLine
    <3>1. t = [x EXCEPT !.awsHeldLine = line]
      BY <1>3, <2>2
    <3>2. Core(x, text, out, fnd)
      BY <1>4, <2>2 DEF Outcome
    <3>3. /\ Core(t, text, out, fnd) /\ Place(t) = Place(x) /\ t.error = "none"
          /\ Unit(t) = Unit(x) /\ t.awsHeldLine = line
      <4> HIDE DEF line
      <4> QED
        BY <2>2, <3>1, <3>2, NotedCore
    <3>4. Waits(t)
      <4>1. CASE ~other /\ aws
        <5>1. EndsLine(Unit(x)) /\ ~HeldOtherwise(Unit(x)) /\ Unit(x) \in Texts
          BY <1>4, <2>2, <3>2, <4>1, CoreParts
        <5>2. t.awsHeldLine = LastLineStart(Unit(x))
          BY <3>3, <4>1
        <5>3. /\ Len(Unit(x)) \in 1..Len(Unit(x)) /\ JudgedUpTo(Unit(x), Len(Unit(x)))
              /\ Slice(Unit(x), 0, Len(Unit(x))) = Unit(x)
          BY <5>1, JudgedAtEnd
        <5> HIDE DEF line
        <5> QED
          BY <3>3, <5>1, <5>2, <5>3 DEF Waits
      <4>2. CASE ~(~other /\ aws)
        <5>1. t.awsHeldLine = NoLine
          BY <3>3, <4>2
        <5> QED
          BY <5>1 DEF Waits
      <4> QED
        BY <4>1, <4>2
    <3>5. PICK m \in 0..Len(Unit(x)) : Open(text, Place(x), m)
      BY <1>4, <2>2
    <3> QED
      BY <3>3, <3>4, <3>5 DEF Outcome, GoesOn
  <2> QED
    BY <2>1, <2>2
<1>5. CASE ~other /\ ~aws
  <2>1. x = CloseUnit(s)
    BY <1>5
  <2> HIDE DEF x, other, aws, unit, above
  <2>2. Slice(text, ReadTo(s), ReadTo(s) + 0) = <<>>
    <3>1. ReadTo(s) + 0 = ReadTo(s) /\ ReadTo(s) <= ReadTo(s) /\ ReadTo(s) - ReadTo(s) = 0
      BY <1>1
    <3>2. /\ Slice(text, ReadTo(s), ReadTo(s)) \in Seq(Symbols)
          /\ Len(Slice(text, ReadTo(s), ReadTo(s))) = ReadTo(s) - ReadTo(s)
      BY <1>1, <3>1, SliceProperties
    <3> QED
      BY <3>1, <3>2
  <2>3. MayClose(Kept(UpToUnit(s, text)) # <<>>, Unit(s), Slice(text, ReadTo(s), ReadTo(s) + 0))
    BY <1>2, <1>5, <2>2 DEF MayClose, other, aws, unit, above
  <2>4. 0 \in Nat /\ ReadTo(s) + 0 <= Len(text)
        /\ (0 = 0 \/ OneLine(Slice(text, ReadTo(s), ReadTo(s) + 0)))
    BY <1>1
  <2>5. /\ Outcome(CloseUnit(s), text, out, fnd)
        /\ CloseUnit(s).error = "none" =>
              /\ Place(CloseUnit(s)) = ReadTo(s) /\ ReadTo(CloseUnit(s)) = ReadTo(s)
              /\ Open(text, ReadTo(s), 0)
    BY <2>3, <2>4, CloseUnitCore
  <2>6. x.error = "none" => \E m \in 0..Len(Unit(x)) : Open(text, Place(x), m)
    <3> SUFFICES ASSUME x.error = "none"
                 PROVE  \E m \in 0..Len(Unit(x)) : Open(text, Place(x), m)
      OBVIOUS
    <3>1. Unit(x) \in Texts
      BY <2>1, <2>5, CoreParts DEF Outcome
    <3>2. 0 \in 0..Len(Unit(x))
      BY <3>1 DEF Texts
    <3> QED
      BY <2>1, <2>5, <3>2
  <2> QED
    BY <1>4, <1>5, <2>1, <2>5, <2>6
<1>6. CASE ~other /\ aws /\ s.awsHeldLine \notin {NoLine, k}
  <2>1. x = SplitBeforeLastLine(s)
    BY <1>6
  <2>2. k > 0 /\ ~HeldOtherwise(LinesBeforeLast(unit))
    BY <1>6
  <2>3. /\ k \in Nat /\ k <= Len(unit) /\ unit[k] \in Terminators /\ 0 \in Nat /\ 0 <= k
        /\ Len(unit) <= Len(unit)
    BY <1>1, <2>2, LastLineStartIs, LastLineStartRange
  <2>4. EndsLine(LinesBeforeLast(unit))
    <3>1. /\ LinesBeforeLast(unit) \in Seq(Symbols) /\ Len(LinesBeforeLast(unit)) = k - 0
          /\ \A i \in 1..(k - 0) : LinesBeforeLast(unit)[i] = unit[0 + i]
      <4> HIDE DEF k
      <4> QED
        BY <1>1, <2>3, SliceProperties DEF LinesBeforeLast, k
    <3>2. k \in 1..(k - 0) /\ 0 + k = k /\ k - 0 = k
      BY <2>2, <2>3
    <3>3. LinesBeforeLast(unit)[k] = unit[k]
      BY <3>1, <3>2
    <3> HIDE DEF k
    <3> QED
      BY <2>2, <2>3, <3>1, <3>2, <3>3 DEF EndsLine
  <2>5. LinesBeforeLast(unit) \o LastLine(unit) = unit
    <3>1. Slice(unit, 0, k) \o Slice(unit, k, Len(unit)) = Slice(unit, 0, Len(unit))
      <4> HIDE DEF k
      <4> QED
        BY <1>1, <2>3, SlicesJoin
    <3> QED
      BY <1>1, <3>1, SliceWhole DEF LinesBeforeLast, LastLine
  <2>6. OneLine(LastLine(unit))
    BY <1>1, LastLineEnds
  <2> DEFINE rest_ == LinesBeforeLast(unit)
             line == LastLine(unit)
  <2>7. MayClose(Kept(above) # <<>>, rest_, line)
    <3>1. ~BlockOpen(unit) /\ ~OpenConstruct(unit) /\ OpenAwsCandidate(unit, Kept(above) # <<>>)
      BY <1>2, <1>6
    <3>2. /\ EndsLine(rest_) /\ ~BlockOpen(rest_) /\ ~OpenConstruct(rest_)
          /\ OneLine(line) /\ rest_ \o line = unit /\ LastLine(unit) = line
      BY <2>2, <2>4, <2>5, <2>6 DEF HeldOtherwise
    <3> HIDE DEF rest_, line, unit, above
    <3> QED
      BY <3>1, <3>2 DEF MayClose
  <2> HIDE DEF x, other, aws
  <2>8. /\ Outcome(x, text, out, fnd)
        /\ x.error = "none" => Unit(x) = LastLine(unit) /\ Open(text, Place(x), Len(Unit(x)))
    BY <2>1, <2>2, <2>7, SplitCore
  <2>9. x.error = "none" => \E m \in 0..Len(Unit(x)) : Open(text, Place(x), m)
    <3>1. LastLine(unit) \in Seq(Symbols)
      BY <1>1, LastLineIsALine
    <3>2. Len(LastLine(unit)) \in 0..Len(LastLine(unit))
      BY <3>1
    <3> QED
      BY <2>8, <3>2
  <2>10. ~HeldOtherwise(LastLine(unit))
    <3>1. HintsReadTheLastLine(Texts)
      BY DEF Contract, SessionContract
    <3> QED
      BY <1>1, <1>6, <2>2, <3>1 DEF HintsReadTheLastLine, HeldOtherwise, other
  <2> QED
    BY <1>4, <2>6, <2>8, <2>9, <2>10 DEF OneLine
<1>7. CASE other \/ (aws /\ s.awsHeldLine \in {NoLine, k})
  <2>1. x = s
    BY <1>7
  <2>2. n \in 0..Len(Unit(s))
    BY <1>1
  <2>3. ~other => ~HeldOtherwise(Unit(s))
    BY DEF HeldOtherwise
  <2> HIDE DEF x
  <2> QED
    BY <1>4, <2>1, <2>2, <2>3 DEF Outcome
<1> QED
  BY <1>5, <1>6, <1>7

(* Text without a terminator leaves the last terminator where it was.      *)
LEMMA JudgedStays ==
  ASSUME NEW unit \in Texts, NEW n \in 0..Len(unit), JudgedUpTo(unit, n),
         NEW piece \in Texts, \A i \in 1..Len(piece) : piece[i] \notin Terminators
  PROVE  /\ n \in 0..Len(unit \o piece) /\ JudgedUpTo(unit \o piece, n)
         /\ Slice(unit \o piece, 0, n) = Slice(unit, 0, n)
<1> DEFINE a == Len(unit)
           m == Len(piece)
           whole == unit \o piece
<1>1. /\ a \in Nat /\ m \in Nat /\ n \in 0..a /\ Len(whole) = a + m
      /\ \A i \in 1..a : whole[i] = unit[i]
      /\ \A i \in 1..m : whole[a + i] = piece[i]
      /\ unit \in Seq(Symbols) /\ piece \in Seq(Symbols)
  BY Concatenated DEF Texts
<1>2. Slice(whole, 0, n) = Slice(unit, 0, n)
  <2>1. 0 \in Nat /\ n \in Nat /\ 0 <= n /\ n <= Len(unit)
    BY <1>1
  <2> QED
    BY <1>1, <2>1, SliceOfFirst
<1> HIDE DEF a, m, whole
<1>3. ASSUME NEW i \in (n + 1)..(a + m)
      PROVE  whole[i] \notin Terminators
  <2>1. CASE i <= a
    <3>1. i \in 1..a /\ i \in (n + 1)..a
      BY <1>1, <2>1
    <3>2. unit[i] \notin Terminators
      BY <3>1 DEF JudgedUpTo, a
    <3> QED
      BY <1>1, <3>1, <3>2
  <2>2. CASE ~(i <= a)
    <3> DEFINE j == i - a
    <3>1. j \in 1..m /\ a + j = i
      BY <1>1, <2>2
    <3> HIDE DEF j
    <3>2. piece[j] \notin Terminators
      BY <3>1 DEF m
    <3> QED
      BY <1>1, <3>1, <3>2
  <2> QED
    BY <2>1, <2>2
<1>4. n = 0 \/ whole[n] \in Terminators
  <2>1. n = 0 \/ n \in 1..a
    BY <1>1
  <2> QED
    BY <1>1, <2>1 DEF JudgedUpTo
<1>5. n \in 0..(a + m)
  BY <1>1
<1> QED
  BY <1>1, <1>2, <1>3, <1>4, <1>5 DEF JudgedUpTo, whole

(* One turn of append's loop.                                              *)
LEMMA TakePieceCore ==
  ASSUME Contract, host \in Hosts, NEW s, NEW text, NEW out, NEW fnd,
         Core(s, text, out, fnd), s.error = "none", GoesOn(s, text),
         NEW piece, Follows(piece, s, text), piece # <<>>,
         \A i \in 1..(Len(piece) - 1) : piece[i] \notin Terminators
  PROVE  LET t == TakePiece(s, piece, piece[Len(piece)] \in Terminators) IN
         Outcome(t, text, out, fnd) /\ (t.error = "none" => GoesOn(t, text))
<1> DEFINE closes == piece[Len(piece)] \in Terminators
           taken == AppendRetained(s, piece, closes)
           t == TakePiece(s, piece, closes)
           unit == Unit(s)
           whole == unit \o piece
<1>1. t = IF taken.error # "none" \/ ~closes THEN taken
          ELSE IF taken.multilineOpen THEN [taken EXCEPT !.awsHeldLine = NoLine]
          ELSE JudgeLine(taken)
  BY DEF TakePiece, JudgeClosedLine
<1>2. PICK n \in 0..Len(unit) : Open(text, Place(s), n) /\ Waits(s)
  BY DEF GoesOn
<1>3. Sound(s, text) /\ Tidy(s) /\ unit \in Texts /\ piece \in Texts
      /\ unit \in Seq(Symbols) /\ piece \in Seq(Symbols)
  BY CoreParts DEF Core, Follows, Texts
<1>4. Outcome(taken, text, out, fnd) /\ (taken.error = "none" => Place(taken) = Place(s))
  <2> HIDE DEF closes
  <2> QED
    BY <1>2, AppendRetainedCore
<1>5. taken.error = "none" =>
        /\ Unit(taken) = whole
        /\ taken.awsHeldLine = s.awsHeldLine
        /\ taken.multilineOpen = BlockOpen(Unit(taken))
  <2> HIDE DEF closes
  <2> QED
    BY <1>3, AppendRetainedGrows
<1> HIDE DEF taken, t, closes
<1> SUFFICES Outcome(t, text, out, fnd) /\ (t.error = "none" => GoesOn(t, text))
  BY DEF t, closes
<1>6. CASE taken.error # "none"
  <2>1. t = taken
    BY <1>1, <1>6
  <2> QED
    BY <1>4, <1>6, <2>1
<1>7. CASE taken.error = "none"
  <2>1. Core(taken, text, out, fnd) /\ Place(taken) = Place(s) /\ Unit(taken) = whole
        /\ taken.awsHeldLine = s.awsHeldLine
        /\ taken.multilineOpen = BlockOpen(Unit(taken))
    BY <1>4, <1>5, <1>7 DEF Outcome
  <2>2. Open(text, Place(taken), n) /\ n \in Nat /\ n <= Len(Unit(taken)) /\ n \in 0..Len(Unit(taken))
    <3>1. Len(whole) = Len(unit) + Len(piece) /\ Len(unit) \in Nat /\ Len(piece) \in Nat
      BY <1>3, Concatenated
    <3> QED
      BY <1>2, <2>1, <3>1
  <2>3. CASE ~closes
    <3>1. t = taken
      BY <1>1, <2>3
    <3>2. \A i \in 1..Len(piece) : piece[i] \notin Terminators
      <4>1. \A i \in 1..Len(piece) : i \in 1..(Len(piece) - 1) \/ i = Len(piece)
        BY <1>3
      <4> QED
        BY <2>3, <4>1 DEF closes
    <3>3. Waits(taken)
      <4> SUFFICES ASSUME taken.awsHeldLine # NoLine
                   PROVE  \E i \in 1..Len(whole) :
                            /\ JudgedUpTo(whole, i)
                            /\ s.awsHeldLine = LastLineStart(Slice(whole, 0, i))
                            /\ ~HeldOtherwise(Slice(whole, 0, i))
        BY <2>1 DEF Waits
      <4>1. PICK i \in 1..Len(unit) :
              /\ JudgedUpTo(unit, i)
              /\ s.awsHeldLine = LastLineStart(Slice(unit, 0, i))
              /\ ~HeldOtherwise(Slice(unit, 0, i))
        BY <1>2, <2>1 DEF Waits
      <4>2. i \in 0..Len(unit)
        BY <4>1
      <4> HIDE DEF unit
      <4>3. /\ i \in 0..Len(whole) /\ JudgedUpTo(whole, i)
            /\ Slice(whole, 0, i) = Slice(unit, 0, i)
        BY <1>3, <3>2, <4>1, <4>2, JudgedStays
      <4>4. i \in 1..Len(whole)
        BY <4>1, <4>3
      <4> QED
        BY <4>1, <4>3, <4>4
    <3> QED
      BY <2>1, <2>2, <3>1, <3>3, <1>7 DEF Outcome, GoesOn
  <2>4. CASE closes /\ taken.multilineOpen
    <3>1. t = [taken EXCEPT !.awsHeldLine = NoLine]
      BY <1>1, <1>7, <2>4
    <3>2. /\ Core(t, text, out, fnd) /\ Place(t) = Place(taken) /\ t.error = "none"
          /\ Unit(t) = Unit(taken) /\ t.awsHeldLine = NoLine
      BY <1>7, <2>1, <3>1, NotedCore
    <3>3. Waits(t)
      BY <3>2 DEF Waits
    <3> QED
      BY <2>2, <3>2, <3>3 DEF Outcome, GoesOn
  <2>5. CASE closes /\ ~taken.multilineOpen
    <3>1. t = JudgeLine(taken)
      BY <1>1, <1>7, <2>5
    <3>2. EndsLine(piece)
      BY <2>5 DEF closes, EndsLine
    <3>3. ~BlockOpen(whole)
      BY <2>1, <2>5
    <3>4. EndsLine(whole)
      <4> HIDE DEF unit
      <4> DEFINE p == Len(piece)
                 a == Len(unit)
      <4>1. /\ a \in Nat /\ p \in Nat /\ p # 0 /\ Len(whole) = a + p
            /\ \A i \in 1..p : whole[a + i] = piece[i]
            /\ piece[p] \in Terminators /\ whole \in Seq(Symbols)
        BY <1>3, <3>2, Concatenated DEF EndsLine
      <4> HIDE DEF p, a, whole
      <4>2. p \in 1..p /\ a + p # 0
        BY <4>1
      <4>3. whole[Len(whole)] = piece[p] /\ whole # <<>>
        BY <4>1, <4>2
      <4> QED
        BY <4>1, <4>3 DEF EndsLine
    <3>5. taken.awsHeldLine \notin {NoLine, LastLineStart(whole)} =>
            LastLineStart(whole) > 0 /\ ~HeldOtherwise(LinesBeforeLast(whole))
      <4> SUFFICES ASSUME s.awsHeldLine # NoLine, s.awsHeldLine # LastLineStart(whole)
                   PROVE  LastLineStart(whole) > 0 /\ ~HeldOtherwise(LinesBeforeLast(whole))
        BY <2>1
      <4>1. PICK i \in 1..Len(unit) :
              /\ JudgedUpTo(unit, i)
              /\ s.awsHeldLine = LastLineStart(Slice(unit, 0, i))
              /\ ~HeldOtherwise(Slice(unit, 0, i))
        BY <1>2 DEF Waits
      <4>2. i \in 0..Len(unit) /\ i \in Nat /\ 0 \in Nat /\ 0 <= i /\ i <= Len(unit) /\ i > 0
        BY <1>3, <4>1
      <4> DEFINE held == Slice(unit, 0, i)
      <4>3. held \in Seq(Symbols) /\ Len(held) = i - 0
        <5> HIDE DEF unit
        <5> QED
          BY <1>3, <4>2, SliceProperties
      <4>4. held # <<>> =>
              \/ LastLineStart(whole) = Len(held) /\ LinesBeforeLast(whole) = held
              \/ IsTerminated(held, CR) /\ whole = held \o <<LF>>
        <5> HIDE DEF unit
        <5> QED
          BY <1>3, <3>2, <4>1, <4>2, NextLine, Zenon
      <4> HIDE DEF held, whole
      <4>5. held # <<>>
        BY <4>2, <4>3
      <4>6. CASE LastLineStart(whole) = Len(held) /\ LinesBeforeLast(whole) = held
        BY <4>1, <4>2, <4>3, <4>6 DEF held
      <4>7. CASE IsTerminated(held, CR) /\ whole = held \o <<LF>>
        <5>1. LastLineStart(held \o <<LF>>) = LastLineStart(held)
          BY <4>3, <4>7, LastLineStartOfPair
        <5>2. s.awsHeldLine = LastLineStart(held)
          BY <4>1 DEF held
        <5> QED
          BY <4>7, <5>1, <5>2
      <4> QED
        BY <4>4, <4>5, <4>6, <4>7
    <3> HIDE DEF whole
    <3>6. /\ EndsLine(Unit(taken)) /\ ~BlockOpen(Unit(taken))
          /\ taken.awsHeldLine \notin {NoLine, LastLineStart(Unit(taken))} =>
               LastLineStart(Unit(taken)) > 0 /\ ~HeldOtherwise(LinesBeforeLast(Unit(taken)))
      BY <2>1, <3>3, <3>4, <3>5
    <3> QED
      BY <1>7, <2>1, <2>2, <3>1, <3>6, JudgeLineCore
  <2> QED
    BY <2>3, <2>4, <2>5
<1> QED
  BY <1>6, <1>7

(* The operators that the abstract specification takes from its own copy   *)
(* of the libraries and of the reference are the session's.                *)
LEMMA AbstractPrefix ==
  ASSUME NEW a, NEW b
  PROVE  Abstract!IsPrefix(a, b) = IsPrefix(a, b)
  BY DEF Abstract!IsPrefix, IsPrefix

(* Counting is the same in both.                                           *)
LEMMA AbstractCardinality ==
  ASSUME NEW S
  PROVE  Abstract!Cardinality(S) = Cardinality(S)
  BY DEF Abstract!Cardinality, Cardinality

(* Putting pieces together is the same in both.                            *)
LEMMA AbstractFlatten ==
  ASSUME NEW parts
  PROVE  Abstract!FlattenSeq(parts) = FlattenSeq(parts)
  BY DEF Abstract!FlattenSeq, FlattenSeq

(* Redaction is the same in both.                                          *)
LEMMA AbstractRedacted ==
  ASSUME NEW h, NEW text, NEW marks
  PROVE  Abstract!Redacted(h, text, marks, 0) = Redacted(h, text, marks, 0)
<1> DEFINE replaced == {f \in marks : Replaces(f)}
           Emitted(p) ==
             IF \E f \in replaced : f.start = p
               THEN Formatted(h, 0 + Cardinality({f \in replaced : f.start <= p}))
             ELSE IF \E f \in replaced : f.start < p /\ p < f.end THEN <<>>
             ELSE <<text[p + 1]>>
           also == {f \in marks : Abstract!Replaces(f)}
           AlsoEmitted(p) ==
             IF \E f \in also : f.start = p
               THEN Abstract!Formatted(h, 0 + Abstract!Cardinality({f \in also : f.start <= p}))
             ELSE IF \E f \in also : f.start < p /\ p < f.end THEN <<>>
             ELSE <<text[p + 1]>>
<1>1. also = replaced
  BY DEF Abstract!Replaces, Replaces
<1>2. ASSUME NEW number
      PROVE  Abstract!Formatted(h, number) = Formatted(h, number)
  BY DEF Abstract!Formatted, Formatted
<1> HIDE DEF also, replaced
<1>3. ASSUME NEW p PROVE AlsoEmitted(p) = Emitted(p)
  <2>1. Abstract!Cardinality({f \in also : f.start <= p})
          = Cardinality({f \in replaced : f.start <= p})
    BY <1>1, AbstractCardinality
  <2> QED
    BY <1>1, <1>2, <2>1
<1> HIDE DEF Emitted, AlsoEmitted
<1>4. [i \in 1..Len(text) |-> AlsoEmitted(i - 1)] = [i \in 1..Len(text) |-> Emitted(i - 1)]
  BY <1>3
<1>5. /\ Abstract!Redacted(h, text, marks, 0)
           = Abstract!FlattenSeq([i \in 1..Len(text) |-> AlsoEmitted(i - 1)])
      /\ Redacted(h, text, marks, 0) = FlattenSeq([i \in 1..Len(text) |-> Emitted(i - 1)])
  BY DEF Abstract!Redacted, Redacted, Emitted, AlsoEmitted, also, replaced
<1> QED
  BY <1>4, <1>5, AbstractFlatten

(* The abstract specification's whole-input call is the session's.         *)
LEMMA AbstractWhole ==
  ASSUME NEW h, NEW text
  PROVE  Abstract!WholeInput(h, text) = WholeInput(h, text)
<1>1. Abstract!DetectUnits(text, 0, {}) = DetectUnits(text, 0, {})
  BY DEF Abstract!DetectUnits, Abstract!ResolveUnits, Abstract!Crosses, Abstract!Moved,
         DetectUnits, ResolveUnits, Crosses, Moved
<1>2. ASSUME NEW f, NEW marks PROVE Abstract!Rank(f, marks) = Rank(f, marks)
  BY AbstractCardinality DEF Abstract!Rank, Rank
<1>3. ASSUME NEW ranges
      PROVE  /\ Abstract!Finalized(h, ranges, 0) = Finalized(h, ranges, 0)
             /\ Abstract!PolicyFails(h, ranges) = PolicyFails(h, ranges)
  BY <1>2 DEF Abstract!Finalized, Abstract!PolicyFails, Finalized, PolicyFails
<1>4. ASSUME NEW number
      PROVE  Abstract!Formatted(h, number) = Formatted(h, number)
  BY DEF Abstract!Formatted, Formatted
<1>5. ASSUME NEW placeholder, NEW marks
      PROVE  Abstract!Reproduces(placeholder, text, marks) = Reproduces(placeholder, text, marks)
  BY DEF Abstract!Reproduces, Abstract!Occurs, Abstract!Slice, Reproduces, Occurs, Slice
<1>6. ASSUME NEW marks
      PROVE  Abstract!RedactError(h, text, marks, 0) = RedactError(h, text, marks, 0)
  <2>1. {f \in marks : Abstract!Replaces(f)} = {f \in marks : Replaces(f)}
    BY DEF Abstract!Replaces, Replaces
  <2> QED
    BY <1>2, <1>4, <1>5, <2>1 DEF Abstract!RedactError, RedactError
<1> QED
  BY <1>1, <1>3, <1>6, AbstractRedacted DEF Abstract!WholeInput, WholeInput

------------------------------------------------------------------------------
(* The steps of a session, and the steps of the abstract specification.    *)

(* What the refinement rests on: what was released is what one call on the *)
(* text above returns, the open unit begins with what settles that text,   *)
(* and the code of a failure is the one the whole input would show.        *)
RInv ==
  /\ host \in Hosts
  /\ FailuresKeepTheirOrder
  /\ Accepting =>
       /\ result = "ok"
       /\ Core(session, fed, output, findings)
       /\ GoesOn(session, fed)
       /\ ~running => session.text = <<>> /\ session.found = {}

(* A step of the session is a step of the abstract specification, or it is *)
(* not visible there.                                                      *)
Refines == Abstract!AbsNext \/ UNCHANGED Abstract!absVars

(* The invariant is about the next state as about this one.                *)
LEMMA RInvNext ==
  ASSUME host \in Hosts, host' = host, FailuresKeepTheirOrder',
         Accepting' =>
           /\ result' = "ok"
           /\ Core(session', fed', output', findings')
           /\ GoesOn(session', fed')
           /\ ~running' => session'.text = <<>> /\ session'.found = {}
  PROVE  RInv'
  BY DEF RInv, Accepting, Core, Released

(* Only a failure's code has something to say.                             *)
LEMMA NoFailure ==
  ASSUME result' \in {"ok", "InvalidState"}
  PROVE  FailuresKeepTheirOrder'
  BY DEF FailuresKeepTheirOrder, LimitErrors, StageErrors

(* fail_with: nothing is released, and the failure is in its order.        *)
LEMMA FailStops ==
  ASSUME host \in Hosts, Accepting, NEW s, InOrder(s), NEW error, Fail(s, error),
         host' = host, fed' = fed, fed \in Texts,
         error \in StageErrors => WholeInput(host, fed).error # "none",
         error \in LimitErrors => WholeInput(host, Slice(fed, 0, Place(s))).error = "none"
  PROVE  RInv' /\ Refines
<1>1. DOMAIN DiscardRetained(s) = Fields
  BY DiscardRetainedFields
<1>2. session' = [DiscardRetained(s) EXCEPT !.state = "failed", !.text = <<>>,
                                            !.found = {}, !.error = "none"]
      /\ failedUnit' = s.finalizedBytes + s.unitStart - s.leadLen
      /\ result' = error /\ output' = output /\ findings' = findings
  BY DEF Fail
<1>3. session'.state = "failed"
  BY <1>1, <1>2 DEF Fields
<1>4. failedUnit' = Place(s)
  BY <1>2 DEF Place, Base, InOrder
<1>5. FailuresKeepTheirOrder'
  BY <1>2, <1>4 DEF FailuresKeepTheirOrder
<1>6. RInv'
  BY <1>3, <1>5, RInvNext DEF Accepting
<1>7. IsPrefix(fed, fed')
  BY DEF IsPrefix, Texts
<1>8. Abstract!Stop
  BY <1>2, <1>3, <1>7, AbstractPrefix DEF Abstract!Stop, Accepting
<1> QED
  BY <1>6, <1>8 DEF Refines, Abstract!AbsNext

(* What has been released is a beginning of what one call on all of the    *)
(* text returns.                                                           *)
LEMMA ReleasedFollows ==
  ASSUME Contract, host \in Hosts, NEW text \in Texts, NEW s, NEW out, NEW fnd,
         Released(s, text, out, fnd), s.text = <<>>, s.found = {},
         CutIn(text, s.finalizedBytes), WholeInput(host, text).error = "none"
  PROVE  /\ IsPrefix(out, WholeInput(host, text).text)
         /\ fnd \subseteq WholeInput(host, text).findings
<1>1. Finds(Texts) /\ PlaceholdersAreTexts(Nat) /\ PolicyIsTotal(host)
  BY HostsAssumption DEF Contract, SessionContract, Finds, PolicyIsTotal
<1> DEFINE above == WholeInput(host, Slice(text, 0, s.finalizedBytes))
<1>2. above.error = "none" /\ out = above.text /\ fnd = above.findings
  <2>1. above.error = "none" /\ out \in Seq(Letters) /\ out \o <<>> = above.text
        /\ fnd \cup {} = above.findings
    BY DEF Released, Above
  <2>2. out \o <<>> = out
    BY <2>1, JoinedToNothing
  <2> QED
    BY <2>1, <2>2
<1>3. /\ IsPrefix(above.text, WholeInput(host, text).text)
      /\ above.findings \subseteq WholeInput(host, text).findings
  BY <1>1, <1>2, Grows
<1> QED
  BY <1>2, <1>3

(* Text is accepted: what was released so far may stay, and what is        *)
(* released now was final.                                                 *)
LEMMA AcceptsMore ==
  ASSUME Accepting, Accepting', host' = host, IsPrefix(fed, fed'),
         IsPrefix(output, output'), findings \subseteq findings',
         WholeInput(host, fed').error = "none" =>
           /\ IsPrefix(output', WholeInput(host, fed').text)
           /\ findings' \subseteq WholeInput(host, fed').findings
  PROVE  Refines
<1>1. Abstract!WholeInput(host, fed') = WholeInput(host, fed')
  BY AbstractWhole
<1>2. Abstract!Accept
  BY <1>1, AbstractPrefix DEF Abstract!Accept, Abstract!Extends, Accepting
<1> QED
  BY <1>2 DEF Refines, Abstract!AbsNext

(* The results of a call are the caller's once it returns.                 *)
LEMMA HandedOver ==
  ASSUME NEW s, NEW text, NEW out, NEW fnd, Core(s, text, out, fnd)
  PROVE  LET t == [s EXCEPT !.text = <<>>, !.found = {}] IN
         /\ Core(t, text, out \o s.text, fnd \cup s.found)
         /\ t.text = <<>> /\ t.found = {} /\ t.state = s.state
         /\ Place(t) = Place(s) /\ Unit(t) = Unit(s) /\ t.awsHeldLine = s.awsHeldLine
         /\ t.unitEnds = s.unitEnds /\ t.finalizedBytes = s.finalizedBytes
         /\ out \in Seq(Letters) /\ s.text \in Seq(Letters)
<1> DEFINE t == [s EXCEPT !.text = <<>>, !.found = {}]
<1>1. Sound(s, text) /\ DOMAIN s = Fields
  BY CoreParts DEF InOrder
<1>2. /\ DOMAIN t = Fields
      /\ t.retained = s.retained /\ t.leadLen = s.leadLen
      /\ t.unitStart = s.unitStart /\ t.unitEnds = s.unitEnds
      /\ t.finalizedBytes = s.finalizedBytes /\ t.totalInputBytes = s.totalInputBytes
      /\ t.awsHeldLine = s.awsHeldLine /\ t.state = s.state
      /\ t.findingCount = s.findingCount /\ t.placeholderCount = s.placeholderCount
      /\ t.text = <<>> /\ t.found = {}
  BY <1>1 DEF Fields
<1> HIDE DEF t
<1>3. Sound(t, text)
  BY <1>1, <1>2, SameBufferSound DEF SameBuffer
<1>4. Tidy(t)
  BY <1>2 DEF Core, Tidy, Lead, Batch
<1>5. Lead(t) = Lead(s) /\ Above(t, text) = Above(s, text) /\ Base(t) = Base(s)
      /\ Place(t) = Place(s) /\ Unit(t) = Unit(s)
  BY <1>2 DEF Lead, Above, Base, Place, Unit
<1>6. EdgesOf(t) = EdgesOf(s)
  BY <1>2, <1>5 DEF EdgesOf
<1>7. ClosedOn(t, text)
  BY <1>2, <1>6 DEF ClosedOn, Core
<1>8. Released(s, text, out, fnd)
  BY DEF Core
<1>9. out \in Seq(Letters) /\ s.text \in Seq(Letters)
  BY <1>8 DEF Released
<1>10. out \o s.text \in Seq(Letters) /\ (out \o s.text) \o <<>> = out \o s.text
       /\ <<>> \in Seq(Letters)
  <2> DEFINE given == s.text
             all == out \o given
  <2>1. all \in Seq(Letters)
    <3>1. given \in Seq(Letters)
      BY <1>9
    <3> HIDE DEF given
    <3> QED
      BY <1>9, <3>1, Joined
  <2> HIDE DEF all
  <2>2. all \o <<>> = all
    BY <2>1, JoinedToNothing
  <2> QED
    BY <2>1, <2>2 DEF all
<1>11. Released(t, text, out \o s.text, fnd \cup s.found)
  BY <1>2, <1>5, <1>8, <1>10 DEF Released
<1>12. Core(t, text, out \o s.text, fnd \cup s.found)
  BY <1>2, <1>3, <1>4, <1>5, <1>7, <1>11 DEF Core
<1> QED
  BY <1>2, <1>5, <1>9, <1>12 DEF t

(* A step that only the session sees.                                      *)
LEMMA StaysHidden ==
  ASSUME session'.state = session.state, host' = host, fed' = fed,
         output' = output, findings' = findings
  PROVE  Refines
  BY DEF Refines, Abstract!absVars

(* Between calls everything closed has been released, so the text may be   *)
(* cut where the open unit begins.                                         *)
LEMMA IdlePlace ==
  ASSUME NEW s, InOrder(s), s.unitEnds = <<>>
  PROVE  s.finalizedBytes = Place(s) /\ Place(s) \in Nat
  BY DEF InOrder, Place, Base

(* More text to read disturbs nothing that was read.                       *)
LEMMA GrownCore ==
  ASSUME NEW s, NEW t, NEW text, NEW chunk \in Texts, NEW out, NEW fnd,
         Core(s, text, out, fnd), GoesOn(s, text), s.unitEnds = <<>>,
         Sound(t, text \o chunk),
         t.retained = s.retained, t.leadLen = s.leadLen, t.unitStart = s.unitStart,
         t.unitEnds = s.unitEnds, t.finalizedBytes = s.finalizedBytes,
         t.text = s.text, t.found = s.found, t.awsHeldLine = s.awsHeldLine,
         t.findingCount = s.findingCount, t.placeholderCount = s.placeholderCount
  PROVE  Core(t, text \o chunk, out, fnd) /\ GoesOn(t, text \o chunk)
         /\ CutIn(text \o chunk, t.finalizedBytes) /\ text \o chunk \in Texts
<1> DEFINE whole == text \o chunk
           p == s.finalizedBytes
<1>1. /\ text \in Texts /\ InOrder(s) /\ text \in Seq(Symbols) /\ chunk \in Seq(Symbols)
      /\ Place(s) \in Nat /\ Place(s) <= Len(text) /\ p = Place(s)
  BY CoreParts, IdlePlace DEF Texts
<1>2. whole \in Seq(Symbols) /\ whole \in Texts /\ Len(whole) = Len(text) + Len(chunk)
      /\ Len(whole) \in Nat /\ Len(text) \in Nat /\ Len(text) <= Len(whole)
  BY <1>1, Concatenated DEF Texts
<1> HIDE DEF whole
<1>3. Unit(t) = Unit(s) /\ Place(t) = Place(s) /\ Lead(t) = Lead(s) /\ Batch(t) = Batch(s)
  BY DEF Unit, Place, Base, Lead, Batch
<1>4. Above(t, whole) = Above(s, text)
  <2>1. p \in Nat /\ 0 \in Nat /\ 0 <= p /\ p <= Len(text)
    BY <1>1
  <2> HIDE DEF p
  <2>2. Slice(text \o chunk, 0, p) = Slice(text, 0, p)
    BY <1>1, <2>1, SliceOfFirst
  <2> QED
    BY <2>2 DEF Above, p, whole
<1>5. Tidy(t) /\ Released(t, whole, out, fnd)
  BY <1>3, <1>4 DEF Core, Tidy, Released
<1>6. ClosedOn(t, whole)
  BY DEF ClosedOn
<1>7. Core(t, whole, out, fnd)
  BY <1>2, <1>3, <1>4, <1>5, <1>6 DEF Core, whole
<1>8. PICK m \in 0..Len(Unit(s)) : Open(text, Place(s), m) /\ Waits(s)
  BY DEF GoesOn
<1>9. Open(whole, Place(t), m)
  <2> DEFINE d == Place(s)
             e == d + m
  <2>1. d \in Nat /\ m \in Nat /\ e <= Len(text) /\ e \in Nat /\ d <= e /\ 0 \in Nat /\ 0 <= d
        /\ d <= Len(text)
    BY <1>1, <1>8 DEF Open
  <2>2. SettledOn(Texts, Slice(text, 0, d), Slice(text, d, e))
        /\ (m = 0 \/ OneLine(Slice(text, d, e)))
    BY <1>8 DEF Open
  <2> HIDE DEF d, e
  <2>3. Slice(whole, 0, d) = Slice(text, 0, d) /\ Slice(whole, d, e) = Slice(text, d, e)
    BY <1>1, <2>1, SliceOfFirst DEF whole
  <2>4. e <= Len(whole)
    BY <1>2, <2>1
  <2> QED
    BY <1>3, <2>1, <2>2, <2>3, <2>4 DEF Open, d, e
<1>10. GoesOn(t, whole)
  BY <1>3, <1>8, <1>9 DEF GoesOn, Waits
<1>11. CutIn(whole, t.finalizedBytes)
  <2>1. CutIn(whole, Place(t))
    BY <1>2, <1>9, OpenCut
  <2> QED
    BY <1>1, <1>3, <2>1
<1> QED
  BY <1>2, <1>7, <1>10, <1>11 DEF whole

(* append: the input is accepted, or it fails on the whole-input limit, or *)
(* it is returned at once.                                                 *)
LEMMA AppendCallRefines ==
  ASSUME Contract, IInv, HInv, IInv', RInv, NEW chunk, AppendCall(chunk)
  PROVE  RInv' /\ Refines
<1>1. /\ Accepting /\ ~running /\ host' = host /\ host \in Hosts /\ InOrder(session)
      /\ Core(session, fed, output, findings) /\ GoesOn(session, fed) /\ result = "ok"
      /\ session.text = <<>> /\ session.found = {} /\ chunk \in Texts
      /\ fed \in Texts
  BY DEF AppendCall, Accepting, RInv, IInv, Texts
<1>2. session.unitEnds = <<>>
  BY <1>1 DEF HInv, Holds
<1>3. CASE Len(chunk) > MaxInputBytes - session.totalInputBytes
  <2>1. Fail(session, "InputLimitExceeded") /\ fed' = fed
    BY <1>3 DEF AppendCall
  <2>2. WholeInput(host, Slice(fed, 0, Place(session))).error = "none"
    <3>1. WholeInput(host, Above(session, fed)).error = "none"
      BY <1>1 DEF Core, Released
    <3> QED
      BY <1>1, <1>2, <3>1, IdlePlace DEF Above
  <2>3. "InputLimitExceeded" \notin StageErrors
    BY DEF StageErrors
  <2> QED
    BY <1>1, <2>1, <2>2, <2>3, FailStops
<1>4. CASE ~(Len(chunk) > MaxInputBytes - session.totalInputBytes)
  <2>1. /\ session' = [session EXCEPT !.totalInputBytes = @ + Len(chunk)]
        /\ running' = TRUE /\ fed' = fed \o chunk
        /\ output' = output /\ findings' = findings /\ result' = result
    BY <1>4 DEF AppendCall
  <2>2. /\ session'.retained = session.retained /\ session'.leadLen = session.leadLen
        /\ session'.unitStart = session.unitStart /\ session'.unitEnds = session.unitEnds
        /\ session'.finalizedBytes = session.finalizedBytes
        /\ session'.text = session.text /\ session'.found = session.found
        /\ session'.awsHeldLine = session.awsHeldLine
        /\ session'.findingCount = session.findingCount
        /\ session'.placeholderCount = session.placeholderCount
        /\ session'.state = session.state
    BY <1>1, <2>1 DEF InOrder, Fields
  <2>3. Accepting'
    BY <1>1, <2>2 DEF Accepting
  <2>4. Sound(session', fed \o chunk)
    <3>1. Sound(session', fed')
      BY <2>3 DEF IInv, ReadsInOrder, Sound
    <3> QED
      BY <2>1, <3>1
  <2>5. /\ Core(session', fed \o chunk, output, findings) /\ GoesOn(session', fed \o chunk)
        /\ CutIn(fed \o chunk, session'.finalizedBytes) /\ fed \o chunk \in Texts
    BY <1>1, <1>2, <2>2, <2>4, GrownCore
  <2>6. RInv'
    <3>1. FailuresKeepTheirOrder'
      BY <1>1, <2>1, NoFailure
    <3> QED
      BY <1>1, <2>1, <2>5, <3>1, RInvNext
  <2>7. Refines
    <3>1. IsPrefix(fed, fed')
      BY <1>1, <2>1, PrefixOfBoth DEF Texts
    <3>2. output \in Seq(Letters)
      BY <1>1 DEF Core, Released
    <3>3. IsPrefix(output, output')
      BY <2>1, <3>2 DEF IsPrefix
    <3>4. WholeInput(host, fed').error = "none" =>
            /\ IsPrefix(output', WholeInput(host, fed').text)
            /\ findings' \subseteq WholeInput(host, fed').findings
      <4>1. Released(session', fed \o chunk, output, findings)
        BY <2>5 DEF Core
      <4> DEFINE more == fed \o chunk
      <4>2. fed' = more /\ more \in Texts /\ Released(session', more, output, findings)
            /\ CutIn(more, session'.finalizedBytes)
            /\ session'.text = <<>> /\ session'.found = {}
        BY <1>1, <2>1, <2>2, <2>5, <4>1
      <4> HIDE DEF more
      <4>3. WholeInput(host, more).error = "none" =>
              /\ IsPrefix(output, WholeInput(host, more).text)
              /\ findings \subseteq WholeInput(host, more).findings
        BY <1>1, <4>2, ReleasedFollows
      <4> QED
        BY <2>1, <4>2, <4>3
    <3> QED
      BY <1>1, <2>1, <2>3, <3>1, <3>3, <3>4, AcceptsMore
  <2> QED
    BY <2>6, <2>7
<1> QED
  BY <1>3, <1>4

(* The piece a running append takes next follows what was read.            *)
LEMMA NextPieceFollows ==
  ASSUME Sound(session, fed), rest \in Seq(Symbols), rest # <<>>,
         ReadTo(session) + Len(rest) = Len(fed),
         \A i \in 1..Len(rest) : rest[i] = fed[ReadTo(session) + i]
  PROVE  Follows(SubSeq(rest, 1, PieceLength(rest)), session, fed)
<1> DEFINE length == PieceLength(rest)
           piece == SubSeq(rest, 1, length)
<1>1. /\ piece \in Seq(Symbols) /\ Len(piece) = length /\ length \in 1..Len(rest)
      /\ \A i \in 1..length : piece[i] = rest[i]
  BY PieceIsALine, PieceLengthRange
<1>2. ReadTo(session) \in Nat
  BY DEF Sound, InOrder, ReadTo, Base
<1> HIDE DEF piece, length
<1>3. ReadTo(session) + Len(piece) <= Len(fed)
  BY <1>1, <1>2
<1>4. \A i \in 1..Len(piece) : piece[i] = fed[ReadTo(session) + i]
  <2>1. \A i \in 1..Len(piece) : i \in 1..Len(rest)
    BY <1>1
  <2> QED
    BY <1>1, <2>1
<1> QED
  BY <1>1, <1>3, <1>4 DEF Follows, piece, length

(* Reading a line is seen outside only when it fails the session.          *)
LEMMA AppendPieceRefines ==
  ASSUME Contract, IInv, RInv, AppendPiece
  PROVE  RInv' /\ Refines
<1> DEFINE length == PieceLength(rest)
           piece == SubSeq(rest, 1, length)
           after == TakePiece(session, piece, piece[length] \in Terminators)
<1>1. /\ running /\ rest # <<>> /\ host' = host /\ fed' = fed
      /\ IF after.error # "none" THEN Fail(after, after.error)
         ELSE /\ session' = after /\ running' = running /\ output' = output
              /\ findings' = findings /\ result' = result
  BY DEF AppendPiece, Proceed
<1>2. /\ Sound(session, fed) /\ session.error = "none" /\ Accepting
      /\ ReadTo(session) + Len(rest) = Len(fed)
      /\ \A i \in 1..Len(rest) : rest[i] = fed[ReadTo(session) + i]
      /\ rest \in Seq(Symbols) /\ fed \in Texts
      /\ host \in Hosts /\ result = "ok"
      /\ Core(session, fed, output, findings) /\ GoesOn(session, fed)
  BY <1>1 DEF IInv, OnlyRunningReads, ReadsInOrder, Sound, RInv, Texts
<1>3. /\ piece \in Seq(Symbols) /\ piece # <<>> /\ Len(piece) = length
      /\ \A i \in 1..(Len(piece) - 1) : piece[i] \notin Terminators
      /\ length \in 1..Len(rest)
  BY <1>1, <1>2, PieceIsALine, PieceLengthRange
<1>4. Follows(piece, session, fed)
  BY <1>1, <1>2, NextPieceFollows
<1>5. after = TakePiece(session, piece, piece[Len(piece)] \in Terminators)
  BY <1>3
<1> HIDE DEF after, piece
<1>6. Outcome(after, fed, output, findings) /\ (after.error = "none" => GoesOn(after, fed))
  BY <1>2, <1>3, <1>4, <1>5, TakePieceCore
<1>7. InOrder(after) /\ after.state = session.state
  BY <1>2, <1>4, <1>5, TakePieceSound DEF Reads, Sound
<1>8. CASE after.error # "none"
  <2>1. Fail(after, after.error)
    BY <1>1, <1>8
  <2>2. /\ after.error \in StageErrors => WholeInput(host, fed).error # "none"
        /\ after.error \in LimitErrors =>
             WholeInput(host, Slice(fed, 0, Place(after))).error = "none"
    BY <1>6, <1>8 DEF Outcome
  <2> QED
    BY <1>1, <1>2, <1>7, <2>1, <2>2, FailStops
<1>9. CASE after.error = "none"
  <2>1. /\ session' = after /\ running' = running /\ output' = output
        /\ findings' = findings /\ result' = result
    BY <1>1, <1>9
  <2>2. Core(after, fed, output, findings)
    BY <1>6, <1>9 DEF Outcome
  <2>3. RInv'
    <3>1. FailuresKeepTheirOrder'
      BY <1>2, <2>1, NoFailure
    <3> QED
      BY <1>1, <1>2, <1>6, <1>9, <2>1, <2>2, <3>1, RInvNext
  <2>4. Refines
    BY <1>1, <1>7, <2>1, StaysHidden
  <2> QED
    BY <2>3, <2>4
<1> QED
  BY <1>8, <1>9

(* The return of append releases text, or it fails with an error that the  *)
(* whole input shows as well.                                              *)
LEMMA AppendReturnRefines ==
  ASSUME Contract, IInv, HInv, RInv, AppendReturn
  PROVE  RInv' /\ Refines
<1> DEFINE flushed == FlushBatch(session)
           handed == [flushed EXCEPT !.text = <<>>, !.found = {}]
<1>1. /\ running /\ host' = host /\ fed' = fed
      /\ IF flushed.error # "none" THEN Fail(flushed, flushed.error)
         ELSE /\ session' = handed /\ result' = "ok"
              /\ output' = output \o flushed.text
              /\ findings' = findings \cup flushed.found
  BY DEF AppendReturn, Return
<1>2. /\ Sound(session, fed) /\ session.error = "none" /\ Accepting /\ fed \in Texts
      /\ host \in Hosts /\ Tidy(session)
      /\ Core(session, fed, output, findings) /\ GoesOn(session, fed)
  BY <1>1 DEF IInv, OnlyRunningReads, ReadsInOrder, Sound, RInv, Texts, Core
<1>3. PICK m \in 0..Len(Unit(session)) : Open(fed, Place(session), m) /\ Waits(session)
  BY <1>2 DEF GoesOn
<1>4. /\ Outcome(flushed, fed, output, findings)
      /\ flushed.error = "none" =>
           /\ Place(flushed) = Place(session) /\ flushed.unitEnds = <<>>
           /\ flushed.finalizedBytes = Place(session) /\ Unit(flushed) = Unit(session)
  BY <1>2, <1>3, FlushCore
<1>5. /\ InOrder(flushed) /\ flushed.state = session.state
      /\ flushed.error = "none" => flushed.awsHeldLine = session.awsHeldLine
  BY <1>2, FlushBatchSound, FlushBatchRests DEF Sound, Keeps, Rests
<1> HIDE DEF flushed
<1>6. CASE flushed.error # "none"
  <2>1. Fail(flushed, flushed.error)
    BY <1>1, <1>6
  <2>2. /\ flushed.error \in StageErrors => WholeInput(host, fed).error # "none"
        /\ flushed.error \in LimitErrors =>
             WholeInput(host, Slice(fed, 0, Place(flushed))).error = "none"
    BY <1>4, <1>6 DEF Outcome
  <2> QED
    BY <1>1, <1>2, <1>5, <2>1, <2>2, FailStops
<1>7. CASE flushed.error = "none"
  <2>1. /\ session' = handed /\ result' = "ok"
        /\ output' = output \o flushed.text
        /\ findings' = findings \cup flushed.found
    BY <1>1, <1>7
  <2>2. Core(flushed, fed, output, findings)
    BY <1>4, <1>7 DEF Outcome
  <2>3. /\ Core(handed, fed, output \o flushed.text, findings \cup flushed.found)
        /\ handed.text = <<>> /\ handed.found = {} /\ handed.state = flushed.state
        /\ Place(handed) = Place(flushed) /\ Unit(handed) = Unit(flushed)
        /\ handed.awsHeldLine = flushed.awsHeldLine
        /\ handed.unitEnds = flushed.unitEnds /\ handed.finalizedBytes = flushed.finalizedBytes
        /\ output \in Seq(Letters) /\ flushed.text \in Seq(Letters)
    BY <2>2, HandedOver
  <2> HIDE DEF handed
  <2>4. Open(fed, Place(handed), m) /\ GoesOn(handed, fed)
    BY <1>3, <1>4, <1>5, <1>7, <2>3 DEF GoesOn, Waits
  <2>5. Accepting'
    BY <1>2, <1>5, <2>1, <2>3 DEF Accepting
  <2>6. Core(session', fed', output', findings')
    BY <1>1, <2>1, <2>3
  <2>7. RInv'
    <3>1. FailuresKeepTheirOrder'
      BY <2>1, NoFailure
    <3>2. GoesOn(session', fed')
      BY <1>1, <2>1, <2>4
    <3> QED
      BY <1>1, <1>2, <2>1, <2>3, <2>6, <3>1, <3>2, RInvNext
  <2>8. Refines
    <3>1. IsPrefix(fed, fed')
      BY <1>1, <1>2 DEF IsPrefix, Texts
    <3>2. IsPrefix(output, output') /\ findings \subseteq findings'
      <4> DEFINE given == flushed.text
      <4>1. given \in Seq(Letters) /\ output' = output \o given
        BY <2>1, <2>3
      <4> HIDE DEF given
      <4>2. IsPrefix(output, output')
        BY <2>3, <4>1, PrefixOfBoth
      <4> QED
        BY <2>1, <4>2
    <3>3. CutIn(fed, handed.finalizedBytes)
      <4>1. CutIn(fed, Place(handed))
        BY <1>2, <2>4, OpenCut
      <4> QED
        BY <1>4, <1>7, <2>3, <4>1
    <3>4. Released(handed, fed, output', findings')
      BY <2>1, <2>3 DEF Core
    <3>5. WholeInput(host, fed).error = "none" =>
            /\ IsPrefix(output', WholeInput(host, fed).text)
            /\ findings' \subseteq WholeInput(host, fed).findings
      BY <1>2, <2>3, <3>3, <3>4, ReleasedFollows
    <3> QED
      BY <1>1, <1>2, <2>5, <3>1, <3>2, <3>5, AcceptsMore
  <2> QED
    BY <2>7, <2>8
<1> QED
  BY <1>6, <1>7

(* finalize closes what is open, whatever holds it, and releases it all.   *)
LEMMA FinalizeRefines ==
  ASSUME Contract, IInv, HInv, RInv, Finalize
  PROVE  RInv' /\ Refines
<1> DEFINE s == session
           r == Len(s.retained)
           closed == [session EXCEPT !.unitEnds = Append(@, Len(session.retained)),
                                     !.unitStart = Len(session.retained)]
           flushed == FlushBatch(closed)
           ended == DiscardRetained(flushed)
           over == [ended EXCEPT !.state = "finalized"]
           d == Place(s)
           l == Len(fed)
<1>1. /\ host' = host /\ fed' = fed /\ ~running
      /\ IF flushed.error # "none" THEN Fail(flushed, flushed.error)
         ELSE /\ session' = [over EXCEPT !.text = <<>>, !.found = {}] /\ result' = "ok"
              /\ output' = output \o over.text
              /\ findings' = findings \cup over.found
  BY DEF Finalize, Return
<1>2. /\ Sound(s, fed) /\ s.error = "none" /\ Accepting /\ fed \in Texts /\ InOrder(s)
      /\ host \in Hosts /\ Core(s, fed, output, findings) /\ GoesOn(s, fed)
      /\ s.unitEnds = <<>> /\ ReadTo(s) + Len(rest) = Len(fed) /\ rest = <<>>
  BY <1>1 DEF Finalize, Accepting, IInv, HInv, Holds, OnlyRunningReads, ReadsInOrder, Sound,
              RInv, Texts
<1>3. /\ Closes(s, closed)
      /\ closed.text = s.text /\ closed.found = s.found
      /\ closed.findingCount = s.findingCount
      /\ closed.placeholderCount = s.placeholderCount
  BY <1>2 DEF Closes, InOrder, Fields
<1> HIDE DEF closed
<1>4. Sound(closed, fed) /\ ReadTo(closed) = ReadTo(s) /\ closed.error = "none"
      /\ closed.retained = s.retained /\ closed.leadLen = s.leadLen
      /\ closed.unitStart = r /\ closed.unitEnds = Append(<<>>, r)
      /\ closed.finalizedBytes = s.finalizedBytes
  BY <1>2, <1>3, ClosesSound DEF Closes
<1>5. Base(closed) = Base(s) /\ Above(closed, fed) = Above(s, fed) /\ Lead(closed) = Lead(s)
  BY <1>4 DEF Base, Above, Lead
<1>6. /\ r \in Nat /\ l \in Nat /\ d \in Nat /\ d <= l /\ s.finalizedBytes = d
      /\ Base(s) + r = l
  <2>1. /\ d \in Nat /\ d <= l /\ Base(s) \in Nat /\ s.finalizedBytes = d
        /\ ReadTo(s) = Base(s) + r
    BY <1>2, CoreParts, IdlePlace DEF ReadTo
  <2>2. r \in Nat /\ l \in Nat
    BY <1>2 DEF InOrder, Texts
  <2>3. Len(rest) = 0 /\ ReadTo(s) + Len(rest) = l
    BY <1>2
  <2> DEFINE b == Base(s)
             x == ReadTo(s)
  <2>4. b \in Nat /\ x = b + r /\ x + 0 = l
    BY <2>1, <2>3
  <2> HIDE DEF b, x, d, l, r
  <2>5. b + r = l
    BY <2>2, <2>4
  <2> QED
    BY <2>1, <2>2, <2>5 DEF b
<1>7. /\ Len(closed.unitEnds) = 1 /\ closed.unitEnds[1] = r /\ closed.unitEnds # <<>>
  BY <1>4, <1>6
<1>8. EdgesOf(closed)[0] = d /\ EdgesOf(closed)[1] = l
  <2>1. 0 \in 0..1 /\ 1 \in 0..1 /\ 1 # 0
    OBVIOUS
  <2>2. \A k \in 0..1 :
          EdgesOf(closed)[k] = IF k = 0 THEN closed.finalizedBytes
                               ELSE Base(closed) + closed.unitEnds[k]
    BY <1>7 DEF EdgesOf
  <2> QED
    BY <1>4, <1>5, <1>6, <1>7, <2>1, <2>2
<1>9. ClosedOn(closed, fed)
  <2>1. SettledOn(Texts, Slice(fed, 0, d), Slice(fed, d, l))
    <3>1. PICK m \in 0..Len(Unit(s)) : Open(fed, d, m)
      BY <1>2 DEF GoesOn
    <3>2. d + m <= l /\ l <= Len(fed)
      BY <1>6, <3>1 DEF Open
    <3> HIDE DEF d, l
    <3> QED
      BY <1>2, <1>6, <3>1, <3>2, SettledSpan
  <2> SUFFICES ASSUME NEW k \in 1..1
               PROVE  SettledOn(Texts, Slice(fed, 0, EdgesOf(closed)[k - 1]),
                                Slice(fed, EdgesOf(closed)[k - 1], EdgesOf(closed)[k]))
    BY <1>7 DEF ClosedOn
  <2>2. k = 1 /\ k - 1 = 0
    OBVIOUS
  <2> QED
    BY <1>8, <2>1, <2>2
<1>10. Flushable(closed, fed)
  <2>1. closed.unitEnds[Len(closed.unitEnds)] = closed.unitStart
    BY <1>4, <1>7
  <2>2. Lead(closed) = Kept(Above(closed, fed))
    BY <1>2, <1>5 DEF Core
  <2> QED
    BY <1>2, <1>4, <1>7, <1>9, <2>1, <2>2, SettledIsFlushable
<1>11. Released(closed, fed, output, findings)
  BY <1>2, <1>3, <1>5 DEF Core, Released
<1>12. UpToUnit(closed, fed) = fed
  <2>1. Base(closed) + closed.unitStart = l
    BY <1>4, <1>5, <1>6
  <2>2. Slice(fed, 0, Len(fed)) = fed
    BY <1>2, SliceWhole DEF Texts
  <2> QED
    BY <2>1, <2>2 DEF UpToUnit
<1>13. IF flushed.error = "none"
         THEN /\ Released(flushed, fed, output, findings)
              /\ Above(flushed, fed) = fed
         ELSE WholeInput(host, fed).error # "none"
  BY <1>2, <1>4, <1>10, <1>11, <1>12, FlushReleases
<1>14. /\ InOrder(flushed)
       /\ flushed.error = "none" \/ flushed.error \in StageErrors
  BY <1>4, FlushBatchSound DEF Sound, Keeps
<1>15. /\ DOMAIN ended = Fields /\ ended.text = flushed.text /\ ended.found = flushed.found
  <2>1. DOMAIN flushed = Fields
    BY <1>14 DEF InOrder
  <2> HIDE DEF flushed
  <2> QED
    BY <2>1 DEF DiscardRetained, ResetUnitState, Fields
<1> HIDE DEF flushed
<1>16. CASE flushed.error # "none"
  <2>1. Fail(flushed, flushed.error)
    BY <1>1, <1>16
  <2>2. flushed.error \notin LimitErrors /\ WholeInput(host, fed).error # "none"
    BY <1>13, <1>14, <1>16 DEF LimitErrors, StageErrors
  <2> QED
    BY <1>1, <1>2, <1>14, <2>1, <2>2, FailStops
<1>17. CASE flushed.error = "none"
  <2>1. /\ session' = [over EXCEPT !.text = <<>>, !.found = {}] /\ result' = "ok"
        /\ output' = output \o over.text
        /\ findings' = findings \cup over.found
    BY <1>1, <1>17
  <2> HIDE DEF ended
  <2>2. /\ over.text = flushed.text /\ over.found = flushed.found
        /\ DOMAIN over = Fields /\ over.state = "finalized"
    BY <1>15 DEF Fields
  <2> HIDE DEF over
  <2>3. session'.state = "finalized"
    BY <2>1, <2>2 DEF Fields
  <2>4. RInv'
    <3>1. FailuresKeepTheirOrder'
      BY <2>1, NoFailure
    <3> QED
      BY <1>1, <1>2, <2>3, <3>1, RInvNext DEF Accepting
  <2>5. /\ WholeInput(host, fed).error = "none"
        /\ output \in Seq(Letters) /\ flushed.text \in Seq(Letters)
        /\ output \o flushed.text = WholeInput(host, fed).text
        /\ findings \cup flushed.found = WholeInput(host, fed).findings
    BY <1>13, <1>17 DEF Released
  <2>6. IsPrefix(output, output')
    <3> DEFINE given == flushed.text
    <3>1. given \in Seq(Letters) /\ output' = output \o given
      BY <2>1, <2>2, <2>5
    <3> HIDE DEF given
    <3> QED
      BY <2>5, <3>1, PrefixOfBoth
  <2>7. Abstract!Finish
    <3>1. Abstract!WholeInput(host, fed) = WholeInput(host, fed)
      BY AbstractWhole
    <3> QED
      BY <1>1, <1>2, <2>1, <2>2, <2>3, <2>5, <2>6, <3>1, AbstractPrefix
         DEF Abstract!Finish, Abstract!Extends, Accepting
  <2> QED
    BY <2>4, <2>7 DEF Refines, Abstract!AbsNext
<1> QED
  BY <1>16, <1>17

(* abort ends the session and releases nothing.                            *)
LEMMA AbortRefines ==
  ASSUME IInv, RInv, Abort
  PROVE  RInv' /\ Refines
<1> DEFINE ended == DiscardRetained(session)
<1>1. /\ session' = [ended EXCEPT !.state = "aborted"] /\ result' = "ok" /\ host' = host
      /\ fed' = fed /\ output' = output /\ findings' = findings /\ Accepting
  BY DEF Abort, Accepting
<1>2. DOMAIN ended = Fields
  BY DiscardRetainedFields DEF IInv
<1> HIDE DEF ended
<1>3. session'.state = "aborted"
  BY <1>1, <1>2 DEF Fields
<1>4. RInv'
  <2>1. FailuresKeepTheirOrder'
    BY <1>1, NoFailure
  <2>2. host \in Hosts
    BY DEF RInv
  <2> QED
    BY <1>1, <1>3, <2>1, <2>2, RInvNext DEF Accepting
<1>5. IsPrefix(fed, fed')
  BY <1>1 DEF IInv, IsPrefix
<1>6. Abstract!Stop
  BY <1>1, <1>3, <1>5, AbstractPrefix DEF Abstract!Stop, Accepting
<1> QED
  BY <1>4, <1>6 DEF Refines, Abstract!AbsNext

(* A call on an ended session changes nothing.                             *)
LEMMA RefuseRefines ==
  ASSUME RInv, Refuse
  PROVE  RInv' /\ Refines
<1>1. /\ session' = session /\ host' = host /\ fed' = fed /\ output' = output
      /\ findings' = findings /\ result' = "InvalidState" /\ ~Accepting
  BY DEF Refuse, Accepting
<1>2. RInv'
  <2>1. FailuresKeepTheirOrder'
    BY <1>1, NoFailure
  <2>2. ~Accepting' /\ host \in Hosts
    BY <1>1 DEF Accepting, RInv
  <2> QED
    BY <1>1, <2>1, <2>2, RInvNext
<1>3. Refines
  BY <1>1, StaysHidden
<1> QED
  BY <1>2, <1>3

(* Nor does a stuttering step.                                             *)
LEMMA StutterRefines ==
  ASSUME RInv, UNCHANGED vars
  PROVE  RInv' /\ Refines
<1>1. /\ session' = session /\ host' = host /\ fed' = fed /\ output' = output
      /\ findings' = findings /\ result' = result /\ running' = running
      /\ failedUnit' = failedUnit
  BY DEF vars
<1>2. FailuresKeepTheirOrder'
  BY <1>1 DEF RInv, FailuresKeepTheirOrder
<1>3. RInv'
  <2>1. Accepting' <=> Accepting
    BY <1>1 DEF Accepting
  <2> QED
    BY <1>1, <1>2, <2>1, RInvNext DEF RInv
<1>4. Refines
  BY <1>1, StaysHidden
<1> QED
  BY <1>3, <1>4

(* One call on nothing returns nothing.                                    *)
LEMMA WholeOfNothing ==
  ASSUME Contract, NEW h
  PROVE  /\ WholeInput(h, <<>>).error = "none" /\ WholeInput(h, <<>>).text = <<>>
         /\ WholeInput(h, <<>>).findings = {}
<1>1. /\ CandidatesAreRanges(Texts) /\ SelectionIsLocal(Texts) /\ ~DetectorFails(<<>>)
  BY DEF Contract, SessionContract, FailuresAreLocal
<1>2. Candidates(<<>>) = {} /\ Select({}) = {}
  BY <1>1, NothingIsFound DEF Found
<1>3. DetectUnits(<<>>, 0, {}) = [status |-> "ok", found |-> {}]
  BY <1>1, <1>2 DEF DetectUnits, ResolveUnits, Crosses
<1>4. Finalized(h, {}, 0) = {} /\ ~PolicyFails(h, {})
  BY DEF Finalized, PolicyFails
<1>5. RedactError(h, <<>>, {}, 0) = "none"
  BY DEF RedactError
<1>6. Redacted(h, <<>>, {}, 0) = <<>>
  <2> DEFINE none == {f \in {} : Replaces(f)}
             Emitted(p) ==
               IF \E f \in none : f.start = p
                 THEN Formatted(h, 0 + Cardinality({f \in none : f.start <= p}))
               ELSE IF \E f \in none : f.start < p /\ p < f.end THEN <<>>
               ELSE <<(<<>>)[p + 1]>>
             parts == [i \in 1..0 |-> Emitted(i - 1)]
  <2>1. Redacted(h, <<>>, {}, 0) = FlattenSeq(parts)
    BY DEF Redacted
  <2>2. parts \in Seq({}) /\ Len(parts) = 0
    <3> HIDE DEF Emitted
    <3> QED
      OBVIOUS
  <2> HIDE DEF parts
  <2>3. parts = <<>>
    BY <2>2
  <2>4. FlattenSeq(parts) = parts
    BY <2>3 DEF FlattenSeq
  <2> QED
    BY <2>1, <2>3, <2>4
<1>7. DetectUnits(<<>>, 0, {}).status = "ok" /\ DetectUnits(<<>>, 0, {}).found = {}
  BY <1>3
<1>8. WholeInput(h, <<>>) = [error |-> "none", text |-> <<>>, findings |-> {}]
  BY <1>4, <1>5, <1>6, <1>7 DEF WholeInput
<1> QED
  BY <1>8

(* A new session is a new one outside.                                     *)
LEMMA InitRefines ==
  ASSUME Contract, Init
  PROVE  RInv /\ Abstract!AbsInit
<1>1. /\ session = Fresh /\ host \in Hosts /\ fed = <<>> /\ output = <<>> /\ findings = {}
      /\ result = "ok" /\ running = FALSE
  BY DEF Init
<1>2. /\ Fresh.retained = <<>> /\ Fresh.leadLen = 0 /\ Fresh.unitStart = 0
      /\ Fresh.unitEnds = <<>> /\ Fresh.awsHeldLine = NoLine /\ Fresh.finalizedBytes = 0
      /\ Fresh.text = <<>> /\ Fresh.found = {} /\ Fresh.findingCount = 0
      /\ Fresh.placeholderCount = 0 /\ Fresh.state = "accepting"
  BY DEF Fresh
<1> DEFINE s == session
<1>3. <<>> \in Seq(Symbols) /\ Len(<<>>) = 0 /\ <<>> \in Texts
  BY DEF Texts
<1>4. Slice(<<>>, 0, 0) = <<>>
  BY <1>3, SliceWhole
<1>5. Sound(s, <<>>) /\ Tidy(s)
  <2>1. Sound(s, fed)
    BY <1>1, <1>2, InitEstablishesIInv DEF IInv, ReadsInOrder, Accepting, Sound
  <2>2. Tidy(Fresh)
    BY NewSessionHolds DEF Holds
  <2> QED
    BY <1>1, <2>1, <2>2
<1>6. Lead(s) = <<>> /\ Above(s, <<>>) = <<>> /\ Place(s) = 0 /\ Unit(s) = <<>>
  BY <1>1, <1>2, <1>3, <1>4 DEF Lead, Above, Place, Base, Unit
<1>7. Kept(<<>>) = <<>>
  BY <1>3, KeptIsText
<1>8. ClosedOn(s, <<>>)
  <2>1. Len(s.unitEnds) = 0
    BY <1>1, <1>2
  <2> QED
    BY <2>1 DEF ClosedOn
<1>9. Released(s, <<>>, <<>>, {})
  <2>1. <<>> \in Seq(Letters) /\ <<>> \o <<>> = <<>>
    OBVIOUS
  <2>2. Cardinality({}) = 0
    BY FS_EmptySet
  <2>3. Replaced({}) = {}
    BY DEF Replaced
  <2> QED
    BY <1>1, <1>2, <1>6, <2>1, <2>2, <2>3, WholeOfNothing DEF Released
<1>10. Core(s, <<>>, <<>>, {})
  BY <1>1, <1>2, <1>3, <1>5, <1>6, <1>7, <1>8, <1>9 DEF Core
<1>11. GoesOn(s, <<>>)
  <2>1. SettledOn(Texts, <<>>, <<>>)
    BY StartIsSettled DEF Contract, SessionContract
  <2>2. Open(<<>>, 0, 0)
    BY <1>3, <1>4, <2>1 DEF Open
  <2>3. 0 \in 0..Len(Unit(s))
    BY <1>3, <1>6
  <2>4. Waits(s)
    BY <1>1, <1>2 DEF Waits
  <2> QED
    BY <1>6, <2>2, <2>3, <2>4 DEF GoesOn
<1>12. FailuresKeepTheirOrder
  BY <1>1 DEF FailuresKeepTheirOrder, LimitErrors, StageErrors
<1>13. RInv
  BY <1>1, <1>2, <1>10, <1>11, <1>12 DEF RInv
<1>14. Abstract!AbsInit
  BY <1>1, <1>2 DEF Abstract!AbsInit
<1> QED
  BY <1>13, <1>14

(* Every step of the session is a step of the abstract specification or is *)
(* not seen, and keeps what that rests on.                                 *)
LEMMA NextRefines ==
  ASSUME Contract, IInv, HInv, RInv, IInv', [Next]_vars
  PROVE  RInv' /\ Refines
<1>1. ASSUME NEW chunk \in Chunks(fed), AppendCall(chunk)
      PROVE  RInv' /\ Refines
  BY <1>1, AppendCallRefines
<1>2. CASE AppendPiece
  BY <1>2, AppendPieceRefines
<1>3. CASE AppendReturn
  BY <1>3, AppendReturnRefines
<1>4. CASE Finalize
  BY <1>4, FinalizeRefines
<1>5. CASE Abort
  BY <1>5, AbortRefines
<1>6. CASE Refuse
  BY <1>6, RefuseRefines
<1>7. CASE UNCHANGED vars
  BY <1>7, StutterRefines
<1> QED
  BY <1>1, <1>2, <1>3, <1>4, <1>5, <1>6, <1>7 DEF Next

(* What was released is what one call on the text above returns, and the   *)
(* open unit settles that text: the third inductive invariant.             *)
THEOREM RefinementInvariant ==
  SessionContract(Seq(Symbols), Nat) => (Spec => []RInv)
<1> SUFFICES ASSUME Contract PROVE Spec => []RInv
  BY DEF Contract, Texts
<1>1. Init => RInv
  BY InitRefines
<1>2. IInv /\ HInv /\ RInv /\ IInv' /\ [Next]_vars => RInv'
  BY NextRefines
<1> QED
  BY <1>1, <1>2, InductiveInvariant, HeldInvariant, PTL DEF Spec

(* Whatever way the caller cuts the text, what a session releases is what  *)
(* one whole-input call would, as far as it was released.                  *)
THEOREM PartitionInvariance ==
  SessionContract(Seq(Symbols), Nat) => (Spec => ImplementsAbstract)
<1> SUFFICES ASSUME Contract PROVE Spec => ImplementsAbstract
  BY DEF Contract, Texts
<1>1. Spec => []RInv
  BY RefinementInvariant DEF Contract, Texts
<1>2. Init => Abstract!AbsInit
  BY InitRefines
<1>3. IInv /\ HInv /\ RInv /\ IInv' /\ [Next]_vars => [Abstract!AbsNext]_(Abstract!absVars)
  BY NextRefines DEF Refines
<1> QED
  BY <1>1, <1>2, <1>3, InductiveInvariant, HeldInvariant, PTL
     DEF Spec, ImplementsAbstract, Abstract!AbsSpec

(* Batching never changes which failure the caller sees.                   *)
THEOREM FailuresInOrder ==
  SessionContract(Seq(Symbols), Nat) => (Spec => []FailuresKeepTheirOrder)
<1> SUFFICES ASSUME Contract PROVE Spec => []FailuresKeepTheirOrder
  BY DEF Contract, Texts
<1>1. Spec => []RInv
  BY RefinementInvariant DEF Contract, Texts
<1>2. RInv => FailuresKeepTheirOrder
  BY DEF RInv
<1> QED
  BY <1>1, <1>2, PTL

------------------------------------------------------------------------------
(* What the abstract specification promises, in one state.                 *)

(* A finalized session has returned what one call on all of the text       *)
(* returns; before that, where such a call would succeed, what was         *)
(* returned is the beginning of it.                                        *)
OutcomeOfTheWhole ==
  LET whole == WholeInput(host, fed) IN
  /\ session.state = "finalized" =>
       whole.error = "none" /\ output = whole.text /\ findings = whole.findings
  /\ Accepting /\ whole.error = "none" =>
       IsPrefix(output, whole.text) /\ findings \subseteq whole.findings

(* Every step of the abstract specification keeps the promise.             *)
LEMMA StepsKeepTheOutcome ==
  ASSUME OutcomeOfTheWhole, [Abstract!AbsNext]_(Abstract!absVars)
  PROVE  OutcomeOfTheWhole'
<1>1. CASE Abstract!Accept
  <2>1. /\ session.state = "accepting" /\ session'.state = "accepting" /\ host' = host
        /\ LET whole == WholeInput(host, fed') IN
             whole.error = "none" =>
               IsPrefix(output', whole.text) /\ findings' \subseteq whole.findings
    BY <1>1, AbstractWhole, AbstractPrefix DEF Abstract!Accept
  <2> QED
    BY <2>1 DEF OutcomeOfTheWhole, Accepting
<1>2. CASE Abstract!Finish
  <2>1. /\ session'.state = "finalized" /\ host' = host /\ fed' = fed
        /\ LET whole == WholeInput(host, fed) IN
             whole.error = "none" /\ output' = whole.text /\ findings' = whole.findings
    BY <1>2, AbstractWhole DEF Abstract!Finish
  <2> QED
    BY <2>1 DEF OutcomeOfTheWhole, Accepting
<1>3. CASE Abstract!Stop
  <2>1. session'.state \in {"aborted", "failed"}
    BY <1>3 DEF Abstract!Stop
  <2> QED
    BY <2>1 DEF OutcomeOfTheWhole, Accepting
<1>4. CASE UNCHANGED Abstract!absVars
  BY <1>4 DEF OutcomeOfTheWhole, Accepting, Abstract!absVars
<1> QED
  BY <1>1, <1>2, <1>3, <1>4 DEF Abstract!AbsNext

(* However a text was cut, a session that was finalized has returned the   *)
(* sanitized text and the findings of one whole-input call on it.          *)
THEOREM FinalizedIsWhole ==
  SessionContract(Seq(Symbols), Nat) => (Spec => []OutcomeOfTheWhole)
<1> SUFFICES ASSUME Contract PROVE Spec => []OutcomeOfTheWhole
  BY DEF Contract, Texts
<1>1. Spec => ImplementsAbstract
  BY PartitionInvariance DEF Contract, Texts
<1>2. Abstract!AbsInit => OutcomeOfTheWhole
  <2> SUFFICES ASSUME Abstract!AbsInit PROVE OutcomeOfTheWhole
    OBVIOUS
  <2>1. session.state = "accepting" /\ fed = <<>> /\ output = <<>> /\ findings = {}
    BY DEF Abstract!AbsInit
  <2>2. IsPrefix(<<>>, <<>>)
    <3>1. <<>> \in Seq({}) /\ <<>> \o <<>> = <<>>
      OBVIOUS
    <3> QED
      BY <3>1, PrefixOfBoth
  <2> QED
    BY <2>1, <2>2, WholeOfNothing DEF OutcomeOfTheWhole, Accepting
<1>3. OutcomeOfTheWhole /\ [Abstract!AbsNext]_(Abstract!absVars) => OutcomeOfTheWhole'
  BY StepsKeepTheOutcome
<1> QED
  BY <1>1, <1>2, <1>3, PTL DEF ImplementsAbstract, Abstract!AbsSpec
===============================================================================
