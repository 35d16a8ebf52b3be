------------------------ MODULE OverlapSelection_proofs ------------------------
(***************************************************************************)
(* Proofs about overlap resolution, for every set of candidates: the loops *)
(* stay inside their component, no two selected candidates overlap, what   *)
(* is selected weighs most among the disjoint choices, and neither         *)
(* splitting the candidates into components nor detecting units together   *)
(* changes anything.                                                       *)
(***************************************************************************)
EXTENDS OverlapSelection, FiniteSetTheorems, WellFoundedInduction, TLAPS

------------------------------------------------------------------------------
(* The greatest and the least of a set of positions.                       *)

(* A nonempty set of numbers has a least element.                          *)
LEMMA LeastElement ==
  ASSUME NEW S \in SUBSET Nat, S # {}
  PROVE  \E x \in S : \A y \in S : x <= y
<1>1. PICK x \in S : \A y \in S : <<y, x>> \notin OpToRel(<, Nat)
  BY NatLessThanWellFounded, WFMin, Zenon
<1>2. \A y \in S : ~(y < x)
  <2> TAKE y \in S
  <2>1. x \in Nat /\ y \in Nat
    OBVIOUS
  <2> QED
    BY <1>1, <2>1, Zenon DEF OpToRel
<1>3. \A y \in S : x <= y
  BY <1>2
<1> QED
  BY <1>3

(* The greatest of a bounded set of numbers is one of them, and bounds     *)
(* them.                                                                   *)
LEMMA MaxOfBounded ==
  ASSUME NEW n \in Nat, NEW S \in SUBSET (0..n), S # {}
  PROVE  Max(S) \in S /\ \A y \in S : Max(S) >= y
<1> DEFINE T == {n - x : x \in S}
<1>1. T \subseteq Nat /\ T # {}
  <2>1. \A x \in S : x \in 0..n /\ n - x \in Nat
    OBVIOUS
  <2> QED
    BY <2>1, Zenon
<1>2. PICK x \in T : \A y \in T : x <= y
  BY <1>1, LeastElement
<1>3. PICK m \in S : x = n - m
  BY <1>2
<1>4. \A y \in S : m >= y
  BY <1>2, <1>3
<1> QED
  BY <1>4 DEF Max

(* Induction, over a set of numbers rather than a predicate.               *)
LEMMA StepsReachAll ==
  ASSUME NEW P \in SUBSET Nat, 0 \in P, \A n \in P : n + 1 \in P
  PROVE  P = Nat
<1> SUFFICES ASSUME Nat \ P # {}
             PROVE  FALSE
  OBVIOUS
<1>1. PICK x \in Nat \ P : \A y \in Nat \ P : x <= y
  BY LeastElement
<1>2. x # 0 /\ x - 1 \in Nat /\ x - 1 \notin Nat \ P
  BY <1>1
<1>3. (x - 1) + 1 \in P
  BY <1>2
<1> QED
  BY <1>1, <1>3

(* What `step` computes for k depends on the values below k only.          *)
LooksBelow(step, n, S) ==
  /\ step \in [1..n -> [[0..n -> S] -> S]]
  /\ \A k \in 1..n, f, g \in [0..n -> S] :
       (\A j \in 0..(k - 1) : f[j] = g[j]) => step[k][f] = step[k][g]

Computes(f, step, n, S, a) ==
  f \in [0..n -> S] /\ f[0] = a /\ \A k \in 1..n : f[k] = step[k][f]

(* A function on 0..n whose value at k is computed from those below k      *)
(* exists.                                                                 *)
LEMMA RecursionExists ==
  ASSUME NEW n \in Nat, NEW S, NEW a \in S, NEW step, LooksBelow(step, n, S)
  PROVE  \E f : Computes(f, step, n, S, a)
<1> DEFINE Upto(f, m) == f[0] = a /\ \A k \in 1..m : f[k] = step[k][f]
           P == {m \in Nat : m <= n => \E f \in [0..n -> S] : Upto(f, m)}
<1>1. 0 \in P
  <2> DEFINE f == [k \in 0..n |-> a]
  <2>1. f \in [0..n -> S] /\ f[0] = a
    OBVIOUS
  <2>2. Upto(f, 0)
    BY <2>1
  <2> QED
    BY <2>1, <2>2
<1>2. ASSUME NEW m \in P
      PROVE  m + 1 \in P
  <2>1. m \in Nat
    OBVIOUS
  <2>2. CASE m + 1 <= n
    <3>1. PICK f \in [0..n -> S] : Upto(f, m)
      BY <2>1, <2>2
    <3> DEFINE g == [f EXCEPT ![m + 1] = step[m + 1][f]]
    <3>2. m + 1 \in 1..n /\ step[m + 1][f] \in S
      BY <2>1, <2>2 DEF LooksBelow
    <3>3. g \in [0..n -> S] /\ g[0] = a /\ g[m + 1] = step[m + 1][f]
      BY <2>1, <3>1, <3>2
    <3>4. \A j \in 0..m : g[j] = f[j]
      BY <2>1, <3>2
    <3> HIDE DEF g
    <3>5. ASSUME NEW k \in 1..(m + 1)
          PROVE  g[k] = step[k][g]
      <4>1. k \in 1..n /\ \A j \in 0..(k - 1) : f[j] = g[j]
        BY <2>1, <3>2, <3>4
      <4>2. step[k][f] = step[k][g]
        BY <3>3, <4>1 DEF LooksBelow
      <4>3. k = m + 1 \/ (k \in 1..m /\ k \in 0..m)
        BY <2>1
      <4> QED
        BY <3>1, <3>3, <3>4, <4>2, <4>3
    <3>6. Upto(g, m + 1)
      BY <3>3, <3>5
    <3> QED
      BY <2>1, <3>3, <3>6
  <2> QED
    BY <2>1, <2>2
<1>3. \E f \in [0..n -> S] : Upto(f, n)
  <2> HIDE DEF Upto
  <2>1. P \subseteq Nat
    OBVIOUS
  <2>2. P = Nat
    <3> HIDE DEF P
    <3> QED
      BY <1>1, <1>2, <2>1, StepsReachAll
  <2>3. n \in P
    <3> HIDE DEF P
    <3> QED
      BY <2>2
  <2>4. n <= n
    OBVIOUS
  <2> QED
    BY <2>3, <2>4, Zenon
<1> QED
  BY <1>3 DEF Computes

------------------------------------------------------------------------------
(* The invariant.                                                          *)

N == Len(ranked)

(* What is sorted stays so: the ends ascend, and no span is empty.         *)
EndsAscend ==
  /\ N \in Nat
  /\ \A p \in 1..N : /\ ranked[p].start \in Nat /\ ranked[p].end \in Nat
                     /\ ranked[p].start < ranked[p].end
  /\ \A p, q \in 1..N : p < q => ranked[p].end <= ranked[q].end

(* Everything up to position p ends before everything above it starts.     *)
ClosesAt(p) == \A x \in 1..p, y \in (p + 1)..N : ranked[x].end <= ranked[y].start

MinimumSoFar ==
  /\ minLaterStart \in Nat \cup {-1}
  /\ \A y \in (i + 1)..N : minLaterStart # -1 /\ minLaterStart <= ranked[y].start

Solving == phase \in {"forward", "backward"}

(* Above what is still to be solved nothing conflicts with it.             *)
SelectedIsAbove(p) ==
  /\ selected \subseteq (p + 1)..N
  /\ \A x \in 1..p, y \in selected : ranked[x].end <= ranked[y].start

Progress ==
  /\ phase = "split" => ClosesAt(componentEnd) /\ SelectedIsAbove(componentEnd)
  /\ Solving => /\ from - 1 = componentEnd /\ ClosesAt(componentEnd) /\ ClosesAt(to)
  /\ phase = "forward" => SelectedIsAbove(to)
  /\ phase = "backward" => SelectedIsAbove(from + back - 1)

IInv ==
  /\ TypeOK
  /\ i <= componentEnd \/ (i = 0 /\ componentEnd = 0)
  /\ EndsAscend
  /\ MinimumSoFar
  /\ Progress
  /\ SelectedAreDisjoint

------------------------------------------------------------------------------
(* The predecessors of the k-th candidate of a component are a prefix of   *)
(* what is before it, and all end before it starts.                        *)
LEMMA PredecessorsEndBefore ==
  ASSUME EndsAscend, NEW first \in 1..N, NEW k \in 1..(N - first + 1)
  PROVE  LET m == Predecessors(ranked, first, k) IN
         /\ m \in 0..(k - 1)
         /\ \A x \in first..(first + m - 1) : ranked[x].end <= ranked[first + k - 1].start
<1> DEFINE S == {m \in 1..(k - 1) : ranked[first + m - 1].end <= ranked[first + k - 1].start}
           T == {0} \cup S
           m == Predecessors(ranked, first, k)
<1>1. N \in Nat /\ first \in Nat /\ k \in Nat /\ k >= 1 /\ k - 1 \in Nat /\ first + k - 1 <= N
  BY DEF EndsAscend
<1>2. m \in T
  <2>1. T \in SUBSET (0..(k - 1)) /\ T # {}
    BY <1>1
  <2>2. Max(T) \in T
    BY <1>1, <2>1, MaxOfBounded, Zenon
  <2> QED
    BY <2>2 DEF Predecessors
<1> HIDE DEF m
<1>3. ASSUME NEW x \in first..(first + m - 1)
      PROVE  ranked[x].end <= ranked[first + k - 1].start
  <2>1. m \in S /\ m \in 1..(k - 1)
    BY <1>1, <1>2
  <2>2. ranked[first + m - 1].end <= ranked[first + k - 1].start
    BY <2>1
  <2>3. /\ x \in 1..N /\ first + m - 1 \in 1..N /\ first + k - 1 \in 1..N
        /\ x = first + m - 1 \/ x < first + m - 1
    BY <1>1, <2>1
  <2>4. ranked[x].end <= ranked[first + m - 1].end
    BY <2>3 DEF EndsAscend
  <2>5. \A p \in 1..N : ranked[p].end \in Nat /\ ranked[p].start \in Nat
    BY DEF EndsAscend
  <2> QED
    BY <2>2, <2>3, <2>4, <2>5
<1> QED
  BY <1>1, <1>2, <1>3 DEF m

(* Before anything is solved the invariant holds.                          *)
LEMMA InitEstablishesIInv ==
  Init => IInv
<1> SUFFICES ASSUME Init
             PROVE  IInv
  OBVIOUS
<1>1. PICK n \in 0..MaxCandidates : ranked \in [1..n -> Shapes]
  BY DEF Init
<1>2. /\ N = n /\ n \in Nat
      /\ \A p \in 1..N : ranked[p].start \in Nat /\ ranked[p].end \in Nat
  <2>1. N = n /\ n \in Nat
    BY <1>1 DEF N
  <2>2. ASSUME NEW p \in 1..N
        PROVE  ranked[p].start \in Nat /\ ranked[p].end \in Nat
    <3>1. ranked[p] \in [Keys -> Nat]
      BY <1>1, <2>1, CandidateAssumption
    <3>2. "start" \in Keys /\ "end" \in Keys
      BY DEF Keys
    <3> QED
      BY <3>1, <3>2
  <2> QED
    BY <2>1, <2>2
<1>3. EndsAscend
  <2>1. \A p \in 1..N : ranked[p] \in Shapes
    BY <1>1, <1>2
  <2>2. \A p \in 1..N : ranked[p].start < ranked[p].end
    BY <2>1, CandidateAssumption
  <2>3. ASSUME NEW p \in 1..N, NEW q \in 1..N, p < q
        PROVE  ranked[p].end <= ranked[q].end
    <3>1. SortsBefore(ranked[p], ranked[q])
      BY <1>2, <2>3 DEF Init, Sorted, N
    <3>2. ranked[p].end \in Nat /\ ranked[q].end \in Nat
      BY <1>2
    <3> QED
      BY <3>1, <3>2 DEF SortsBefore
  <2> QED
    BY <1>2, <2>2, <2>3 DEF EndsAscend
<1>4. /\ i = N /\ componentEnd = N /\ minLaterStart = -1
      /\ \/ phase = "done" /\ selected = 1..N /\ AllDisjoint
         \/ phase = "split" /\ selected = {}
  BY DEF Init, N
<1>5. TypeOK
  BY <1>2, <1>4 DEF TypeOK, N
<1>6. MinimumSoFar
  BY <1>2, <1>4 DEF MinimumSoFar
<1>7. Progress
  BY <1>2, <1>4 DEF Progress, Solving, ClosesAt, SelectedIsAbove
<1>8. SelectedAreDisjoint
  <2>1. CASE selected = {}
    BY <2>1 DEF SelectedAreDisjoint
  <2>2. CASE selected = 1..N /\ AllDisjoint
    <3>1. ASSUME NEW x \in 1..N, NEW y \in 1..N, x < y
          PROVE  ranked[x].end <= ranked[y].start
      <4>1. y - 1 \in 1..(N - 1) /\ y - 1 \in 1..N /\ (x = y - 1 \/ x < y - 1)
        BY <1>2, <3>1
      <4>2. ranked[y - 1].end <= ranked[y].start
        <5>1. ranked[y - 1].end <= ranked[(y - 1) + 1].start
          BY <2>2, <4>1 DEF AllDisjoint, N
        <5> QED
          BY <5>1
      <4>3. ranked[x].end <= ranked[y - 1].end
        BY <1>2, <1>3, <4>1 DEF EndsAscend
      <4>4. ranked[x].end \in Nat /\ ranked[y - 1].end \in Nat /\ ranked[y].start \in Nat
        BY <1>2, <4>1
      <4> QED
        BY <4>2, <4>3, <4>4
    <3>2. ASSUME NEW x \in 1..N, NEW y \in 1..N, x # y
          PROVE  Disjoint(ranked[x], ranked[y])
      <4>1. x < y \/ y < x
        BY <3>2
      <4> QED
        BY <3>1, <4>1 DEF Disjoint
    <3> QED
      BY <2>2, <3>2 DEF SelectedAreDisjoint
  <2> QED
    BY <1>4, <2>1, <2>2
<1> QED
  BY <1>2, <1>3, <1>4, <1>5, <1>6, <1>7, <1>8 DEF IInv

------------------------------------------------------------------------------
(* A component that is complete is handed to solve.                        *)
LEMMA SolveKeeps ==
  ASSUME IInv, phase = "split", NEW first \in 1..N,
         first <= componentEnd, ClosesAt(first - 1),
         Solve(first, componentEnd), componentEnd' = first - 1, ranked' = ranked
  PROVE  /\ Progress' /\ SelectedAreDisjoint'
         /\ selected' \subseteq 1..N
         /\ phase' \in {"split", "forward"}
         /\ phase' = "forward" =>
              from' \in 1..N /\ to' \in 1..N /\ from' < to' /\ include' = <<>>
<1>1. /\ EndsAscend /\ N \in Nat /\ N' = N /\ componentEnd \in 0..N
      /\ ClosesAt(componentEnd) /\ SelectedIsAbove(componentEnd) /\ SelectedAreDisjoint
      /\ selected \subseteq 1..N
  BY DEF IInv, EndsAscend, TypeOK, Progress, N
<1>2. CASE first = componentEnd
  <2>1. selected' = selected \cup {first} /\ phase' = "split"
    BY <1>2 DEF Solve
  <2>2. selected' \subseteq first..N
    BY <1>1, <1>2, <2>1 DEF SelectedIsAbove
  <2>3. ClosesAt(componentEnd)'
    BY <1>1 DEF ClosesAt
  <2>4. SelectedIsAbove(componentEnd)'
    BY <1>1, <2>2 DEF SelectedIsAbove, ClosesAt
  <2>5. SelectedAreDisjoint'
    <3>1. ASSUME NEW y \in selected
          PROVE  Disjoint(ranked[first], ranked[y]) /\ Disjoint(ranked[y], ranked[first])
      BY <1>1, <1>2 DEF SelectedIsAbove, Disjoint
    <3> QED
      BY <1>1, <2>1, <3>1 DEF SelectedAreDisjoint
  <2> QED
    BY <1>1, <2>1, <2>2, <2>3, <2>4, <2>5 DEF Progress, Solving
<1>3. CASE first # componentEnd
  <2>1. /\ phase' = "forward" /\ from' = first /\ to' = componentEnd
        /\ totals' = <<Zero>> /\ include' = <<>> /\ selected' = selected
    BY <1>3 DEF Solve
  <2>2. from' - 1 = componentEnd' /\ ClosesAt(componentEnd)' /\ ClosesAt(to)'
        /\ SelectedIsAbove(to)'
    BY <1>1, <2>1 DEF ClosesAt, SelectedIsAbove
  <2>3. SelectedAreDisjoint'
    BY <1>1, <2>1 DEF SelectedAreDisjoint
  <2> QED
    BY <1>1, <1>3, <2>1, <2>2, <2>3 DEF Progress, Solving
<1> QED
  BY <1>2, <1>3

(* A step that leaves the ranking alone leaves its ends in order.          *)
LEMMA EndsStaySorted ==
  ASSUME EndsAscend, ranked' = ranked
  PROVE  EndsAscend' /\ N' = N
  BY DEF EndsAscend, N

(* Where a candidate ends before the least start above it, a component     *)
(* closes: all that is below ends before all that is above starts.         *)
LEMMA ClosingPoint ==
  ASSUME EndsAscend, MinimumSoFar, i \in 1..N, NoLaterStartsBefore(ranked[i].end)
  PROVE  ClosesAt(i)
<1>1. ASSUME NEW x \in 1..i, NEW y \in (i + 1)..N
      PROVE  ranked[x].end <= ranked[y].start
  <2>1. x \in 1..N /\ y \in 1..N /\ (x = i \/ x < i)
    BY DEF EndsAscend
  <2>2. ranked[i].end <= minLaterStart /\ minLaterStart <= ranked[y].start
    BY DEF MinimumSoFar, NoLaterStartsBefore
  <2>3. ranked[x].end <= ranked[i].end
    BY <2>1 DEF EndsAscend
  <2>4. ranked[x].end \in Nat /\ ranked[i].end \in Nat /\ ranked[y].start \in Nat
        /\ minLaterStart \in Int
    BY <2>1 DEF EndsAscend, MinimumSoFar
  <2> QED
    BY <2>2, <2>3, <2>4
<1> QED
  BY <1>1 DEF ClosesAt

(* Cutting the first component off keeps the invariant: no candidate of it *)
(* touches one that is left.                                               *)
LEMMA SplitKeepsIInv ==
  ASSUME IInv, Split
  PROVE  IInv'
<1>1. /\ phase = "split" /\ i' = i - 1 /\ ranked' = ranked
      /\ minLaterStart' =
           IF NoLaterStartsBefore(ranked[i].start) THEN ranked[i].start ELSE minLaterStart
  BY DEF Split
<1>2. /\ EndsAscend /\ N \in Nat /\ N' = N /\ EndsAscend'
      /\ i \in 1..N /\ componentEnd \in i..N /\ MinimumSoFar
      /\ selected \subseteq 1..N /\ Progress /\ SelectedAreDisjoint
  BY <1>1, EndsStaySorted DEF IInv, EndsAscend, TypeOK, Split, N
<1>3. MinimumSoFar'
  <2>1. ranked[i].start \in Nat
    BY <1>2 DEF EndsAscend
  <2>2. minLaterStart' \in Nat
    BY <1>1, <1>2, <2>1 DEF MinimumSoFar, NoLaterStartsBefore
  <2>3. minLaterStart' <= ranked[i].start /\ (minLaterStart # -1 => minLaterStart' <= minLaterStart)
    BY <1>1, <1>2, <2>1 DEF MinimumSoFar, NoLaterStartsBefore
  <2>4. ASSUME NEW y \in i..N
        PROVE  minLaterStart' <= ranked[y].start
    <3>1. CASE y = i
      BY <2>3, <3>1
    <3>2. CASE y # i
      <4>1. y \in (i + 1)..N /\ y \in 1..N
        BY <1>2, <3>2
      <4>2. minLaterStart # -1 /\ minLaterStart <= ranked[y].start /\ minLaterStart \in Nat
        BY <1>2, <4>1 DEF MinimumSoFar
      <4>3. ranked[y].start \in Nat
        BY <1>2, <4>1 DEF EndsAscend
      <4> QED
        BY <2>2, <2>3, <4>2, <4>3
    <3> QED
      BY <3>1, <3>2
  <2> QED
    BY <1>1, <1>2, <2>2, <2>4 DEF MinimumSoFar
<1>4. CASE NoLaterStartsBefore(ranked[i].end) /\ i < componentEnd
  <2>1. Solve(i + 1, componentEnd) /\ componentEnd' = i
    BY <1>4 DEF Split
  <2>2. ClosesAt(i)
    BY <1>2, <1>4, ClosingPoint
  <2>3. i + 1 \in 1..N
    BY <1>2, <1>4
  <2> PICK first \in 1..N : first = i + 1
    BY <2>3
  <2>4. /\ Progress' /\ SelectedAreDisjoint'
        /\ selected' \subseteq 1..N
        /\ phase' \in {"split", "forward"}
        /\ phase' = "forward" =>
             from' \in 1..N /\ to' \in 1..N /\ from' < to' /\ include' = <<>>
    <3>1. Solve(first, componentEnd) /\ componentEnd' = first - 1 /\ ClosesAt(first - 1)
          /\ first <= componentEnd
      <4>1. first - 1 = i
        BY <1>2
      <4> QED
        BY <1>2, <1>4, <2>1, <2>2, <4>1
    <3> QED
      BY <1>1, <3>1, SolveKeeps
  <2>5. TypeOK'
    <3>1. Len(ranked') = N
      BY <1>1 DEF N
    <3>2. i' \in 0..N /\ componentEnd' \in 0..N
      BY <1>1, <1>2, <1>4, <2>1
    <3>3. phase' = "forward" =>
            include' \in Seq(BOOLEAN) /\ Len(include') <= to' - from' + 1
      BY <2>4
    <3> QED
      BY <2>4, <3>1, <3>2, <3>3 DEF TypeOK
  <2> QED
    BY <1>1, <1>2, <1>3, <2>1, <2>4, <2>5 DEF IInv
<1>5. CASE ~(NoLaterStartsBefore(ranked[i].end) /\ i < componentEnd)
  <2>1. /\ phase' = phase /\ componentEnd' = componentEnd /\ selected' = selected
    BY <1>5 DEF Split
  <2>2. TypeOK'
    BY <1>1, <1>2, <2>1 DEF TypeOK, N
  <2>3. Progress'
    BY <1>1, <1>2, <2>1 DEF Progress, Solving, ClosesAt, SelectedIsAbove
  <2>4. SelectedAreDisjoint'
    BY <1>1, <1>2, <2>1 DEF SelectedAreDisjoint
  <2> QED
    BY <1>1, <1>2, <1>3, <2>1, <2>2, <2>3, <2>4 DEF IInv
<1> QED
  BY <1>4, <1>5

(* Solving a component, whatever its size, keeps the invariant.            *)
LEMMA SolveFirstComponentKeepsIInv ==
  ASSUME IInv, SolveFirstComponent
  PROVE  IInv'
<1>1. /\ phase = "split" /\ i = 0 /\ i' = 0 /\ componentEnd > 0 /\ componentEnd' = 0
      /\ Solve(1, componentEnd) /\ ranked' = ranked /\ minLaterStart' = minLaterStart
  BY DEF SolveFirstComponent
<1>2. /\ EndsAscend /\ N \in Nat /\ N' = N /\ EndsAscend' /\ MinimumSoFar
      /\ componentEnd \in 1..N
  BY <1>1, EndsStaySorted DEF IInv, EndsAscend, TypeOK, N
<1>3. PICK first \in 1..N : first = 1
  BY <1>2
<1>4. /\ Progress' /\ SelectedAreDisjoint'
      /\ selected' \subseteq 1..N
      /\ phase' \in {"split", "forward"}
      /\ phase' = "forward" =>
           from' \in 1..N /\ to' \in 1..N /\ from' < to' /\ include' = <<>>
  <2>1. first <= componentEnd /\ first - 1 = 0
    BY <1>2, <1>3
  <2>2. ClosesAt(first - 1)
    BY <2>1 DEF ClosesAt
  <2> QED
    BY <1>1, <1>3, <2>1, <2>2, SolveKeeps
<1>5. TypeOK'
  <2>1. Len(ranked') = N
    BY <1>1 DEF N
  <2>2. i' \in 0..N /\ componentEnd' \in 0..N
    BY <1>1, <1>2
  <2>3. phase' = "forward" => include' \in Seq(BOOLEAN) /\ Len(include') <= to' - from' + 1
    BY <1>4
  <2> QED
    BY <1>4, <2>1, <2>2, <2>3 DEF TypeOK
<1>6. MinimumSoFar'
  BY <1>1, <1>2 DEF MinimumSoFar
<1> QED
  BY <1>1, <1>2, <1>4, <1>5, <1>6 DEF IInv

(* Returning what was selected keeps the invariant.                        *)
LEMMA FinishKeepsIInv ==
  ASSUME IInv, Finish
  PROVE  IInv'
<1>1. /\ phase' = "done" /\ i' = i /\ componentEnd' = componentEnd /\ ranked' = ranked
      /\ minLaterStart' = minLaterStart /\ selected' = selected
  BY DEF Finish
<1>2. N' = N /\ EndsAscend'
  BY <1>1, EndsStaySorted DEF IInv
<1> QED
  BY <1>1, <1>2 DEF IInv, TypeOK, MinimumSoFar, Progress, Solving, SelectedAreDisjoint, N

(* Each step of the forward pass fills one more total and keeps the        *)
(* invariant.                                                              *)
LEMMA ForwardKeepsIInv ==
  ASSUME IInv, Forward
  PROVE  IInv'
<1>1. /\ phase = "forward" /\ i' = i /\ componentEnd' = componentEnd /\ ranked' = ranked
      /\ minLaterStart' = minLaterStart /\ selected' = selected /\ from' = from /\ to' = to
  BY DEF Forward
<1>2. /\ N \in Nat /\ N' = N /\ EndsAscend' /\ MinimumSoFar' /\ SelectedAreDisjoint'
      /\ (i' <= componentEnd' \/ (i' = 0 /\ componentEnd' = 0))
  BY <1>1, EndsStaySorted DEF IInv, EndsAscend, MinimumSoFar, SelectedAreDisjoint
<1>3. /\ from \in 1..N /\ to \in 1..N /\ from < to /\ include \in Seq(BOOLEAN)
      /\ Len(include) <= to - from + 1 /\ selected \subseteq 1..N
      /\ i \in 0..N /\ componentEnd \in 0..N
      /\ from - 1 = componentEnd /\ ClosesAt(componentEnd) /\ ClosesAt(to)
      /\ SelectedIsAbove(to)
  BY <1>1 DEF IInv, TypeOK, Progress, Solving, N
<1>4. ClosesAt(componentEnd)' /\ ClosesAt(to)' /\ SelectedIsAbove(to)'
  BY <1>1, <1>2, <1>3 DEF ClosesAt, SelectedIsAbove
<1>5. CASE from + (Len(include) + 1) - 1 <= to
  <2>1. PICK b \in BOOLEAN : include' = Append(include, b)
    BY <1>5 DEF Forward, Better, Less
  <2>2. include' \in Seq(BOOLEAN) /\ Len(include') <= to - from + 1
    BY <1>3, <1>5, <2>1
  <2>3. phase' = "forward"
    BY <1>1, <1>5 DEF Forward
  <2>4. TypeOK'
    BY <1>1, <1>3, <2>2, <2>3 DEF TypeOK, N
  <2>5. Progress'
    BY <1>1, <1>3, <1>4, <2>3 DEF Progress, Solving
  <2> QED
    BY <1>2, <2>4, <2>5 DEF IInv
<1>6. CASE ~(from + (Len(include) + 1) - 1 <= to)
  <2>1. phase' = "backward" /\ back' = Len(include) /\ include' = include
    BY <1>6 DEF Forward
  <2>2. back' \in 0..Len(include') /\ from' + back' - 1 = to'
    BY <1>1, <1>3, <1>6, <2>1
  <2>3. TypeOK'
    BY <1>1, <1>3, <2>1, <2>2 DEF TypeOK, N
  <2>4. SelectedIsAbove(from + back - 1)'
    BY <1>4, <2>2
  <2>5. Progress'
    BY <1>1, <1>3, <1>4, <2>1, <2>4 DEF Progress, Solving
  <2> QED
    BY <1>2, <2>3, <2>5 DEF IInv
<1> QED
  BY <1>5, <1>6

(* Taking a candidate leaves only what ends before it starts.              *)
LEMMA BackwardKeepsIInv ==
  ASSUME IInv, Backward
  PROVE  IInv'
<1>1. /\ phase = "backward" /\ i' = i /\ componentEnd' = componentEnd /\ ranked' = ranked
      /\ minLaterStart' = minLaterStart /\ from' = from /\ to' = to /\ include' = include
  BY DEF Backward
<1>2. /\ N \in Nat /\ N' = N /\ EndsAscend /\ EndsAscend' /\ MinimumSoFar'
      /\ SelectedAreDisjoint
      /\ (i' <= componentEnd' \/ (i' = 0 /\ componentEnd' = 0))
  BY <1>1, EndsStaySorted DEF IInv, EndsAscend, MinimumSoFar
<1>3. /\ from \in 1..N /\ to \in 1..N /\ from < to /\ include \in Seq(BOOLEAN)
      /\ Len(include) <= to - from + 1 /\ back \in 0..Len(include) /\ Len(include) \in Nat
      /\ selected \subseteq 1..N /\ i \in 0..N /\ componentEnd \in 0..N
      /\ from - 1 = componentEnd /\ ClosesAt(componentEnd) /\ ClosesAt(to)
      /\ SelectedIsAbove(from + back - 1)
  <2>1. /\ from \in 1..N /\ to \in 1..N /\ from < to /\ include \in Seq(BOOLEAN)
        /\ Len(include) <= to - from + 1 /\ back \in 0..Len(include)
        /\ selected \subseteq 1..N /\ i \in 0..N /\ componentEnd \in 0..N
    BY <1>1 DEF IInv, TypeOK, N
  <2>2. /\ from - 1 = componentEnd /\ ClosesAt(componentEnd) /\ ClosesAt(to)
        /\ SelectedIsAbove(from + back - 1)
    BY <1>1 DEF IInv, Progress, Solving
  <2>3. Len(include) \in Nat
    BY <2>1
  <2> QED
    BY <2>1, <2>2, <2>3
<1>4. ClosesAt(componentEnd)' /\ ClosesAt(to)'
  BY <1>1, <1>2, <1>3 DEF ClosesAt
<1>5. CASE back = 0
  <2>1. phase' = "split" /\ selected' = selected /\ back' = back
    BY <1>1, <1>5 DEF Backward
  <2>2. SelectedIsAbove(componentEnd)'
    BY <1>1, <1>2, <1>3, <1>5, <2>1 DEF SelectedIsAbove
  <2>3. TypeOK' /\ SelectedAreDisjoint'
    BY <1>1, <1>2, <1>3, <2>1 DEF TypeOK, SelectedAreDisjoint, N
  <2>4. Progress'
    BY <1>4, <2>1, <2>2 DEF Progress, Solving
  <2> QED
    BY <1>2, <2>3, <2>4 DEF IInv
<1>6. CASE back # 0 /\ include[back]
  <2> DEFINE x == from + back - 1
             m == Predecessors(ranked, from, back)
  <2>1. phase' = phase /\ selected' = selected \cup {x} /\ back' = m
    BY <1>1, <1>6 DEF Backward
  <2>2. x \in 1..N /\ back \in 1..(N - from + 1) /\ x \in Nat
    BY <1>2, <1>3, <1>6
  <2>3. /\ m \in 0..(back - 1)
        /\ \A y \in from..(from + m - 1) : ranked[y].end <= ranked[x].start
    BY <1>2, <1>3, <2>2, PredecessorsEndBefore
  <2> HIDE DEF m
  <2>4. \A y \in selected : y \in 1..N /\ y > x /\ ranked[x].end <= ranked[y].start
    BY <1>2, <1>3, <2>2 DEF SelectedIsAbove
  <2>5. SelectedAreDisjoint'
    <3>1. ASSUME NEW y \in selected
          PROVE  Disjoint(ranked[x], ranked[y]) /\ Disjoint(ranked[y], ranked[x])
      BY <2>4 DEF Disjoint
    <3> QED
      BY <1>1, <1>2, <2>1, <3>1 DEF SelectedAreDisjoint
  <2>6. ASSUME NEW y \in 1..(from + m - 1)
        PROVE  ranked[y].end <= ranked[x].start
    <3>1. CASE y \in from..(from + m - 1)
      BY <2>3, <3>1
    <3>2. CASE y \notin from..(from + m - 1)
      <4>1. y \in 1..componentEnd /\ x \in (componentEnd + 1)..N
        BY <1>2, <1>3, <2>2, <2>3, <3>2
      <4> QED
        BY <1>3, <4>1 DEF ClosesAt
    <3> QED
      BY <3>1, <3>2
  <2>7. ASSUME NEW y \in 1..(from + m - 1), NEW z \in selected
        PROVE  ranked[y].end <= ranked[z].start
    <3>1. y \in 1..(from + back - 1)
      BY <1>3, <2>3
    <3> QED
      BY <1>3, <3>1 DEF SelectedIsAbove
  <2>8. SelectedIsAbove(from + back - 1)'
    <3>1. selected' \subseteq (from' + back' - 1 + 1)..N'
      BY <1>1, <1>2, <1>3, <2>1, <2>2, <2>3, <2>4
    <3>2. \A y \in 1..(from' + back' - 1), z \in selected' : ranked'[y].end <= ranked'[z].start
      BY <1>1, <2>1, <2>6, <2>7
    <3> QED
      BY <3>1, <3>2 DEF SelectedIsAbove
  <2>9. TypeOK'
    <3>1. selected' \subseteq 1..N
      BY <1>3, <2>1, <2>2
    <3>2. back' \in 0..Len(include')
      BY <1>1, <1>3, <2>1, <2>3
    <3> QED
      BY <1>1, <1>2, <1>3, <2>1, <3>1, <3>2 DEF TypeOK, N
  <2>10. Progress'
    BY <1>1, <1>3, <1>4, <2>1, <2>8 DEF Progress, Solving
  <2> QED
    BY <1>2, <2>5, <2>9, <2>10 DEF IInv
<1>7. CASE back # 0 /\ ~include[back]
  <2>1. phase' = phase /\ selected' = selected /\ back' = back - 1
    BY <1>1, <1>7 DEF Backward
  <2>2. SelectedIsAbove(from + back - 1)'
    BY <1>1, <1>2, <1>3, <1>7, <2>1 DEF SelectedIsAbove
  <2>3. TypeOK'
    BY <1>1, <1>2, <1>3, <1>7, <2>1 DEF TypeOK, N
  <2>4. SelectedAreDisjoint'
    BY <1>1, <1>2, <2>1 DEF SelectedAreDisjoint
  <2>5. Progress'
    BY <1>1, <1>3, <1>4, <2>1, <2>2 DEF Progress, Solving
  <2> QED
    BY <1>2, <2>3, <2>4, <2>5 DEF IInv
<1> QED
  BY <1>5, <1>6, <1>7

(* At every point of the selection what is still to be solved ends before  *)
(* everything selected starts: the inductive invariant behind the theorems *)
(* below.                                                                  *)
THEOREM InductiveInvariant == Spec => []IInv
<1>1. Init => IInv
  BY InitEstablishesIInv
<1>2. IInv /\ [Next]_vars => IInv'
  <2> SUFFICES ASSUME IInv, [Next]_vars
               PROVE  IInv'
    OBVIOUS
  <2>1. CASE Split
    BY <2>1, SplitKeepsIInv
  <2>2. CASE SolveFirstComponent
    BY <2>2, SolveFirstComponentKeepsIInv
  <2>3. CASE Finish
    BY <2>3, FinishKeepsIInv
  <2>4. CASE Forward
    BY <2>4, ForwardKeepsIInv
  <2>5. CASE Backward
    BY <2>5, BackwardKeepsIInv
  <2>6. CASE UNCHANGED vars
    BY <2>6 DEF vars, IInv, TypeOK, EndsAscend, MinimumSoFar, Progress, Solving, ClosesAt,
                SelectedIsAbove, SelectedAreDisjoint, N
  <2> QED
    BY <2>1, <2>2, <2>3, <2>4, <2>5, <2>6 DEF Next
<1> QED
  BY <1>1, <1>2, PTL DEF Spec

(* Whatever the candidates, the loops of select_optimal_disjoint_set and   *)
(* solve stay inside the component they work on.                           *)
THEOREM TypeCorrect == Spec => []TypeOK
<1>1. IInv => TypeOK
  BY DEF IInv
<1> QED
  BY <1>1, InductiveInvariant, PTL

(* No two findings of one call overlap, whatever the detectors proposed:   *)
(* what redaction relies on (redact_shifted_into).                         *)
THEOREM FindingsAreDisjoint == Spec => []SelectedAreDisjoint
<1>1. IInv => SelectedAreDisjoint
  BY DEF IInv
<1> QED
  BY <1>1, InductiveInvariant, PTL

Weights == [1..6 -> Nat]

(* What the tables hold is ordered as the code orders evidence.            *)
AtMost(u, v) == ~Less(v, u)

(* Two weights differ first in one of six places.                          *)
LEMMA LessByPlace ==
  ASSUME NEW u \in Weights, NEW v \in Weights
  PROVE  Less(u, v) <=>
           \/ u[1] < v[1]
           \/ u[1] = v[1] /\ u[2] < v[2]
           \/ u[1] = v[1] /\ u[2] = v[2] /\ u[3] < v[3]
           \/ u[1] = v[1] /\ u[2] = v[2] /\ u[3] = v[3] /\ u[4] < v[4]
           \/ u[1] = v[1] /\ u[2] = v[2] /\ u[3] = v[3] /\ u[4] = v[4] /\ u[5] < v[5]
           \/ u[1] = v[1] /\ u[2] = v[2] /\ u[3] = v[3] /\ u[4] = v[4] /\ u[5] = v[5]
              /\ u[6] < v[6]
<1> DEFINE Here(k) == u[k] < v[k] /\ \A j \in 1..(k - 1) : u[j] = v[j]
<1>1. DOMAIN u = 1..6 /\ \A k \in 1..6 : k = 1 \/ k = 2 \/ k = 3 \/ k = 4 \/ k = 5 \/ k = 6
  BY DEF Weights
<1>2. Less(u, v) <=> Here(1) \/ Here(2) \/ Here(3) \/ Here(4) \/ Here(5) \/ Here(6)
  <2> HIDE DEF Here
  <2>1. Less(u, v) <=> \E k \in 1..6 : Here(k)
    BY <1>1 DEF Less, Here
  <2> QED
    BY <1>1, <2>1
<1>3. /\ 1..(1 - 1) = {} /\ 1..(2 - 1) = {1} /\ 1..(3 - 1) = {1, 2} /\ 1..(4 - 1) = {1, 2, 3}
      /\ 1..(5 - 1) = {1, 2, 3, 4} /\ 1..(6 - 1) = {1, 2, 3, 4, 5}
  OBVIOUS
<1> QED
  BY <1>2, <1>3

(* Evidence is ordered, and adding the same to both sides keeps the order. *)
LEMMA WeightsAreOrdered ==
  ASSUME NEW u \in Weights, NEW v \in Weights, NEW w \in Weights
  PROVE  /\ AtMost(u, u)
         /\ Less(u, v) => AtMost(u, v)
         /\ AtMost(u, v) /\ AtMost(v, w) => AtMost(u, w)
         /\ u[1] < v[1] => Less(u, v)
<1>1. /\ u[1] \in Nat /\ u[2] \in Nat /\ u[3] \in Nat /\ u[4] \in Nat /\ u[5] \in Nat /\ u[6] \in Nat
      /\ v[1] \in Nat /\ v[2] \in Nat /\ v[3] \in Nat /\ v[4] \in Nat /\ v[5] \in Nat /\ v[6] \in Nat
      /\ w[1] \in Nat /\ w[2] \in Nat /\ w[3] \in Nat /\ w[4] \in Nat /\ w[5] \in Nat /\ w[6] \in Nat
  BY DEF Weights
<1>2. AtMost(u, u)
  BY <1>1, LessByPlace DEF AtMost
<1>3. Less(u, v) => AtMost(u, v)
  BY <1>1, LessByPlace DEF AtMost
<1>4. AtMost(u, v) /\ AtMost(v, w) => AtMost(u, w)
  BY <1>1, LessByPlace DEF AtMost
<1>5. u[1] < v[1] => Less(u, v)
  BY LessByPlace
<1> QED
  BY <1>2, <1>3, <1>4, <1>5

LEMMA PlusOfWeights ==
  ASSUME NEW u \in Weights, NEW v \in Weights
  PROVE  /\ Plus(u, v) \in Weights
         /\ \A k \in 1..6 : Plus(u, v)[k] = u[k] + v[k]
         /\ Plus(u, v) = Plus(v, u)
         /\ Zero \in Weights /\ Plus(u, Zero) = u /\ Plus(Zero, u) = u
<1>1. \A k \in 1..6 : u[k] \in Nat /\ v[k] \in Nat
  BY DEF Weights
<1>2. Plus(u, v) \in Weights /\ \A k \in 1..6 : Plus(u, v)[k] = u[k] + v[k]
  BY <1>1 DEF Plus, Weights
<1>3. Plus(u, v) = Plus(v, u)
  BY <1>1 DEF Plus
<1>4. Zero \in Weights /\ \A k \in 1..6 : Zero[k] = 0
  BY DEF Zero, Weights
<1>5. Plus(u, Zero) = u /\ Plus(Zero, u) = u
  <2>1. u = [k \in 1..6 |-> u[k]]
    BY DEF Weights
  <2>2. \A k \in 1..6 : u[k] + Zero[k] = u[k] /\ Zero[k] + u[k] = u[k]
    BY <1>1, <1>4
  <2> QED
    BY <2>1, <2>2 DEF Plus
<1> QED
  BY <1>2, <1>3, <1>4, <1>5

LEMMA PlusIsAssociative ==
  ASSUME NEW u \in Weights, NEW v \in Weights, NEW w \in Weights
  PROVE  Plus(Plus(u, v), w) = Plus(u, Plus(v, w))
<1>1. \A k \in 1..6 : u[k] \in Nat /\ v[k] \in Nat /\ w[k] \in Nat
  BY DEF Weights
<1>2. \A k \in 1..6 : Plus(u, v)[k] + w[k] = u[k] + Plus(v, w)[k]
  BY <1>1 DEF Plus
<1> QED
  BY <1>2 DEF Plus

LEMMA PlusKeepsOrder ==
  ASSUME NEW u \in Weights, NEW v \in Weights, NEW w \in Weights
  PROVE  /\ Less(Plus(u, w), Plus(v, w)) <=> Less(u, v)
         /\ Less(Plus(w, u), Plus(w, v)) <=> Less(u, v)
<1>1. Less(Plus(u, w), Plus(v, w)) <=> Less(u, v)
  <2>1. ASSUME NEW k \in 1..6
        PROVE  /\ Plus(u, w)[k] < Plus(v, w)[k] <=> u[k] < v[k]
               /\ Plus(u, w)[k] = Plus(v, w)[k] <=> u[k] = v[k]
    <3>1. Plus(u, w)[k] = u[k] + w[k] /\ Plus(v, w)[k] = v[k] + w[k]
      BY PlusOfWeights
    <3>2. u[k] \in Nat /\ v[k] \in Nat /\ w[k] \in Nat
      BY DEF Weights
    <3> QED
      BY <3>1, <3>2
  <2>2. \A k \in {1, 2, 3, 4, 5, 6} :
           /\ Plus(u, w)[k] < Plus(v, w)[k] <=> u[k] < v[k]
           /\ Plus(u, w)[k] = Plus(v, w)[k] <=> u[k] = v[k]
    BY <2>1
  <2>3. Plus(u, w) \in Weights /\ Plus(v, w) \in Weights
    BY PlusOfWeights
  <2> QED
    BY <2>2, <2>3, LessByPlace
<1>2. Plus(u, w) = Plus(w, u) /\ Plus(v, w) = Plus(w, v)
  BY PlusOfWeights
<1> QED
  BY <1>1, <1>2

LEMMA SumsAreOrdered ==
  ASSUME NEW u \in Weights, NEW v \in Weights, NEW w \in Weights, NEW x \in Weights,
         AtMost(u, v), AtMost(w, x)
  PROVE  AtMost(Plus(u, w), Plus(v, x))
<1>1. AtMost(Plus(u, w), Plus(v, w)) /\ AtMost(Plus(v, w), Plus(v, x))
  BY PlusKeepsOrder DEF AtMost
<1>2. Plus(u, w) \in Weights /\ Plus(v, w) \in Weights /\ Plus(v, x) \in Weights
  BY PlusOfWeights
<1> QED
  BY <1>1, <1>2, WeightsAreOrdered

------------------------------------------------------------------------------
IsPowers(p, b, n) == p = [k \in 0..n |-> IF k = 0 THEN 1 ELSE b * p[k - 1]]

(* There is a table of powers, and the entries do not depend on its size.  *)
LEMMA PowersExist ==
  ASSUME NEW b \in Nat, NEW n \in Nat
  PROVE  \E p : IsPowers(p, b, n) /\ Power(b, n) = p[n]
<1> DEFINE step == [k \in 1..n |-> [f \in [0..n -> Nat] |-> b * f[k - 1]]]
<1>1. \A k \in 1..n, f \in [0..n -> Nat] : f[k - 1] \in Nat /\ b * f[k - 1] \in Nat
  OBVIOUS
<1>2. step \in [1..n -> [[0..n -> Nat] -> Nat]]
  BY <1>1
<1>3. \A k \in 1..n, f \in [0..n -> Nat] : step[k][f] = b * f[k - 1]
  OBVIOUS
<1> HIDE DEF step
<1>4. LooksBelow(step, n, Nat)
  <2>1. ASSUME NEW k \in 1..n, NEW f \in [0..n -> Nat], NEW g \in [0..n -> Nat],
               \A j \in 0..(k - 1) : f[j] = g[j]
        PROVE  step[k][f] = step[k][g]
    <3>1. k - 1 \in 0..(k - 1)
      OBVIOUS
    <3>2. f[k - 1] = g[k - 1]
      BY <2>1, <3>1
    <3> QED
      BY <1>3, <3>2
  <2> QED
    BY <1>2, <2>1 DEF LooksBelow
<1>5. PICK p : Computes(p, step, n, Nat, 1)
  <2>1. 1 \in Nat
    OBVIOUS
  <2> QED
    BY <1>4, <2>1, RecursionExists
<1>6. p \in [0..n -> Nat] /\ \A k \in 0..n : p[k] = IF k = 0 THEN 1 ELSE b * p[k - 1]
  <2>1. p \in [0..n -> Nat] /\ p[0] = 1 /\ \A k \in 1..n : p[k] = step[k][p]
    BY <1>5 DEF Computes
  <2>2. \A k \in 1..n : p[k] = b * p[k - 1]
    BY <1>3, <2>1
  <2> QED
    BY <2>1, <2>2
<1>7. IsPowers(p, b, n)
  BY <1>6 DEF IsPowers
<1> DEFINE q == CHOOSE q : q = [k \in 0..n |-> IF k = 0 THEN 1 ELSE b * q[k - 1]]
<1>8. IsPowers(q, b, n)
  BY <1>7, Zenon DEF IsPowers
<1>9. Power(b, n) = q[n]
  BY DEF Power
<1> QED
  BY <1>8, <1>9

LEMMA PowersAgree ==
  ASSUME NEW b \in Nat, NEW n \in Nat, NEW m \in Nat, NEW p, NEW q,
         IsPowers(p, b, n), IsPowers(q, b, m)
  PROVE  \A k \in Nat : k <= n /\ k <= m => p[k] = q[k] /\ p[k] \in Nat
<1> DEFINE P == {k \in Nat : k <= n /\ k <= m => p[k] = q[k] /\ p[k] \in Nat}
<1>1. /\ p[0] = 1 /\ q[0] = 1
      /\ \A k \in 0..n : k # 0 => p[k] = b * p[k - 1]
      /\ \A k \in 0..m : k # 0 => q[k] = b * q[k - 1]
  BY DEF IsPowers
<1>2. 0 \in P
  BY <1>1
<1>3. ASSUME NEW k \in P
      PROVE  k + 1 \in P
  <2>1. k \in Nat /\ k + 1 # 0 /\ (k + 1) - 1 = k
    OBVIOUS
  <2>2. CASE k + 1 <= n /\ k + 1 <= m
    <3>1. p[k] = q[k] /\ p[k] \in Nat
      BY <2>1, <2>2
    <3>2. p[k + 1] = b * p[k] /\ q[k + 1] = b * q[k]
      BY <1>1, <2>1, <2>2
    <3>3. b * p[k] \in Nat
      BY <3>1
    <3> QED
      BY <3>1, <3>2, <3>3
  <2> QED
    BY <2>1, <2>2
<1>4. P = Nat
  <2> HIDE DEF P
  <2>1. P \subseteq Nat
    BY DEF P
  <2> QED
    BY <1>2, <1>3, <2>1, StepsReachAll
<1> QED
  BY <1>4

(* What saturating_pow computes.                                           *)
LEMMA PowerSteps ==
  ASSUME NEW b \in Nat, b > 0
  PROVE  /\ Power(b, 0) = 1
         /\ \A n \in Nat : Power(b, n) \in Nat /\ Power(b, n) > 0
                           /\ Power(b, n + 1) = b * Power(b, n)
<1>1. Power(b, 0) = 1
  <2>1. PICK p : IsPowers(p, b, 0) /\ Power(b, 0) = p[0]
    BY PowersExist
  <2> QED
    BY <2>1 DEF IsPowers
<1>2. ASSUME NEW n \in Nat
      PROVE  Power(b, n) \in Nat /\ Power(b, n + 1) = b * Power(b, n)
  <2>1. PICK p : IsPowers(p, b, n) /\ Power(b, n) = p[n]
    BY PowersExist
  <2>2. n + 1 \in Nat
    OBVIOUS
  <2>3. PICK q : IsPowers(q, b, n + 1) /\ Power(b, n + 1) = q[n + 1]
    BY <2>2, PowersExist
  <2>4. p[n] = q[n] /\ p[n] \in Nat
    BY <2>1, <2>2, <2>3, PowersAgree
  <2>5. q[n + 1] = b * q[n]
    BY <2>3 DEF IsPowers
  <2> QED
    BY <2>1, <2>3, <2>4, <2>5
<1>3. \A n \in Nat : Power(b, n) > 0
  <2> DEFINE P == {n \in Nat : Power(b, n) > 0}
  <2>1. 0 \in P
    BY <1>1
  <2>2. ASSUME NEW n \in P
        PROVE  n + 1 \in P
    <3>1. Power(b, n) \in Nat /\ Power(b, n) > 0 /\ Power(b, n + 1) = b * Power(b, n)
      BY <1>2
    <3>2. \A x \in Nat : x > 0 => b * x > 0
      OBVIOUS
    <3> QED
      BY <3>1, <3>2
  <2>3. P = Nat
    <3> HIDE DEF P
    <3>1. P \subseteq Nat
      BY DEF P
    <3> QED
      BY <2>1, <2>2, <3>1, StepsReachAll
  <2> QED
    BY <2>3
<1> QED
  BY <1>1, <1>2, <1>3

LEMMA PowerAscends ==
  ASSUME NEW b \in Nat, b > 0, NEW m \in Nat, NEW n \in Nat, m <= n
  PROVE  Power(b, m) <= Power(b, n)
<1> DEFINE P == {k \in Nat : Power(b, m) <= Power(b, m + k)}
<1>1. 0 \in P
  BY PowerSteps
<1>2. ASSUME NEW k \in P
      PROVE  k + 1 \in P
  <2>1. m + k \in Nat /\ (m + k) + 1 = m + (k + 1)
    OBVIOUS
  <2>2. /\ Power(b, m) \in Nat /\ Power(b, m + k) \in Nat
        /\ Power(b, m + (k + 1)) = b * Power(b, m + k)
    BY <2>1, PowerSteps
  <2>3. \A x \in Nat : x <= b * x
    OBVIOUS
  <2>4. Power(b, m + k) <= b * Power(b, m + k) /\ b * Power(b, m + k) \in Nat
    BY <2>2, <2>3
  <2> QED
    BY <2>2, <2>4
<1>3. P = Nat
  <2> HIDE DEF P
  <2>1. P \subseteq Nat
    BY DEF P
  <2> QED
    BY <1>1, <1>2, <2>1, StepsReachAll
<1>4. n - m \in Nat /\ m + (n - m) = n
  OBVIOUS
<1>5. Power(b, m) <= Power(b, m + (n - m))
  BY <1>3, <1>4
<1> QED
  BY <1>4, <1>5

------------------------------------------------------------------------------
(* The candidates have the fields of candidates and are sorted by end.     *)
Ranking(s) ==
  /\ Len(s) \in Nat
  /\ \A x \in 1..Len(s) : s[x] \in Shapes
  /\ \A x, y \in 1..Len(s) : x < y => s[x].end <= s[y].end

(* What candidate x weighs, and what the candidates in S weigh together.   *)
W(s, x) == Weight(s[x], Len(s) + 1)

Total(s, S) == TotalWeight(s, S, Len(s) + 1)

LEMMA RankingFields ==
  ASSUME NEW s, Ranking(s), NEW x \in 1..Len(s)
  PROVE  /\ s[x].start \in Nat /\ s[x].end \in Nat /\ s[x].start < s[x].end
         /\ s[x].severity \in Nat /\ s[x].specificity \in Nat /\ s[x].confidence \in Nat
         /\ s[x].detectorOrder \in Nat /\ s[x].candidateOrder \in Nat
         /\ s[x].end - s[x].start <= WidthCap
         /\ s[x].detectorOrder <= OrderCap /\ s[x].candidateOrder <= OrderCap
<1>1. s[x] \in Shapes
  BY DEF Ranking
<1>2. s[x] \in [Keys -> Nat]
  BY <1>1, CandidateAssumption
<1> QED
  BY <1>1, <1>2, CandidateAssumption DEF Keys

(* A candidate weighs something in the first place: a power of the base.   *)
LEMMA WeightToBase ==
  ASSUME NEW s, Ranking(s), NEW x \in 1..Len(s), NEW b \in Nat, b > 0
  PROVE  /\ Weight(s[x], b) \in Weights
         /\ Weight(s[x], b)[1] = Power(b, s[x].severity)
         /\ Weight(s[x], b)[2] = Power(b, s[x].specificity)
         /\ Weight(s[x], b)[3] = Power(b, s[x].confidence)
         /\ Weight(s[x], b)[1] > 0
<1>1. /\ Power(b, s[x].severity) \in Nat /\ Power(b, s[x].severity) > 0
      /\ Power(b, s[x].specificity) \in Nat
      /\ Power(b, s[x].confidence) \in Nat
  BY RankingFields, PowerSteps
<1>2. /\ WidthCap - Length(s[x]) \in Nat /\ OrderCap - s[x].detectorOrder \in Nat
      /\ OrderCap - s[x].candidateOrder \in Nat
  BY RankingFields, CandidateAssumption DEF Length
<1> QED
  BY <1>1, <1>2 DEF Weight, Weights

LEMMA WeightOfCandidate ==
  ASSUME NEW s, Ranking(s), NEW x \in 1..Len(s)
  PROVE  /\ W(s, x) \in Weights
         /\ W(s, x)[1] = Power(Len(s) + 1, s[x].severity)
         /\ W(s, x)[1] > 0
<1>1. Len(s) + 1 \in Nat /\ Len(s) + 1 > 0
  BY DEF Ranking
<1> QED
  BY <1>1, WeightToBase DEF W

(* The sum goes over the candidates one by one.                            *)
SumsUp(t, s, b, S) ==
  /\ t \in [0..Len(s) -> Weights] /\ t[Len(s)] = TotalWeight(s, S, b)
  /\ t[0] = Zero
  /\ \A n \in 1..Len(s) :
       t[n] = IF n \in S THEN Plus(t[n - 1], Weight(s[n], b)) ELSE t[n - 1]

LEMMA SumStepByStep ==
  ASSUME NEW s, Ranking(s), NEW b \in Nat, b > 0, NEW S
  PROVE  \E t : SumsUp(t, s, b, S)
<1> DEFINE n == Len(s)
           next(k, w) == IF k \in S THEN Plus(w, Weight(s[k], b)) ELSE w
           step == [k \in 1..n |-> [f \in [0..n -> Weights] |-> next(k, f[k - 1])]]
           rule(t, k) == IF k = 0 THEN Zero
                         ELSE IF k \in S THEN Plus(t[k - 1], Weight(s[k], b))
                         ELSE t[k - 1]
           q == CHOOSE t : t = [k \in 0..n |-> rule(t, k)]
<1>1. n \in Nat /\ Zero \in Weights
  BY PlusOfWeights DEF Ranking, Zero, Weights
<1>2. \A k \in 1..n, w \in Weights : next(k, w) \in Weights
  BY WeightToBase, PlusOfWeights
<1> HIDE DEF next
<1>3. \A k \in 1..n, f \in [0..n -> Weights] : f[k - 1] \in Weights
  BY <1>1
<1>4. step \in [1..n -> [[0..n -> Weights] -> Weights]]
  BY <1>2, <1>3
<1>5. \A k \in 1..n, f \in [0..n -> Weights] : step[k][f] = next(k, f[k - 1])
  OBVIOUS
<1> HIDE DEF step
<1>6. LooksBelow(step, n, Weights)
  <2>1. ASSUME NEW k \in 1..n, NEW f \in [0..n -> Weights], NEW g \in [0..n -> Weights],
               \A j \in 0..(k - 1) : f[j] = g[j]
        PROVE  step[k][f] = step[k][g]
    <3>1. k - 1 \in 0..(k - 1)
      BY <1>1
    <3>2. f[k - 1] = g[k - 1]
      BY <2>1, <3>1
    <3> QED
      BY <1>5, <3>2
  <2> QED
    BY <1>4, <2>1 DEF LooksBelow
<1>7. PICK p : Computes(p, step, n, Weights, Zero)
  BY <1>1, <1>6, RecursionExists
<1>8. /\ p \in [0..n -> Weights] /\ p[0] = Zero
      /\ \A k \in 1..n : p[k] = next(k, p[k - 1])
  <2>1. p \in [0..n -> Weights] /\ p[0] = Zero /\ \A k \in 1..n : p[k] = step[k][p]
    BY <1>7 DEF Computes
  <2> QED
    BY <1>5, <2>1
<1>9. p = [k \in 0..n |-> rule(p, k)]
  <2>1. \A k \in 0..n : p[k] = rule(p, k)
    BY <1>1, <1>8 DEF next
  <2> QED
    BY <1>8, <2>1
<1>10. q = [k \in 0..n |-> rule(q, k)]
  BY <1>9, Zenon
<1>11. TotalWeight(s, S, b) = q[n]
  BY DEF TotalWeight
<1> HIDE DEF q
<1>12. /\ q[0] = Zero /\ \A k \in 1..n : q[k] = next(k, q[k - 1])
       /\ DOMAIN q = 0..n
  BY <1>1, <1>10 DEF next
<1>13. \A k \in 0..n : q[k] \in Weights
  <2> DEFINE P == {k \in Nat : k <= n => q[k] \in Weights}
  <2>1. 0 \in P
    BY <1>1, <1>12
  <2>2. ASSUME NEW k \in P
        PROVE  k + 1 \in P
    <3>1. k \in Nat /\ (k + 1) - 1 = k
      OBVIOUS
    <3>2. CASE k + 1 <= n
      <4>1. k + 1 \in 1..n /\ q[k] \in Weights
        BY <1>1, <3>1, <3>2
      <4> QED
        BY <1>2, <1>12, <3>1, <4>1
    <3> QED
      BY <3>1, <3>2
  <2>3. P = Nat
    <3> HIDE DEF P
    <3>1. P \subseteq Nat
      BY DEF P
    <3> QED
      BY <2>1, <2>2, <3>1, StepsReachAll
  <2> QED
    BY <1>1, <2>3
<1>14. q \in [0..n -> Weights]
  BY <1>10, <1>12, <1>13
<1>15. SumsUp(q, s, b, S)
  BY <1>11, <1>12, <1>14 DEF next, SumsUp
<1> QED
  BY <1>15

LEMMA SumIsWeight ==
  ASSUME NEW s, Ranking(s), NEW b \in Nat, b > 0, NEW S
  PROVE  TotalWeight(s, S, b) \in Weights
<1>1. PICK t : SumsUp(t, s, b, S)
  BY SumStepByStep
<1> QED
  BY <1>1 DEF SumsUp, Ranking

LEMMA SumOfNone ==
  ASSUME NEW s, Ranking(s), NEW b \in Nat, b > 0
  PROVE  TotalWeight(s, {}, b) = Zero
<1>1. PICK t : SumsUp(t, s, b, {})
  BY SumStepByStep
<1>2. /\ t[Len(s)] = TotalWeight(s, {}, b) /\ t[0] = Zero
      /\ \A n \in 1..Len(s) : t[n] = t[n - 1]
  BY <1>1 DEF SumsUp
<1> DEFINE P == {n \in Nat : n <= Len(s) => t[n] = Zero}
<1>3. 0 \in P
  BY <1>2
<1>4. ASSUME NEW n \in P
      PROVE  n + 1 \in P
  BY <1>2 DEF Ranking
<1>5. P = Nat
  <2> HIDE DEF P
  <2>1. P \subseteq Nat
    BY DEF P
  <2> QED
    BY <1>3, <1>4, <2>1, StepsReachAll
<1> QED
  BY <1>2, <1>5 DEF Ranking

(* The total of two sets with nothing in common is the sum of theirs.      *)
LEMMA SumOfUnion ==
  ASSUME NEW s, Ranking(s), NEW b \in Nat, b > 0, NEW S, NEW T, S \cap T = {}
  PROVE  TotalWeight(s, S \cup T, b) = Plus(TotalWeight(s, S, b), TotalWeight(s, T, b))
<1> DEFINE n == Len(s)
<1>1. PICK t : SumsUp(t, s, b, S)
  BY SumStepByStep
<1>2. PICK u : SumsUp(u, s, b, T)
  BY SumStepByStep
<1>3. PICK v : SumsUp(v, s, b, S \cup T)
  BY SumStepByStep
<1>4. /\ t \in [0..n -> Weights] /\ t[n] = TotalWeight(s, S, b) /\ t[0] = Zero
      /\ \A k \in 1..n : t[k] = IF k \in S THEN Plus(t[k - 1], Weight(s[k], b)) ELSE t[k - 1]
      /\ u \in [0..n -> Weights] /\ u[n] = TotalWeight(s, T, b) /\ u[0] = Zero
      /\ \A k \in 1..n : u[k] = IF k \in T THEN Plus(u[k - 1], Weight(s[k], b)) ELSE u[k - 1]
      /\ v \in [0..n -> Weights] /\ v[n] = TotalWeight(s, S \cup T, b) /\ v[0] = Zero
      /\ \A k \in 1..n :
           v[k] = IF k \in S \cup T THEN Plus(v[k - 1], Weight(s[k], b)) ELSE v[k - 1]
  BY <1>1, <1>2, <1>3 DEF SumsUp
<1>5. n \in Nat
  BY DEF Ranking
<1> HIDE DEF n
<1> DEFINE P == {k \in Nat : k <= n => v[k] = Plus(t[k], u[k])}
<1>6. 0 \in P
  <2>1. Plus(Zero, Zero) = Zero
    BY <1>4, <1>5, PlusOfWeights
  <2> QED
    BY <1>4, <2>1
<1>7. ASSUME NEW j \in P
      PROVE  j + 1 \in P
  <2>1. j \in Nat /\ (j + 1) - 1 = j
    OBVIOUS
  <2>2. CASE j + 1 <= n
    <3> DEFINE k == j + 1
    <3>1. k \in 1..n /\ k - 1 = j /\ j \in 0..n /\ v[j] = Plus(t[j], u[j])
      BY <1>5, <2>1, <2>2
    <3>2. t[j] \in Weights /\ u[j] \in Weights /\ Weight(s[k], b) \in Weights
      BY <1>4, <1>2, <3>1, WeightToBase DEF n
    <3> HIDE DEF k
    <3>3. CASE k \in S
      <4>1. k \notin T
        BY <3>3
      <4>2. v[k] = Plus(v[j], Weight(s[k], b)) /\ t[k] = Plus(t[j], Weight(s[k], b)) /\ u[k] = u[j]
        BY <1>4, <3>1, <3>3, <4>1
      <4>3. v[k] = Plus(t[j], Plus(u[j], Weight(s[k], b)))
        BY <3>1, <3>2, <4>2, PlusIsAssociative
      <4>4. Plus(u[j], Weight(s[k], b)) = Plus(Weight(s[k], b), u[j])
        BY <3>2, PlusOfWeights
      <4>5. v[k] = Plus(Plus(t[j], Weight(s[k], b)), u[j])
        BY <3>2, <4>3, <4>4, PlusIsAssociative
      <4> QED
        BY <4>2, <4>5, <3>1 DEF k
    <3>4. CASE k \notin S /\ k \in T
      <4>1. v[k] = Plus(v[j], Weight(s[k], b)) /\ u[k] = Plus(u[j], Weight(s[k], b)) /\ t[k] = t[j]
        BY <1>4, <3>1, <3>4
      <4>2. v[k] = Plus(t[j], Plus(u[j], Weight(s[k], b)))
        BY <3>1, <3>2, <4>1, PlusIsAssociative
      <4> QED
        BY <4>1, <4>2, <3>1 DEF k
    <3>5. CASE k \notin S /\ k \notin T
      <4>1. v[k] = v[j] /\ u[k] = u[j] /\ t[k] = t[j]
        BY <1>4, <3>1, <3>5
      <4> QED
        BY <3>1, <4>1 DEF k
    <3> QED
      BY <3>3, <3>4, <3>5
  <2> QED
    BY <2>1, <2>2
<1>8. P = Nat
  <2> HIDE DEF P
  <2>1. P \subseteq Nat
    BY DEF P
  <2> QED
    BY <1>6, <1>7, <2>1, StepsReachAll
<1>9. v[n] = Plus(t[n], u[n])
  BY <1>5, <1>8
<1> QED
  BY <1>4, <1>9

LEMMA TotalOfUnion ==
  ASSUME NEW s, Ranking(s), NEW S, NEW T, S \cap T = {}
  PROVE  Total(s, S \cup T) = Plus(Total(s, S), Total(s, T))
<1>1. Len(s) + 1 \in Nat /\ Len(s) + 1 > 0
  BY DEF Ranking
<1> QED
  BY <1>1, SumOfUnion DEF Total

(* One candidate alone totals what it weighs.                              *)
LEMMA SumOfOne ==
  ASSUME NEW s, Ranking(s), NEW b \in Nat, b > 0, NEW x \in 1..Len(s)
  PROVE  TotalWeight(s, {x}, b) = Weight(s[x], b)
<1> DEFINE n == Len(s)
<1>1. PICK t : SumsUp(t, s, b, {x})
  BY SumStepByStep
<1>2. /\ t \in [0..n -> Weights] /\ t[n] = TotalWeight(s, {x}, b) /\ t[0] = Zero
      /\ \A k \in 1..n :
           t[k] = IF k \in {x} THEN Plus(t[k - 1], Weight(s[k], b)) ELSE t[k - 1]
  BY <1>1 DEF SumsUp
<1>3. n \in Nat /\ x \in 1..n /\ Weight(s[x], b) \in Weights
  BY WeightToBase DEF Ranking
<1> HIDE DEF n
<1> DEFINE P == {k \in Nat : k <= n => t[k] = IF k < x THEN Zero ELSE Weight(s[x], b)}
<1>4. 0 \in P
  BY <1>2, <1>3
<1>5. ASSUME NEW j \in P
      PROVE  j + 1 \in P
  <2>1. j \in Nat /\ (j + 1) - 1 = j
    OBVIOUS
  <2>2. CASE j + 1 <= n
    <3>1. j + 1 \in 1..n /\ t[j] = IF j < x THEN Zero ELSE Weight(s[x], b)
      BY <1>3, <2>1, <2>2
    <3>2. CASE j + 1 = x
      <4>1. t[j + 1] = Plus(Zero, Weight(s[x], b))
        BY <1>2, <1>3, <2>1, <3>1, <3>2
      <4>2. Plus(Zero, Weight(s[x], b)) = Weight(s[x], b)
        BY <1>3, PlusOfWeights
      <4> QED
        BY <3>2, <4>1, <4>2
    <3>3. CASE j + 1 # x
      <4>1. t[j + 1] = t[j]
        BY <1>2, <2>1, <3>1, <3>3
      <4> QED
        BY <1>3, <2>1, <3>1, <3>3, <4>1
    <3> QED
      BY <3>2, <3>3
  <2> QED
    BY <2>1, <2>2
<1>6. P = Nat
  <2> HIDE DEF P
  <2>1. P \subseteq Nat
    BY DEF P
  <2> QED
    BY <1>4, <1>5, <2>1, StepsReachAll
<1>7. t[n] = Weight(s[x], b)
  BY <1>3, <1>6
<1> QED
  BY <1>2, <1>7

LEMMA TotalOfOneMore ==
  ASSUME NEW s, Ranking(s), NEW S, NEW x \in 1..Len(s), x \notin S
  PROVE  Total(s, S \cup {x}) = Plus(W(s, x), Total(s, S))
<1>1. Total(s, S) \in Weights /\ W(s, x) \in Weights
  BY SumIsWeight, WeightOfCandidate DEF Total, Ranking
<1>2. S \cap {x} = {}
  OBVIOUS
<1>3. Total(s, S \cup {x}) = Plus(Total(s, S), W(s, x))
  <2>1. Total(s, S \cup {x}) = Plus(Total(s, S), Total(s, {x}))
    BY <1>2, TotalOfUnion
  <2>2. Total(s, {x}) = W(s, x)
    BY SumOfOne DEF Total, W, Ranking
  <2> QED
    BY <2>1, <2>2
<1> QED
  BY <1>1, <1>3, PlusOfWeights

(* No total is more than the number of candidates times the most that one  *)
(* of them counts.                                                         *)
LEMMA SumIsBounded ==
  ASSUME NEW s, Ranking(s), NEW b \in Nat, b > 0, NEW S, NEW c \in 1..6, NEW M \in Nat,
         \A x \in 1..Len(s) : x \in S => Weight(s[x], b)[c] <= M
  PROVE  TotalWeight(s, S, b)[c] <= Len(s) * M
<1> DEFINE n == Len(s)
<1>1. PICK t : SumsUp(t, s, b, S)
  BY SumStepByStep
<1>2. /\ t \in [0..n -> Weights] /\ t[n] = TotalWeight(s, S, b) /\ t[0] = Zero
      /\ \A k \in 1..n :
           t[k] = IF k \in S THEN Plus(t[k - 1], Weight(s[k], b)) ELSE t[k - 1]
  BY <1>1 DEF SumsUp
<1>3. n \in Nat
  BY DEF Ranking
<1>4. \A k \in 1..n : Weight(s[k], b) \in Weights
  BY WeightToBase
<1>5. \A k \in 1..n : k \in S => Weight(s[k], b)[c] <= M
  OBVIOUS
<1> HIDE DEF n
<1> DEFINE P == {k \in Nat : k <= n => t[k][c] <= k * M}
<1>6. 0 \in P
  BY <1>2 DEF Zero
<1>7. ASSUME NEW j \in P
      PROVE  j + 1 \in P
  <2>1. j \in Nat /\ (j + 1) - 1 = j /\ j * M \in Nat /\ (j + 1) * M = j * M + M
    OBVIOUS
  <2>2. CASE j + 1 <= n
    <3>1. j + 1 \in 1..n /\ j \in 0..n /\ t[j][c] <= j * M
      BY <1>3, <2>1, <2>2
    <3>2. t[j] \in Weights /\ Weight(s[j + 1], b) \in Weights
      BY <1>2, <1>4, <3>1
    <3>3. t[j][c] \in Nat /\ Weight(s[j + 1], b)[c] \in Nat
      <4>1. \A w \in Weights : w[c] \in Nat
        BY DEF Weights
      <4> QED
        BY <3>2, <4>1
    <3>4. CASE j + 1 \in S
      <4>1. t[j + 1][c] = t[j][c] + Weight(s[j + 1], b)[c]
        BY <1>2, <2>1, <3>1, <3>2, <3>4, PlusOfWeights
      <4>2. Weight(s[j + 1], b)[c] <= M
        BY <1>5, <3>1, <3>4
      <4> QED
        BY <2>1, <3>1, <3>3, <4>1, <4>2
    <3>5. CASE j + 1 \notin S
      <4>1. t[j + 1][c] = t[j][c]
        BY <1>2, <2>1, <3>1, <3>5
      <4> QED
        BY <2>1, <3>1, <3>3, <4>1
    <3> QED
      BY <3>4, <3>5
  <2> QED
    BY <2>1, <2>2
<1>8. P = Nat
  <2> HIDE DEF P
  <2>1. P \subseteq Nat
    BY DEF P
  <2> QED
    BY <1>6, <1>7, <2>1, StepsReachAll
<1> QED
  BY <1>2, <1>3, <1>8 DEF n

LEMMA TotalIsBounded ==
  ASSUME NEW s, Ranking(s), NEW S, NEW M \in Nat,
         \A x \in 1..Len(s) : x \in S => W(s, x)[1] <= M
  PROVE  Total(s, S)[1] <= Len(s) * M
<1>1. Len(s) + 1 \in Nat /\ Len(s) + 1 > 0 /\ 1 \in 1..6
  BY DEF Ranking
<1> QED
  BY <1>1, SumIsBounded DEF Total, W

------------------------------------------------------------------------------
(* Of the disjoint candidates of P, S weighs the most.                     *)
Best(s, S, P) ==
  /\ S \in DisjointSubsets(s, P)
  /\ \A T \in DisjointSubsets(s, P) : AtMost(Total(s, T), Total(s, S))

LEMMA TotalIsWeight ==
  ASSUME NEW s, Ranking(s), NEW S
  PROVE  Total(s, S) \in Weights
  BY SumIsWeight DEF Total, Ranking

LEMMA BestOfNothing ==
  ASSUME NEW s, Ranking(s)
  PROVE  Best(s, {}, {})
<1>1. \A T : T \in DisjointSubsets(s, {}) <=> T = {}
  BY DEF DisjointSubsets
<1>2. Total(s, {}) \in Weights
  BY TotalIsWeight
<1>3. AtMost(Total(s, {}), Total(s, {}))
  BY <1>2, WeightsAreOrdered
<1> QED
  BY <1>1, <1>3 DEF Best

(* Where nothing overlaps, all is best: everything weighs something.       *)
LEMMA BestOfDisjoint ==
  ASSUME NEW s, Ranking(s), NEW P \in SUBSET (1..Len(s)), P \in DisjointSubsets(s, P)
  PROVE  Best(s, P, P)
<1> SUFFICES ASSUME NEW T \in DisjointSubsets(s, P)
             PROVE  AtMost(Total(s, T), Total(s, P))
  BY DEF Best
<1>1. T \subseteq P /\ P = T \cup (P \ T) /\ T \cap (P \ T) = {}
  BY DEF DisjointSubsets
<1>2. Total(s, P) = Plus(Total(s, T), Total(s, P \ T))
  BY <1>1, TotalOfUnion
<1>3. /\ Total(s, T) \in Weights /\ Total(s, P \ T) \in Weights /\ Zero \in Weights
      /\ Plus(Total(s, T), Zero) = Total(s, T)
  BY TotalIsWeight, PlusOfWeights
<1>4. ASSUME NEW w \in Weights
      PROVE  AtMost(Zero, w)
  <2>1. \A k \in 1..6 : Zero[k] = 0 /\ w[k] \in Nat
    BY DEF Zero, Weights
  <2>2. \A k \in {1, 2, 3, 4, 5, 6} : ~(w[k] < Zero[k])
    BY <2>1
  <2> QED
    BY <1>3, <2>2, LessByPlace DEF AtMost
<1>5. AtMost(Total(s, T), Total(s, T))
  BY <1>3, WeightsAreOrdered
<1> HIDE DEF AtMost
<1>6. AtMost(Plus(Total(s, T), Zero), Plus(Total(s, T), Total(s, P \ T)))
  BY <1>3, <1>4, <1>5, SumsAreOrdered
<1> QED
  BY <1>2, <1>3, <1>6

(* When all of P ends before any of Q starts, what is best for each is     *)
(* best for both: components do not conflict.                              *)
LEMMA BestOfBoth ==
  ASSUME NEW s, Ranking(s), NEW P \in SUBSET (1..Len(s)), NEW Q \in SUBSET (1..Len(s)),
         P \cap Q = {}, \A x \in P, y \in Q : s[x].end <= s[y].start,
         NEW S, NEW T, Best(s, S, P), Best(s, T, Q)
  PROVE  Best(s, S \cup T, P \cup Q)
<1>1. /\ S \subseteq P /\ \A j, k \in S : j # k => Disjoint(s[j], s[k])
      /\ T \subseteq Q /\ \A j, k \in T : j # k => Disjoint(s[j], s[k])
  BY DEF Best, DisjointSubsets
<1>2. S \cup T \in DisjointSubsets(s, P \cup Q)
  <2>1. ASSUME NEW j \in S \cup T, NEW k \in S \cup T, j # k
        PROVE  Disjoint(s[j], s[k])
    <3>1. CASE j \in S /\ k \in T
      BY <1>1, <3>1 DEF Disjoint
    <3>2. CASE j \in T /\ k \in S
      BY <1>1, <3>2 DEF Disjoint
    <3> QED
      BY <1>1, <2>1, <3>1, <3>2
  <2> QED
    BY <1>1, <2>1 DEF DisjointSubsets
<1>3. ASSUME NEW R \in DisjointSubsets(s, P \cup Q)
      PROVE  AtMost(Total(s, R), Total(s, S \cup T))
  <2> DEFINE A == R \cap P
             B == R \cap Q
  <2>1. R \subseteq P \cup Q /\ \A j, k \in R : j # k => Disjoint(s[j], s[k])
    BY DEF DisjointSubsets
  <2>2. A \in DisjointSubsets(s, P) /\ B \in DisjointSubsets(s, Q)
    BY <2>1 DEF DisjointSubsets
  <2>3. R = A \cup B /\ A \cap B = {} /\ S \cap T = {}
    BY <1>1, <2>1
  <2> HIDE DEF A, B
  <2>4. /\ Total(s, R) = Plus(Total(s, A), Total(s, B))
        /\ Total(s, S \cup T) = Plus(Total(s, S), Total(s, T))
    BY <2>3, TotalOfUnion
  <2>5. AtMost(Total(s, A), Total(s, S)) /\ AtMost(Total(s, B), Total(s, T))
    BY <2>2 DEF Best
  <2> QED
    BY <2>4, <2>5, TotalIsWeight, SumsAreOrdered
<1> QED
  BY <1>2, <1>3 DEF Best

(* The predecessors of a candidate of a component are those before it that *)
(* end before it starts.                                                   *)
LEMMA PredecessorsOf ==
  ASSUME NEW s, Ranking(s), NEW first \in 1..Len(s), NEW k \in 1..(Len(s) - first + 1)
  PROVE  LET m == Predecessors(s, first, k) IN
         /\ m \in 0..(k - 1)
         /\ \A x \in first..(first + k - 2) :
              s[x].end <= s[first + k - 1].start <=> x <= first + m - 1
<1> DEFINE S == {m \in 1..(k - 1) : s[first + m - 1].end <= s[first + k - 1].start}
           T == {0} \cup S
           m == Predecessors(s, first, k)
<1>1. /\ Len(s) \in Nat /\ first \in Nat /\ k \in Nat /\ k >= 1 /\ k - 1 \in Nat
      /\ first + k - 1 <= Len(s)
  BY DEF Ranking
<1>2. m \in T /\ \A y \in T : m >= y
  <2>1. T \in SUBSET (0..(k - 1)) /\ T # {}
    BY <1>1
  <2>2. Max(T) \in T /\ \A y \in T : Max(T) >= y
    BY <1>1, <2>1, MaxOfBounded, Zenon
  <2> QED
    BY <2>2 DEF Predecessors
<1> HIDE DEF m
<1>3. m \in 0..(k - 1)
  BY <1>1, <1>2
<1>4. ASSUME NEW x \in first..(first + k - 2)
      PROVE  s[x].end <= s[first + k - 1].start <=> x <= first + m - 1
  <2>1. /\ x \in 1..Len(s) /\ first + k - 1 \in 1..Len(s)
        /\ x - first + 1 \in 1..(k - 1) /\ first + (x - first + 1) - 1 = x
    BY <1>1
  <2>2. ASSUME s[x].end <= s[first + k - 1].start
        PROVE  x <= first + m - 1
    <3>1. x - first + 1 \in S
      BY <2>1, <2>2
    <3>2. m >= x - first + 1
      BY <1>2, <3>1
    <3> QED
      BY <1>1, <1>3, <2>1, <3>2
  <2>3. ASSUME x <= first + m - 1
        PROVE  s[x].end <= s[first + k - 1].start
    <3>1. m \in S
      BY <1>1, <1>2, <2>1, <2>3
    <3>2. s[first + m - 1].end <= s[first + k - 1].start /\ first + m - 1 \in 1..Len(s)
          /\ first + m - 1 \in Nat
      <4>1. m \in 1..(k - 1) /\ s[first + m - 1].end <= s[first + k - 1].start
        BY <3>1
      <4> QED
        BY <1>1, <4>1
    <3>3. s[x].end <= s[first + m - 1].end
      <4>1. x = first + m - 1 \/ x < first + m - 1
        BY <2>1, <2>3, <3>2
      <4>2. s[x].end \in Nat
        BY <2>1, RankingFields
      <4> QED
        BY <2>1, <3>2, <4>1, <4>2 DEF Ranking
    <3>4. s[x].end \in Nat /\ s[first + m - 1].end \in Nat /\ s[first + k - 1].start \in Nat
      BY <2>1, <3>2, RankingFields
    <3> QED
      BY <3>2, <3>3, <3>4
  <2> QED
    BY <2>2, <2>3
<1> QED
  BY <1>3, <1>4 DEF m

(* A candidate and disjoint predecessors of it are disjoint together.      *)
LEMMA WithPredecessors ==
  ASSUME NEW s, Ranking(s), NEW first \in 1..Len(s), NEW k \in 1..(Len(s) - first + 1),
         NEW V \in DisjointSubsets(s, first..(first + Predecessors(s, first, k) - 1))
  PROVE  LET x == first + k - 1 IN
         /\ V \cup {x} \in DisjointSubsets(s, first..x)
         /\ Total(s, V \cup {x}) = Plus(W(s, x), Total(s, V))
<1> DEFINE x == first + k - 1
           m == Predecessors(s, first, k)
<1>1. x \in 1..Len(s) /\ first + k - 2 = x - 1 /\ first <= x /\ first \in Nat /\ x \in Nat
  BY DEF Ranking
<1>2. /\ m \in 0..(k - 1)
      /\ \A y \in first..(x - 1) : s[y].end <= s[x].start <=> y <= first + m - 1
  BY <1>1, PredecessorsOf
<1>3. V \subseteq first..(first + m - 1) /\ \A i1, i2 \in V : i1 # i2 => Disjoint(s[i1], s[i2])
  BY DEF DisjointSubsets
<1> HIDE DEF m
<1>4. ASSUME NEW y \in V
      PROVE  y \in first..(x - 1) /\ Disjoint(s[x], s[y]) /\ Disjoint(s[y], s[x])
  <2>1. y \in first..(x - 1) /\ y <= first + m - 1
    BY <1>1, <1>2, <1>3
  <2>2. s[y].end <= s[x].start
    BY <1>2, <2>1
  <2> QED
    BY <2>1, <2>2 DEF Disjoint
<1>5. V \cup {x} \in DisjointSubsets(s, first..x)
  <2>1. V \cup {x} \subseteq first..x
    BY <1>1, <1>4
  <2> QED
    BY <1>3, <1>4, <2>1 DEF DisjointSubsets
<1>6. x \notin V
  BY <1>1, <1>4
<1>7. Total(s, V \cup {x}) = Plus(W(s, x), Total(s, V))
  BY <1>1, <1>6, TotalOfOneMore
<1> QED
  BY <1>5, <1>7

(* The best with one candidate more: the better of the best without it and *)
(* of it with the best of its predecessors.                                *)
LEMMA BestWithOneMore ==
  ASSUME NEW s, Ranking(s), NEW first \in 1..Len(s), NEW k \in 1..(Len(s) - first + 1),
         NEW U, NEW V,
         Best(s, U, first..(first + k - 2)),
         Best(s, V, first..(first + Predecessors(s, first, k) - 1))
  PROVE  LET x    == first + k - 1
             with == Plus(W(s, x), Total(s, V))
         IN /\ Total(s, V \cup {x}) = with
            /\ IF Better(with, Total(s, U))
                 THEN Best(s, V \cup {x}, first..x)
                 ELSE Best(s, U, first..x)
<1> DEFINE x == first + k - 1
           with == Plus(W(s, x), Total(s, V))
           m == Predecessors(s, first, k)
<1>1. /\ x \in 1..Len(s) /\ x \in Nat /\ first + k - 2 = x - 1 /\ first <= x /\ first \in Nat
      /\ k - 1 \in Nat /\ Len(s) \in Nat
  BY DEF Ranking
<1>2. /\ m \in 0..(k - 1)
      /\ \A y \in first..(x - 1) : s[y].end <= s[x].start <=> y <= first + m - 1
  BY <1>1, PredecessorsOf
<1> HIDE DEF m
<1>3. first..(first + m - 1) \subseteq first..(x - 1) /\ x \notin first..(x - 1)
      /\ first..(x - 1) \subseteq first..x /\ x \in first..x
      /\ first..x \subseteq 1..Len(s)
  BY <1>1, <1>2
<1>4. U \subseteq first..(x - 1) /\ \A i1, i2 \in U : i1 # i2 => Disjoint(s[i1], s[i2])
  BY <1>1 DEF Best, DisjointSubsets
<1>5. V \in DisjointSubsets(s, first..(first + Predecessors(s, first, k) - 1))
  BY DEF Best
<1>6. Total(s, V \cup {x}) = with /\ V \cup {x} \in DisjointSubsets(s, first..x)
  BY <1>5, WithPredecessors
<1>7. U \in DisjointSubsets(s, first..x)
  BY <1>3, <1>4 DEF DisjointSubsets
<1>8. Total(s, U) \in Weights /\ Total(s, V) \in Weights /\ W(s, x) \in Weights
      /\ with \in Weights
  BY <1>1, TotalIsWeight, WeightOfCandidate, PlusOfWeights
<1>9. ASSUME NEW R \in DisjointSubsets(s, first..x)
      PROVE  AtMost(Total(s, R), Total(s, U)) \/ AtMost(Total(s, R), with)
  <2>1. R \subseteq first..x /\ \A i1, i2 \in R : i1 # i2 => Disjoint(s[i1], s[i2])
    BY DEF DisjointSubsets
  <2>2. CASE x \notin R
    <3>1. R \subseteq first..(x - 1)
      BY <1>1, <2>1, <2>2
    <3>2. R \in DisjointSubsets(s, first..(x - 1))
      BY <2>1, <3>1 DEF DisjointSubsets
    <3> QED
      BY <1>1, <3>2 DEF Best
  <2>3. CASE x \in R
    <3> DEFINE A == R \ {x}
    <3>1. ASSUME NEW y \in A
          PROVE  y \in first..(first + m - 1)
      <4>1. y \in first..(x - 1) /\ y \in 1..Len(s) /\ y < x /\ y \in Nat
        BY <1>1, <1>3, <2>1
      <4>2. Disjoint(s[y], s[x]) /\ s[y].end <= s[x].end
        BY <1>1, <2>1, <2>3, <4>1 DEF Ranking
      <4>3. /\ s[y].start \in Nat /\ s[y].end \in Nat /\ s[y].start < s[y].end
            /\ s[x].start \in Nat /\ s[x].end \in Nat
        BY <1>1, <4>1, RankingFields
      <4>4. s[y].end <= s[x].start
        BY <4>2, <4>3 DEF Disjoint
      <4> QED
        BY <1>1, <1>2, <4>1, <4>4
    <3>2. A \in DisjointSubsets(s, first..(first + m - 1))
      BY <2>1, <3>1 DEF DisjointSubsets
    <3>3. R = A \cup {x} /\ x \notin A
      BY <2>3
    <3> HIDE DEF A
    <3>4. Total(s, R) = Plus(W(s, x), Total(s, A))
      BY <1>1, <3>3, TotalOfOneMore
    <3>5. AtMost(Total(s, A), Total(s, V))
      BY <3>2 DEF Best, m
    <3>6. Total(s, A) \in Weights
      BY TotalIsWeight
    <3> QED
      BY <1>8, <3>4, <3>5, <3>6, PlusKeepsOrder DEF AtMost
  <2> QED
    BY <2>2, <2>3
<1>10. \A R : Total(s, R) \in Weights
  BY TotalIsWeight
<1> HIDE DEF with, x
<1>11. CASE Better(with, Total(s, U))
  <2>1. AtMost(Total(s, U), with)
    BY <1>8, <1>11, WeightsAreOrdered DEF Better
  <2>2. \A R \in DisjointSubsets(s, first..x) : AtMost(Total(s, R), with)
    BY <1>8, <1>9, <1>10, <2>1, WeightsAreOrdered
  <2> QED
    BY <1>6, <1>11, <2>2 DEF Best, with, x
<1>12. CASE ~Better(with, Total(s, U))
  <2>1. AtMost(with, Total(s, U))
    BY <1>12 DEF Better, AtMost
  <2>2. \A R \in DisjointSubsets(s, first..x) : AtMost(Total(s, R), Total(s, U))
    BY <1>8, <1>9, <1>10, <2>1, WeightsAreOrdered
  <2> QED
    BY <1>6, <1>7, <1>12, <2>2 DEF Best, with, x
<1> QED
  BY <1>11, <1>12

(* In a best set nothing is missing but for something at least as strict   *)
(* that overlaps it: all that is less strict weighs less than it, however  *)
(* many there are, since the base is more than their number.               *)
LEMMA BestDisplacesNoStricter ==
  ASSUME NEW s, Ranking(s), NEW S, Best(s, S, 1..Len(s)), NEW j \in (1..Len(s)) \ S
  PROVE  \E k \in S : ~Disjoint(s[j], s[k]) /\ s[k].severity >= s[j].severity
<1> SUFFICES ASSUME \A k \in S : Disjoint(s[j], s[k]) \/ ~(s[k].severity >= s[j].severity)
             PROVE  FALSE
  OBVIOUS
<1> DEFINE n == Len(s)
           O == {k \in S : ~Disjoint(s[j], s[k])}
           K == S \ O
           R == K \cup {j}
           strict == s[j].severity
<1>1. /\ n \in Nat /\ j \in 1..n /\ j \notin S /\ S \subseteq 1..n
      /\ \A x, y \in S : x # y => Disjoint(s[x], s[y])
  BY DEF Ranking, Best, DisjointSubsets
<1>2. R \in DisjointSubsets(s, 1..n)
  <2>1. \A x, y \in K : x # y => Disjoint(s[x], s[y])
    BY <1>1
  <2>2. \A x \in K : Disjoint(s[j], s[x]) /\ Disjoint(s[x], s[j])
    BY DEF Disjoint
  <2> QED
    BY <1>1, <2>1, <2>2 DEF DisjointSubsets
<1>3. S = K \cup O /\ K \cap O = {} /\ j \notin K
  BY <1>1
<1>4. Total(s, S) = Plus(Total(s, K), Total(s, O)) /\ Total(s, R) = Plus(W(s, j), Total(s, K))
  <2> HIDE DEF K, O
  <2>1. Total(s, S) = Plus(Total(s, K), Total(s, O))
    BY <1>3, TotalOfUnion
  <2>2. Total(s, R) = Plus(W(s, j), Total(s, K))
    BY <1>1, <1>3, TotalOfOneMore
  <2> QED
    BY <2>1, <2>2
<1>5. Total(s, O)[1] < W(s, j)[1]
  <2>1. strict \in Nat /\ \A k \in O : k \in 1..n /\ s[k].severity \in Nat /\ s[k].severity < strict
    BY <1>1, RankingFields
  <2>2. W(s, j)[1] = Power(n + 1, strict) /\ W(s, j)[1] > 0
    BY <1>1, WeightOfCandidate
  <2>3. n + 1 \in Nat /\ n + 1 > 0
    BY <1>1
  <2>4. CASE strict = 0
    <3>1. O = {}
      BY <2>1, <2>4
    <3> HIDE DEF O
    <3>2. Total(s, O) = Zero
      BY <3>1, SumOfNone DEF Total, Ranking
    <3>3. Zero[1] = 0
      BY DEF Zero
    <3> QED
      BY <2>2, <3>2, <3>3
  <2>5. CASE strict # 0
    <3> DEFINE M == Power(n + 1, strict - 1)
    <3>1. strict - 1 \in Nat /\ (strict - 1) + 1 = strict
      BY <2>1, <2>5
    <3>2. M \in Nat /\ M > 0 /\ Power(n + 1, strict) = (n + 1) * M
      BY <2>3, <3>1, PowerSteps
    <3>3. \A k \in 1..n : k \in O => W(s, k)[1] <= M
      <4>1. ASSUME NEW k \in 1..n, k \in O
            PROVE  W(s, k)[1] <= M
        <5>1. W(s, k)[1] = Power(n + 1, s[k].severity)
          BY WeightOfCandidate
        <5>2. s[k].severity \in Nat /\ s[k].severity <= strict - 1
          BY <2>1, <3>1, <4>1
        <5> QED
          BY <2>3, <3>1, <5>1, <5>2, PowerAscends
      <4> QED
        BY <4>1
    <3> HIDE DEF M, O
    <3>4. Total(s, O)[1] <= n * M
      BY <3>2, <3>3, TotalIsBounded
    <3>5. n * M \in Nat /\ (n + 1) * M = n * M + M
      BY <1>1, <3>2
    <3>6. Total(s, O)[1] \in Nat
      <4>1. \A w \in Weights : w[1] \in Nat
        BY DEF Weights
      <4> QED
        BY <4>1, TotalIsWeight
    <3> QED
      BY <2>2, <3>2, <3>4, <3>5, <3>6
  <2> QED
    BY <2>4, <2>5
<1>6. Less(Total(s, S), Total(s, R))
  <2> HIDE DEF K, O, R
  <2>1. /\ Total(s, K) \in Weights /\ Total(s, O) \in Weights /\ W(s, j) \in Weights
        /\ Total(s, S) \in Weights /\ Total(s, R) \in Weights
    BY <1>1, TotalIsWeight, WeightOfCandidate
  <2>2. \A w \in Weights : w[1] \in Nat
    BY DEF Weights
  <2>3. Total(s, S)[1] = Total(s, K)[1] + Total(s, O)[1]
        /\ Total(s, R)[1] = W(s, j)[1] + Total(s, K)[1]
    BY <1>4, <2>1, PlusOfWeights
  <2>4. Total(s, S)[1] < Total(s, R)[1]
    BY <1>5, <2>1, <2>2, <2>3
  <2> QED
    BY <2>1, <2>4, WeightsAreOrdered
<1>7. ~Less(Total(s, S), Total(s, R))
  BY <1>2 DEF Best, AtMost
<1> QED
  BY <1>6, <1>7

(* Every total is that of a best choice from its prefix of the component,  *)
(* and `include` says how it came about.                                   *)
Tables ==
  Solving =>
    /\ totals \in Seq(Weights) /\ Len(totals) = Len(include) + 1
    /\ \A m \in 0..Len(include) :
         \E S : Best(ranked, S, from..(from + m - 1)) /\ totals[m + 1] = Total(ranked, S)
    /\ \A m \in 1..Len(include) :
         totals[m + 1] = IF include[m]
                           THEN Plus(W(ranked, from + m - 1),
                                     totals[Predecessors(ranked, from, m) + 1])
                           ELSE totals[m]

(* What is selected is the best of what is solved; while a selection is    *)
(* read off the tables, with any best choice of what is left of them.      *)
Optimal ==
  /\ phase = "split" => Best(ranked, selected, (componentEnd + 1)..N)
  /\ phase = "forward" => Best(ranked, selected, (to + 1)..N)
  /\ phase = "backward" =>
       \A S \in DisjointSubsets(ranked, from..(from + back - 1)) :
         Total(ranked, S) = totals[back + 1] => Best(ranked, selected \cup S, from..N)
  /\ phase = "done" => Best(ranked, selected, 1..N)

OInv == IInv /\ Ranking(ranked) /\ Tables /\ Optimal

LEMMA InitRanks ==
  Init => Ranking(ranked)
<1> SUFFICES ASSUME Init
             PROVE  Ranking(ranked)
  OBVIOUS
<1>1. PICK n \in 0..MaxCandidates : ranked \in [1..n -> Shapes]
  BY DEF Init
<1>2. Len(ranked) = n /\ n \in Nat
  BY <1>1, CandidateAssumption
<1>3. EndsAscend
  BY InitEstablishesIInv DEF IInv
<1> QED
  BY <1>1, <1>2, <1>3 DEF Ranking, EndsAscend, N

LEMMA InitIsOptimal ==
  Init => OInv
<1> SUFFICES ASSUME Init
             PROVE  OInv
  OBVIOUS
<1>1. IInv /\ Ranking(ranked) /\ N \in Nat
  BY InitEstablishesIInv, InitRanks DEF Ranking, N
<1>2. /\ componentEnd = N
      /\ \/ phase = "done" /\ selected = 1..N
         \/ phase = "split" /\ selected = {}
  BY DEF Init, N
<1>3. Optimal
  <2>1. CASE phase = "done" /\ selected = 1..N
    <3>1. 1..N \in DisjointSubsets(ranked, 1..N)
      BY <1>1, <2>1 DEF IInv, SelectedAreDisjoint, DisjointSubsets
    <3> QED
      BY <1>1, <2>1, <3>1, BestOfDisjoint DEF Optimal, N
  <2>2. CASE phase = "split" /\ selected = {}
    <3>1. (componentEnd + 1)..N = {}
      BY <1>1, <1>2
    <3> QED
      BY <1>1, <2>2, <3>1, BestOfNothing DEF Optimal
  <2> QED
    BY <1>2, <2>1, <2>2
<1>4. Tables
  BY <1>2 DEF Tables, Solving
<1> QED
  BY <1>1, <1>3, <1>4 DEF OInv

(* A component of one candidate is solved by taking it; one of more starts *)
(* with the best of nothing.                                               *)
LEMMA SolveIsOptimal ==
  ASSUME OInv, phase = "split", NEW first \in 1..N,
         first <= componentEnd, ClosesAt(first - 1),
         Solve(first, componentEnd), componentEnd' = first - 1, ranked' = ranked
  PROVE  Tables' /\ Optimal'
<1>1. /\ Ranking(ranked) /\ N \in Nat /\ N' = N /\ componentEnd \in 0..N
      /\ ClosesAt(componentEnd) /\ Best(ranked, selected, (componentEnd + 1)..N)
  BY DEF OInv, IInv, Progress, Optimal, TypeOK, Ranking, N
<1>2. CASE first = componentEnd
  <2>1. selected' = selected \cup {first} /\ phase' = "split"
    BY <1>2 DEF Solve
  <2>2. {first} \in DisjointSubsets(ranked, {first})
    BY DEF DisjointSubsets
  <2>3. Best(ranked, {first}, {first})
    BY <1>1, <2>2, BestOfDisjoint DEF N
  <2>4. /\ {first} \subseteq 1..Len(ranked) /\ (componentEnd + 1)..N \subseteq 1..Len(ranked)
        /\ {first} \cap ((componentEnd + 1)..N) = {}
        /\ {first} \cup ((componentEnd + 1)..N) = (first..N)
    BY <1>1, <1>2 DEF N
  <2>5. \A x \in {first}, y \in (componentEnd + 1)..N : ranked[x].end <= ranked[y].start
    BY <1>1, <1>2 DEF ClosesAt
  <2>6. Best(ranked, {first} \cup selected, first..N)
    BY <1>1, <2>3, <2>4, <2>5, BestOfBoth
  <2>7. {first} \cup selected = selected' /\ componentEnd' + 1 = first
    BY <1>1, <2>1
  <2> QED
    BY <1>1, <2>1, <2>6, <2>7 DEF Tables, Optimal, Solving
<1>3. CASE first # componentEnd
  <2>1. /\ phase' = "forward" /\ from' = first /\ to' = componentEnd
        /\ totals' = <<Zero>> /\ include' = <<>> /\ selected' = selected
    BY <1>3 DEF Solve
  <2>2. Best(ranked, {}, first..(first + 0 - 1)) /\ Total(ranked, {}) = Zero
    <3>1. first..(first + 0 - 1) = {}
      BY <1>1
    <3> QED
      BY <1>1, <3>1, BestOfNothing, SumOfNone DEF Total, Ranking
  <2>3. Zero \in Weights
    BY DEF Zero, Weights
  <2>4. /\ totals' \in Seq(Weights) /\ Len(totals') = Len(include') + 1
        /\ Len(include') = 0 /\ totals'[0 + 1] = Zero
    BY <2>1, <2>3
  <2>5. Tables'
    <3>1. \A m \in 0..Len(include') : m = 0
      BY <2>4
    <3>2. \A m \in 1..Len(include') : FALSE
      BY <2>4
    <3> QED
      BY <2>1, <2>2, <2>4, <3>1, <3>2 DEF Tables
  <2>6. Optimal'
    BY <1>1, <2>1 DEF Optimal
  <2> QED
    BY <2>5, <2>6
<1> QED
  BY <1>2, <1>3

LEMMA SplitIsOptimal ==
  ASSUME OInv, Split
  PROVE  Tables' /\ Optimal'
<1>1. /\ phase = "split" /\ ranked' = ranked /\ N' = N /\ N \in Nat /\ i \in 1..N
      /\ componentEnd \in i..N /\ IInv /\ MinimumSoFar /\ EndsAscend
  BY DEF Split, OInv, IInv, TypeOK, Ranking, N
<1>2. CASE NoLaterStartsBefore(ranked[i].end) /\ i < componentEnd
  <2>1. Solve(i + 1, componentEnd) /\ componentEnd' = i
    BY <1>2 DEF Split
  <2>2. PICK first \in 1..N : first = i + 1
    BY <1>1, <1>2
  <2>3. first - 1 = i /\ first <= componentEnd
    BY <1>1, <1>2, <2>2
  <2>4. ClosesAt(i)
    BY <1>1, <1>2, ClosingPoint
  <2> QED
    BY <1>1, <2>1, <2>2, <2>3, <2>4, SolveIsOptimal
<1>3. CASE ~(NoLaterStartsBefore(ranked[i].end) /\ i < componentEnd)
  <2>1. phase' = phase /\ componentEnd' = componentEnd /\ selected' = selected
    BY <1>3 DEF Split
  <2> QED
    BY <1>1, <2>1 DEF OInv, Tables, Optimal, Solving
<1> QED
  BY <1>2, <1>3

LEMMA SolveFirstIsOptimal ==
  ASSUME OInv, SolveFirstComponent
  PROVE  Tables' /\ Optimal'
<1>1. /\ phase = "split" /\ ranked' = ranked /\ N \in Nat /\ componentEnd \in 1..N
      /\ Solve(1, componentEnd) /\ componentEnd' = 0
  BY DEF SolveFirstComponent, OInv, IInv, TypeOK, Ranking, N
<1>2. PICK first \in 1..N : first = 1
  BY <1>1
<1>3. first <= componentEnd /\ first - 1 = 0
  BY <1>1, <1>2
<1>4. ClosesAt(first - 1)
  BY <1>3 DEF ClosesAt
<1> QED
  BY <1>1, <1>2, <1>3, <1>4, SolveIsOptimal

LEMMA FinishIsOptimal ==
  ASSUME OInv, Finish
  PROVE  Tables' /\ Optimal'
<1>1. /\ phase = "split" /\ phase' = "done" /\ ranked' = ranked /\ selected' = selected
      /\ componentEnd = 0 /\ N' = N /\ Best(ranked, selected, (componentEnd + 1)..N)
  BY DEF Finish, OInv, Optimal, N
<1>2. componentEnd + 1 = 1
  BY <1>1
<1> QED
  BY <1>1, <1>2 DEF Tables, Optimal, Solving

(* The next total is the better of two, each the best of its kind.         *)
LEMMA ForwardIsOptimal ==
  ASSUME OInv, Forward
  PROVE  Tables' /\ Optimal'
<1> DEFINE n == Len(include)
           k == n + 1
           x == from + k - 1
           p == Predecessors(ranked, from, k)
           with == Plus(Weight(ranked[x], Base), totals[p + 1])
<1>1. /\ phase = "forward" /\ ranked' = ranked /\ N' = N /\ N \in Nat
      /\ selected' = selected /\ from' = from /\ to' = to
      /\ Ranking(ranked) /\ Best(ranked, selected, (to + 1)..N) /\ ClosesAt(to)
  BY DEF Forward, OInv, IInv, Optimal, Progress, Solving, Ranking, N
<1>2. /\ from \in 1..N /\ to \in 1..N /\ from < to /\ include \in Seq(BOOLEAN)
      /\ n \in Nat /\ n <= to - from + 1
  BY <1>1 DEF OInv, IInv, TypeOK, N
<1>3. /\ totals \in Seq(Weights) /\ Len(totals) = n + 1
      /\ \A m \in 0..n :
           \E S : Best(ranked, S, from..(from + m - 1)) /\ totals[m + 1] = Total(ranked, S)
      /\ \A m \in 1..n :
           totals[m + 1] = IF include[m]
                             THEN Plus(W(ranked, from + m - 1),
                                       totals[Predecessors(ranked, from, m) + 1])
                             ELSE totals[m]
  BY <1>1 DEF OInv, Tables, Solving
<1>4. CASE x <= to
  <2>1. /\ include' = Append(include, Better(with, totals[k]))
        /\ totals' = Append(totals, IF Better(with, totals[k]) THEN with ELSE totals[k])
        /\ phase' = "forward"
    BY <1>1, <1>4 DEF Forward
  <2>2. k \in 1..(N - from + 1) /\ from + k - 2 = from + n - 1 /\ k \in Nat /\ from + k - 1 = x
    BY <1>1, <1>2, <1>4
  <2>3. p \in 0..n
    BY <1>1, <1>2, <2>2, PredecessorsOf DEF N
  <2>4. PICK U : Best(ranked, U, from..(from + n - 1)) /\ totals[n + 1] = Total(ranked, U)
    BY <1>2, <1>3
  <2>5. PICK V : Best(ranked, V, from..(from + p - 1)) /\ totals[p + 1] = Total(ranked, V)
    BY <1>3, <2>3
  <2>6. with = Plus(W(ranked, x), Total(ranked, V)) /\ totals[k] = Total(ranked, U)
    BY <2>4, <2>5 DEF W, Base
  <2>7. /\ Total(ranked, V \cup {x}) = with
        /\ IF Better(with, totals[k])
             THEN Best(ranked, V \cup {x}, from..x)
             ELSE Best(ranked, U, from..x)
    <3>1. Best(ranked, U, from..(from + k - 2)) /\ from \in 1..Len(ranked)
          /\ k \in 1..(Len(ranked) - from + 1)
      BY <1>2, <2>2, <2>4 DEF N
    <3>2. /\ Total(ranked, V \cup {x}) = Plus(W(ranked, x), Total(ranked, V))
          /\ IF Better(Plus(W(ranked, x), Total(ranked, V)), Total(ranked, U))
               THEN Best(ranked, V \cup {x}, from..x)
               ELSE Best(ranked, U, from..x)
      BY <1>1, <2>5, <3>1, BestWithOneMore
    <3> QED
      BY <2>6, <3>2
  <2>8. with \in Weights /\ totals[k] \in Weights
    BY <1>1, <2>6, <2>7, TotalIsWeight
  <2> DEFINE b == Better(with, totals[k])
             w == IF b THEN with ELSE totals[k]
  <2>9. b \in BOOLEAN /\ w \in Weights
    BY <2>8 DEF Better, Less
  <2>10. \E S : Best(ranked, S, from..x) /\ w = Total(ranked, S)
    BY <2>6, <2>7
  <2>11. p + 1 \in 1..(n + 1)
    BY <1>2, <2>3
  <2>12. with = Plus(W(ranked, x), totals[p + 1])
    BY DEF W, Base
  <2>13. include' = Append(include, b) /\ totals' = Append(totals, w)
    BY <2>1
  <2> HIDE DEF with, b
  <2>14. w = IF b THEN with ELSE totals[k]
    OBVIOUS
  <2> HIDE DEF w, p, x
  <2>15. /\ Len(include') = n + 1 /\ Len(totals') = n + 2 /\ totals' \in Seq(Weights)
         /\ \A m \in 1..n : include'[m] = include[m]
         /\ include'[n + 1] = b
         /\ \A m \in 1..(n + 1) : totals'[m] = totals[m]
         /\ totals'[n + 2] = w
    BY <1>2, <1>3, <2>9, <2>13
  <2>16. ASSUME NEW m \in 0..(n + 1)
         PROVE  \E S : Best(ranked, S, from..(from + m - 1)) /\ totals'[m + 1] = Total(ranked, S)
    <3>1. CASE m = n + 1
      <4>1. from + m - 1 = x /\ m + 1 = n + 2
        BY <1>2, <3>1 DEF x
      <4> QED
        BY <2>10, <2>15, <4>1
    <3>2. CASE m # n + 1
      <4>1. m \in 0..n /\ m + 1 \in 1..(n + 1)
        BY <1>2, <3>2
      <4> QED
        BY <1>3, <2>15, <4>1
    <3> QED
      BY <3>1, <3>2
  <2>17. ASSUME NEW m \in 1..(n + 1)
         PROVE  totals'[m + 1] = IF include'[m]
                                   THEN Plus(W(ranked, from + m - 1),
                                             totals'[Predecessors(ranked, from, m) + 1])
                                   ELSE totals'[m]
    <3>1. CASE m = n + 1
      <4>1. from + m - 1 = x /\ m + 1 = n + 2 /\ Predecessors(ranked, from, m) = p /\ m = k
            /\ m \in 1..(n + 1)
        BY <1>2, <3>1 DEF x, p
      <4>2. totals'[m + 1] = w /\ include'[m] = b /\ totals'[m] = totals[k]
            /\ totals'[p + 1] = totals[p + 1]
        BY <2>11, <2>15, <3>1, <4>1
      <4> QED
        BY <2>12, <2>14, <4>1, <4>2
    <3>2. CASE m # n + 1
      <4>1. m \in 1..n /\ m \in 1..(n + 1) /\ m + 1 \in 1..(n + 1)
        BY <1>2, <3>2
      <4>2. Predecessors(ranked, from, m) + 1 \in 1..(n + 1)
        <5>1. m \in 1..(N - from + 1)
          BY <1>1, <1>2, <4>1
        <5>2. Predecessors(ranked, from, m) \in 0..(m - 1)
          BY <1>1, <1>2, <5>1, PredecessorsOf DEF N
        <5> QED
          BY <1>2, <4>1, <5>2
      <4> QED
        BY <1>3, <2>15, <4>1, <4>2
    <3> QED
      BY <3>1, <3>2
  <2>18. Tables'
    BY <1>1, <2>15, <2>16, <2>17 DEF Tables
  <2>19. Optimal'
    BY <1>1, <2>1 DEF Optimal
  <2> QED
    BY <2>18, <2>19
<1>5. CASE ~(x <= to)
  <2>1. phase' = "backward" /\ back' = n /\ totals' = totals /\ include' = include
    BY <1>1, <1>5 DEF Forward
  <2>2. from + n - 1 = to
    BY <1>2, <1>5
  <2>3. Tables'
    BY <1>1, <1>3, <2>1 DEF Tables
  <2>4. ASSUME NEW S \in DisjointSubsets(ranked, from..to), Total(ranked, S) = totals[n + 1]
        PROVE  Best(ranked, selected \cup S, from..N)
    <3>1. Best(ranked, S, from..to)
      <4>1. PICK U : Best(ranked, U, from..to) /\ totals[n + 1] = Total(ranked, U)
        <5>1. n \in 0..n
          BY <1>2
        <5>2. \E U : Best(ranked, U, from..(from + n - 1)) /\ totals[n + 1] = Total(ranked, U)
          BY <1>3, <5>1
        <5> QED
          BY <2>2, <5>2
      <4> QED
        BY <2>4, <4>1 DEF Best
    <3>2. /\ from..to \subseteq 1..Len(ranked) /\ (to + 1)..N \subseteq 1..Len(ranked)
          /\ (from..to) \cap ((to + 1)..N) = {} /\ (from..to) \cup ((to + 1)..N) = (from..N)
      BY <1>1, <1>2 DEF N
    <3>3. \A y \in from..to, z \in (to + 1)..N : ranked[y].end <= ranked[z].start
      BY <1>1, <1>2 DEF ClosesAt
    <3>4. Best(ranked, S \cup selected, (from..to) \cup ((to + 1)..N))
      BY <1>1, <3>1, <3>2, <3>3, BestOfBoth
    <3>5. S \cup selected = selected \cup S
      OBVIOUS
    <3> QED
      BY <3>2, <3>4, <3>5
  <2>5. Optimal'
    BY <1>1, <2>1, <2>2, <2>4 DEF Optimal
  <2> QED
    BY <2>3, <2>5
<1> QED
  BY <1>4, <1>5

(* Each step back takes what the table says and leaves a best choice.      *)
LEMMA BackwardIsOptimal ==
  ASSUME OInv, Backward
  PROVE  Tables' /\ Optimal'
<1> DEFINE x == from + back - 1
           p == Predecessors(ranked, from, back)
<1>1. /\ phase = "backward" /\ ranked' = ranked /\ N' = N /\ N \in Nat
      /\ from' = from /\ to' = to /\ totals' = totals /\ include' = include
      /\ Ranking(ranked) /\ from - 1 = componentEnd /\ componentEnd' = componentEnd
      /\ Tables
  BY DEF Backward, OInv, IInv, Progress, Solving, Ranking, N
<1>2. /\ from \in 1..N /\ to \in 1..N /\ from < to /\ include \in Seq(BOOLEAN)
      /\ Len(include) \in Nat /\ Len(include) <= to - from + 1 /\ back \in 0..Len(include)
  BY <1>1 DEF OInv, IInv, TypeOK, N
<1>3. \A S \in DisjointSubsets(ranked, from..x) :
        Total(ranked, S) = totals[back + 1] => Best(ranked, selected \cup S, from..N)
  BY <1>1 DEF OInv, Optimal
<1>4. CASE back = 0
  <2>1. phase' = "split" /\ selected' = selected
    BY <1>1, <1>4 DEF Backward
  <2>2. from..x = {}
    BY <1>2, <1>4
  <2>3. Total(ranked, {}) = totals[back + 1]
    <3>1. PICK S : Best(ranked, S, from..x) /\ totals[0 + 1] = Total(ranked, S)
      BY <1>1, <1>2, <1>4 DEF Tables, Solving
    <3>2. S = {}
      BY <2>2, <3>1 DEF Best, DisjointSubsets
    <3> QED
      BY <1>4, <3>1, <3>2
  <2>4. {} \in DisjointSubsets(ranked, from..x)
    BY DEF DisjointSubsets
  <2>5. Best(ranked, selected \cup {}, from..N)
    BY <1>3, <2>3, <2>4
  <2>6. selected \cup {} = selected' /\ componentEnd' + 1 = from
    BY <1>1, <1>2, <2>1
  <2> QED
    BY <1>1, <2>1, <2>5, <2>6 DEF Tables, Optimal, Solving
<1>5. CASE back # 0 /\ include[back]
  <2>1. phase' = "backward" /\ selected' = selected \cup {x} /\ back' = p
    BY <1>1, <1>5 DEF Backward
  <2>2. totals[back + 1] = Plus(W(ranked, x), totals[p + 1])
    <3>1. back \in 1..Len(include)
      BY <1>2, <1>5
    <3> QED
      BY <1>1, <1>5, <3>1 DEF Tables, Solving
  <2>3. back \in 1..(Len(ranked) - from + 1) /\ from \in 1..Len(ranked)
    BY <1>1, <1>2, <1>5 DEF N
  <2>4. ASSUME NEW S \in DisjointSubsets(ranked, from..(from + p - 1)),
               Total(ranked, S) = totals[p + 1]
        PROVE  Best(ranked, (selected \cup {x}) \cup S, from..N)
    <3>1. /\ S \cup {x} \in DisjointSubsets(ranked, from..x)
          /\ Total(ranked, S \cup {x}) = Plus(W(ranked, x), Total(ranked, S))
      BY <1>1, <2>3, WithPredecessors
    <3>2. Best(ranked, selected \cup (S \cup {x}), from..N)
      BY <1>3, <2>2, <2>4, <3>1
    <3>3. selected \cup (S \cup {x}) = (selected \cup {x}) \cup S
      OBVIOUS
    <3> QED
      BY <3>2, <3>3
  <2> HIDE DEF x, p
  <2>5. Optimal'
    BY <1>1, <2>1, <2>4 DEF Optimal
  <2>6. Tables'
    BY <1>1, <2>1 DEF Tables, Solving
  <2> QED
    BY <2>5, <2>6
<1>6. CASE back # 0 /\ ~include[back]
  <2>1. phase' = "backward" /\ selected' = selected /\ back' = back - 1
    BY <1>1, <1>6 DEF Backward
  <2>2. totals[back + 1] = totals[back]
    <3>1. back \in 1..Len(include)
      BY <1>2, <1>6
    <3> QED
      BY <1>1, <1>6, <3>1 DEF Tables, Solving
  <2>3. from + (back - 1) - 1 = x - 1 /\ (back - 1) + 1 = back /\ from..(x - 1) \subseteq from..x
    BY <1>2
  <2>4. ASSUME NEW S \in DisjointSubsets(ranked, from..(x - 1)),
               Total(ranked, S) = totals[back]
        PROVE  Best(ranked, selected \cup S, from..N)
    <3>1. S \in DisjointSubsets(ranked, from..x)
      BY <2>3 DEF DisjointSubsets
    <3> QED
      BY <1>3, <2>2, <2>4, <3>1
  <2> HIDE DEF x
  <2>5. Optimal'
    BY <1>1, <2>1, <2>3, <2>4 DEF Optimal
  <2>6. Tables'
    BY <1>1, <2>1 DEF Tables, Solving
  <2> QED
    BY <2>5, <2>6
<1> QED
  BY <1>4, <1>5, <1>6

(* What is selected is at every point the best of what is solved, for any  *)
(* number of candidates and any ranks.                                     *)
THEOREM OptimalInvariant == Spec => []OInv
<1>1. Init => OInv
  BY InitIsOptimal
<1>2. OInv /\ IInv' /\ [Next]_vars => OInv'
  <2> SUFFICES ASSUME OInv, IInv', [Next]_vars
               PROVE  OInv'
    OBVIOUS
  <2>1. ranked' = ranked
    BY DEF Next, Split, SolveFirstComponent, Finish, Forward, Backward, vars
  <2>2. Ranking(ranked)'
    BY <2>1 DEF OInv, Ranking
  <2>3. CASE Split
    BY <2>2, <2>3, SplitIsOptimal DEF OInv
  <2>4. CASE SolveFirstComponent
    BY <2>2, <2>4, SolveFirstIsOptimal DEF OInv
  <2>5. CASE Finish
    BY <2>2, <2>5, FinishIsOptimal DEF OInv
  <2>6. CASE Forward
    BY <2>2, <2>6, ForwardIsOptimal DEF OInv
  <2>7. CASE Backward
    BY <2>2, <2>7, BackwardIsOptimal DEF OInv
  <2>8. CASE UNCHANGED vars
    BY <2>2, <2>8 DEF OInv, Tables, Optimal, Solving, N, vars
  <2> QED
    BY <2>3, <2>4, <2>5, <2>6, <2>7, <2>8 DEF Next
<1> QED
  BY <1>1, <1>2, InductiveInvariant, PTL DEF Spec

(* Every entry of the table is the greatest total weight of disjoint       *)
(* candidates of its prefix of the component.                              *)
THEOREM TablesAreGreatest == Spec => []TotalsAreGreatest
<1>1. OInv => TotalsAreGreatest
  <2> SUFFICES ASSUME OInv, phase = "forward"
               PROVE  LET prefix == from..(from + Len(include) - 1) IN
                      /\ \A S \in DisjointSubsets(ranked, prefix) :
                           ~Less(totals[Len(totals)], TotalWeight(ranked, S, Base))
                      /\ \E S \in DisjointSubsets(ranked, prefix) :
                           totals[Len(totals)] = TotalWeight(ranked, S, Base)
    BY DEF TotalsAreGreatest
  <2>1. Len(totals) = Len(include) + 1 /\ Len(include) \in 0..Len(include)
    BY DEF OInv, IInv, TypeOK, Tables, Solving
  <2>2. PICK S : /\ Best(ranked, S, from..(from + Len(include) - 1))
                 /\ totals[Len(include) + 1] = Total(ranked, S)
    BY <2>1 DEF OInv, Tables, Solving
  <2> QED
    BY <2>1, <2>2 DEF Best, AtMost, Total, Base
<1> QED
  BY <1>1, OptimalInvariant, PTL

(* A candidate is dropped only for one that overlaps it and whose action   *)
(* is at least as strict: any number of weaker ones does not displace it.  *)
THEOREM StricterStays == Spec => []StricterIsNeverDisplaced
<1>1. OInv => StricterIsNeverDisplaced
  <2> SUFFICES ASSUME OInv, phase = "done", NEW j \in 1..Len(ranked) \ selected
               PROVE  \E k \in selected : /\ ~Disjoint(ranked[j], ranked[k])
                                          /\ ranked[k].severity >= ranked[j].severity
    BY DEF StricterIsNeverDisplaced
  <2>1. Ranking(ranked) /\ Best(ranked, selected, 1..Len(ranked))
    BY DEF OInv, Optimal, N
  <2> QED
    BY <2>1, BestDisplacesNoStricter
<1> QED
  BY <1>1, OptimalInvariant, PTL

(* What a call returns weighs at least as much as any other disjoint       *)
(* candidates of the call.                                                 *)
THEOREM SelectionIsBest ==
  Spec => [](phase = "done" =>
               \A S \in DisjointSubsets(ranked, 1..Len(ranked)) :
                 ~Less(TotalWeight(ranked, selected, Base), TotalWeight(ranked, S, Base)))
<1>1. OInv => (phase = "done" =>
                 \A S \in DisjointSubsets(ranked, 1..Len(ranked)) :
                   ~Less(TotalWeight(ranked, selected, Base), TotalWeight(ranked, S, Base)))
  BY DEF OInv, Optimal, Best, AtMost, Total, Base, N
<1> QED
  BY <1>1, OptimalInvariant, PTL

------------------------------------------------------------------------------
(* The recurrence over the whole set, which does not split.                *)
Whole(s) == Recurrence(s, Len(s) + 1)

Chosen == [total : Weights, taken : SUBSET Nat]

(* What the recurrence says of the first k candidates.                     *)
LEMMA RecurrenceSteps ==
  ASSUME NEW s, Ranking(s)
  PROVE  LET b == Whole(s) IN
         /\ b[0].total = Zero /\ b[0].taken = {}
         /\ \A k \in 0..Len(s) : b[k].total \in Weights
         /\ \A k \in 1..Len(s) :
              LET below == b[Predecessors(s, 1, k)]
                  with  == Plus(W(s, k), below.total)
              IN IF Better(with, b[k - 1].total)
                   THEN b[k].total = with /\ b[k].taken = below.taken \cup {k}
                   ELSE b[k] = b[k - 1]
<1> DEFINE n == Len(s)
           nothing == [total |-> Zero, taken |-> {}]
           next(k, f) ==
             LET below   == f[Predecessors(s, 1, k)]
                 with    == Plus(Weight(s[k], n + 1), below.total)
                 without == f[k - 1]
             IN IF Better(with, without.total)
                  THEN [total |-> with, taken |-> below.taken \cup {k}]
                  ELSE without
           step == [k \in 1..n |-> [f \in [0..n -> Chosen] |-> next(k, f)]]
           b == CHOOSE f : f = [k \in 0..n |-> IF k = 0 THEN nothing ELSE next(k, f)]
<1>1. n \in Nat /\ nothing \in Chosen
  BY PlusOfWeights DEF Ranking, Chosen, Zero, Weights
<1>2. \A k \in 1..n : Predecessors(s, 1, k) \in 0..(k - 1)
  <2>1. ASSUME NEW k \in 1..n
        PROVE  Predecessors(s, 1, k) \in 0..(k - 1)
    <3>1. 1 \in 1..Len(s) /\ k \in 1..(Len(s) - 1 + 1)
      BY <1>1, <2>1
    <3> QED
      BY <3>1, PredecessorsOf
  <2> QED
    BY <2>1
<1>3. ASSUME NEW k \in 1..n, NEW f, f[k - 1] \in Chosen, f[Predecessors(s, 1, k)] \in Chosen
      PROVE  next(k, f) \in Chosen
  <2> DEFINE below == f[Predecessors(s, 1, k)]
             with  == Plus(Weight(s[k], n + 1), below.total)
  <2>1. below.total \in Weights /\ below.taken \in SUBSET Nat
    BY <1>3 DEF Chosen
  <2>2. with \in Weights
    BY <2>1, WeightOfCandidate, PlusOfWeights DEF W
  <2> HIDE DEF with, below
  <2>3. [total |-> with, taken |-> below.taken \cup {k}] \in Chosen
    BY <1>1, <2>1, <2>2 DEF Chosen
  <2> QED
    BY <1>3, <2>3 DEF with, below
<1>4. ASSUME NEW k \in 1..n, NEW f \in [0..n -> Chosen]
      PROVE  next(k, f) \in Chosen /\ step[k][f] = next(k, f)
  <2>1. f[k - 1] \in Chosen /\ f[Predecessors(s, 1, k)] \in Chosen
    BY <1>1, <1>2
  <2>2. next(k, f) \in Chosen
    BY <1>3, <2>1
  <2> HIDE DEF next
  <2> QED
    BY <2>2
<1>5. step \in [1..n -> [[0..n -> Chosen] -> Chosen]]
  <2> HIDE DEF next
  <2> QED
    BY <1>4
<1> HIDE DEF step
<1>6. LooksBelow(step, n, Chosen)
  <2>1. ASSUME NEW k \in 1..n, NEW f \in [0..n -> Chosen], NEW g \in [0..n -> Chosen],
               \A j \in 0..(k - 1) : f[j] = g[j]
        PROVE  step[k][f] = step[k][g]
    <3>1. k - 1 \in 0..(k - 1) /\ Predecessors(s, 1, k) \in 0..(k - 1)
      BY <1>1, <1>2
    <3>2. f[k - 1] = g[k - 1] /\ f[Predecessors(s, 1, k)] = g[Predecessors(s, 1, k)]
      BY <2>1, <3>1
    <3>3. next(k, f) = next(k, g)
      BY <3>2
    <3> HIDE DEF next
    <3> QED
      BY <1>4, <3>3
  <2> QED
    BY <1>5, <2>1 DEF LooksBelow
<1>7. PICK p : Computes(p, step, n, Chosen, nothing)
  <2> HIDE DEF nothing
  <2> QED
    BY <1>1, <1>6, RecursionExists
<1>8. p = [k \in 0..n |-> IF k = 0 THEN nothing ELSE next(k, p)]
  <2> HIDE DEF next, nothing
  <2>1. p \in [0..n -> Chosen] /\ p[0] = nothing /\ \A k \in 1..n : p[k] = step[k][p]
    BY <1>7 DEF Computes
  <2>2. \A k \in 0..n : p[k] = IF k = 0 THEN nothing ELSE next(k, p)
    BY <1>1, <1>4, <2>1
  <2> QED
    BY <2>1, <2>2
<1>9. b = [k \in 0..n |-> IF k = 0 THEN nothing ELSE next(k, b)]
  BY <1>8, Zenon
<1>10. Whole(s) = b
  BY DEF Whole, Recurrence
<1> HIDE DEF b
<1>11. b[0] = nothing /\ \A k \in 1..n : b[k] = next(k, b)
  <2> HIDE DEF next, nothing
  <2> QED
    BY <1>1, <1>9
<1>12. \A k \in 0..n : b[k] \in Chosen
  <2> DEFINE P == {k \in Nat : \A j \in 0..k : j <= n => b[j] \in Chosen}
  <2>1. 0 \in P
    <3> HIDE DEF nothing, next
    <3> QED
      BY <1>1, <1>11
  <2>2. ASSUME NEW k \in P
        PROVE  k + 1 \in P
    <3>1. k \in Nat /\ (k + 1) - 1 = k /\ \A j \in 0..k : j <= n => b[j] \in Chosen
      OBVIOUS
    <3>2. CASE k + 1 <= n
      <4>1. k + 1 \in 1..n /\ Predecessors(s, 1, k + 1) \in 0..k
        BY <1>1, <1>2, <3>1, <3>2
      <4>2. b[k] \in Chosen /\ b[Predecessors(s, 1, k + 1)] \in Chosen
        BY <1>1, <3>1, <3>2, <4>1
      <4>3. b[k + 1] \in Chosen
        <5>1. b[k + 1] = next(k + 1, b)
          BY <1>11, <4>1
        <5>2. next(k + 1, b) \in Chosen
          BY <1>3, <3>1, <4>1, <4>2
        <5> HIDE DEF next
        <5> QED
          BY <5>1, <5>2
      <4> QED
        BY <3>1, <4>3
    <3>3. CASE ~(k + 1 <= n)
      BY <1>1, <3>1, <3>3
    <3> QED
      BY <3>2, <3>3
  <2>3. P = Nat
    <3> HIDE DEF P
    <3>1. P \subseteq Nat
      BY DEF P
    <3> QED
      BY <2>1, <2>2, <3>1, StepsReachAll
  <2> QED
    BY <1>1, <2>3
<1> QED
  <2>1. b[0].total = Zero /\ b[0].taken = {}
    BY <1>11
  <2>2. \A k \in 0..n : b[k].total \in Weights
    BY <1>12 DEF Chosen
  <2>3. ASSUME NEW k \in 1..n
        PROVE  LET below == b[Predecessors(s, 1, k)]
                   with  == Plus(W(s, k), below.total)
               IN IF Better(with, b[k - 1].total)
                    THEN b[k].total = with /\ b[k].taken = below.taken \cup {k}
                    ELSE b[k] = b[k - 1]
    <3> DEFINE below == b[Predecessors(s, 1, k)]
               with  == Plus(W(s, k), below.total)
    <3>1. b[k] = IF Better(with, b[k - 1].total)
                   THEN [total |-> with, taken |-> below.taken \cup {k}]
                   ELSE b[k - 1]
      BY <1>11 DEF W
    <3> HIDE DEF with
    <3>2. IF Better(with, b[k - 1].total)
            THEN b[k].total = with /\ b[k].taken = below.taken \cup {k}
            ELSE b[k] = b[k - 1]
      BY <3>1
    <3> QED
      BY <3>2 DEF with
  <2> QED
    BY <1>10, <2>1, <2>2, <2>3

(* In a component that closes behind everything below it, a candidate's    *)
(* predecessors are those it has in the component and all below.           *)
LEMMA PredecessorsInComponent ==
  ASSUME NEW s, Ranking(s), NEW first \in 1..Len(s), NEW k \in 1..(Len(s) - first + 1),
         \A x \in 1..(first - 1), y \in first..Len(s) : s[x].end <= s[y].start
  PROVE  Predecessors(s, 1, first + k - 1) = first - 1 + Predecessors(s, first, k)
<1> DEFINE X == first + k - 1
           p == Predecessors(s, 1, X)
           m == Predecessors(s, first, k)
<1>1. /\ X \in first..Len(s) /\ X \in 1..(Len(s) - 1 + 1) /\ 1 \in 1..Len(s)
      /\ 1 + X - 1 = X /\ 1 + X - 2 = X - 1 /\ first + k - 2 = X - 1
      /\ first \in Nat /\ k \in Nat /\ X \in Nat /\ k >= 1 /\ first >= 1
  BY DEF Ranking
<1>2. p \in 0..(X - 1) /\ \A x \in 1..(X - 1) : s[x].end <= s[X].start <=> x <= 1 + p - 1
  BY <1>1, PredecessorsOf
<1>3. /\ m \in 0..(k - 1)
      /\ \A x \in first..(X - 1) : s[x].end <= s[X].start <=> x <= first + m - 1
  BY <1>1, PredecessorsOf
<1>4. \A x \in 1..(first - 1) : s[x].end <= s[X].start
  BY <1>1
<1> HIDE DEF p, m, X
<1> DEFINE q == first - 1 + m
<1>5. q \in 0..(X - 1)
  BY <1>1, <1>3 DEF X
<1>6. q <= p
  <2>1. CASE q = 0
    BY <1>2, <2>1
  <2>2. CASE q # 0
    <3>1. q \in 1..(X - 1)
      BY <1>1, <1>5, <2>2
    <3>2. s[q].end <= s[X].start
      <4>1. CASE m = 0
        <5>1. q \in 1..(first - 1)
          BY <1>1, <3>1, <4>1
        <5> QED
          BY <1>4, <5>1
      <4>2. CASE m # 0
        <5>1. q \in first..(X - 1) /\ q <= first + m - 1
          BY <1>1, <1>3, <3>1, <4>2
        <5> QED
          BY <1>3, <5>1
      <4> QED
        BY <4>1, <4>2
    <3> QED
      BY <1>1, <1>2, <3>1, <3>2
  <2> QED
    BY <2>1, <2>2
<1>7. p <= q
  <2> SUFFICES ASSUME ~(p <= q)
               PROVE  FALSE
    OBVIOUS
  <2>1. p \in first..(X - 1) /\ p \in 1..(X - 1)
    BY <1>1, <1>2, <1>3
  <2>2. s[p].end <= s[X].start
    BY <1>1, <1>2, <2>1
  <2> QED
    BY <1>1, <1>2, <1>3, <2>1, <2>2
<1> QED
  BY <1>1, <1>2, <1>3, <1>5, <1>6, <1>7 DEF p, m, X

(* Something that weighs in the first place is worth taking.               *)
LEMMA TakingIsBetter ==
  ASSUME NEW w \in Weights, NEW u \in Weights, w[1] > 0
  PROVE  Better(Plus(w, u), u)
<1>1. Plus(w, u) \in Weights /\ Plus(w, u)[1] = w[1] + u[1]
  BY PlusOfWeights
<1>2. w[1] \in Nat /\ u[1] \in Nat
  <2>1. \A v \in Weights : v[1] \in Nat
    BY DEF Weights
  <2> QED
    BY <2>1
<1>3. u[1] < Plus(w, u)[1]
  BY <1>1, <1>2
<1> QED
  BY <1>1, <1>3, WeightsAreOrdered DEF Better

(* The tables of a component are those of the whole set without what is    *)
(* below the component, and what is selected completes what the whole set  *)
(* selects of the rest.                                                    *)
Agrees ==
  LET best == Whole(ranked) IN
  /\ phase = "split" => best[N].taken = best[componentEnd].taken \cup selected
  /\ Solving =>
       /\ \A m \in 0..Len(include) :
            best[from - 1 + m].total = Plus(best[from - 1].total, totals[m + 1])
       /\ \A m \in 1..Len(include) :
            best[from - 1 + m].taken =
              IF include[m]
                THEN best[from - 1 + Predecessors(ranked, from, m)].taken \cup {from + m - 1}
                ELSE best[from - 1 + m - 1].taken
  /\ phase = "forward" => best[N].taken = best[to].taken \cup selected
  /\ phase = "backward" => best[N].taken = best[from + back - 1].taken \cup selected
  /\ phase = "done" => best[N].taken = selected

AInv == OInv /\ Agrees

(* A candidate of a component of one is taken by the whole set too.        *)
LEMMA WholeTakesAlone ==
  ASSUME NEW s, Ranking(s), NEW x \in 1..Len(s), Predecessors(s, 1, x) = x - 1
  PROVE  Whole(s)[x].taken = Whole(s)[x - 1].taken \cup {x}
<1> DEFINE b == Whole(s)
           with == Plus(W(s, x), b[x - 1].total)
<1>1. x - 1 \in 0..Len(s)
  BY DEF Ranking
<1>2. b[x - 1].total \in Weights
  BY <1>1, RecurrenceSteps
<1>3. Better(with, b[x - 1].total)
  BY <1>2, WeightOfCandidate, TakingIsBetter
<1>4. IF Better(with, b[x - 1].total)
        THEN b[x].total = with /\ b[x].taken = b[x - 1].taken \cup {x}
        ELSE b[x] = b[x - 1]
  <2> HIDE DEF b
  <2>1. LET below == b[Predecessors(s, 1, x)]
            w     == Plus(W(s, x), below.total)
        IN IF Better(w, b[x - 1].total)
             THEN b[x].total = w /\ b[x].taken = below.taken \cup {x}
             ELSE b[x] = b[x - 1]
    BY RecurrenceSteps DEF b
  <2> QED
    BY <2>1
<1> QED
  BY <1>3, <1>4

(* Where nothing overlaps the whole set takes everything.                  *)
LEMMA WholeTakesDisjoint ==
  ASSUME NEW s, Ranking(s), \A x, y \in 1..Len(s) : x < y => s[x].end <= s[y].start
  PROVE  Whole(s)[Len(s)].taken = 1..Len(s)
<1> DEFINE n == Len(s)
           P == {k \in Nat : k <= n => Whole(s)[k].taken = 1..k}
<1>1. n \in Nat
  BY DEF Ranking
<1>2. 0 \in P
  <2>1. Whole(s)[0].taken = {} /\ 1..0 = {}
    BY RecurrenceSteps
  <2> QED
    BY <2>1
<1>3. ASSUME NEW k \in P
      PROVE  k + 1 \in P
  <2>1. k \in Nat /\ (k + 1) - 1 = k /\ (1..k) \cup {k + 1} = 1..(k + 1)
    OBVIOUS
  <2>2. CASE k + 1 <= n
    <3>1. /\ 1 \in 1..Len(s) /\ k + 1 \in 1..Len(s) /\ k + 1 \in 1..(Len(s) - 1 + 1)
          /\ 1 + (k + 1) - 1 = k + 1 /\ 1 + (k + 1) - 2 = k
      BY <1>1, <2>1, <2>2
    <3> DEFINE p == Predecessors(s, 1, k + 1)
    <3>2. /\ p \in 0..(k + 1 - 1)
          /\ \A x \in 1..(1 + (k + 1) - 2) :
               s[x].end <= s[1 + (k + 1) - 1].start <=> x <= 1 + p - 1
      BY <3>1, PredecessorsOf
    <3> HIDE DEF p
    <3>3. p = k
      <4>1. CASE k = 0
        BY <3>2, <4>1
      <4>2. CASE k # 0
        <5>1. k \in 1..k /\ k \in 1..Len(s) /\ k < k + 1
          BY <1>1, <2>1, <2>2, <4>2
        <5>2. s[k].end <= s[k + 1].start
          BY <3>1, <5>1
        <5> QED
          BY <2>1, <3>1, <3>2, <5>1, <5>2
      <4> QED
        BY <4>1, <4>2
    <3>4. Predecessors(s, 1, k + 1) = (k + 1) - 1
      BY <2>1, <3>3 DEF p
    <3>5. Whole(s)[k + 1].taken = Whole(s)[(k + 1) - 1].taken \cup {k + 1}
      BY <3>1, <3>4, WholeTakesAlone
    <3>6. Whole(s)[k].taken = 1..k
      BY <2>1, <2>2, <1>1
    <3>7. Whole(s)[k + 1].taken = 1..(k + 1)
      <4>1. Whole(s)[k + 1].taken = Whole(s)[k].taken \cup {k + 1}
        BY <2>1, <3>5
      <4> QED
        BY <2>1, <3>6, <4>1
    <3>8. k + 1 \in Nat
      BY <2>1
    <3> QED
      BY <3>7, <3>8
  <2> QED
    BY <2>1, <2>2
<1>4. P = Nat
  <2> HIDE DEF P
  <2>1. P \subseteq Nat
    BY DEF P
  <2> QED
    BY <1>2, <1>3, <2>1, StepsReachAll
<1>5. n \in P /\ n <= n
  <2> HIDE DEF P
  <2> QED
    BY <1>1, <1>4
<1> QED
  BY <1>5

LEMMA InitAgrees ==
  Init => AInv
<1> SUFFICES ASSUME Init
             PROVE  AInv
  OBVIOUS
<1>1. OInv /\ Ranking(ranked) /\ N \in Nat /\ EndsAscend /\ SelectedAreDisjoint
  BY InitIsOptimal DEF OInv, IInv, Ranking, N
<1>2. /\ componentEnd = N
      /\ \/ phase = "done" /\ selected = 1..N
         \/ phase = "split" /\ selected = {}
  BY DEF Init, N
<1>3. CASE phase = "done" /\ selected = 1..N
  <2>1. ASSUME NEW x \in 1..Len(ranked), NEW y \in 1..Len(ranked), x < y
        PROVE  ranked[x].end <= ranked[y].start
    <3>1. Disjoint(ranked[x], ranked[y])
      BY <1>1, <1>3, <2>1 DEF SelectedAreDisjoint, N
    <3>2. /\ ranked[x].start \in Nat /\ ranked[x].end \in Nat /\ ranked[x].start < ranked[x].end
          /\ ranked[y].start \in Nat /\ ranked[y].end \in Nat /\ ranked[y].start < ranked[y].end
          /\ ranked[x].end <= ranked[y].end
      BY <1>1, <2>1, RankingFields DEF Ranking
    <3> QED
      BY <3>1, <3>2 DEF Disjoint
  <2>2. Whole(ranked)[Len(ranked)].taken = 1..Len(ranked)
    BY <1>1, <2>1, WholeTakesDisjoint
  <2> QED
    BY <1>1, <1>3, <2>2 DEF AInv, Agrees, Solving, N
<1>4. CASE phase = "split" /\ selected = {}
  BY <1>1, <1>2, <1>4 DEF AInv, Agrees, Solving
<1> QED
  BY <1>2, <1>3, <1>4

LEMMA SolveAgrees ==
  ASSUME AInv, phase = "split", NEW first \in 1..N,
         first <= componentEnd, ClosesAt(first - 1),
         Solve(first, componentEnd), componentEnd' = first - 1, ranked' = ranked
  PROVE  Agrees'
<1> DEFINE b == Whole(ranked)
<1>1. /\ Ranking(ranked) /\ N \in Nat /\ N' = N /\ componentEnd \in 0..N
      /\ b[N].taken = b[componentEnd].taken \cup selected /\ b' = b
  BY DEF AInv, OInv, IInv, Agrees, TypeOK, Ranking, N
<1>2. CASE first = componentEnd
  <2>1. selected' = selected \cup {first} /\ phase' = "split"
    BY <1>2 DEF Solve
  <2>2. Predecessors(ranked, 1, first) = first - 1
    <3>1. /\ first \in 1..Len(ranked) /\ first \in Nat /\ 1 \in 1..(Len(ranked) - first + 1)
          /\ first + 1 - 1 = first
          /\ \A x \in 1..(first - 1), y \in first..Len(ranked) : ranked[x].end <= ranked[y].start
      BY <1>1 DEF ClosesAt, N
    <3>2. Predecessors(ranked, 1, first + 1 - 1) = first - 1 + Predecessors(ranked, first, 1)
      BY <1>1, <3>1, PredecessorsInComponent
    <3>3. Predecessors(ranked, first, 1) \in 0..(1 - 1)
      BY <1>1, <3>1, PredecessorsOf
    <3>4. Predecessors(ranked, first, 1) = 0
      BY <3>3
    <3> QED
      BY <3>1, <3>2, <3>4
  <2>3. b[first].taken = b[first - 1].taken \cup {first}
    BY <1>1, <2>2, WholeTakesAlone DEF N
  <2> HIDE DEF b
  <2>4. b[N].taken = b[componentEnd'].taken \cup selected'
    BY <1>1, <1>2, <2>1, <2>3
  <2> QED
    BY <1>1, <2>1, <2>4 DEF Agrees, Solving, b
<1>3. CASE first # componentEnd
  <2>1. /\ phase' = "forward" /\ from' = first /\ to' = componentEnd
        /\ totals' = <<Zero>> /\ include' = <<>> /\ selected' = selected
    BY <1>3 DEF Solve
  <2>2. b[first - 1].total \in Weights
    <3>1. first - 1 \in 0..Len(ranked)
      BY <1>1 DEF N
    <3> QED
      BY <1>1, <3>1, RecurrenceSteps
  <2>3. /\ Len(include') = 0 /\ totals'[0 + 1] = Zero /\ first - 1 + 0 = first - 1
    BY <1>1, <2>1
  <2> HIDE DEF b
  <2>4. \A m \in 0..Len(include') :
          b[from' - 1 + m].total = Plus(b[from' - 1].total, totals'[m + 1])
    <3>1. Plus(b[first - 1].total, Zero) = b[first - 1].total
      BY <2>2, PlusOfWeights
    <3>2. \A m \in 0..Len(include') : m = 0
      BY <2>3
    <3> QED
      BY <2>1, <2>3, <3>1, <3>2
  <2>5. \A m \in 1..Len(include') : FALSE
    BY <2>3
  <2>6. b[N].taken = b[to'].taken \cup selected'
    BY <1>1, <2>1
  <2> QED
    BY <1>1, <2>1, <2>4, <2>5, <2>6 DEF Agrees, b
<1> QED
  BY <1>2, <1>3

LEMMA ForwardAgrees ==
  ASSUME AInv, Forward
  PROVE  Agrees'
<1> DEFINE n == Len(include)
           k == n + 1
           x == from + k - 1
           p == Predecessors(ranked, from, k)
           with == Plus(Weight(ranked[x], Base), totals[p + 1])
           b == Whole(ranked)
<1>1. /\ phase = "forward" /\ ranked' = ranked /\ N' = N /\ N \in Nat
      /\ selected' = selected /\ from' = from /\ to' = to
      /\ Ranking(ranked) /\ ClosesAt(componentEnd) /\ from - 1 = componentEnd
      /\ b' = b /\ b[N].taken = b[to].taken \cup selected
  BY DEF Forward, AInv, OInv, IInv, Agrees, Progress, Solving, Ranking, N
<1>2. /\ from \in 1..N /\ to \in 1..N /\ from < to /\ include \in Seq(BOOLEAN)
      /\ n \in Nat /\ n <= to - from + 1 /\ from \in Nat
  BY <1>1 DEF AInv, OInv, IInv, TypeOK, N
<1>3. totals \in Seq(Weights) /\ Len(totals) = n + 1
  BY <1>1 DEF AInv, OInv, Tables, Solving
<1>4. /\ \A m \in 0..n : b[from - 1 + m].total = Plus(b[from - 1].total, totals[m + 1])
      /\ \A m \in 1..n :
           b[from - 1 + m].taken =
             IF include[m]
               THEN b[from - 1 + Predecessors(ranked, from, m)].taken \cup {from + m - 1}
               ELSE b[from - 1 + m - 1].taken
  BY <1>1 DEF AInv, Agrees, Solving
<1>5. CASE x <= to
  <2> DEFINE better == Better(with, totals[k])
             w == IF better THEN with ELSE totals[k]
  <2>1. /\ include' = Append(include, better) /\ totals' = Append(totals, w)
        /\ phase' = "forward"
    BY <1>1, <1>5 DEF Forward
  <2>2. /\ k \in 1..(N - from + 1) /\ k \in Nat /\ x \in 1..N /\ x \in Nat /\ from - 1 \in 0..N
        /\ x - 1 = from - 1 + n /\ x = from - 1 + k
    BY <1>1, <1>2, <1>5
  <2>3. p \in 0..n
    BY <1>1, <1>2, <2>2, PredecessorsOf DEF N
  <2>4. Predecessors(ranked, 1, x) = from - 1 + p
    <3>1. \A y \in 1..(from - 1), z \in from..Len(ranked) : ranked[y].end <= ranked[z].start
      <4>1. componentEnd \in Nat /\ componentEnd + 1 = from /\ N = Len(ranked)
        BY <1>1, <1>2, <2>2 DEF N
      <4>2. 1..(from - 1) = 1..componentEnd /\ from..Len(ranked) = (componentEnd + 1)..N
        BY <1>1, <4>1
      <4> QED
        BY <1>1, <4>2 DEF ClosesAt
    <3> QED
      BY <1>1, <1>2, <2>2, <3>1, PredecessorsInComponent DEF N
  <2>5. with = Plus(W(ranked, x), totals[p + 1])
    BY DEF W, Base
  <2> DEFINE low == b[from - 1].total
             whole == Plus(W(ranked, x), b[from - 1 + p].total)
  <2>6. /\ low \in Weights /\ totals[p + 1] \in Weights /\ totals[k] \in Weights
        /\ W(ranked, x) \in Weights /\ with \in Weights
    <3>1. low \in Weights
      BY <1>1, <2>2, RecurrenceSteps DEF N
    <3>2. totals[p + 1] \in Weights /\ totals[k] \in Weights
      BY <1>2, <1>3, <2>3
    <3>3. W(ranked, x) \in Weights
      BY <1>1, <2>2, WeightOfCandidate DEF N
    <3> QED
      BY <2>5, <3>1, <3>2, <3>3, PlusOfWeights
  <2>7. IF Better(whole, b[x - 1].total)
          THEN b[x].total = whole /\ b[x].taken = b[from - 1 + p].taken \cup {x}
          ELSE b[x] = b[x - 1]
    <3> HIDE DEF b
    <3>1. LET below == b[Predecessors(ranked, 1, x)]
              v     == Plus(W(ranked, x), below.total)
          IN IF Better(v, b[x - 1].total)
               THEN b[x].total = v /\ b[x].taken = below.taken \cup {x}
               ELSE b[x] = b[x - 1]
      BY <1>1, <2>2, RecurrenceSteps DEF b, N
    <3> QED
      BY <2>4, <3>1
  <2> HIDE DEF b, x, p, with
  <2>8. whole = Plus(low, with) /\ b[x - 1].total = Plus(low, totals[k])
    <3>1. b[from - 1 + p].total = Plus(low, totals[p + 1])
      BY <1>4, <2>3
    <3>2. b[from - 1 + n].total = Plus(low, totals[n + 1])
      BY <1>2, <1>4
    <3>3. Plus(W(ranked, x), Plus(low, totals[p + 1])) = Plus(low, Plus(W(ranked, x), totals[p + 1]))
      <4>1. Plus(W(ranked, x), Plus(low, totals[p + 1]))
              = Plus(Plus(W(ranked, x), low), totals[p + 1])
        BY <2>6, PlusIsAssociative
      <4>2. Plus(W(ranked, x), low) = Plus(low, W(ranked, x))
        BY <2>6, PlusOfWeights
      <4>3. Plus(Plus(low, W(ranked, x)), totals[p + 1])
              = Plus(low, Plus(W(ranked, x), totals[p + 1]))
        BY <2>6, PlusIsAssociative
      <4> QED
        BY <4>1, <4>2, <4>3
    <3> QED
      BY <2>2, <2>5, <3>1, <3>2, <3>3
  <2>9. Better(whole, b[x - 1].total) <=> better
    BY <2>6, <2>8, PlusKeepsOrder DEF Better
  <2>10. /\ b[x].total = Plus(low, w)
         /\ b[x].taken = IF better THEN b[from - 1 + p].taken \cup {x} ELSE b[x - 1].taken
    BY <2>7, <2>8, <2>9
  <2>11. better \in BOOLEAN /\ w \in Weights
    BY <2>6 DEF Better, Less
  <2> HIDE DEF better, w, low
  <2>12. /\ Len(include') = n + 1
         /\ \A m \in 1..n : include'[m] = include[m]
         /\ include'[n + 1] = better
         /\ \A m \in 1..(n + 1) : totals'[m] = totals[m]
         /\ totals'[n + 2] = w
    BY <1>2, <1>3, <2>1, <2>11
  <2>13. ASSUME NEW m \in 0..(n + 1)
         PROVE  b[from - 1 + m].total = Plus(b[from - 1].total, totals'[m + 1])
    <3>1. CASE m = n + 1
      <4>1. from - 1 + m = x /\ m + 1 = n + 2
        BY <1>2, <2>2, <3>1
      <4> QED
        BY <2>10, <2>12, <4>1 DEF low
    <3>2. CASE m # n + 1
      <4>1. m \in 0..n /\ m + 1 \in 1..(n + 1)
        BY <1>2, <3>2
      <4> QED
        BY <1>4, <2>12, <4>1
    <3> QED
      BY <3>1, <3>2
  <2>14. ASSUME NEW m \in 1..(n + 1)
         PROVE  b[from - 1 + m].taken =
                  IF include'[m]
                    THEN b[from - 1 + Predecessors(ranked, from, m)].taken \cup {from + m - 1}
                    ELSE b[from - 1 + m - 1].taken
    <3>1. CASE m = n + 1
      <4>1. /\ from - 1 + m = x /\ from + m - 1 = x /\ from - 1 + m - 1 = x - 1
            /\ Predecessors(ranked, from, m) = p
        BY <1>2, <2>2, <3>1 DEF p
      <4> QED
        BY <2>10, <2>12, <3>1, <4>1
    <3>2. CASE m # n + 1
      <4>1. m \in 1..n
        BY <1>2, <3>2
      <4> QED
        BY <1>4, <2>12, <4>1
    <3> QED
      BY <3>1, <3>2
  <2> QED
    BY <1>1, <2>1, <2>12, <2>13, <2>14 DEF Agrees, b
<1>6. CASE ~(x <= to)
  <2>1. phase' = "backward" /\ back' = n /\ totals' = totals /\ include' = include
    BY <1>1, <1>6 DEF Forward
  <2>2. from + n - 1 = to
    BY <1>2, <1>6
  <2> HIDE DEF b
  <2>3. b[N].taken = b[from' + back' - 1].taken \cup selected'
    BY <1>1, <2>1, <2>2
  <2> QED
    BY <1>1, <1>4, <2>1, <2>3 DEF Agrees, b
<1> QED
  BY <1>5, <1>6

LEMMA BackwardAgrees ==
  ASSUME AInv, Backward
  PROVE  Agrees'
<1> DEFINE x == from + back - 1
           p == Predecessors(ranked, from, back)
           b == Whole(ranked)
<1>1. /\ phase = "backward" /\ ranked' = ranked /\ N' = N /\ N \in Nat
      /\ from' = from /\ to' = to /\ totals' = totals /\ include' = include
      /\ Ranking(ranked) /\ from - 1 = componentEnd /\ componentEnd' = componentEnd
      /\ b' = b /\ b[N].taken = b[x].taken \cup selected
  BY DEF Backward, AInv, OInv, IInv, Agrees, Progress, Solving, Ranking, N
<1>2. /\ from \in 1..N /\ include \in Seq(BOOLEAN) /\ Len(include) \in Nat
      /\ Len(include) <= N - from + 1
      /\ back \in 0..Len(include) /\ from \in Nat /\ back \in Nat
  BY <1>1 DEF AInv, OInv, IInv, TypeOK, N
<1>3. /\ \A m \in 0..Len(include) :
           b[from - 1 + m].total = Plus(b[from - 1].total, totals[m + 1])
      /\ \A m \in 1..Len(include) :
           b[from - 1 + m].taken =
             IF include[m]
               THEN b[from - 1 + Predecessors(ranked, from, m)].taken \cup {from + m - 1}
               ELSE b[from - 1 + m - 1].taken
  BY <1>1 DEF AInv, Agrees, Solving
<1> HIDE DEF b
<1>4. CASE back = 0
  <2>1. phase' = "split" /\ selected' = selected
    BY <1>1, <1>4 DEF Backward
  <2>2. x = componentEnd'
    BY <1>1, <1>2, <1>4
  <2> QED
    BY <1>1, <2>1, <2>2 DEF Agrees, Solving, b
<1>5. CASE back # 0
  <2>1. back \in 1..Len(include) /\ from - 1 + back = x /\ from - 1 + back - 1 = x - 1
    BY <1>2, <1>5
  <2>2. b[x].taken = IF include[back] THEN b[from - 1 + p].taken \cup {x} ELSE b[x - 1].taken
    BY <1>3, <2>1
  <2>3. phase' = "backward"
    BY <1>1, <1>5 DEF Backward
  <2>4. b[N].taken = b[from' + back' - 1].taken \cup selected'
    <3>1. CASE include[back]
      <4>1. selected' = selected \cup {x} /\ back' = p
        BY <1>1, <1>5, <3>1 DEF Backward
      <4>2. p \in Nat
        <5>1. back \in 1..(Len(ranked) - from + 1) /\ from \in 1..Len(ranked)
          BY <1>1, <1>2, <2>1 DEF N
        <5>2. p \in 0..(back - 1)
          BY <1>1, <5>1, PredecessorsOf
        <5> QED
          BY <5>2
      <4> HIDE DEF p, x
      <4>3. from' + back' - 1 = from - 1 + p
        BY <1>1, <1>2, <4>1, <4>2
      <4> QED
        BY <1>1, <2>2, <3>1, <4>1, <4>3
    <3>2. CASE ~include[back]
      <4>1. selected' = selected /\ back' = back - 1
        BY <1>1, <1>5, <3>2 DEF Backward
      <4>2. from' + back' - 1 = x - 1
        BY <1>1, <1>2, <4>1
      <4> QED
        BY <1>1, <2>2, <3>2, <4>1, <4>2
    <3> QED
      BY <3>1, <3>2
  <2> HIDE DEF x, p
  <2> QED
    BY <1>1, <1>3, <2>3, <2>4 DEF Agrees, b
<1> QED
  BY <1>4, <1>5

(* At every point, what is selected and what the whole set selects of the  *)
(* rest is what the whole set selects.                                     *)
THEOREM AgreementInvariant == Spec => []AInv
<1>1. Init => AInv
  BY InitAgrees
<1>2. AInv /\ OInv' /\ [Next]_vars => AInv'
  <2> SUFFICES ASSUME AInv, [Next]_vars
               PROVE  Agrees'
    BY DEF AInv
  <2>1. CASE Split
    <3>1. /\ phase = "split" /\ ranked' = ranked /\ N' = N /\ N \in Nat /\ i \in 1..N
          /\ componentEnd \in i..N /\ MinimumSoFar /\ EndsAscend
      BY <2>1 DEF Split, AInv, OInv, IInv, TypeOK, Ranking, N
    <3>2. CASE NoLaterStartsBefore(ranked[i].end) /\ i < componentEnd
      <4>1. Solve(i + 1, componentEnd) /\ componentEnd' = i
        BY <2>1, <3>2 DEF Split
      <4>2. PICK first \in 1..N : first = i + 1
        BY <3>1, <3>2
      <4>3. first - 1 = i /\ first <= componentEnd
        BY <3>1, <3>2, <4>2
      <4>4. ClosesAt(i)
        BY <3>1, <3>2, ClosingPoint
      <4> QED
        BY <3>1, <4>1, <4>2, <4>3, <4>4, SolveAgrees
    <3>3. CASE ~(NoLaterStartsBefore(ranked[i].end) /\ i < componentEnd)
      <4>1. phase' = phase /\ componentEnd' = componentEnd /\ selected' = selected
        BY <2>1, <3>3 DEF Split
      <4> QED
        BY <3>1, <4>1 DEF AInv, Agrees, Solving
    <3> QED
      BY <3>2, <3>3
  <2>2. CASE SolveFirstComponent
    <3>1. /\ phase = "split" /\ ranked' = ranked /\ N \in Nat /\ componentEnd \in 1..N
          /\ Solve(1, componentEnd) /\ componentEnd' = 0
      BY <2>2 DEF SolveFirstComponent, AInv, OInv, IInv, TypeOK, Ranking, N
    <3>2. PICK first \in 1..N : first = 1
      BY <3>1
    <3>3. first <= componentEnd /\ first - 1 = 0
      BY <3>1, <3>2
    <3>4. ClosesAt(first - 1)
      BY <3>3 DEF ClosesAt
    <3> QED
      BY <3>1, <3>2, <3>3, <3>4, SolveAgrees
  <2>3. CASE Finish
    <3>1. /\ phase = "split" /\ phase' = "done" /\ ranked' = ranked /\ selected' = selected
          /\ componentEnd = 0 /\ N' = N /\ Ranking(ranked)
      BY <2>3 DEF Finish, AInv, OInv, N
    <3>2. Whole(ranked)[0].taken = {}
      BY <3>1, RecurrenceSteps
    <3> QED
      BY <3>1, <3>2 DEF AInv, Agrees, Solving
  <2>4. CASE Forward
    BY <2>4, ForwardAgrees
  <2>5. CASE Backward
    BY <2>5, BackwardAgrees
  <2>6. CASE UNCHANGED vars
    BY <2>6 DEF AInv, Agrees, Solving, N, vars
  <2> QED
    BY <2>1, <2>2, <2>3, <2>4, <2>5, <2>6 DEF Next
<1> QED
  BY <1>1, <1>2, OptimalInvariant, PTL DEF Spec

(* Solving one component after the other selects what solving the whole    *)
(* set at once selects, ties included.                                     *)
THEOREM SplittingIsExact == Spec => []ComponentsDoNotInteract
<1>1. AInv => ComponentsDoNotInteract
  BY DEF AInv, Agrees, ComponentsDoNotInteract, Unsplit, Whole, Base, N
<1> QED
  BY <1>1, AgreementInvariant, PTL

------------------------------------------------------------------------------
(* Sums to different bases.                                                *)

LEMMA SumWithout ==
  ASSUME NEW s, Ranking(s), NEW b \in Nat, b > 0, NEW S, NEW x \in 1..Len(s), x \in S
  PROVE  /\ TotalWeight(s, S, b) = Plus(TotalWeight(s, S \ {x}, b), Weight(s[x], b))
         /\ TotalWeight(s, S, b) \in Weights /\ TotalWeight(s, S \ {x}, b) \in Weights
         /\ Weight(s[x], b) \in Weights
<1>1. (S \ {x}) \cup {x} = S /\ (S \ {x}) \cap {x} = {}
  OBVIOUS
<1>2. TotalWeight(s, (S \ {x}) \cup {x}, b)
        = Plus(TotalWeight(s, S \ {x}, b), TotalWeight(s, {x}, b))
  BY <1>1, SumOfUnion
<1>3. TotalWeight(s, {x}, b) = Weight(s[x], b)
  BY SumOfOne
<1> QED
  BY <1>1, <1>2, <1>3, SumIsWeight, WeightToBase

(* The field that counts in one of the first three places.                 *)
RankOf(c, place) ==
  IF place = 1 THEN c.severity ELSE IF place = 2 THEN c.specificity ELSE c.confidence

(* In such a place a set sums up powers of the base.                       *)
LEMMA PlaceSums ==
  ASSUME NEW s, Ranking(s), NEW b \in Nat, b > 0, NEW place \in 1..3,
         NEW S \in SUBSET (1..Len(s)), NEW x \in S
  PROVE  /\ RankOf(s[x], place) \in Nat /\ Power(b, RankOf(s[x], place)) \in Nat
         /\ Power(b, RankOf(s[x], place)) > 0
         /\ Weight(s[x], b)[place] = Power(b, RankOf(s[x], place))
         /\ TotalWeight(s, S \ {x}, b)[place] \in Nat
         /\ TotalWeight(s, S, b)[place]
              = TotalWeight(s, S \ {x}, b)[place] + Power(b, RankOf(s[x], place))
<1>1. x \in 1..Len(s) /\ place \in 1..6 /\ (place = 1 \/ place = 2 \/ place = 3)
  OBVIOUS
<1>2. RankOf(s[x], place) \in Nat
  BY <1>1, RankingFields DEF RankOf
<1>3. Weight(s[x], b)[place] = Power(b, RankOf(s[x], place))
  BY <1>1, WeightToBase DEF RankOf
<1>4. /\ TotalWeight(s, S, b) = Plus(TotalWeight(s, S \ {x}, b), Weight(s[x], b))
      /\ TotalWeight(s, S \ {x}, b) \in Weights /\ Weight(s[x], b) \in Weights
  BY <1>1, SumWithout
<1>5. TotalWeight(s, S, b)[place] = TotalWeight(s, S \ {x}, b)[place] + Weight(s[x], b)[place]
  BY <1>1, <1>4, PlusOfWeights
<1>6. TotalWeight(s, S \ {x}, b)[place] \in Nat
  <2>1. \A w \in Weights : w[place] \in Nat
    BY <1>1 DEF Weights
  <2> QED
    BY <1>4, <2>1
<1>7. Power(b, RankOf(s[x], place)) \in Nat /\ Power(b, RankOf(s[x], place)) > 0
  BY <1>2, PowerSteps
<1> QED
  BY <1>2, <1>3, <1>5, <1>6, <1>7

LEMMA GreatestRank ==
  ASSUME NEW s, Ranking(s), NEW place \in 1..3, NEW S \in SUBSET (1..Len(s)), S # {}
  PROVE  \E x \in S : \A y \in S : RankOf(s[y], place) <= RankOf(s[x], place)
<1> DEFINE r(x) == RankOf(s[x], place)
           Has(X) == \E x \in X : \A y \in X : r(y) <= r(x)
           P == {m \in Nat : m <= Len(s) => \A X \in SUBSET (1..m) : X # {} => Has(X)}
<1>1. Len(s) \in Nat /\ \A x \in 1..Len(s) : r(x) \in Nat
  BY RankingFields DEF Ranking, RankOf
<1> HIDE DEF r
<1>2. 0 \in P
  <2>1. \A X \in SUBSET (1..0) : X = {}
    OBVIOUS
  <2> HIDE DEF Has
  <2> QED
    BY <2>1
<1>3. ASSUME NEW m \in P
      PROVE  m + 1 \in P
  <2>1. m \in Nat /\ m + 1 \in Nat
    OBVIOUS
  <2>2. ASSUME m + 1 <= Len(s), NEW X \in SUBSET (1..(m + 1)), X # {}
        PROVE  Has(X)
    <3>1. \A Y \in SUBSET (1..m) : Y # {} => Has(Y)
      BY <1>1, <2>1, <2>2
    <3>2. \A x \in X : r(x) \in Nat
      BY <1>1, <2>1, <2>2
    <3>3. X \ {m + 1} \in SUBSET (1..m)
      BY <2>1
    <3>4. CASE m + 1 \notin X
      <4>1. X \ {m + 1} = X
        BY <3>4
      <4> QED
        BY <2>2, <3>1, <3>3, <4>1
    <3>5. CASE X \ {m + 1} = {}
      <4>1. X = {m + 1}
        BY <2>2, <3>5
      <4>2. r(m + 1) <= r(m + 1)
        BY <3>2, <4>1
      <4> QED
        BY <4>1, <4>2
    <3>6. CASE m + 1 \in X /\ X \ {m + 1} # {}
      <4>1. PICK x \in X \ {m + 1} : \A y \in X \ {m + 1} : r(y) <= r(x)
        BY <3>1, <3>3, <3>6
      <4>2. CASE r(m + 1) <= r(x)
        <5>1. \A y \in X : r(y) <= r(x)
          BY <4>1, <4>2
        <5> QED
          BY <4>1, <5>1
      <4>3. CASE ~(r(m + 1) <= r(x))
        <5>1. \A y \in X : r(y) <= r(m + 1)
          BY <3>2, <3>6, <4>1, <4>3
        <5> QED
          BY <3>6, <5>1
      <4> QED
        BY <4>2, <4>3
    <3> QED
      BY <3>4, <3>5, <3>6
  <2> HIDE DEF Has
  <2> QED
    BY <2>1, <2>2
<1>4. P = Nat
  <2> HIDE DEF P
  <2>1. P \subseteq Nat
    BY DEF P
  <2> QED
    BY <1>2, <1>3, <2>1, StepsReachAll
<1>5. Has(S)
  <2>1. Len(s) <= Len(s)
    BY <1>1
  <2> HIDE DEF Has
  <2> QED
    BY <1>1, <1>4, <2>1
<1> QED
  BY <1>5 DEF r

(* To a base above the number of candidates, no number of candidates of    *)
(* lower rank outweighs one of a higher.                                   *)
LEMMA HigherRankDecides ==
  ASSUME NEW s, Ranking(s), NEW b \in Nat, b > Len(s), NEW place \in 1..3,
         NEW S \in SUBSET (1..Len(s)), NEW T \in SUBSET (1..Len(s)), NEW r \in Nat, NEW y \in T,
         \A x \in S : RankOf(s[x], place) <= r, r < RankOf(s[y], place)
  PROVE  TotalWeight(s, S, b)[place] < TotalWeight(s, T, b)[place]
<1> DEFINE n == Len(s)
           high == RankOf(s[y], place)
<1>1. n \in Nat /\ b > 0 /\ place \in 1..6
  BY DEF Ranking
<1>2. /\ high \in Nat /\ Power(b, high) \in Nat
      /\ TotalWeight(s, T \ {y}, b)[place] \in Nat
      /\ TotalWeight(s, T, b)[place] = TotalWeight(s, T \ {y}, b)[place] + Power(b, high)
  BY <1>1, PlaceSums
<1>3. /\ Power(b, r) \in Nat /\ Power(b, r) > 0 /\ Power(b, r + 1) = b * Power(b, r)
      /\ Power(b, r + 1) \in Nat
  BY <1>1, PowerSteps
<1>4. Power(b, r + 1) <= Power(b, high)
  <2>1. r + 1 \in Nat /\ r + 1 <= high
    BY <1>2
  <2> QED
    BY <1>1, <1>2, <2>1, PowerAscends
<1>5. TotalWeight(s, S, b)[place] <= n * Power(b, r)
  <2>1. ASSUME NEW x \in 1..Len(s), x \in S
        PROVE  Weight(s[x], b)[place] <= Power(b, r)
    <3>1. /\ RankOf(s[x], place) \in Nat /\ RankOf(s[x], place) <= r
          /\ Weight(s[x], b)[place] = Power(b, RankOf(s[x], place))
      BY <1>1, <2>1, PlaceSums
    <3> QED
      BY <1>1, <3>1, PowerAscends
  <2> QED
    BY <1>1, <1>3, <2>1, SumIsBounded
<1>6. TotalWeight(s, S, b)[place] \in Nat
  <2>1. TotalWeight(s, S, b) \in Weights
    BY <1>1, SumIsWeight
  <2> QED
    BY <1>1, <2>1 DEF Weights
<1>7. n * Power(b, r) < b * Power(b, r)
  <2>1. \A p \in Nat, u \in Nat, v \in Nat : p > 0 /\ u < v => u * p < v * p
    <3> TAKE p \in Nat, u \in Nat, v \in Nat
    <3> HAVE p > 0 /\ u < v
    <3>1. v = u + (v - u) /\ v - u \in Nat /\ v - u > 0
      OBVIOUS
    <3>2. v * p = u * p + (v - u) * p
      BY <3>1
    <3>3. (v - u) * p > 0
      BY <3>1
    <3> QED
      BY <3>2, <3>3
  <2> HIDE DEF n
  <2> QED
    BY <1>1, <1>3, <2>1 DEF n
<1>8. n * Power(b, r) \in Nat
  BY <1>1, <1>3
<1> HIDE DEF n, high
<1> QED
  BY <1>2, <1>3, <1>4, <1>5, <1>6, <1>7, <1>8

(* Such a place compares two sets alike to every such base.                *)
LEMMA PlaceIgnoresBase ==
  ASSUME NEW s, Ranking(s), NEW place \in 1..3,
         NEW b \in Nat, b > Len(s), NEW d \in Nat, d > Len(s),
         NEW S \in SUBSET (1..Len(s)), NEW T \in SUBSET (1..Len(s))
  PROVE  TotalWeight(s, S, b)[place] < TotalWeight(s, T, b)[place]
           <=> TotalWeight(s, S, d)[place] < TotalWeight(s, T, d)[place]
<1> DEFINE n == Len(s)
           r(x) == RankOf(s[x], place)
           Sum(X, e) == TotalWeight(s, X, e)[place]
           Alike(X, Y) == Sum(X, b) < Sum(Y, b) <=> Sum(X, d) < Sum(Y, d)
           P == {q \in Nat : \A X, Y \in SUBSET (1..n) : Cardinality(X) = q => Alike(X, Y)}
<1>1. n \in Nat /\ place \in 1..6 /\ b > 0 /\ d > 0
  BY DEF Ranking
<1>2. ASSUME NEW X \in SUBSET (1..n)
      PROVE  IsFiniteSet(X) /\ Cardinality(X) \in Nat
  <2>1. IsFiniteSet(1..n)
    BY <1>1, FS_Interval
  <2> QED
    BY <2>1, FS_Subset, FS_CardinalityType
<1>3. ASSUME NEW e \in {b, d}
      PROVE  /\ \A X : Sum(X, e) \in Nat
             /\ Sum({}, e) = 0
             /\ \A X \in SUBSET (1..n) : \A x \in X :
                  /\ r(x) \in Nat /\ Power(e, r(x)) \in Nat /\ Power(e, r(x)) > 0
                  /\ Sum(X, e) = Sum(X \ {x}, e) + Power(e, r(x))
             /\ \A X, Y \in SUBSET (1..n) : \A x \in X, y \in Y :
                  (\A z \in X : r(z) <= r(x)) /\ r(x) < r(y) => Sum(X, e) < Sum(Y, e)
  <2>1. e \in Nat /\ e > 0 /\ e > n
    BY <1>1, <1>3
  <2>2. \A X : Sum(X, e) \in Nat
    <3>1. \A X : TotalWeight(s, X, e) \in Weights
      BY <2>1, SumIsWeight
    <3>2. \A w \in Weights : w[place] \in Nat
      BY <1>1 DEF Weights
    <3> QED
      BY <3>1, <3>2
  <2>3. Sum({}, e) = 0
    <3>1. TotalWeight(s, {}, e) = Zero
      BY <2>1, SumOfNone
    <3> QED
      BY <1>1, <3>1 DEF Zero
  <2>4. ASSUME NEW X \in SUBSET (1..n), NEW x \in X
        PROVE  /\ r(x) \in Nat /\ Power(e, r(x)) \in Nat /\ Power(e, r(x)) > 0
               /\ Sum(X, e) = Sum(X \ {x}, e) + Power(e, r(x))
    BY <2>1, PlaceSums
  <2>5. ASSUME NEW X \in SUBSET (1..n), NEW Y \in SUBSET (1..n), NEW x \in X, NEW y \in Y,
               \A z \in X : r(z) <= r(x), r(x) < r(y)
        PROVE  Sum(X, e) < Sum(Y, e)
    <3>1. r(x) \in Nat
      BY <2>4
    <3> QED
      BY <2>1, <2>5, <3>1, HigherRankDecides
  <2> HIDE DEF Sum, r
  <2> QED
    BY <2>2, <2>3, <2>4, <2>5
<1>4. \A X \in SUBSET (1..n) : X # {} => \E x \in X : \A y \in X : r(y) <= r(x)
  BY GreatestRank
<1> HIDE DEF Sum, r, n
<1>5. ASSUME NEW X \in SUBSET (1..n), NEW Y \in SUBSET (1..n), X = {} \/ Y = {}
      PROVE  Alike(X, Y)
  <2>1. CASE Y = {}
    BY <1>3, <2>1
  <2>2. CASE X = {} /\ Y # {}
    <3>1. PICK y \in Y : TRUE
      BY <2>2
    <3>2. \A e \in {b, d} : Sum(X, e) < Sum(Y, e)
      <4> TAKE e \in {b, d}
      <4>1. /\ Power(e, r(y)) \in Nat /\ Power(e, r(y)) > 0 /\ Sum(Y \ {y}, e) \in Nat
            /\ Sum(Y, e) = Sum(Y \ {y}, e) + Power(e, r(y)) /\ Sum(X, e) = 0
        BY <1>3, <2>2, <3>1
      <4> QED
        BY <4>1
    <3> QED
      BY <3>2
  <2> QED
    BY <1>5, <2>1, <2>2
<1>6. 0 \in P
  <2>1. \A X \in SUBSET (1..n) : Cardinality(X) = 0 => X = {}
    BY <1>2, FS_EmptySet
  <2> HIDE DEF Alike
  <2> QED
    BY <1>5, <2>1
<1>7. ASSUME NEW q \in P
      PROVE  q + 1 \in P
  <2>1. q \in Nat /\ q + 1 \in Nat
    OBVIOUS
  <2>2. ASSUME NEW X \in SUBSET (1..n), NEW Y \in SUBSET (1..n), Cardinality(X) = q + 1
        PROVE  Alike(X, Y)
    <3>1. CASE X = {} \/ Y = {}
      <4> HIDE DEF Alike
      <4> QED
        BY <1>5, <3>1
    <3>2. CASE X # {} /\ Y # {}
      <4>1. PICK x \in X : \A z \in X : r(z) <= r(x)
        BY <1>4, <3>2
      <4>2. PICK y \in Y : \A z \in Y : r(z) <= r(y)
        BY <1>4, <3>2
      <4>3. r(x) \in Nat /\ r(y) \in Nat
        BY <1>3
      <4>4. CASE r(x) < r(y)
        <5>1. \A e \in {b, d} : Sum(X, e) < Sum(Y, e)
          BY <1>3, <4>1, <4>4
        <5> QED
          BY <5>1
      <4>5. CASE r(y) < r(x)
        <5>1. \A e \in {b, d} : /\ Sum(Y, e) < Sum(X, e)
                                /\ Sum(X, e) \in Nat /\ Sum(Y, e) \in Nat
          BY <1>3, <4>2, <4>5
        <5>2. \A e \in {b, d} : ~(Sum(X, e) < Sum(Y, e))
          BY <5>1
        <5> QED
          BY <5>2
      <4>6. CASE r(x) = r(y)
        <5>1. Cardinality(X \ {x}) = q /\ X \ {x} \in SUBSET (1..n) /\ Y \ {y} \in SUBSET (1..n)
          <6>1. Cardinality(X \ {x}) = Cardinality(X) - 1
            BY <1>2, FS_RemoveElement
          <6> QED
            BY <2>1, <2>2, <6>1
        <5>2. Alike(X \ {x}, Y \ {y})
          <6> HIDE DEF Alike
          <6> QED
            BY <5>1
        <5>3. \A e \in {b, d} : Sum(X, e) < Sum(Y, e) <=> Sum(X \ {x}, e) < Sum(Y \ {y}, e)
          <6> TAKE e \in {b, d}
          <6>1. /\ Sum(X, e) = Sum(X \ {x}, e) + Power(e, r(x))
                /\ Sum(Y, e) = Sum(Y \ {y}, e) + Power(e, r(y))
                /\ Power(e, r(x)) \in Nat
                /\ Sum(X \ {x}, e) \in Nat /\ Sum(Y \ {y}, e) \in Nat
            BY <1>3
          <6> QED
            BY <4>6, <6>1
        <5> QED
          BY <5>2, <5>3
      <4> QED
        BY <4>3, <4>4, <4>5, <4>6
    <3> QED
      BY <3>1, <3>2
  <2> HIDE DEF Alike
  <2> QED
    BY <2>1, <2>2
<1>8. P = Nat
  <2> HIDE DEF P
  <2>1. P \subseteq Nat
    BY DEF P
  <2> QED
    BY <1>6, <1>7, <2>1, StepsReachAll
<1>9. Alike(S, T)
  <2>1. S \in SUBSET (1..n) /\ T \in SUBSET (1..n)
    BY DEF n
  <2>2. Cardinality(S) \in P
    <3> HIDE DEF P
    <3> QED
      BY <1>2, <1>8, <2>1
  <2> HIDE DEF Alike
  <2> QED
    BY <2>1, <2>2
<1> QED
  BY <1>9 DEF Sum

(* The other places do not look at the base.                               *)
LEMMA LowPlacesIgnoreBase ==
  ASSUME NEW s, Ranking(s), NEW place \in 4..6, NEW b \in Nat, b > 0, NEW d \in Nat, d > 0,
         NEW S \in SUBSET (1..Len(s))
  PROVE  TotalWeight(s, S, b)[place] = TotalWeight(s, S, d)[place]
<1> DEFINE n == Len(s)
           Alike(X) == TotalWeight(s, X, b)[place] = TotalWeight(s, X, d)[place]
           P == {m \in Nat : m <= n => \A X \in SUBSET (1..m) : Alike(X)}
<1>1. n \in Nat /\ place \in 1..6 /\ (place = 4 \/ place = 5 \/ place = 6)
  BY DEF Ranking
<1>2. 0 \in P
  <2>1. \A X \in SUBSET (1..0) : X = {}
    OBVIOUS
  <2>2. Alike({})
    BY SumOfNone
  <2> HIDE DEF Alike
  <2> QED
    BY <2>1, <2>2
<1>3. ASSUME NEW m \in P
      PROVE  m + 1 \in P
  <2>1. m \in Nat /\ m + 1 \in Nat
    OBVIOUS
  <2>2. ASSUME m + 1 <= n, NEW X \in SUBSET (1..(m + 1))
        PROVE  Alike(X)
    <3>1. X \ {m + 1} \in SUBSET (1..m) /\ m + 1 \in 1..Len(s)
      BY <1>1, <2>1, <2>2
    <3>2. Alike(X \ {m + 1})
      <4> HIDE DEF Alike
      <4> QED
        BY <1>1, <2>1, <2>2, <3>1
    <3>3. CASE m + 1 \in X
      <4>1. \A e \in {b, d} :
              /\ TotalWeight(s, X, e)
                   = Plus(TotalWeight(s, X \ {m + 1}, e), Weight(s[m + 1], e))
              /\ TotalWeight(s, X \ {m + 1}, e) \in Weights
              /\ Weight(s[m + 1], e) \in Weights
        BY <3>1, <3>3, SumWithout
      <4>2. \A e \in {b, d} :
              TotalWeight(s, X, e)[place]
                = TotalWeight(s, X \ {m + 1}, e)[place] + Weight(s[m + 1], e)[place]
        BY <1>1, <4>1, PlusOfWeights
      <4>3. Weight(s[m + 1], b)[place] = Weight(s[m + 1], d)[place]
        BY <1>1 DEF Weight
      <4> QED
        BY <3>2, <4>2, <4>3
    <3>4. CASE m + 1 \notin X
      <4>1. X \ {m + 1} = X
        BY <3>4
      <4> QED
        BY <3>2, <4>1
    <3> QED
      BY <3>3, <3>4
  <2> HIDE DEF Alike
  <2> QED
    BY <2>1, <2>2
<1>4. P = Nat
  <2> HIDE DEF P
  <2>1. P \subseteq Nat
    BY DEF P
  <2> QED
    BY <1>2, <1>3, <2>1, StepsReachAll
<1>5. Alike(S)
  <2>1. n <= n /\ S \in SUBSET (1..n)
    BY <1>1
  <2> HIDE DEF Alike
  <2> QED
    BY <1>1, <1>4, <2>1
<1> QED
  BY <1>5

(* Every base above the number of candidates compares two sets alike.      *)
LEMMA BaseDecidesNothing ==
  ASSUME NEW s, Ranking(s), NEW b \in Nat, b > Len(s), NEW d \in Nat, d > Len(s),
         NEW S \in SUBSET (1..Len(s)), NEW T \in SUBSET (1..Len(s))
  PROVE  Less(TotalWeight(s, S, b), TotalWeight(s, T, b))
           <=> Less(TotalWeight(s, S, d), TotalWeight(s, T, d))
<1>1. b > 0 /\ d > 0
  BY DEF Ranking
<1> DEFINE u == TotalWeight(s, S, b)
           v == TotalWeight(s, T, b)
           x == TotalWeight(s, S, d)
           y == TotalWeight(s, T, d)
<1>2. u \in Weights /\ v \in Weights /\ x \in Weights /\ y \in Weights
  BY <1>1, SumIsWeight
<1>3. \A k \in 1..3 : (u[k] < v[k] <=> x[k] < y[k]) /\ (v[k] < u[k] <=> y[k] < x[k])
  BY PlaceIgnoresBase
<1>4. \A k \in 4..6 : u[k] = x[k] /\ v[k] = y[k]
  BY <1>1, LowPlacesIgnoreBase
<1> HIDE DEF u, v, x, y
<1>5. \A k \in 1..6 : u[k] \in Nat /\ v[k] \in Nat /\ x[k] \in Nat /\ y[k] \in Nat
  BY <1>2 DEF Weights
<1>6. \A k \in 1..3 : u[k] = v[k] <=> x[k] = y[k]
  <2> TAKE k \in 1..3
  <2>1. (u[k] < v[k] <=> x[k] < y[k]) /\ (v[k] < u[k] <=> y[k] < x[k])
    BY <1>3
  <2>2. u[k] \in Nat /\ v[k] \in Nat /\ x[k] \in Nat /\ y[k] \in Nat
    <3>1. k \in 1..6
      OBVIOUS
    <3> QED
      BY <1>5, <3>1
  <2> QED
    BY <2>1, <2>2
<1>7. Less(u, v) <=> Less(x, y)
  <2>1. /\ u[1] < v[1] <=> x[1] < y[1]
        /\ u[2] < v[2] <=> x[2] < y[2]
        /\ u[3] < v[3] <=> x[3] < y[3]
        /\ u[1] = v[1] <=> x[1] = y[1]
        /\ u[2] = v[2] <=> x[2] = y[2]
        /\ u[3] = v[3] <=> x[3] = y[3]
    BY <1>3, <1>6
  <2>2. u[4] = x[4] /\ u[5] = x[5] /\ u[6] = x[6] /\ v[4] = y[4] /\ v[5] = y[5] /\ v[6] = y[6]
    BY <1>4
  <2> QED
    BY <1>2, <2>1, <2>2, LessByPlace
<1> QED
  BY <1>7 DEF u, v, x, y

------------------------------------------------------------------------------
(* A unit of a batch.                                                      *)

(* u is what s ranks behind its first a candidates, up to some point; they *)
(* end before anything behind them starts.                                 *)
PieceOf(u, s, a) ==
  /\ Ranking(s) /\ Ranking(u) /\ a \in Nat /\ a + Len(u) <= Len(s)
  /\ \A k \in 1..Len(u) : u[k] = s[a + k]
  /\ \A x \in 1..a, y \in (a + 1)..Len(s) : s[x].end <= s[y].start

Behind(a, S) == {a + j : j \in S}

LEMMA SumOfPiece ==
  ASSUME NEW u, NEW s, NEW a, PieceOf(u, s, a), NEW b \in Nat, b > 0,
         NEW S \in SUBSET (1..Len(u))
  PROVE  TotalWeight(s, Behind(a, S), b) = TotalWeight(u, S, b)
<1> DEFINE n == Len(u)
           Alike(X) == TotalWeight(s, Behind(a, X), b) = TotalWeight(u, X, b)
           P == {m \in Nat : m <= n => \A X \in SUBSET (1..m) : Alike(X)}
<1>1. /\ n \in Nat /\ Ranking(s) /\ Ranking(u) /\ a \in Nat /\ a + n <= Len(s) /\ Len(s) \in Nat
      /\ \A k \in 1..n : u[k] = s[a + k]
  BY DEF PieceOf, Ranking
<1>2. 0 \in P
  <2>1. \A X \in SUBSET (1..0) : X = {}
    OBVIOUS
  <2>2. Alike({})
    <3>1. Behind(a, {}) = {}
      BY DEF Behind
    <3> QED
      BY <1>1, <3>1, SumOfNone
  <2> HIDE DEF Alike
  <2> QED
    BY <2>1, <2>2
<1>3. ASSUME NEW m \in P
      PROVE  m + 1 \in P
  <2>1. m \in Nat /\ m + 1 \in Nat
    OBVIOUS
  <2>2. ASSUME m + 1 <= n, NEW X \in SUBSET (1..(m + 1))
        PROVE  Alike(X)
    <3> DEFINE x == m + 1
               Y == X \ {x}
    <3>1. Y \in SUBSET (1..m) /\ x \in 1..n /\ a + x \in 1..Len(s) /\ x \in Nat
      BY <1>1, <2>1, <2>2
    <3>2. Alike(Y)
      <4> HIDE DEF Alike, Y
      <4> QED
        BY <1>1, <2>1, <2>2, <3>1
    <3>3. CASE x \in X
      <4>1. a + x \in Behind(a, X)
        BY <3>3 DEF Behind
      <4>2. Behind(a, X) \ {a + x} = Behind(a, Y)
        <5>1. \A j \in X : j \in Nat
          BY <2>1
        <5>2. \A j \in X : a + j = a + x <=> j = x
          BY <1>1, <3>1, <5>1
        <5> QED
          BY <5>2 DEF Behind
      <4> HIDE DEF x, Y
      <4>3. TotalWeight(s, Behind(a, X), b)
              = Plus(TotalWeight(s, Behind(a, X) \ {a + x}, b), Weight(s[a + x], b))
        BY <1>1, <3>1, <4>1, SumWithout
      <4>4. TotalWeight(u, X, b) = Plus(TotalWeight(u, X \ {x}, b), Weight(u[x], b))
        BY <1>1, <3>1, <3>3, SumWithout
      <4>5. u[x] = s[a + x] /\ X \ {x} = Y
        BY <1>1, <3>1 DEF Y
      <4> QED
        BY <3>2, <4>2, <4>3, <4>4, <4>5
    <3>4. CASE x \notin X
      <4>1. Y = X
        BY <3>4
      <4> QED
        BY <3>2, <4>1
    <3> QED
      BY <3>3, <3>4
  <2> HIDE DEF Alike
  <2> QED
    BY <2>1, <2>2
<1>4. P = Nat
  <2> HIDE DEF P
  <2>1. P \subseteq Nat
    BY DEF P
  <2> QED
    BY <1>2, <1>3, <2>1, StepsReachAll
<1>5. Alike(S)
  <2>1. n <= n /\ S \in SUBSET (1..n)
    BY <1>1
  <2> HIDE DEF Alike
  <2> QED
    BY <1>1, <1>4, <2>1
<1> QED
  BY <1>5

LEMMA PredecessorsInPiece ==
  ASSUME NEW u, NEW s, NEW a, PieceOf(u, s, a), NEW k \in 1..Len(u)
  PROVE  /\ Predecessors(u, 1, k) \in 0..(k - 1)
         /\ Predecessors(s, 1, a + k) = a + Predecessors(u, 1, k)
<1>1. /\ Ranking(s) /\ Ranking(u) /\ a \in Nat /\ Len(u) \in Nat /\ Len(s) \in Nat
      /\ a + Len(u) <= Len(s) /\ \A j \in 1..Len(u) : u[j] = s[a + j]
      /\ \A x \in 1..a, y \in (a + 1)..Len(s) : s[x].end <= s[y].start
  BY DEF PieceOf, Ranking
<1>2. PICK first \in 1..Len(s) : first = a + 1
  BY <1>1
<1>3. /\ first - 1 = a /\ first + k - 1 = a + k /\ k \in 1..(Len(s) - first + 1)
      /\ k \in 1..(Len(u) - 1 + 1) /\ 1 \in 1..Len(u) /\ 1 + k - 1 = k
  BY <1>1, <1>2
<1>4. Predecessors(s, 1, first + k - 1) = first - 1 + Predecessors(s, first, k)
  <2>1. \A x \in 1..(first - 1), y \in first..Len(s) : s[x].end <= s[y].start
    BY <1>1, <1>2, <1>3
  <2> QED
    BY <1>1, <1>3, <2>1, PredecessorsInComponent
<1>5. Predecessors(s, first, k) = Predecessors(u, 1, k)
  <2>1. \A m \in 1..(k - 1) : s[first + m - 1] = u[1 + m - 1]
    <3> TAKE m \in 1..(k - 1)
    <3>1. first + m - 1 = a + m /\ 1 + m - 1 = m /\ m \in 1..Len(u)
      BY <1>1, <1>2
    <3> QED
      BY <1>1, <3>1
  <2>2. s[first + k - 1] = u[1 + k - 1]
    BY <1>1, <1>3
  <2>3. {m \in 1..(k - 1) : s[first + m - 1].end <= s[first + k - 1].start}
          = {m \in 1..(k - 1) : u[1 + m - 1].end <= u[1 + k - 1].start}
    BY <2>1, <2>2
  <2> QED
    BY <2>3 DEF Predecessors
<1>6. Predecessors(u, 1, k) \in 0..(k - 1)
  BY <1>1, <1>3, PredecessorsOf
<1> QED
  BY <1>3, <1>4, <1>5, <1>6

(* The whole set takes of a unit what the unit alone takes, although their *)
(* bases differ.                                                           *)
Follows(u, s, a, k) ==
  LET mine == Whole(u)[k]
      all  == Whole(s)
  IN /\ mine.taken \subseteq 1..k
     /\ mine.total = Total(u, mine.taken)
     /\ all[a + k].total = Plus(all[a].total, Total(s, Behind(a, mine.taken)))
     /\ all[a + k].taken = all[a].taken \cup Behind(a, mine.taken)

LEMMA PieceFollows ==
  ASSUME NEW u, NEW s, NEW a, PieceOf(u, s, a), NEW k \in 0..Len(u)
  PROVE  Follows(u, s, a, k)
<1> DEFINE n == Len(u)
           b == Whole(s)
           c == Whole(u)
           low == b[a].total
           P == {m \in Nat : \A j \in 0..m : j <= n => Follows(u, s, a, j)}
<1>1. /\ Ranking(s) /\ Ranking(u) /\ a \in Nat /\ n \in Nat /\ Len(s) \in Nat
      /\ a + n <= Len(s) /\ \A j \in 1..n : u[j] = s[a + j]
  BY DEF PieceOf, Ranking
<1>2. a \in 0..Len(s) /\ low \in Weights
  <2>1. a \in 0..Len(s)
    BY <1>1
  <2> QED
    BY <1>1, <2>1, RecurrenceSteps
<1>3. 0 \in P
  <2>1. c[0].total = Zero /\ c[0].taken = {}
    BY <1>1, RecurrenceSteps
  <2>2. Behind(a, {}) = {} /\ a + 0 = a
    BY <1>1 DEF Behind
  <2>3. Total(u, {}) = Zero /\ Total(s, {}) = Zero
    BY <1>1, SumOfNone DEF Total
  <2>4. Plus(low, Zero) = low
    BY <1>2, PlusOfWeights
  <2> HIDE DEF b, c
  <2>5. Follows(u, s, a, 0)
    BY <2>1, <2>2, <2>3, <2>4 DEF Follows, b, c
  <2>6. \A j \in 0..0 : j = 0
    OBVIOUS
  <2> QED
    BY <2>5, <2>6
<1>4. ASSUME NEW m \in P, m + 1 <= n
      PROVE  Follows(u, s, a, m + 1)
  <2> DEFINE x == m + 1
             p == Predecessors(u, 1, x)
             A == c[p].taken
             B == c[m].taken
  <2>1. m \in Nat /\ x \in 1..n /\ x - 1 = m /\ x \in Nat /\ x \in 1..Len(u)
    BY <1>1, <1>4
  <2>2. p \in 0..m /\ p \in Nat /\ Predecessors(s, 1, a + x) = a + p
    BY <2>1, PredecessorsInPiece
  <2>3. Follows(u, s, a, p) /\ Follows(u, s, a, m)
    <3>1. p \in 0..m /\ m \in 0..m /\ p <= n /\ m <= n
      BY <1>1, <1>4, <2>1, <2>2
    <3> HIDE DEF p
    <3> QED
      BY <3>1
  <2> HIDE DEF b, c, x, p
  <2>4. /\ A \subseteq 1..p /\ c[p].total = Total(u, A)
        /\ b[a + p].total = Plus(low, Total(s, Behind(a, A)))
        /\ b[a + p].taken = b[a].taken \cup Behind(a, A)
        /\ B \subseteq 1..m /\ c[m].total = Total(u, B)
        /\ b[a + m].total = Plus(low, Total(s, Behind(a, B)))
        /\ b[a + m].taken = b[a].taken \cup Behind(a, B)
    BY <2>3 DEF Follows, b, c
  <2> HIDE DEF A, B, low
  <2> DEFINE C == A \cup {x}
  <2>5. /\ A \in SUBSET (1..n) /\ B \in SUBSET (1..n) /\ C \in SUBSET (1..n) /\ C \subseteq 1..x
        /\ x \notin A /\ B \subseteq 1..x
    <3>1. x = m + 1 /\ x <= n
      BY <1>4 DEF x
    <3>2. \A j \in 1..p : j \in 1..n /\ j \in 1..x /\ j # x
      BY <1>1, <2>1, <2>2, <3>1
    <3>3. \A j \in 1..m : j \in 1..n /\ j \in 1..x
      BY <1>1, <2>1, <3>1
    <3>4. x \in 1..n /\ x \in 1..x
      BY <2>1
    <3> QED
      BY <2>4, <3>2, <3>3, <3>4
  <2>6. Total(u, C) = Plus(W(u, x), Total(u, A))
    BY <1>1, <2>1, <2>5, TotalOfOneMore
  <2>7. /\ a + x \in 1..Len(s) /\ a + x - 1 = a + m
        /\ Behind(a, C) = Behind(a, A) \cup {a + x} /\ a + x \notin Behind(a, A)
    <3>1. a + x \in 1..Len(s) /\ a + x - 1 = a + m
      BY <1>1, <2>1 DEF x
    <3>2. Behind(a, C) = Behind(a, A) \cup {a + x}
      BY DEF Behind
    <3>3. \A j \in A : a + j # a + x
      <4>1. \A j \in A : j \in Nat /\ j # x
        BY <2>5
      <4> QED
        BY <1>1, <2>1, <4>1
    <3> QED
      BY <3>1, <3>2, <3>3 DEF Behind
  <2>8. Total(s, Behind(a, C)) = Plus(W(s, a + x), Total(s, Behind(a, A)))
    BY <1>1, <2>7, TotalOfOneMore
  <2> DEFINE mine == Better(Total(u, C), Total(u, B))
             whole == Plus(W(s, a + x), b[a + p].total)
  <2>9. IF mine THEN c[x].total = Total(u, C) /\ c[x].taken = A \cup {x} ELSE c[x] = c[m]
    <3>1. LET below == c[Predecessors(u, 1, x)]
              with  == Plus(W(u, x), below.total)
          IN IF Better(with, c[x - 1].total)
               THEN c[x].total = with /\ c[x].taken = below.taken \cup {x}
               ELSE c[x] = c[x - 1]
      BY <1>1, <2>1, RecurrenceSteps DEF c
    <3>2. IF Better(Plus(W(u, x), c[p].total), c[m].total)
            THEN c[x].total = Plus(W(u, x), c[p].total) /\ c[x].taken = c[p].taken \cup {x}
            ELSE c[x] = c[m]
      BY <2>1, <3>1 DEF p
    <3> QED
      BY <2>4, <2>6, <3>2 DEF A
  <2>10. IF Better(whole, b[a + m].total)
           THEN b[a + x].total = whole /\ b[a + x].taken = b[a + p].taken \cup {a + x}
           ELSE b[a + x] = b[a + m]
    <3>1. PICK z \in 1..Len(s) : z = a + x
      BY <2>7
    <3>2. LET below == b[Predecessors(s, 1, z)]
              with  == Plus(W(s, z), below.total)
          IN IF Better(with, b[z - 1].total)
               THEN b[z].total = with /\ b[z].taken = below.taken \cup {z}
               ELSE b[z] = b[z - 1]
      BY <1>1, RecurrenceSteps DEF b
    <3>3. z - 1 = a + m /\ Predecessors(s, 1, z) = a + p
      <4>1. z - 1 = a + m
        BY <1>1, <2>1, <2>7, <3>1
      <4>2. Predecessors(s, 1, z) = Predecessors(s, 1, a + x)
        BY <3>1
      <4> QED
        BY <2>2, <4>1, <4>2
    <3>4. IF Better(Plus(W(s, z), b[a + p].total), b[a + m].total)
            THEN b[z].total = Plus(W(s, z), b[a + p].total)
                 /\ b[z].taken = b[a + p].taken \cup {z}
            ELSE b[z] = b[a + m]
      BY <3>2, <3>3
    <3> QED
      BY <3>1, <3>4
  <2>11. /\ W(s, a + x) \in Weights /\ \A X : Total(s, X) \in Weights
    BY <1>1, <2>7, WeightOfCandidate, TotalIsWeight
  <2>12. whole = Plus(low, Total(s, Behind(a, C)))
    <3>1. Plus(W(s, a + x), Plus(low, Total(s, Behind(a, A))))
            = Plus(Plus(W(s, a + x), low), Total(s, Behind(a, A)))
      BY <1>2, <2>11, PlusIsAssociative
    <3>2. Plus(W(s, a + x), low) = Plus(low, W(s, a + x))
      BY <1>2, <2>11, PlusOfWeights
    <3>3. Plus(Plus(low, W(s, a + x)), Total(s, Behind(a, A)))
            = Plus(low, Plus(W(s, a + x), Total(s, Behind(a, A))))
      BY <1>2, <2>11, PlusIsAssociative
    <3> QED
      BY <2>4, <2>8, <3>1, <3>2, <3>3
  <2>13. Better(whole, b[a + m].total) <=> mine
    <3>1. Better(whole, b[a + m].total)
            <=> Less(Total(s, Behind(a, B)), Total(s, Behind(a, C)))
      BY <1>2, <2>4, <2>11, <2>12, PlusKeepsOrder DEF Better
    <3>2. /\ Total(s, Behind(a, B)) = TotalWeight(u, B, Len(s) + 1)
          /\ Total(s, Behind(a, C)) = TotalWeight(u, C, Len(s) + 1)
      BY <1>1, <2>5, SumOfPiece DEF Total
    <3>3. /\ Len(s) + 1 \in Nat /\ Len(s) + 1 > Len(u)
          /\ Len(u) + 1 \in Nat /\ Len(u) + 1 > Len(u)
      BY <1>1
    <3>4. Less(TotalWeight(u, B, Len(s) + 1), TotalWeight(u, C, Len(s) + 1))
            <=> Less(TotalWeight(u, B, Len(u) + 1), TotalWeight(u, C, Len(u) + 1))
      BY <1>1, <2>5, <3>3, BaseDecidesNothing
    <3> QED
      BY <3>1, <3>2, <3>4 DEF Better, Total
  <2> HIDE DEF C, mine, whole
  <2>14. CASE mine
    <3>1. /\ c[x].total = Total(u, C) /\ c[x].taken = C
          /\ b[a + x].total = Plus(low, Total(s, Behind(a, C)))
          /\ b[a + x].taken = b[a + p].taken \cup {a + x}
      BY <2>9, <2>10, <2>12, <2>13, <2>14 DEF C
    <3>2. b[a + x].taken = b[a].taken \cup Behind(a, C)
      BY <2>4, <2>7, <3>1
    <3> QED
      BY <2>5, <3>1, <3>2 DEF Follows, b, c, low, x
  <2>15. CASE ~mine
    <3>1. c[x] = c[m] /\ b[a + x] = b[a + m]
      BY <2>9, <2>10, <2>13, <2>15
    <3> QED
      BY <2>4, <2>5, <3>1 DEF Follows, b, c, low, x, B
  <2> QED
    BY <2>14, <2>15
<1>5. ASSUME NEW m \in P
      PROVE  m + 1 \in P
  <2>1. m \in Nat /\ m + 1 \in Nat /\ \A j \in 0..(m + 1) : j \in 0..m \/ j = m + 1
    OBVIOUS
  <2> QED
    BY <1>4, <2>1
<1>6. P = Nat
  <2> HIDE DEF P
  <2>1. P \subseteq Nat
    BY DEF P
  <2> QED
    BY <1>3, <1>5, <2>1, StepsReachAll
<1>7. n \in P /\ k <= n /\ k \in 0..n
  BY <1>1, <1>6
<1> QED
  BY <1>7

(* Of the candidates, the first m are in the first unit, and end in it.    *)
FirstUnitEnds(m) ==
  /\ m \in 0..N
  /\ \A x \in 1..m : ranked[x].start < boundary /\ ranked[x].end < boundary
  /\ \A x \in (m + 1)..N : ~(ranked[x].start < boundary)

LEMMA UnitsMeet ==
  ASSUME Ranking(ranked), boundary \in Nat, Rankable(ranked, boundary)
  PROVE  \E m : FirstUnitEnds(m)
<1> DEFINE T == {0} \cup {x \in 1..N : ranked[x].start < boundary}
           m == Max(T)
<1>1. N \in Nat /\ N = Len(ranked)
  BY DEF Ranking, N
<1>2. m \in T /\ \A x \in T : m >= x
  <2>1. T \in SUBSET (0..N) /\ T # {}
    BY <1>1
  <2> HIDE DEF T
  <2> QED
    BY <1>1, <2>1, MaxOfBounded, Zenon
<1> HIDE DEF m
<1>3. m \in 0..N
  BY <1>1, <1>2
<1>4. \A x \in (m + 1)..N : ~(ranked[x].start < boundary)
  <2> TAKE x \in (m + 1)..N
  <2>1. x \in 1..N /\ x > m /\ x \in Nat
    BY <1>1, <1>3
  <2>2. x \notin T
    BY <1>2, <1>3, <2>1
  <2> QED
    BY <2>1, <2>2
<1>5. ASSUME NEW x \in 1..m
      PROVE  ranked[x].start < boundary /\ ranked[x].end < boundary
  <2>1. m \in 1..N /\ ranked[m].start < boundary /\ x \in 1..N
    BY <1>1, <1>2, <1>3, <1>5
  <2>2. ranked[m].end < boundary
    <3>1. m \in DOMAIN ranked
      BY <2>1 DEF Ranking, N
    <3> QED
      BY <2>1, <3>1 DEF Rankable
  <2>3. ranked[x].end <= ranked[m].end
    <3>1. x = m \/ x < m
      BY <1>3
    <3>2. ranked[m].end \in Nat
      BY <1>1, <2>1, RankingFields
    <3> QED
      BY <1>1, <2>1, <3>1, <3>2 DEF Ranking
  <2>4. /\ ranked[x].end \in Nat /\ ranked[m].end \in Nat
        /\ ranked[x].start \in Nat /\ ranked[x].start < ranked[x].end
    BY <1>1, <2>1, RankingFields
  <2> QED
    BY <2>2, <2>3, <2>4
<1> QED
  BY <1>3, <1>4, <1>5 DEF FirstUnitEnds

(* The candidates of a unit are picked one by one.                         *)
PicksUp(t, inFirst) ==
  /\ t \in [0..N -> Seq(Shapes)] /\ t[N] = UnitOf(inFirst) /\ t[0] = <<>>
  /\ \A k \in 1..N :
       t[k] = IF (ranked[k].start < boundary) <=> inFirst
                THEN Append(t[k - 1], ranked[k]) ELSE t[k - 1]

LEMMA UnitStepByStep ==
  ASSUME Ranking(ranked), NEW inFirst \in BOOLEAN
  PROVE  \E t : PicksUp(t, inFirst)
<1> DEFINE S == Seq(Shapes)
           nothing == <<>>
           In(k) == (ranked[k].start < boundary) <=> inFirst
           next(k, w) == IF In(k) THEN Append(w, ranked[k]) ELSE w
           step == [k \in 1..N |-> [f \in [0..N -> S] |-> next(k, f[k - 1])]]
           rule(t, k) == IF k = 0 THEN nothing ELSE next(k, t[k - 1])
           q == CHOOSE t : t = [k \in 0..N |-> rule(t, k)]
<1>1. N \in Nat /\ nothing \in S /\ \A k \in 1..N : ranked[k] \in Shapes
  BY DEF Ranking, N
<1>2. \A k \in 1..N, w \in S : next(k, w) \in S
  BY <1>1
<1>3. UnitOf(inFirst) = q[N]
  BY DEF UnitOf, N
<1> HIDE DEF next, S, In, nothing
<1>4. \A k \in 1..N, f \in [0..N -> S] : f[k - 1] \in S
  BY <1>1
<1>5. step \in [1..N -> [[0..N -> S] -> S]]
  BY <1>2, <1>4
<1>6. \A k \in 1..N, f \in [0..N -> S] : step[k][f] = next(k, f[k - 1])
  OBVIOUS
<1> HIDE DEF step
<1>7. LooksBelow(step, N, S)
  <2>1. ASSUME NEW k \in 1..N, NEW f \in [0..N -> S], NEW g \in [0..N -> S],
               \A j \in 0..(k - 1) : f[j] = g[j]
        PROVE  step[k][f] = step[k][g]
    <3>1. k - 1 \in 0..(k - 1)
      BY <1>1
    <3>2. f[k - 1] = g[k - 1]
      BY <2>1, <3>1
    <3> QED
      BY <1>6, <3>2
  <2> QED
    BY <1>5, <2>1 DEF LooksBelow
<1>8. PICK p : Computes(p, step, N, S, nothing)
  BY <1>1, <1>7, RecursionExists
<1>9. /\ p \in [0..N -> S] /\ p[0] = nothing
      /\ \A k \in 1..N : p[k] = next(k, p[k - 1])
  <2>1. p \in [0..N -> S] /\ p[0] = nothing /\ \A k \in 1..N : p[k] = step[k][p]
    BY <1>8 DEF Computes
  <2> QED
    BY <1>6, <2>1
<1>10. p = [k \in 0..N |-> rule(p, k)]
  <2>1. \A k \in 0..N : p[k] = rule(p, k)
    BY <1>1, <1>9
  <2> QED
    BY <1>9, <2>1
<1>11. q = [k \in 0..N |-> rule(q, k)]
  BY <1>10, Zenon
<1> HIDE DEF q
<1>12. /\ q[0] = nothing /\ \A k \in 1..N : q[k] = next(k, q[k - 1])
       /\ DOMAIN q = 0..N
  BY <1>1, <1>11
<1>13. \A k \in 0..N : q[k] \in S
  <2> DEFINE P == {k \in Nat : k <= N => q[k] \in S}
  <2>1. 0 \in P
    BY <1>1, <1>12
  <2>2. ASSUME NEW k \in P
        PROVE  k + 1 \in P
    <3>1. k \in Nat /\ (k + 1) - 1 = k
      OBVIOUS
    <3>2. CASE k + 1 <= N
      <4>1. k + 1 \in 1..N /\ q[k] \in S
        BY <1>1, <3>1, <3>2
      <4> QED
        BY <1>2, <1>12, <3>1, <4>1
    <3> QED
      BY <3>1, <3>2
  <2>3. P = Nat
    <3> HIDE DEF P
    <3>1. P \subseteq Nat
      BY DEF P
    <3> QED
      BY <2>1, <2>2, <3>1, StepsReachAll
  <2> QED
    BY <1>1, <2>3
<1>14. q \in [0..N -> S]
  BY <1>11, <1>12, <1>13
<1>15. PicksUp(q, inFirst)
  BY <1>3, <1>12, <1>14 DEF next, PicksUp, S, In, nothing
<1> QED
  BY <1>15

(* A unit whose candidates are those behind `low`, up to `high`, in order. *)
LEMMA UnitIsPiece ==
  ASSUME Ranking(ranked), NEW inFirst \in BOOLEAN, NEW low \in Nat, NEW high \in Nat,
         low <= high, high <= N,
         \A k \in 1..N : ((ranked[k].start < boundary) <=> inFirst) <=> low < k /\ k <= high
  PROVE  /\ UnitOf(inFirst) \in Seq(Shapes) /\ Len(UnitOf(inFirst)) = high - low
         /\ \A j \in 1..(high - low) : UnitOf(inFirst)[j] = ranked[low + j]
<1>1. PICK t : PicksUp(t, inFirst)
  BY UnitStepByStep
<1>2. /\ t \in [0..N -> Seq(Shapes)] /\ t[N] = UnitOf(inFirst) /\ t[0] = <<>>
      /\ \A k \in 1..N :
           t[k] = IF low < k /\ k <= high THEN Append(t[k - 1], ranked[k]) ELSE t[k - 1]
  <2>1. /\ t \in [0..N -> Seq(Shapes)] /\ t[N] = UnitOf(inFirst) /\ t[0] = <<>>
        /\ \A k \in 1..N :
             t[k] = IF (ranked[k].start < boundary) <=> inFirst
                      THEN Append(t[k - 1], ranked[k]) ELSE t[k - 1]
    BY <1>1 DEF PicksUp
  <2> QED
    BY <2>1
<1>3. N \in Nat /\ \A k \in 1..N : ranked[k] \in Shapes
  BY DEF Ranking, N
<1> DEFINE Has(k, n) == Len(t[k]) = n /\ \A j \in 1..n : t[k][j] = ranked[low + j]
           count(k) == IF k <= low THEN 0 ELSE IF k <= high THEN k - low ELSE high - low
           P == {k \in Nat : k <= N => Has(k, count(k))}
<1>4. 0 \in P
  BY <1>2
<1>5. ASSUME NEW k \in P
      PROVE  k + 1 \in P
  <2>1. k \in Nat /\ (k + 1) - 1 = k /\ k + 1 \in Nat
    OBVIOUS
  <2>2. CASE k + 1 <= N
    <3>1. k + 1 \in 1..N /\ k \in 0..N /\ Has(k, count(k)) /\ t[k] \in Seq(Shapes)
      <4>1. k + 1 \in 1..N /\ k \in 0..N /\ k <= N
        BY <1>3, <2>1, <2>2
      <4>2. Has(k, count(k))
        <5> HIDE DEF Has, count
        <5> QED
          BY <4>1
      <4> QED
        BY <1>2, <4>1, <4>2
    <3>2. CASE low < k + 1 /\ k + 1 <= high
      <4>1. count(k) = k - low /\ count(k + 1) = k - low + 1 /\ k - low \in Nat
        BY <2>1, <3>2
      <4>2. t[k + 1] = Append(t[k], ranked[k + 1])
        BY <1>2, <2>1, <3>1, <3>2
      <4>3. Len(t[k]) = k - low /\ \A j \in 1..(k - low) : t[k][j] = ranked[low + j]
        BY <3>1, <4>1
      <4>4. ranked[k + 1] \in Shapes /\ low + (k - low + 1) = k + 1
        BY <1>3, <3>1, <2>1
      <4>5. /\ Len(t[k + 1]) = k - low + 1
            /\ t[k + 1][k - low + 1] = ranked[k + 1]
            /\ \A j \in 1..(k - low) : t[k + 1][j] = t[k][j]
        <5>1. PICK w \in Seq(Shapes) : w = t[k]
          BY <3>1
        <5>2. PICK x \in Shapes : x = ranked[k + 1]
          BY <4>4
        <5>3. /\ Len(Append(w, x)) = Len(w) + 1 /\ Append(w, x)[Len(w) + 1] = x
              /\ \A j \in 1..Len(w) : Append(w, x)[j] = w[j]
          OBVIOUS
        <5>4. Len(w) = k - low /\ t[k + 1] = Append(w, x)
          BY <4>2, <4>3, <5>1, <5>2
        <5> QED
          BY <5>1, <5>2, <5>3, <5>4
      <4>6. ASSUME NEW j \in 1..(k - low + 1)
            PROVE  t[k + 1][j] = ranked[low + j]
        <5>1. CASE j = k - low + 1
          <6>1. t[k + 1][j] = ranked[k + 1]
            BY <4>5, <5>1
          <6>2. low + j = k + 1
            BY <2>1, <5>1
          <6> QED
            BY <6>1, <6>2
        <5>2. CASE j # k - low + 1
          <6>1. j \in 1..(k - low)
            BY <4>1, <5>2
          <6>2. t[k + 1][j] = t[k][j]
            BY <4>5, <6>1
          <6> QED
            BY <4>3, <6>1, <6>2
        <5> QED
          BY <5>1, <5>2
      <4>7. Has(k + 1, k - low + 1)
        BY <4>5, <4>6
      <4> HIDE DEF Has, count
      <4> QED
        BY <2>1, <4>1, <4>7
    <3>3. CASE ~(low < k + 1 /\ k + 1 <= high)
      <4>1. count(k + 1) = count(k)
        BY <2>1, <3>3
      <4>2. t[k + 1] = t[k]
        BY <1>2, <2>1, <3>1, <3>3
      <4>3. Has(k + 1, count(k))
        BY <3>1, <4>2
      <4> HIDE DEF Has, count
      <4> QED
        BY <2>1, <4>1, <4>3
    <3> QED
      BY <3>2, <3>3
  <2> QED
    BY <2>1, <2>2
<1>6. P = Nat
  <2> HIDE DEF P
  <2>1. P \subseteq Nat
    BY DEF P
  <2> QED
    BY <1>4, <1>5, <2>1, StepsReachAll
<1>7. Has(N, count(N))
  <2>1. N \in P /\ N <= N
    BY <1>3, <1>6
  <2> HIDE DEF Has, count
  <2> QED
    BY <2>1
<1>8. count(N) = high - low
  BY <1>3
<1>9. Has(N, high - low) /\ t[N] \in Seq(Shapes)
  <2>1. N \in 0..N
    BY <1>3
  <2> HIDE DEF Has, count
  <2> QED
    BY <1>2, <1>7, <1>8, <2>1
<1> QED
  BY <1>2, <1>9

(* What is selected are the units' own selections: each unit decides as it *)
(* does alone, although its base is smaller.                               *)
LEMMA SelectionOfUnits ==
  ASSUME Ranking(ranked), boundary \in Nat, Rankable(ranked, boundary),
         selected = Whole(ranked)[N].taken
  PROVE  CandidatesAt(ranked, selected) = Alone(UnitOf(TRUE)) \cup Alone(UnitOf(FALSE))
<1>1. PICK m : FirstUnitEnds(m)
  BY UnitsMeet
<1> DEFINE u == UnitOf(TRUE)
           v == UnitOf(FALSE)
<1>2. /\ N \in Nat /\ N = Len(ranked) /\ m \in 0..N /\ m \in Nat /\ N - m \in Nat
      /\ \A x \in 1..m : ranked[x].start < boundary /\ ranked[x].end < boundary
      /\ \A x \in (m + 1)..N : ~(ranked[x].start < boundary)
  BY <1>1 DEF FirstUnitEnds, Ranking, N
<1>3. /\ u \in Seq(Shapes) /\ Len(u) = m - 0
      /\ \A j \in 1..(m - 0) : u[j] = ranked[0 + j]
  <2>1. \A k \in 1..N : ((ranked[k].start < boundary) <=> TRUE) <=> 0 < k /\ k <= m
    BY <1>2
  <2>2. TRUE \in BOOLEAN /\ 0 \in Nat /\ 0 <= m /\ m <= N
    BY <1>2
  <2> QED
    BY <1>2, <2>1, <2>2, UnitIsPiece
<1>4. /\ v \in Seq(Shapes) /\ Len(v) = N - m
      /\ \A j \in 1..(N - m) : v[j] = ranked[m + j]
  <2>1. \A k \in 1..N : ((ranked[k].start < boundary) <=> FALSE) <=> m < k /\ k <= N
    BY <1>2
  <2>2. FALSE \in BOOLEAN /\ N \in Nat /\ m <= N /\ N <= N
    BY <1>2
  <2> QED
    BY <1>2, <2>1, <2>2, UnitIsPiece
<1> HIDE DEF u, v
<1>5. PieceOf(u, ranked, 0)
  <2>1. \A x, y \in 1..Len(u) : x < y => u[x].end <= u[y].end
    BY <1>2, <1>3 DEF Ranking
  <2>2. Len(u) \in Nat /\ \A x \in 1..Len(u) : u[x] \in Shapes
    BY <1>2, <1>3
  <2>3. \A k \in 1..Len(u) : u[k] = ranked[0 + k]
    BY <1>2, <1>3
  <2> QED
    BY <1>2, <1>3, <2>1, <2>2, <2>3 DEF PieceOf, Ranking
<1>6. PieceOf(v, ranked, m)
  <2>1. \A x, y \in 1..Len(v) : x < y => v[x].end <= v[y].end
    <3> TAKE x, y \in 1..Len(v)
    <3> HAVE x < y
    <3>1. m + x \in 1..Len(ranked) /\ m + y \in 1..Len(ranked) /\ m + x < m + y
      BY <1>2, <1>4
    <3>2. ranked[m + x].end <= ranked[m + y].end
      BY <3>1 DEF Ranking
    <3> QED
      BY <1>4, <3>2
  <2>2. Len(v) \in Nat /\ \A x \in 1..Len(v) : v[x] \in Shapes
    BY <1>2, <1>4
  <2>3. \A x \in 1..m, y \in (m + 1)..Len(ranked) : ranked[x].end <= ranked[y].start
    <3> TAKE x \in 1..m, y \in (m + 1)..Len(ranked)
    <3>1. x \in 1..Len(ranked) /\ y \in 1..Len(ranked) /\ y \in (m + 1)..N
      BY <1>2
    <3>2. ranked[x].end < boundary /\ ~(ranked[y].start < boundary)
      BY <1>2, <3>1
    <3>3. ranked[x].end \in Nat /\ ranked[y].start \in Nat
      BY <3>1, RankingFields
    <3> QED
      BY <3>2, <3>3
  <2>4. m + Len(v) <= Len(ranked)
    BY <1>2, <1>4
  <2> QED
    BY <1>2, <1>4, <2>1, <2>2, <2>3, <2>4 DEF PieceOf, Ranking
<1> DEFINE b == Whole(ranked)
           A == Whole(u)[m].taken
           B == Whole(v)[N - m].taken
<1>7. /\ A \subseteq 1..m /\ b[m].taken = b[0].taken \cup Behind(0, A)
      /\ B \subseteq 1..(N - m) /\ b[N].taken = b[m].taken \cup Behind(m, B)
  <2>1. Follows(u, ranked, 0, m)
    <3>1. m \in 0..Len(u)
      BY <1>2, <1>3
    <3> QED
      BY <1>5, <3>1, PieceFollows
  <2>2. Follows(v, ranked, m, N - m)
    <3>1. N - m \in 0..Len(v)
      BY <1>2, <1>4
    <3> QED
      BY <1>6, <3>1, PieceFollows
  <2>3. 0 + m = m /\ m + (N - m) = N
    BY <1>2
  <2> QED
    BY <2>1, <2>2, <2>3 DEF Follows
<1>8. b[0].taken = {}
  BY RecurrenceSteps
<1>9. Alone(u) = {u[j] : j \in A} /\ Alone(v) = {v[j] : j \in B}
  <2>1. Len(u) = m /\ Len(v) = N - m
    BY <1>2, <1>3, <1>4
  <2> QED
    BY <2>1 DEF Alone, CandidatesAt, Unsplit, Whole
<1> HIDE DEF b, A, B
<1>10. \A j \in A : u[j] = ranked[0 + j]
  BY <1>2, <1>3, <1>7
<1>11. \A j \in B : v[j] = ranked[m + j]
  BY <1>4, <1>7
<1>12. selected = Behind(0, A) \cup Behind(m, B)
  BY <1>7, <1>8 DEF b
<1>13. CandidatesAt(ranked, selected)
         = {ranked[0 + j] : j \in A} \cup {ranked[m + j] : j \in B}
  BY <1>12 DEF CandidatesAt, Behind
<1>14. {ranked[0 + j] : j \in A} = {u[j] : j \in A} /\ {ranked[m + j] : j \in B} = {v[j] : j \in B}
  BY <1>10, <1>11
<1> QED
  BY <1>9, <1>13, <1>14 DEF u, v

(* The units of a batch are selected from as if each were scanned alone:    *)
(* detect_units ranks all their candidates together, over one base taken    *)
(* from all of them, and a scan of one unit over a base taken from its own. *)
THEOREM UnitsAreSeparate == Spec => []UnitsDecompose
<1> DEFINE Ranked == boundary \in Nat /\ Rankable(ranked, boundary)
<1>1. Init => Ranked
  BY CandidateAssumption DEF Init
<1>2. Ranked /\ [Next]_vars => Ranked'
  <2> SUFFICES ASSUME Ranked, [Next]_vars
               PROVE  Ranked'
    OBVIOUS
  <2>1. ranked' = ranked /\ boundary' = boundary
    BY DEF Next, Split, SolveFirstComponent, Finish, Forward, Backward, vars
  <2> QED
    BY <2>1
<1>3. AInv /\ Ranked => UnitsDecompose
  <2> SUFFICES ASSUME AInv, Ranked, phase = "done"
               PROVE  CandidatesAt(ranked, selected)
                        = Alone(UnitOf(TRUE)) \cup Alone(UnitOf(FALSE))
    BY DEF UnitsDecompose
  <2>1. Ranking(ranked) /\ selected = Whole(ranked)[N].taken
    BY DEF AInv, OInv, Agrees
  <2> QED
    BY <2>1, SelectionOfUnits
<1> QED
  BY <1>1, <1>2, <1>3, AgreementInvariant, PTL DEF Spec
================================================================================
