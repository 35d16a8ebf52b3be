--------------------------- MODULE OverlapSelection ---------------------------
(***************************************************************************)
(* Overlap resolution (pipeline.rs, select_optimal_disjoint_set): which of *)
(* the candidates the detectors proposed become findings.  The code splits *)
(* the candidates, sorted by end, into components that do not interact and *)
(* solves each with the weighted-interval dynamic program.  One turn of    *)
(* one of its loops is one step here.                                      *)
(*                                                                         *)
(* Positions count from 1 in the sorted candidates.  The sort key is       *)
(* total, so its result is the one sorted arrangement of the candidates:   *)
(* the initial states are the sorted arrangements.  `boundary` is where    *)
(* two units of an incremental batch meet (detect_units); 0 for one unit.  *)
(***************************************************************************)
EXTENDS Integers, FiniteSets, FiniteSetsExt, SequencesExt

CONSTANTS
  Shapes,         \* the validated candidates considered (RankedCandidate)
  MaxCandidates,  \* how many of them one call ranks, at most
  Boundaries,     \* the unit boundaries considered
  WidthCap,       \* EvidenceWeight::WIDTH_CAP
  OrderCap        \* EvidenceWeight::ORDER_CAP

Keys == {"start", "end", "severity", "specificity", "confidence", "detectorOrder",
         "candidateOrder"}

ASSUME CandidateAssumption ==
  /\ Shapes \subseteq [Keys -> Nat]
  /\ \A c \in Shapes : c.start < c.end /\ c.end - c.start <= WidthCap
                       /\ c.detectorOrder <= OrderCap /\ c.candidateOrder <= OrderCap
  /\ MaxCandidates \in Nat /\ Boundaries \subseteq Nat
  /\ WidthCap \in Nat /\ OrderCap \in Nat

VARIABLES
  ranked,           \* the candidates, sorted by end
  boundary,
  phase,            \* which loop runs: "split", "forward", "backward", "done"
  i,                \* split: the position looked at next, downwards
  componentEnd,     \* split: the last position of the component still open
  minLaterStart,    \* split: the least start seen so far
  from, to,         \* the component being solved
  totals, include,  \* forward: its tables
  back,             \* backward: how much of the component is left
  selected          \* the positions selected so far (selected_mask)

vars == <<ranked, boundary, phase, i, componentEnd, minLaterStart, from, to, totals,
          include, back, selected>>

------------------------------------------------------------------------------
(* Order and weight.                                                       *)
Less(u, v) ==
  \E k \in DOMAIN u : u[k] < v[k] /\ \A j \in 1..(k - 1) : u[j] = v[j]

Length(c) == c.end - c.start

(* RankedCandidate::priority, the smaller the better.                      *)
Priority(c) ==
  <<-c.severity, -c.specificity, -c.confidence, Length(c), c.detectorOrder, c.candidateOrder>>

SortsBefore(c, d) ==
  c.end < d.end \/ (c.end = d.end /\ Less(Priority(c), Priority(d)))

(* Mutant: the ranks are summed as they are, without a base.               *)
LinearWeight(c, base) ==
  <<c.severity, c.specificity, c.confidence, WidthCap - Length(c),
    OrderCap - c.detectorOrder, OrderCap - c.candidateOrder>>

(* saturating_pow, where it does not saturate: N * Power(N + 1, 4), the     *)
(* greatest sum, is below 2^128 for up to 2^25 candidates.                 *)
Power(base, n) ==
  LET power[k \in 0..n] == IF k = 0 THEN 1 ELSE base * power[k - 1]
  IN power[n]

(* EvidenceWeight::of.                                                     *)
Weight(c, base) ==
  <<Power(base, c.severity), Power(base, c.specificity), Power(base, c.confidence),
    WidthCap - Length(c), OrderCap - c.detectorOrder, OrderCap - c.candidateOrder>>

Zero == <<0, 0, 0, 0, 0, 0>>

Plus(u, v) == [k \in 1..6 |-> u[k] + v[k]]

(* One more than the whole set's count, also in a component.               *)
Base == Len(ranked) + 1

(* Mutant: a candidate may start before the end of the one before it.      *)
PredecessorsTouching(s, first, k) ==
  Max({0} \cup {m \in 1..(k - 1) : s[first + m - 1].end <= s[first + k - 1].start + 1})

(* How many candidates of the component that begins at `first`, before its *)
(* k-th, end before the k-th starts: by the sort, a prefix of it.          *)
Predecessors(s, first, k) ==
  Max({0} \cup {m \in 1..(k - 1) : s[first + m - 1].end <= s[first + k - 1].start})

------------------------------------------------------------------------------
Sorted(s) == \A j, k \in DOMAIN s : j < k => SortsBefore(s[j], s[k])

(* Mutant: a candidate that reaches into the next unit is ranked too.      *)
RankableAcross(s, at) ==
  \A j, k \in DOMAIN s :
    /\ j # k
    /\ (s[j].start < at) <=> (s[k].start < at)
    /\ s[j].detectorOrder = s[k].detectorOrder
    => s[j].candidateOrder # s[k].candidateOrder

(* In a unit no two candidates share both orders; none reaches the end of  *)
(* the first unit, or detect_units returns None before selecting.          *)
Rankable(s, at) ==
  /\ \A j, k \in DOMAIN s :
       /\ j # k
       /\ (s[j].start < at) <=> (s[k].start < at)
       /\ s[j].detectorOrder = s[k].detectorOrder
       => s[j].candidateOrder # s[k].candidateOrder
  /\ \A j \in DOMAIN s : s[j].start < at => s[j].end < at

Disjoint(c, d) == c.end <= d.start \/ d.end <= c.start

AllDisjoint == \A j \in 1..(Len(ranked) - 1) : ranked[j].end <= ranked[j + 1].start

Init ==
  /\ \E n \in 0..MaxCandidates : ranked \in [1..n -> Shapes]
  /\ Sorted(ranked)
  /\ boundary \in Boundaries
  /\ Rankable(ranked, boundary)
  /\ i = Len(ranked) /\ componentEnd = Len(ranked)
  /\ minLaterStart = -1                       \* usize::MAX: none seen yet
  /\ from = 0 /\ to = 0 /\ totals = <<>> /\ include = <<>> /\ back = 0
  /\ IF AllDisjoint                            \* the fast path, and no candidate
       THEN phase = "done" /\ selected = 1..Len(ranked)
       ELSE phase = "split" /\ selected = {}

(* solve: a component of one candidate needs no table.                     *)
Solve(first, last) ==
  IF first = last
    THEN /\ selected' = selected \cup {first}
         /\ UNCHANGED <<phase, from, to, totals, include, back>>
    ELSE /\ phase' = "forward" /\ from' = first /\ to' = last
         /\ totals' = <<Zero>> /\ include' = <<>>
         /\ UNCHANGED <<back, selected>>

NoLaterStartsBefore(end) == minLaterStart = -1 \/ end <= minLaterStart

(* Mutant: only the start of the next candidate is remembered.             *)
SplitByNextStart ==
  /\ phase = "split" /\ i > 0
  /\ IF NoLaterStartsBefore(ranked[i].end) /\ i < componentEnd
       THEN Solve(i + 1, componentEnd) /\ componentEnd' = i
       ELSE UNCHANGED <<phase, componentEnd, from, to, totals, include, back, selected>>
  /\ minLaterStart' = ranked[i].start
  /\ i' = i - 1
  /\ UNCHANGED <<ranked, boundary>>

(* The component above position i is complete when the candidate there     *)
(* ends before any later one starts.                                       *)
Split ==
  /\ phase = "split" /\ i > 0
  /\ IF NoLaterStartsBefore(ranked[i].end) /\ i < componentEnd
       THEN Solve(i + 1, componentEnd) /\ componentEnd' = i
       ELSE UNCHANGED <<phase, componentEnd, from, to, totals, include, back, selected>>
  /\ minLaterStart' =
       IF NoLaterStartsBefore(ranked[i].start) THEN ranked[i].start ELSE minLaterStart
  /\ i' = i - 1
  /\ UNCHANGED <<ranked, boundary>>

SolveFirstComponent ==
  /\ phase = "split" /\ i = 0 /\ componentEnd > 0
  /\ Solve(1, componentEnd)
  /\ componentEnd' = 0
  /\ UNCHANGED <<ranked, boundary, i, minLaterStart>>

Finish ==
  /\ phase = "split" /\ i = 0 /\ componentEnd = 0
  /\ phase' = "done"
  /\ UNCHANGED <<ranked, boundary, i, componentEnd, minLaterStart, from, to, totals, include,
                 back, selected>>

Better(with, without) == Less(without, with)

(* The best total without the candidate, or with it and the best total     *)
(* among the candidates that end before it starts.                         *)
Forward ==
  LET k       == Len(include) + 1
      with    == Plus(Weight(ranked[from + k - 1], Base),
                      totals[Predecessors(ranked, from, k) + 1])
      without == totals[k]
  IN /\ phase = "forward"
     /\ IF from + k - 1 <= to
          THEN /\ include' = Append(include, Better(with, without))
               /\ totals' = Append(totals, IF Better(with, without) THEN with ELSE without)
               /\ UNCHANGED <<phase, back>>
          ELSE /\ phase' = "backward" /\ back' = Len(include)
               /\ UNCHANGED <<totals, include>>
     /\ UNCHANGED <<ranked, boundary, i, componentEnd, minLaterStart, from, to, selected>>

(* Mutant: after a candidate is taken, the one just before it is next.     *)
BackwardByOne ==
  /\ phase = "backward"
  /\ IF back = 0
       THEN phase' = "split" /\ UNCHANGED <<back, selected>>
       ELSE /\ selected' = IF include[back] THEN selected \cup {from + back - 1} ELSE selected
            /\ back' = back - 1
            /\ UNCHANGED phase
  /\ UNCHANGED <<ranked, boundary, i, componentEnd, minLaterStart, from, to, totals, include>>

Backward ==
  /\ phase = "backward"
  /\ IF back = 0
       THEN phase' = "split" /\ UNCHANGED <<back, selected>>
       ELSE IF include[back]
         THEN /\ selected' = selected \cup {from + back - 1}
              /\ back' = Predecessors(ranked, from, back)
              /\ UNCHANGED phase
         ELSE back' = back - 1 /\ UNCHANGED <<phase, selected>>
  /\ UNCHANGED <<ranked, boundary, i, componentEnd, minLaterStart, from, to, totals, include>>

Next == Split \/ SolveFirstComponent \/ Finish \/ Forward \/ Backward

Spec == Init /\ [][Next]_vars

------------------------------------------------------------------------------
(* References the run is compared with.                                    *)

TotalWeight(s, positions, base) ==
  LET total[n \in 0..Len(s)] ==
        IF n = 0 THEN Zero
        ELSE IF n \in positions THEN Plus(total[n - 1], Weight(s[n], base))
        ELSE total[n - 1]
  IN total[Len(s)]

DisjointSubsets(s, positions) ==
  {S \in SUBSET positions : \A j, k \in S : j # k => Disjoint(s[j], s[k])}

(* The recurrence over all of s at once, without components.               *)
Recurrence(s, base) ==
  LET best[k \in 0..Len(s)] ==
        IF k = 0 THEN [total |-> Zero, taken |-> {}]
        ELSE LET below   == best[Predecessors(s, 1, k)]
                 with    == Plus(Weight(s[k], base), below.total)
                 without == best[k - 1]
             IN IF Better(with, without.total)
                  THEN [total |-> with, taken |-> below.taken \cup {k}]
                  ELSE without
  IN best

Unsplit(s, base) == Recurrence(s, base)[Len(s)].taken

(* The candidates of one unit, as a scan of that unit alone ranks them.    *)
UnitOf(inFirst) ==
  LET kept[n \in 0..Len(ranked)] ==
        IF n = 0 THEN <<>>
        ELSE IF (ranked[n].start < boundary) <=> inFirst THEN Append(kept[n - 1], ranked[n])
        ELSE kept[n - 1]
  IN kept[Len(ranked)]

CandidatesAt(s, positions) == {s[j] : j \in positions}

Alone(s) == CandidatesAt(s, Unsplit(s, Len(s) + 1))

------------------------------------------------------------------------------
(* Properties.                                                             *)

(* The loops stay inside their component and their tables.                 *)
TypeOK ==
  /\ phase \in {"split", "forward", "backward", "done"}
  /\ i \in 0..Len(ranked) /\ componentEnd \in 0..Len(ranked)
  /\ selected \subseteq 1..Len(ranked)
  /\ phase \in {"forward", "backward"} =>
       /\ from \in 1..Len(ranked) /\ to \in 1..Len(ranked) /\ from < to
       /\ include \in Seq(BOOLEAN) /\ Len(include) <= to - from + 1
  /\ phase = "backward" => back \in 0..Len(include)

(* No two findings overlap, at any point of the selection.                 *)
SelectedAreDisjoint ==
  \A j, k \in selected : j # k => Disjoint(ranked[j], ranked[k])

(* A candidate is dropped only for one of at least its resolved severity   *)
(* that overlaps it: no number of candidates with weaker actions displaces *)
(* a stricter one (EvidenceWeight, "never displace a stricter one").       *)
StricterIsNeverDisplaced ==
  phase = "done" =>
    \A j \in 1..Len(ranked) \ selected :
      \E k \in selected : /\ ~Disjoint(ranked[j], ranked[k])
                          /\ ranked[k].severity >= ranked[j].severity

(* Every entry of the table is the greatest total weight of disjoint       *)
(* candidates of its prefix (select_optimal_disjoint_set, "optimal         *)
(* weighted-interval selection").                                          *)
TotalsAreGreatest ==
  phase = "forward" =>
    LET prefix == from..(from + Len(include) - 1) IN
    /\ \A S \in DisjointSubsets(ranked, prefix) :
         ~Less(totals[Len(totals)], TotalWeight(ranked, S, Base))
    /\ \E S \in DisjointSubsets(ranked, prefix) :
         totals[Len(totals)] = TotalWeight(ranked, S, Base)

(* Solving component by component selects what solving the whole set at    *)
(* once selects, ties included (issue #1135's split is exact).             *)
ComponentsDoNotInteract ==
  phase = "done" => selected = Unsplit(ranked, Base)

(* Selecting a batch selects in each of its units what a scan of the unit  *)
(* alone selects, whose base is smaller (detect_units).                    *)
UnitsDecompose ==
  phase = "done" =>
    CandidatesAt(ranked, selected) = Alone(UnitOf(TRUE)) \cup Alone(UnitOf(FALSE))
==============================================================================
