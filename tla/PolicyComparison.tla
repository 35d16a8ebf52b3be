--------------------------- MODULE PolicyComparison ----------------------------
(***************************************************************************)
(* How policies and configurations are compared over one text (compare.rs  *)
(* and configuration_compare.rs).  Sides are scanned and decided one after *)
(* the other; then each is related to the first by the ranges of their     *)
(* findings.                                                               *)
(***************************************************************************)
EXTENDS Policies

CONSTANTS
  Contexts,      \* what analyses know of a configuration
  Requests,      \* comparisons: sequences of sides
  MaxCompared    \* MAX_COMPARED_POLICIES

VARIABLES
  column,        \* the decisions of the side under way
  outcome        \* "comparing", "compared", or the error of the whole call

comparisonVars == <<context, request, results, column, outcome>>

(* What is asked of the constants: the PII adapter has a name of its own;  *)
(* the sides of a comparison and the rules of a policy are in order.       *)
ComparisonConstants ==
  /\ PiiAdapter \notin DOMAIN Manifest.declared \cup Manifest.notIncluded
  /\ \A sides \in Requests :
       /\ sides \in Seq(Range(sides))
       /\ \A k \in DOMAIN sides :
            LET policy == sides[k].policy
            IN policy.kind = "rules" => policy.rules \in Seq(Range(policy.rules))

------------------------------------------------------------------------------
(* relate: clusters of findings that overlap, from left to right.          *)
Spans(base, other) ==
  LET of(side, findings) ==
        [k \in DOMAIN findings |-> <<findings[k].start, findings[k].end, side, k>>]
      before(s, t) == \/ s[1] < t[1]
                      \/ s[1] = t[1] /\ s[2] < t[2]
                      \/ s[1] = t[1] /\ s[2] = t[2] /\ s[3] < t[3]
  IN SortSeq(of(0, base.findings) \o of(1, other.findings), before)

(* A span joins the cluster it begins in.  Mutant: or at the end of.       *)
JoinsTouching(span, end) == span[1] <= end

Joins(span, end) == span[1] < end

Clusters(spans) ==
  LET add(clusters, span) ==
        IF clusters # <<>> /\ Joins(span, Last(clusters).end)
          THEN Append(Front(clusters),
                 [end |-> Max({Last(clusters).end, span[2]}),
                  members |-> Append(Last(clusters).members, span)])
          ELSE Append(clusters, [end |-> span[2], members |-> <<span>>])
  IN FoldLeft(add, <<>>, spans)

(* changed: the attributes two findings and their decisions differ in.     *)
Changed(base, n, other, m) ==
  LET a == base.findings[n]
      b == other.findings[m]
  IN (IF <<a.start, a.end>> # <<b.start, b.end>> THEN {"range"} ELSE {})
     \cup {name \in {"type", "detector", "confidence"} : a[name] # b[name]}
     \cup {name \in {"action", "basis"} : base.decisions[n][name] # other.decisions[m][name]}

Kind(left, right) ==
  IF left = 0 THEN "added" ELSE IF right = 0 THEN "removed"
  ELSE IF left = 1 /\ right = 1 THEN "changed"
  ELSE IF left = 1 THEN "split" ELSE IF right = 1 THEN "merged" ELSE "regrouped"

(* The entries of one cluster: one per finding that was added or removed.  *)
Entries(base, other, members) ==
  LET positions(side) ==
        LET own == SelectSeq(members, LAMBDA span : span[3] = side)
        IN [k \in DOMAIN own |-> own[k][4]]
      left == positions(0)
      right == positions(1)
      kind == Kind(Len(left), Len(right))
      entry(l, r, changes) == [kind |-> kind, base |-> l, other |-> r, changes |-> changes]
  IN CASE kind = "added" -> [k \in DOMAIN right |-> entry(<<>>, <<right[k]>>, {})]
       [] kind = "removed" -> [k \in DOMAIN left |-> entry(<<left[k]>>, <<>>, {})]
       [] kind = "changed" ->
            LET changes == Changed(base, left[1], other, right[1])
            IN IF changes = {} THEN <<>> ELSE <<entry(left, right, changes)>>
       [] OTHER -> <<entry(left, right, {})>>

Relate(base, other) ==
  LET clusters == Clusters(Spans(base, other))
      of(k) == Entries(base, other, clusters[k].members)
  IN [entries |-> FlattenSeq([k \in DOMAIN clusters |-> of(k)]),
      unchanged |-> Cardinality({k \in DOMAIN clusters : of(k) = <<>>})]

------------------------------------------------------------------------------
(* A comparison.                                                           *)
ComparisonInit ==
  /\ context \in Contexts
  /\ request \in Requests
  /\ results = <<>> /\ column = <<>>
  /\ outcome = IF request = <<>> \/ Len(request) > MaxCompared
                 THEN "INVALID_OPTIONS" ELSE "comparing"

Side == request[Len(results) + 1]
Comparing == outcome = "comparing" /\ Len(results) < Len(request)
Scanned(side) == side.failure = None

(* A side without a registry, or whose scan fails, is a failed side.       *)
FailSide ==
  /\ Comparing /\ ~Scanned(Side)
  /\ results' = Append(results, [failure |-> Side.failure, findings |-> <<>>, decisions |-> <<>>])
  /\ UNCHANGED <<context, request, column, outcome>>

(* decide: a callback may answer anything or fail, and then all fails.     *)
Decide ==
  /\ Comparing /\ Scanned(Side) /\ Len(column) < Len(Side.findings)
  /\ LET finding == Side.findings[Len(column) + 1]
         decided(d) == column' = Append(column, d) /\ UNCHANGED <<results, outcome>>
     IN CASE Side.policy.kind = "default" ->
               decided([action |-> default_action_for(finding), basis |-> Basis("default", None, 0)])
          [] Side.policy.kind = "callback" ->
               \/ \E action \in Side.policy.answers :
                    decided([action |-> action, basis |-> Basis("callback", None, 0)])
               \/ outcome' = "POLICY_FAILURE" /\ column' = <<>> /\ results' = <<>>
          [] OTHER -> decided(Explain(Side.policy.rules, finding))
  /\ UNCHANGED <<context, request>>

FinishSide ==
  /\ Comparing /\ Scanned(Side) /\ Len(column) = Len(Side.findings)
  /\ results' = Append(results,
       [failure |-> None, findings |-> Side.findings, decisions |-> column])
  /\ column' = <<>>
  /\ UNCHANGED <<context, request, outcome>>

FinishComparison ==
  /\ outcome = "comparing" /\ Len(results) = Len(request)
  /\ outcome' = "compared"
  /\ UNCHANGED <<context, request, results, column>>

ComparisonNext == FailSide \/ Decide \/ FinishSide \/ FinishComparison

ComparisonSpec == ComparisonInit /\ [][ComparisonNext]_comparisonVars

(* Every scanned side is related to the first, if that was scanned.        *)
Differences ==
  [k \in DOMAIN results |->
     IF k > 1 /\ Scanned(results[k]) /\ Scanned(results[1])
       THEN Relate(results[1], results[k]) ELSE None]

------------------------------------------------------------------------------
(* Properties.                                                             *)

(* Two findings belong together unless some offset lies between them that  *)
(* no finding of either side reaches across.                               *)
Together(all, a, b) ==
  ~\E offset \in {f.start : f \in all} \cup {f.end : f \in all} :
     /\ \/ a.end <= offset /\ offset <= b.start
        \/ b.end <= offset /\ offset <= a.start
     /\ ~\E f \in all : f.start < offset /\ offset < f.end

(* Every finding of both sides is in one entry, or in the pairs counted as *)
(* unchanged; those of an entry belong together and with no other finding; *)
(* entries come in the order of the text; and comparing the other way      *)
(* round says the mirror image (configuration_compare.rs:32-50).           *)
Mirror ==
  [kind \in {"added", "removed", "changed", "split", "merged", "regrouped"} |->
     CASE kind = "added" -> "removed" [] kind = "removed" -> "added"
       [] kind = "split" -> "merged" [] kind = "merged" -> "split" [] OTHER -> kind]

RelatesExactly(base, other, relation) ==
  LET entries == relation.entries
      all == Range(base.findings) \cup Range(other.findings)
      members(e) == {base.findings[n] : n \in Range(e.base)}
                      \cup {other.findings[n] : n \in Range(e.other)}
      unnamed(side, named(_)) == DOMAIN side.findings \ UNION {named(e) : e \in Range(entries)}
      ofBase == unnamed(base, LAMBDA e : Range(e.base))
      ofOther == unnamed(other, LAMBDA e : Range(e.other))
  IN /\ \A e \in Range(entries) : \A a \in members(e) : \A b \in all :
          b \in members(e) <=> Together(all, a, b)
     /\ \A e \in Range(entries) : e.kind = Kind(Len(e.base), Len(e.other))
     /\ \A i, j \in DOMAIN entries : i < j =>
          \A a \in members(entries[i]) : \A b \in members(entries[j]) : a.end <= b.start
     /\ relation.unchanged = Cardinality(ofBase) /\ relation.unchanged = Cardinality(ofOther)
     /\ \A n \in ofBase : \E m \in ofOther : Changed(base, n, other, m) = {}

RelationIsExact ==
  outcome = "compared" =>
    \A k \in {k \in DOMAIN results : Differences[k] # None} :
      LET relation == Differences[k]
          back == Relate(results[k], results[1])
          mirrored(e) == [kind |-> Mirror[e.kind], base |-> e.other, other |-> e.base,
                          changes |-> e.changes]
      IN /\ RelatesExactly(results[1], results[k], relation)
         /\ back = [entries |-> [e \in DOMAIN relation.entries |-> mirrored(relation.entries[e])],
                    unchanged |-> relation.unchanged]
===============================================================================
