------------------------------ MODULE PiiContext -------------------------------
(***************************************************************************)
(* What the words around a value say of it (pii.rs).  The PII adapter asks *)
(* its families for values, associates each with the entries of a context  *)
(* vocabulary that lie near it on its line, and joins what the families    *)
(* make of that into what it emits.  The association is indexed: views     *)
(* around a value are clipped to what an entry can reach, the offsets of a *)
(* line are counted in one pass, and two lookups decide which value a word *)
(* is nearest to.                                                          *)
(*                                                                         *)
(* A text is a sequence of scalars and offsets count from 0.  " " is any   *)
(* separator and "n" a line break, which is one, too; "m" is a combining   *)
(* mark, which NFC joins to some scalars before it, and "z" an invisible   *)
(* code point.  Case is folded.                                            *)
(***************************************************************************)
EXTENDS Integers, SequencesExt, TLC

CONSTANTS
  Inputs,          \* the texts considered
  Vocabularies,    \* CONTEXT_ENTRIES: sets of [id, kind, class, strength, domains, forms],
                   \* no form empty
  FieldDistance,   \* 16 in the source
  MaxDistance,     \* MAX_CONTEXT_DISTANCE
  Families,        \* [id, domain, values, identity, sensitivity, confidence, requirement,
                   \*  exclusions, reinforced]
  Compositions,        \* scalar -> what it and a mark are composed to
  None

VARIABLES
  given,           \* the text and the vocabulary given to the adapter
  associated,      \* value -> the ids of the entries associated with it
  emitted          \* what the adapter found

vars == <<given, associated, emitted>>

Slice(t, from, to) == SubSeq(t, from + 1, to)
Reads(t, at, form) == at + Len(form) <= Len(t) /\ Slice(t, at, at + Len(form)) = form
IsSeparator(c) == c \in {" ", "n"}
Field(entry) == entry.kind = "field label"
Forms(vocabulary) == UNION {entry.forms : entry \in vocabulary}

(* The elements of S in an order.                                          *)
Listed(S) == LET add(x, sequence) == Append(sequence, x) IN FoldSet(add, <<>>, S)
Ascending(S) == SortSeq(Listed(S), <)

------------------------------------------------------------------------------
(* The context-only view.                                                  *)

(* visible_nfc: without invisible code points, composed.                   *)
VisibleNfc(t) ==
  LET compose(view, c) ==
        IF c = "z" THEN view
        ELSE IF c = "m" /\ view # <<>> /\ Last(view) \in DOMAIN Compositions
          THEN Append(Front(view), Compositions[Last(view)])
        ELSE Append(view, c)
  IN FoldLeft(compose, <<>>, t)

(* normalize_context: and every run of separators one space.               *)
NormalizeContext(t) ==
  LET collapse(view, c) ==
        IF ~IsSeparator(c) THEN Append(view, c)
        ELSE IF view # <<>> /\ Last(view) = " " THEN view ELSE Append(view, " ")
  IN FoldLeft(collapse, <<>>, VisibleNfc(t))

(* ContextScalars: its length, counted on.                                 *)
NoScalars == [count |-> 0, inSeparator |-> FALSE]

Push(scalars, c) ==
  [count |-> IF IsSeparator(c) /\ scalars.inSeparator THEN scalars.count ELSE scalars.count + 1,
   inSeparator |-> IsSeparator(c)]

Feed(scalars, t) == FoldLeft(Push, scalars, VisibleNfc(t))

(* starts_normalization_segment: an ASCII scalar, never composed with one  *)
(* before it.                                                              *)
StartsSegment(c) == c \notin {"m", "z"}

------------------------------------------------------------------------------
(* Clipping.                                                               *)

(* Mutant: it is not asked what comes before the later occurrence.         *)
OverlapNeverMatters(form) == FALSE

(* overlap_follows_boundary: two occurrences of a form may overlap, the    *)
(* later one behind a scalar that bounds it.                               *)
OverlapFollowsBoundary(form) ==
  \E k \in 2..Len(form) : /\ SubSeq(form, k, Len(form)) = SubSeq(form, 1, Len(form) - k + 1)
                          /\ form[k - 1] \in {" ", "|", "'"}

(* ContextVocabulary::new: how much of a view is needed; 0: all of it.     *)
Reach(vocabulary) ==
  IF \E form \in Forms(vocabulary) : OverlapFollowsBoundary(form) THEN 0
  ELSE MaxDistance + Max({Len(form) : form \in Forms(vocabulary)}) + 1

(* count_visible: an estimate, made before anything is composed.           *)
CountVisible(t) == FoldLeft(Push, NoScalars, SelectSeq(t, StartsSegment)).count

ClipBefore(t, barrier, end, target) ==
  Max({barrier} \cup {at \in barrier..(end - 1) :
         StartsSegment(t[at + 1]) /\ CountVisible(Slice(t, at + 1, end)) >= target})

ClipAfter(t, start, barrier, target) ==
  Min({barrier} \cup {at \in start..(barrier - 1) :
         StartsSegment(t[at + 1]) /\ CountVisible(Slice(t, start, at)) >= target})

(* Mutant: the space of a run that spans the cut is counted on both sides. *)
JoinedTwice(dropped, kept) == kept

(* A run of separators that spans the cut is the dropped part's one space. *)
JoinedAtCut(dropped, kept) ==
  IF dropped.inSeparator /\ kept[1] = " " THEN Tail(kept) ELSE kept

Clipped(kept, dropped) == [view |-> JoinedAtCut(dropped, kept), dropped |-> dropped.count]

(* before_view: the part that is kept, and how long the dropped one was;   *)
(* the estimate is doubled while composing has left too little.            *)
BeforeView(t, barrier, end, reach) ==
  LET view[target \in Nat] ==
        LET cut == ClipBefore(t, barrier, end, target)
            kept == NormalizeContext(Slice(t, cut, end))
        IN IF target = 0 \/ cut = barrier
             THEN [view |-> NormalizeContext(Slice(t, barrier, end)), dropped |-> 0]
           ELSE IF Len(kept) > reach THEN Clipped(kept, Feed(NoScalars, Slice(t, barrier, cut)))
           ELSE view[2 * target]
  IN view[reach]

(* after_view                                                              *)
AfterView(t, start, barrier, reach) ==
  LET view[target \in Nat] ==
        LET cut == ClipAfter(t, start, barrier, target)
            kept == NormalizeContext(Slice(t, start, cut))
        IN IF target = 0 \/ cut = barrier THEN NormalizeContext(Slice(t, start, barrier))
           ELSE IF Len(kept) >= reach THEN kept
           ELSE view[2 * target]
  IN view[reach]

------------------------------------------------------------------------------
(* A line: its bounds, the offsets of positions in it, the values on it.   *)

(* LogicalLines::bounds: a break inside a value does not split its line.   *)
Line(t, range) ==
  <<Max({0} \cup {at \in 1..range.start : t[at] = "n"}),
    Min({Len(t)} \cup {at \in range.end..(Len(t) - 1) : t[at + 1] = "n"})>>

(* LineOffsets: the length of the view up to each of some positions; what  *)
(* nothing behind it is composed with is counted once.                     *)
LineOffsets(t, lineStart, positions) ==
  LET step(s, position) ==
        LET splits == {at \in s.cursor..(position - 1) : StartsSegment(t[at + 1])}
            cursor == Max(splits \cup {s.cursor})
            committed == Feed(s.committed, Slice(t, s.cursor, cursor))
        IN [committed |-> committed, cursor |-> cursor,
            offsets |-> s.offsets @@ (position :>
              Feed(committed, Slice(t, cursor, position)).count)]
      none == [committed |-> NoScalars, cursor |-> lineStart, offsets |-> <<>>]
  IN FoldLeft(step, none, Ascending(positions)).offsets

(* LineOccurrences: the values of a line as <<end, start>>, by their ends. *)
LineOccurrences(t, window, offsets) ==
  LET occurrence(range) ==
        LET start == offsets[range.start]
        IN <<start + Feed(NoScalars, Slice(t, range.start, range.end)).count, start>>
      add(range, sequence) == Append(sequence, occurrence(range))
      before(a, b) == a[1] < b[1] \/ (a[1] = b[1] /\ a[2] < b[2])
  IN SortSeq(FoldSet(add, <<>>, window), before)

Truncated(n) == IF n < 0 THEN 0 ELSE n

(* Mutant: a field label is drawn to a value before it, too.               *)
AnyMayPrecede(entry) == TRUE

(* A field label is only ever about a value behind it.                     *)
MayPrecede(entry) == ~Field(entry)

(* equidistant: of the values before an occurrence the two that end last,  *)
(* of the others the two that start first.                                 *)
Equidistant(o, byEnd) ==
  LET split == Cardinality({k \in DOMAIN byEnd : byEnd[k][1] <= o.start})
      ends == [k \in 1..Min({2, split}) |-> o.start - byEnd[split + 1 - k][1]]
      starts == SortSeq([k \in 1..(Len(byEnd) - split) |-> byEnd[split + k][2]], <)
      behind == [k \in 1..Min({2, Len(starts)}) |-> Truncated(starts[k] - o.end)]
      nearest == IF MayPrecede(o.entry) THEN ends \o behind ELSE behind
  IN \E i, j \in DOMAIN nearest :
       i # j /\ nearest[i] = nearest[j] /\ \A k \in DOMAIN nearest : nearest[i] <= nearest[k]

------------------------------------------------------------------------------
(* associate_views                                                         *)

(* Mutant: a pipe bounds every label.                                      *)
PipeBoundsAny(entry, c) == c = "|"

(* is_positive_field_label_pipe                                            *)
PositivePipe(entry, c) == c = "|" /\ Field(entry) /\ entry.class = "positive"

Boundary(entry, c) == c = " " \/ (Field(entry) /\ c = "'") \/ PositivePipe(entry, c)
FieldGap(entry, c) == c \in {" ", "'"} \/ PositivePipe(entry, c)

(* match_indices: from the left, each behind the one before.               *)
MatchIndices(view, form) ==
  LET search[at \in 0..Len(view)] ==
        IF at + Len(form) > Len(view) THEN {}
        ELSE IF Reads(view, at, form) THEN {at} \cup search[at + Len(form)]
        ELSE search[at + 1]
  IN search[0]

Bounded(entry, view, from, to) ==
  /\ from > 0 => Boundary(entry, view[from])
  /\ to < Len(view) => Boundary(entry, view[to + 1])

(* Near enough to the value, which follows the view on side 0 and precedes *)
(* the one on side 1.                                                      *)
Near(entry, side, view, from, to) ==
  IF Field(entry)
    THEN /\ side = 0 /\ Len(view) - to <= FieldDistance
         /\ \A k \in (to + 1)..Len(view) : FieldGap(entry, view[k])
    ELSE (IF side = 0 THEN Len(view) - to ELSE from) <= MaxDistance

Occurrences(entry, side, view, offset) ==
  UNION {{[entry |-> entry, side |-> side, start |-> offset + at, end |-> offset + at + Len(form)] :
           at \in {at \in MatchIndices(view, form) :
                     /\ Bounded(entry, view, at, at + Len(form))
                     /\ Near(entry, side, view, at, at + Len(form))}} : form \in entry.forms}

Found(entries, before, beforeOffset, after, afterOffset) ==
  UNION {Occurrences(entry, 0, before, beforeOffset) \cup Occurrences(entry, 1, after, afterOffset) :
           entry \in entries}

(* The longest first, then the strongest; of two that overlap the first.   *)
Strength(entry) == IF entry.strength = "high signal" THEN 1 ELSE 0
Class(entry) == CASE entry.class = "neutral" -> 0 [] entry.class = "positive" -> 1
                  [] entry.class = "negative" -> 2

Precedes(a, b) ==
  LET key(o) == <<o.start - o.end, -Strength(o.entry), -Class(o.entry), o.entry.id, o.start>>
  IN \E k \in 1..5 : key(a)[k] < key(b)[k] /\ \A j \in 1..(k - 1) : key(a)[j] = key(b)[j]

Selected(found) ==
  LET accept(accepted, o) ==
        IF \E a \in accepted : a.side = o.side /\ a.start < o.end /\ o.start < a.end
          THEN accepted ELSE accepted \cup {o}
  IN {o.entry : o \in FoldLeft(accept, {}, SortSeq(Listed(found), Precedes))}

------------------------------------------------------------------------------
(* The association of all values at once.  A value is a range and a domain.*)
Entries(vocabulary, value) == {entry \in vocabulary : value.domain \in entry.domains}

(* matches: no other value lies between a word and the value it is about.  *)
BeforeBarrier(values, value, lineStart) ==
  Max({lineStart} \cup {other.end : other \in {o \in values : o.end <= value.start}})
AfterBarrier(values, value, lineEnd) ==
  Min({lineEnd} \cup {other.start : other \in {o \in values : o.start >= value.end}})

RangeOf(value) == [start |-> value.start, end |-> value.end]
Window(values, line) ==
  {RangeOf(v) : v \in {v \in values : v.start >= line[1] /\ v.end <= line[2]}}

(* associate *)
Associate(entries, reach, t, value, barriers, offsets, byEnd) ==
  LET before == BeforeView(t, barriers[1], value.start, reach)
      after == AfterView(t, value.end, barriers[2], reach)
      found == Found(entries, before.view, offsets[barriers[1]] + before.dropped,
                     after, offsets[value.end])
  IN Selected({o \in found : ~Equidistant(o, byEnd)})

(* The values of one line share its offsets.                               *)
AssociateLine(vocabulary, t, values, line) ==
  LET group == {v \in values : Line(t, v) = line}
      window == Window(values, line)
      barriers == [v \in group |-> <<BeforeBarrier(values, v, line[1]),
                                     AfterBarrier(values, v, line[2])>>]
      offsets == LineOffsets(t, line[1],
                   {w.start : w \in window} \cup {v.end : v \in group}
                   \cup {barriers[v][1] : v \in group})
      byEnd == LineOccurrences(t, window, offsets)
      reach == Reach(vocabulary)
  IN [v \in group |-> Associate(Entries(vocabulary, v), reach, t, v, barriers[v], offsets, byEnd)]

Matches(vocabulary, t, values) ==
  LET merge(line, known) == known @@ AssociateLine(vocabulary, t, values, line)
  IN FoldSet(merge, <<>>, {Line(t, v) : v \in values})

------------------------------------------------------------------------------
(* What the families make of it.                                           *)
ValuesOf(family, t) ==
  {[start |-> at, end |-> at + Len(value), domain |-> family.domain] :
     <<at, value>> \in {p \in (0..Len(t)) \X family.values : Reads(t, p[1], p[2])}}

Values(t) == UNION {ValuesOf(family, t) : family \in Families}

HighSignal(entries, class) == {e \in entries : e.class = class /\ e.strength = "high signal"}

(* apply_context_contract and apply_named_negative                         *)
Sensitivity(family, entries) ==
  IF \E e \in HighSignal(entries, "negative") : e.id \in family.exclusions THEN "non-sensitive"
  ELSE IF family.sensitivity # "non-sensitive" /\ family.requirement = "required"
    THEN IF HighSignal(entries, "positive") # {} THEN "sensitive" ELSE "not established"
  ELSE family.sensitivity

Confidence(family, entries) ==
  IF /\ family.sensitivity # "non-sensitive" /\ family.requirement = "reinforcing"
     /\ HighSignal(entries, "positive") # {}
    THEN Max({family.confidence, family.reinforced}) ELSE family.confidence

(* detect: the families that read one range alike are joined.              *)
Joined(value, families, entries) ==
  LET sensitive == {f \in families : Sensitivity(f, entries) = "sensitive"}
  IN IF sensitive = {} THEN {}
     ELSE {[start |-> value.start, end |-> value.end, domain |-> value.domain,
            type |-> IF Cardinality(families) = 1 THEN (CHOOSE f \in families : TRUE).id
                     ELSE "ambiguous",
            confidence |-> Min({f.identity : f \in families}
                               \cup {Confidence(f, entries) : f \in sensitive})]}

Findings(t, matches) ==
  UNION {Joined(v, {f \in Families : v \in ValuesOf(f, t)}, matches[v]) : v \in DOMAIN matches}

------------------------------------------------------------------------------
Init ==
  /\ given \in Inputs \X Vocabularies
  /\ associated = None /\ emitted = {}

Detect ==
  /\ associated = None
  /\ associated' = Matches(given[2], given[1], Values(given[1]))
  /\ emitted' = Findings(given[1], associated')
  /\ UNCHANGED given

Next == Detect

Spec == Init /\ [][Next]_vars

------------------------------------------------------------------------------
(* Properties.                                                             *)

(* The association of one value over whole views, measured on its line and *)
(* against every value there.                                              *)
Length(t, from, to) == Len(NormalizeContext(Slice(t, from, to)))

NearestToTwo(t, line, values, o) ==
  LET start(range) == Length(t, line[1], range.start)
      end(range) == start(range) + Length(t, range.start, range.end)
      near == {range \in Window(values, line) : Field(o.entry) => end(range) > o.start}
      distance == [range \in near |-> IF end(range) <= o.start THEN o.start - end(range)
                                      ELSE Truncated(start(range) - o.end)]
  IN \E a, b \in near : a # b /\ distance[a] = distance[b]
                        /\ \A range \in near : distance[a] <= distance[range]

WholeAssociation(vocabulary, t, values, value) ==
  LET line == Line(t, value)
      from == BeforeBarrier(values, value, line[1])
      found == Found(Entries(vocabulary, value),
                     NormalizeContext(Slice(t, from, value.start)), Length(t, line[1], from),
                     NormalizeContext(Slice(t, value.end, AfterBarrier(values, value, line[2]))),
                     Length(t, line[1], value.end))
  IN Selected({o \in found : ~NearestToTwo(t, line, values, o)})

(* Clipped views, offsets counted in one pass and two lookups associate    *)
(* what whole views and every value of the line do (pii.rs:983, "exactly   *)
(* as pii-context/v2 defines them").                                       *)
AssociationIsExact ==
  associated # None =>
    \A value \in DOMAIN associated :
      associated[value] = WholeAssociation(given[2], given[1], Values(given[1]), value)

(* "A pipe adds association, never a suppression" (pii.rs:1362): what is   *)
(* found with a letter in the place of every pipe is found.                *)
PipesNeverSuppress ==
  LET piped == given[1]
      unpiped == [k \in DOMAIN piped |-> IF piped[k] = "|" THEN "x" ELSE piped[k]]
  IN associated # None /\ piped # unpiped =>
       \A f \in Findings(unpiped, Matches(given[2], unpiped, Values(unpiped))) :
         \E g \in emitted : g.start = f.start /\ g.end = f.end /\ g.domain = f.domain
===============================================================================
