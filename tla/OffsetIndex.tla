---------------------------- MODULE OffsetIndex ------------------------------
(***************************************************************************)
(* The index by which the Python and WebAssembly sessions turn absolute    *)
(* byte offsets into offsets of code points and of UTF-16 code units       *)
(* (bindings/python/src/incremental.rs and bindings/wasm/src/              *)
(* incremental.rs, which are alike).  It keeps no text: only where the     *)
(* characters are that count for fewer units than bytes, and of those only *)
(* the ones a later finding can lie at.                                    *)
(*                                                                         *)
(* A character is the number of its bytes.                                 *)
(***************************************************************************)
EXTENDS Integers, Sequences, SequencesExt, FiniteSetsExt

CONSTANTS
  UnitKinds,       \* those of "code points" and "utf16" that are considered
  BufferLimits,    \* the sessions' max_buffered_bytes
  MaxChars,        \* characters in a session's text: a bound of the model
  MaxAppend,       \* characters in one append: a bound of the model
  CountMax         \* u32::MAX, the longest run

VARIABLES
  units,           \* what is counted
  limit,           \* max_buffered_bytes of the session
  text,            \* the characters given so far
  open,            \* the first byte a finding not yet reported may lie at
  busy,            \* in an append: the core, and callbacks, report findings
  ended,           \* the session has left `accepting`
  discounts, runs, discountsBelowFloor, runsBelowFloor, floor, totalBytes

index == <<discounts, runs, discountsBelowFloor, runsBelowFloor, floor, totalBytes>>
indexVars == <<units, limit, text, open, busy, ended, index>>

ASSUME LimitAssumption == BufferLimits \subseteq Nat

MIN_RUN_SHORTFALL == 4

(* Bytes less units of a character.                                        *)
ShortfallOfWidth(w) == IF units = "utf16" /\ w = 4 THEN 2 ELSE w - 1

(* Adjacent characters of one width, the first at `start`; `cumulative` is *)
(* the shortfall of all runs so far.                                       *)
Run(start, width, count, cumulative) ==
  [start |-> start, width |-> width, count |-> count, cumulative |-> cumulative]

RunEnd(r) == r.start + r.count * r.width

(* What the numbers before the i-th come to.                               *)
SumBefore(numbers, i) ==
  LET sum[k \in 0..Len(numbers)] == IF k = 0 THEN 0 ELSE sum[k - 1] + numbers[k]
  IN sum[i - 1]

StartOf(chars, i) == SumBefore(chars, i)
Widths(chars) == StartOf(chars, Len(chars) + 1)
Shortfalls(chars) == [k \in DOMAIN chars |-> ShortfallOfWidth(chars[k])]

Smaller(a, b) == IF a <= b THEN a ELSE b
SaturatingSub(a, b) == IF a <= b THEN 0 ELSE a - b
DivCeil(a, b) == (a + b - 1) \div b

------------------------------------------------------------------------------
(* observe                                                                 *)

(* The shortfall of the runs already dropped or kept.                      *)
Counted(rs) == IF rs = <<>> THEN runsBelowFloor ELSE Last(rs).cumulative

(* record: onto the last run, as a new run, or one entry per unit.         *)
Recorded(ix, start, width, count) ==
  LET short == ShortfallOfWidth(width)
      added == count * short
      extends == ix.runs # <<>> /\ LET last == Last(ix.runs) IN
                   last.width = width /\ RunEnd(last) = start /\ last.count + count <= CountMax
  IN IF extends THEN
       [ix EXCEPT !.runs[Len(ix.runs)].count = @ + count,
                  !.runs[Len(ix.runs)].cumulative = @ + added]
     ELSE IF added >= MIN_RUN_SHORTFALL THEN
       [ix EXCEPT !.runs = Append(@, Run(start, width, count, Counted(@) + added))]
     ELSE
       [ix EXCEPT !.discounts =
          @ \o [k \in 1..added |-> start + ((k - 1) \div short) * width]]

(* The pending run of the loop, if it has characters, is recorded.         *)
Flushed(ix) == IF ix.count = 0 THEN ix ELSE Recorded(ix, ix.start, ix.width, ix.count)

(* A character of the chunk extends the pending run or starts one.         *)
Seen(ix, start, width) ==
  IF width = 1 THEN ix
  ELSE IF /\ ix.count # 0 /\ ix.width = width /\ ix.count < CountMax
          /\ ix.start + ix.count * ix.width = start
    THEN [ix EXCEPT !.count = @ + 1]
  ELSE [Flushed(ix) EXCEPT !.start = start, !.width = width, !.count = 1]

Observed(chunk) ==
  LET upto[i \in 0..Len(chunk)] ==
        IF i = 0 THEN [discounts |-> discounts, runs |-> runs,
                       start |-> 0, width |-> 0, count |-> 0]
        ELSE Seen(upto[i - 1], totalBytes + StartOf(chunk, i), chunk[i])
  IN Flushed(upto[Len(chunk)])

------------------------------------------------------------------------------
(* prune                                                                   *)

(* The first byte still to be asked about.  Mutant: the buffer limit is    *)
(* taken to be one byte more than it leaves.                               *)
FloorTight == SaturatingSub(totalBytes + 1, limit)

Floor == SaturatingSub(totalBytes, limit)

(* How many entries lie below it.                                          *)
Gone == Cardinality({i \in DOMAIN discounts : discounts[i] < Floor})

(* Runs that end below the floor go; the one it lies in is cut at a        *)
(* character.                                                              *)
Pruned ==
  LET below(r) == DivCeil(Floor - r.start, r.width)
      whole == {i \in DOMAIN runs : runs[i].start < Floor /\ below(runs[i]) >= runs[i].count}
      kept == SubSeq(runs, Cardinality(whole) + 1, Len(runs))
      dropped == IF whole = {} THEN runsBelowFloor ELSE runs[Cardinality(whole)].cumulative
      cut == kept # <<>> /\ kept[1].start < Floor
  IN [discounts |-> SubSeq(discounts, Gone + 1, Len(discounts)),
      discountsBelowFloor |-> discountsBelowFloor + Gone,
      runs |-> IF cut THEN [kept EXCEPT ![1].start = @ + below(kept[1]) * kept[1].width,
                                        ![1].count = @ - below(kept[1])]
               ELSE kept,
      runsBelowFloor |-> IF cut THEN dropped + below(kept[1]) * ShortfallOfWidth(kept[1].width)
                         ELSE dropped]

------------------------------------------------------------------------------
(* Conversion.                                                             *)
Started(rs, offset) == Cardinality({i \in DOMAIN rs : rs[i].start < offset})

BeforeRun(rs, below, i) == IF i = 1 THEN below ELSE rs[i - 1].cumulative

InRuns(rs, below, offset) ==
  LET last == Started(rs, offset) IN
  IF last = 0 THEN below
  ELSE BeforeRun(rs, below, last)
         + Smaller(DivCeil(offset - rs[last].start, rs[last].width), rs[last].count)
             * ShortfallOfWidth(rs[last].width)

InDiscounts(ds, below, offset) == below + Cardinality({i \in DOMAIN ds : ds[i] < offset})

ShortfallBefore(offset) ==
  InDiscounts(discounts, discountsBelowFloor, offset) + InRuns(runs, runsBelowFloor, offset)

(* char_offset and code_unit_offset; below the floor they have no answer.  *)
NoOffset == -1

Offset(at) == IF at < floor THEN NoOffset ELSE at - ShortfallBefore(at)

------------------------------------------------------------------------------
(* The session around the core.                                            *)
Appends(chunk) ==
  /\ ~busy /\ ~ended /\ Len(text) + Len(chunk) <= MaxChars
  /\ discounts' = Observed(chunk).discounts /\ runs' = Observed(chunk).runs
  /\ totalBytes' = totalBytes + Widths(chunk)
  /\ text' = text \o chunk /\ busy' = TRUE
  /\ UNCHANGED <<units, limit, open, ended, discountsBelowFloor, runsBelowFloor, floor>>

(* finish(): the core has settled what it reports, and keeps no more than  *)
(* its buffer limit.                                                       *)
Finish ==
  /\ busy
  /\ \E settled \in {StartOf(text, i) : i \in 1..(Len(text) + 1)} :
       settled >= open /\ totalBytes - settled <= limit /\ open' = settled
  /\ discounts' = Pruned.discounts /\ discountsBelowFloor' = Pruned.discountsBelowFloor
  /\ runs' = Pruned.runs /\ runsBelowFloor' = Pruned.runsBelowFloor
  /\ floor' = Floor
  /\ busy' = FALSE
  /\ UNCHANGED <<units, limit, text, ended, totalBytes>>

(* fail(), finish() of finalize, abort(), __exit__ and a refused chunk     *)
(* clear the index.                                                        *)
End ==
  /\ ~ended
  /\ discounts' = <<>> /\ runs' = <<>> /\ discountsBelowFloor' = 0 /\ runsBelowFloor' = 0
  /\ floor' = totalBytes
  /\ ended' = TRUE /\ busy' = FALSE
  /\ UNCHANGED <<units, limit, text, open, totalBytes>>

IndexInit ==
  /\ units \in UnitKinds /\ limit \in BufferLimits
  /\ text = <<>> /\ open = 0 /\ busy = FALSE /\ ended = FALSE
  /\ discounts = <<>> /\ runs = <<>> /\ discountsBelowFloor = 0 /\ runsBelowFloor = 0
  /\ floor = 0 /\ totalBytes = 0

IndexNext == Finish \/ End \/ \E n \in 0..MaxAppend : \E chunk \in [1..n -> 1..4] : Appends(chunk)

IndexSpec == IndexInit /\ [][IndexNext]_indexVars

------------------------------------------------------------------------------
(* Properties.                                                             *)

(* While the session goes on, every character a finding may still begin or *)
(* end at has its exact offset, whatever was joined into runs, cut from    *)
(* them or dropped: a binding's offsets are those into the whole input.    *)
OffsetsAreExact ==
  ~ended => \A i \in 1..(Len(text) + 1) :
    LET at == StartOf(text, i) IN
    at >= open =>
      Offset(at) = at - SumBefore(Shortfalls(text), i)
=============================================================================
