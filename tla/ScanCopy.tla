------------------------------- MODULE ScanCopy --------------------------------
(***************************************************************************)
(* The scan copy of a text (normalize.rs): the text without its invisible  *)
(* code points, and the seams that map a range of it back.  Texts are      *)
(* sequences of bytes and offsets count from 0, as in the source.          *)
(***************************************************************************)
EXTENDS Integers, Sequences, FiniteSets

CONSTANT Invisible     \* bytes of invisible code points

(* strip_removed: what is kept up to each removed run, and one seam per    *)
(* maximal run, behind it.  The leaps over ASCII stretches skip what       *)
(* changes neither.                                                        *)
NewStrip == [text |-> <<>>, seams |-> <<>>, keptFrom |-> 0, inRun |-> FALSE]

WithSeam(strip, offset) ==
  Append(strip.seams, [normalized |-> Len(strip.text), originalAfter |-> offset])

WithKept(strip, input, offset) == strip.text \o SubSeq(input, strip.keptFrom + 1, offset)

Walked(strip, input, offset) ==
  LET removed == input[offset + 1] \in Invisible IN
  IF removed /\ ~strip.inRun THEN
    [strip EXCEPT !.inRun = TRUE, !.text = WithKept(strip, input, offset)]
  ELSE IF ~removed /\ strip.inRun THEN
    [strip EXCEPT !.inRun = FALSE, !.keptFrom = offset, !.seams = WithSeam(strip, offset)]
  ELSE strip

WalkedWhole(input) ==
  LET upto[offset \in 0..Len(input)] ==
        IF offset = 0 THEN NewStrip ELSE Walked(upto[offset - 1], input, offset - 1)
  IN upto[Len(input)]

StripRemoved(input) ==
  LET strip == WalkedWhole(input)
      end == Len(input)
  IN [text |-> IF strip.inRun THEN strip.text ELSE WithKept(strip, input, end),
      seams |-> IF strip.inRun THEN WithSeam(strip, end) ELSE strip.seams]

(* NormalizedInput::text.                                                  *)
Normalized(input) == StripRemoved(input).text

(* partition_point over the seams: how many lie below an offset of the     *)
(* scan copy, how many at most at it, and how many behind an offset of the *)
(* text.                                                                   *)
SeamsBelow(seams, offset) == Cardinality({i \in DOMAIN seams : seams[i].normalized < offset})

SeamsUpTo(seams, offset) == Cardinality({i \in DOMAIN seams : seams[i].normalized <= offset})

RunsBefore(seams, original) ==
  Cardinality({i \in DOMAIN seams : seams[i].originalAfter <= original})

RemovedBefore(seams, count) ==
  IF count = 0 THEN 0 ELSE seams[count].originalAfter - seams[count].normalized

(* Mutant: a run removed just before the first byte is not counted.        *)
TranslateFromRun(seams, start, end) ==
  [start |-> start + RemovedBefore(seams, SeamsBelow(seams, start)),
   end |-> end + RemovedBefore(seams, SeamsBelow(seams, end)),
   containsRun |-> SeamsBelow(seams, end) > SeamsBelow(seams, start)]

Translate(seams, start, end) ==
  [start |-> start + RemovedBefore(seams, SeamsUpTo(seams, start)),
   end |-> end + RemovedBefore(seams, SeamsBelow(seams, end)),
   containsRun |-> SeamsBelow(seams, end) > SeamsUpTo(seams, start)]

ToScannedOffset(seams, original) ==
  original - RemovedBefore(seams, RunsBefore(seams, original))

TouchesRemovedRun(seams, start, end) == SeamsUpTo(seams, end) > SeamsBelow(seams, start)

------------------------------------------------------------------------------
(* What a scan copy is to be, said of the text alone.                      *)

(* Whether a byte is kept, and how many are before an offset.              *)
IsKept(input, k) == input[k] \notin Invisible
KeptBefore(input, offset) == Cardinality({k \in 1..offset : IsKept(input, k)})

(* The bytes that are kept, in their order and no others.                  *)
IsScanCopy(copy, input) ==
  /\ Len(copy) = KeptBefore(input, Len(input))
  /\ \A k \in DOMAIN input : IsKept(input, k) => copy[KeptBefore(input, k)] = input[k]

Loses(input, from, to) == \E k \in DOMAIN input : from < k /\ k <= to /\ ~IsKept(input, k)

(* A range of the copy stands for the bytes of the text it was made of,    *)
(* from the first to the last of them; whether bytes were lost within it   *)
(* or beside it is told apart.                                             *)
RangesStandFor(strip, input) ==
  \A first, last \in {k \in DOMAIN input : IsKept(input, k)} :
    LET start == KeptBefore(input, first - 1)
        end == KeptBefore(input, last)
    IN first <= last =>
         /\ Translate(strip.seams, start, end)
              = [start |-> first - 1, end |-> last, containsRun |-> Loses(input, first, last)]
         /\ TouchesRemovedRun(strip.seams, start, end) = Loses(input, first - 2, last + 1)
===============================================================================
