------------------------------- MODULE UnitView --------------------------------
(***************************************************************************)
(* What a session keeps of the unit it retains besides its bytes           *)
(* (incremental.rs): the scan copy, grown piece by piece, the tracker of   *)
(* private-key delimiters, and the last answer to whether the end of the   *)
(* unit can still be continued.  Each is to say what a look at the whole   *)
(* unit would, wherever the caller cuts the text.                          *)
(*                                                                         *)
(* A byte is "n", a line feed; " ", a space; "z", of an invisible code     *)
(* point; "p" and "w", which make a high-signal name together; "="; "-",   *)
(* "b", "e" and labels, of delimiters; "V", of an encoded body.            *)
(***************************************************************************)
EXTENDS ScanCopy, PemDelimiters

CONSTANT
  Appends        \* texts that may be appended, at most a line each, and how long
                 \* the text may get: a bound of the model

(* What is asked of the constants: pieces are sequences of bytes, Nowhere  *)
(* is none, and a line feed is not invisible (normalize.rs:12-14).         *)
AllBytes == UNION {Range(piece) : piece \in UNION {a.pieces : a \in Appends}}

ViewConstants ==
  /\ \A a \in Appends : \A piece \in a.pieces : piece \in Seq(AllBytes) \ {<<>>}
  /\ Nowhere \notin Seq(AllBytes)
  /\ "n" \notin Invisible
  /\ DelimiterConstants

VARIABLES
  appends,       \* the member of Appends of this behaviour
  fed,           \* what was appended, all of it
  unitStart,     \* where the current unit begins in it
  unitEnds,      \* where the units before it end
  scanned,       \* the unit's scan copy, or Nowhere: as the unit itself
  tracker,       \* private_key
  openTail,      \* the length judged and the answer
  judged,        \* the answers at the last line end, and the unit they are about
  finished

viewVars == <<appends, fed, unitStart, unitEnds, scanned, tracker, openTail, judged, finished>>

Unit == SubSeq(fed, unitStart + 1, Len(fed))
CopyOf(copy, unit) == IF copy = Nowhere THEN unit ELSE copy

------------------------------------------------------------------------------
Whitespace == {" ", "n"}

(* Where a text ends but for white space.                                  *)
SolidEnd(bytes) ==
  LET solid == {k \in DOMAIN bytes : bytes[k] \notin Whitespace} IN
  IF solid = {} THEN 0 ELSE Max(solid)

(* has_open_contextual_assignment: a high-signal name ends the text, or an *)
(* operator behind one.                                                    *)
HasOpenAssignment(bytes) ==
  LET end == SolidEnd(bytes)
      name == IF end > 0 /\ bytes[end] = "="
                THEN SolidEnd(SubSeq(bytes, 1, end - 1)) ELSE end
  IN /\ name >= 2 /\ bytes[name - 1] = "p" /\ bytes[name] = "w"
     /\ name > 2 => bytes[name - 2] \notin {"p", "w", "V"}

(* is_open_tail_neutral.  Mutant: an operator is taken for neutral, too.   *)
IsNeutralOrOperator(appended) == Range(appended) \subseteq Whitespace \cup {"="}

IsOpenTailNeutral(appended) == Range(appended) \subseteq Whitespace

(* has_open_single_line_construct: the last answer is used again when only *)
(* white space came since.                                                 *)
JudgeTail(tail, copy) ==
  [checked |-> Len(copy),
   open |-> IF IsOpenTailNeutral(SubSeq(copy, tail.checked + 1, Len(copy)))
              THEN tail.open ELSE HasOpenAssignment(copy)]

NewTail == [checked |-> 0, open |-> FALSE]

(* append_retained: the copy stays the unit itself until a piece loses     *)
(* bytes.                                                                  *)
Grown(copy, unit, piece) ==
  IF copy # Nowhere THEN copy \o Normalized(piece)
  ELSE IF Normalized(piece) # piece THEN unit \o Normalized(piece)
  ELSE Nowhere

------------------------------------------------------------------------------
ViewInit ==
  /\ appends \in Appends
  /\ fed = <<>> /\ unitStart = 0 /\ unitEnds = <<>>
  /\ scanned = Nowhere /\ tracker = NewTracker /\ openTail = NewTail
  /\ judged = Nowhere /\ finished = FALSE

(* reset_unit_state, as the unit closes at the end of what was appended.   *)
ResetUnitState == scanned' = Nowhere /\ tracker' = NewTracker /\ openTail' = NewTail

(* What append does of a piece: it is retained, with the scan copy and the *)
(* tracker it leaves; at a line end the unit is judged, its                *)
(* tail only when no block is open, and closes unless it is held.          *)
Retain(piece, copy, tracked) ==
  LET unit == Unit \o piece
      tail == JudgeTail(openTail, CopyOf(copy, unit))
      block == HasOpenBlock(tracked)
  IN IF Last(piece) # "n" THEN
       /\ scanned' = copy /\ tracker' = tracked
       /\ UNCHANGED <<unitStart, unitEnds, openTail, judged>>
     ELSE
       /\ judged' = [unit |-> unit, hasBegin |-> tracked.state.hasBegin, block |-> block,
                     tail |-> IF block THEN Nowhere ELSE tail.open]
       /\ IF block \/ tail.open
            THEN /\ scanned' = copy /\ tracker' = tracked
                 /\ openTail' = IF block THEN openTail ELSE tail
                 /\ UNCHANGED <<unitStart, unitEnds>>
            ELSE /\ ResetUnitState
                 /\ unitStart' = Len(fed') /\ unitEnds' = Append(unitEnds, Len(fed'))

AppendPiece(piece) ==
  /\ ~finished
  /\ Len(fed) + Len(piece) <= appends.length
  /\ fed' = fed \o piece
  /\ Retain(piece, Grown(scanned, Unit, piece), Tracked(tracker, Normalized(piece)))
  /\ UNCHANGED <<appends, finished>>

(* finalize: the end of the text closes the last unit.                     *)
Finalize ==
  /\ ~finished
  /\ finished' = TRUE
  /\ unitEnds' = Append(unitEnds, Len(fed)) /\ unitStart' = Len(fed)
  /\ ResetUnitState
  /\ UNCHANGED <<appends, fed, judged>>

ViewNext == (\E piece \in appends.pieces : AppendPiece(piece)) \/ Finalize

ViewSpec == ViewInit /\ [][ViewNext]_viewVars

------------------------------------------------------------------------------
(* What a scan finds of private keys.                                      *)

HasEncodedBody(bytes, span) ==
  \E at \in span.body..(span.footer - 1) : bytes[at + 1] = "V"

(* PrivateKeyDetector::detect, over the scan copy and moved back.          *)
PrivateKeys(input) ==
  LET strip == StripRemoved(input)
      parsed == Parsed(strip.text)
      spans == {<<s.start, s.end>> :
                  s \in {s \in Range(parsed.spans) :
                           s.malformed \/ HasEncodedBody(strip.text, s)}}
      rest == IF parsed.stack # <<>> /\ parsed.malformed
                THEN {<<parsed.outerStart, Len(strip.text)>>} ELSE {}
      moved(s) == LET range == Translate(strip.seams, s[1], s[2])
                  IN <<range.start, range.end>>
  IN {moved(s) : s \in spans \cup rest}

(* Units are scanned one by one.                                           *)
Found ==
  UNION {LET from == IF k = 1 THEN 0 ELSE unitEnds[k - 1]
         IN {<<from + s[1], from + s[2]>> :
               s \in PrivateKeys(SubSeq(fed, from + 1, unitEnds[k]))} :
         k \in DOMAIN unitEnds}

------------------------------------------------------------------------------
(* Properties.                                                             *)

(* No delimiter begins with the dashes another ends with.                  *)
DashesAreNotShared(bytes) ==
  LET all == UNION {DelimitersAt(bytes, at) : at \in 0..(Len(bytes) - 1)}
  IN ~\E d, e \in all : d.start < e.start /\ e.start < d.end

(* The copy that grew piece by piece is the one made of the whole unit.    *)
CopyIsWhole == CopyOf(scanned, Unit) = Normalized(Unit)

TailJudgedAsWhole ==
  judged # Nowhere /\ judged.tail # Nowhere =>
    judged.tail = HasOpenAssignment(Normalized(judged.unit))

BlockJudgedAsWhole ==
  judged # Nowhere /\ DashesAreNotShared(Normalized(judged.unit)) =>
    LET parsed == Parsed(Normalized(judged.unit)) IN
    /\ judged.block = (parsed.stack # <<>>)
    /\ judged.hasBegin = parsed.hasBegin

(* The unit is judged as one look at all of it would judge it, wherever    *)
(* the pieces were cut: names and delimiters split by a cut or by an       *)
(* invisible code point are seen once each, and no answer is stale         *)
(* (incremental.rs:966-976).  Delimiters that share dashes are another     *)
(* matter, see FindingsIgnoreCuts.                                         *)
JudgedAsWhole == CopyIsWhole /\ TailJudgedAsWhole /\ BlockJudgedAsWhole

(* A range of the scan copy stands for the bytes of the text it was made   *)
(* of, from the first to the last of them; whether bytes were lost within  *)
(* it or beside it is told apart; and the ends of units split the scan     *)
(* copy of a batch into those of its units (normalize.rs:216-226).         *)
RangesMoveBack ==
  LET strip == StripRemoved(fed) IN
  /\ IsScanCopy(strip.text, fed)
  /\ RangesStandFor(strip, fed)
  /\ \A k \in DOMAIN unitEnds :
       ToScannedOffset(strip.seams, unitEnds[k]) = KeptBefore(fed, unitEnds[k])

(* For every input the findings are those of a scan of the whole text, at  *)
(* every partition of it (incremental.rs:23-26).                           *)
FindingsIgnoreCuts == finished => Found = PrivateKeys(fed)
===============================================================================
