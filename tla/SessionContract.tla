---------------------------- MODULE SessionContract ----------------------------
(***************************************************************************)
(* What an incremental session rests on: the detectors, the resolution of  *)
(* their overlaps and the hints that say whether a unit is still open.     *)
(* Each is stated over a set of texts: all of Seq(Symbols) in the theorems *)
(* about the session, bounded ones where TLC checks that a detector set    *)
(* meets it.                                                               *)
(***************************************************************************)
EXTENDS IncrementalSession

EndsLine(text) == text # <<>> /\ text[Len(text)] \in Terminators

OneLine(text) == EndsLine(text) /\ LastLineStart(text) = 0

Found(text) == Select(Candidates(text))

Below(ranges, at) == {c \in ranges : c.start < at}
From(ranges, at) == {c \in ranges : c.start >= at}

(* No candidate reaches `at` from below: the test of detect_units.         *)
NoneReaches(ranges, at) == \A c \in ranges : c.start < at => c.end < at

(* The line the session keeps below a released text (lead_after).          *)
Kept(text) == IF CarriesId(LastLine(text)) THEN LastLine(text) ELSE <<>>

------------------------------------------------------------------------------
(* What a validated candidate is (pipeline.rs, validate_candidate).        *)
CandidatesAreRanges(texts) ==
  \A text \in texts :
    /\ IsFiniteSet(Candidates(text))
    /\ Candidates(text) \subseteq [type : Types, start : Nat, end : Nat]
    /\ \A c \in Candidates(text) : c.start < c.end /\ c.end <= Len(text)

(* Overlap resolution keeps disjoint candidates, and where none reaches a  *)
(* position it resolves the two sides by themselves, wherever they lie:    *)
(* what UnitsAreSeparate shows of the code's dynamic program.              *)
SelectionIsLocal(texts) ==
  \A text \in texts :
    LET proposed == Candidates(text) IN
    /\ Found(text) \subseteq proposed
    /\ \A c, d \in Found(text) : c # d => c.end <= d.start \/ d.end <= c.start
    /\ \A at \in 0..Len(text) : NoneReaches(proposed, at) =>
         /\ Found(text) = Select(Below(proposed, at)) \cup Select(From(proposed, at))
         /\ Select(Below(proposed, at)) \subseteq Below(proposed, at)
         /\ Select(From(proposed, at)) \subseteq From(proposed, at)
         /\ \A by \in (-at)..0 :
              Select(MovedAll(From(proposed, at), by))
                = MovedAll(Select(From(proposed, at)), by)

(* A detector that reports a failure does so for something on the text,    *)
(* wherever that text is cut.                                              *)
FailuresAreLocal(texts) ==
  /\ ~DetectorFails(<<>>)
  /\ \A above, below \in texts :
       DetectorFails(above \o below) <=> DetectorFails(above) \/ DetectorFails(below)

(* Whether a line carries an access key ID does not depend on how it ends. *)
IdsAreOfTheLine(texts) ==
  /\ \A line \in texts : CarriesId(line) \in BOOLEAN
  /\ ~CarriesId(<<LF>>)
  /\ \A line \in texts : IsTerminated(line, CR) => CarriesId(line \o <<LF>>) = CarriesId(line)

(* A placeholder reproduces nothing a detector proposes.  No formatter     *)
(* that answers with fixed text of the caller's choice meets this.         *)
PlaceholdersAreNew(texts, numbers) ==
  \A h \in Hosts, number \in numbers, text \in texts :
    \A c \in Candidates(text) :
      ~Occurs(Slice(text, c.start, c.end), Formatted(h, number))

PlaceholdersAreTexts(numbers) ==
  /\ EchoText \in Seq(Range(EchoText))
  /\ \A number \in numbers : PlaceholderText(number) \in Seq(Range(PlaceholderText(number)))

------------------------------------------------------------------------------
(* The text above may be released before the text below is known: no       *)
(* candidate crosses, those above are the ones of the text above alone,    *)
(* and those below are the ones found under the kept line alone.           *)
Separable(above, below) ==
  LET whole == Candidates(above \o below)
      lead == Kept(above)
      under == Candidates(lead \o below)
  IN /\ NoneReaches(whole, Len(above))
     /\ Below(whole, Len(above)) = Candidates(above)
     /\ From(whole, Len(above)) = MovedAll(From(under, Len(lead)), Len(above) - Len(lead))
     /\ NoneReaches(under, Len(lead))

(* ... whatever comes below it, when that begins with `ahead`.             *)
SettledOn(texts, above, ahead) == \A more \in texts : Separable(above, ahead \o more)

(* When append closes a unit below a text whose last line carries an ID or *)
(* not: nothing is open at its end, or only an AWS candidate that the line *)
(* `ahead`, which waits for an ID itself, can not be (JudgeLine).          *)
MayClose(aboveCarriesId, unit, ahead) ==
  /\ EndsLine(unit) /\ ~BlockOpen(unit) /\ ~OpenConstruct(unit)
  /\ \/ ahead = <<>> /\ ~OpenAwsCandidate(unit, aboveCarriesId)
     \/ /\ OneLine(ahead) /\ LastLine(unit \o ahead) = ahead
        /\ ~BlockOpen(unit \o ahead) /\ ~OpenConstruct(unit \o ahead)
        /\ OpenAwsCandidate(unit \o ahead, aboveCarriesId)

(* The hints: a unit that may be closed below settled text settles it too. *)
HintsSettle(texts) ==
  \A unit, ahead, above \in texts :
    /\ MayClose(Kept(above) # <<>>, unit, ahead)
    /\ SettledOn(texts, above, unit \o ahead)
    => SettledOn(texts, above \o unit, ahead)

(* What is open on the last line of a unit alone is open in the unit.      *)
HintsReadTheLastLine(texts) ==
  \A unit \in texts : LastLineStart(unit) > 0 =>
    /\ BlockOpen(LastLine(unit)) => BlockOpen(unit)
    /\ OpenConstruct(LastLine(unit)) => OpenConstruct(unit)

SessionContract(texts, numbers) ==
  /\ CandidatesAreRanges(texts)
  /\ SelectionIsLocal(texts)
  /\ FailuresAreLocal(texts)
  /\ IdsAreOfTheLine(texts)
  /\ AwsCandidateIsOfItsLine(texts)
  /\ PlaceholdersAreNew(texts, numbers)
  /\ PlaceholdersAreTexts(numbers)
  /\ HintsSettle(texts)
  /\ HintsReadTheLastLine(texts)
==============================================================================
