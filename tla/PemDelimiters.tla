----------------------------- MODULE PemDelimiters -----------------------------
(***************************************************************************)
(* How the delimiters of a private key are found in a text, and tracked in *)
(* one that arrives in pieces (detectors/private_key.rs).  A delimiter is  *)
(* a run of dashes, "b" for BEGIN or "e" for END, a label and a run of     *)
(* dashes again, which the next one may begin with.  Texts are sequences   *)
(* of bytes and offsets count from 0, as in the source.                    *)
(***************************************************************************)
EXTENDS Integers, Sequences, SequencesExt, FiniteSetsExt

CONSTANTS
  DashRun,       \* the length of DASH_RUN
  ProbeBytes,    \* DELIMITER_PROBE_BYTES
  Labels,        \* LABELS: a set of sequences of bytes
  Nowhere

(* What is asked of them: dashes and labels are told apart, and one of the *)
(* labels is the longest (private_key.rs:20-38).                           *)
DelimiterConstants ==
  /\ DashRun \in Nat \ {0} /\ ProbeBytes \in Nat
  /\ \A label \in Labels : label \in Seq(Range(label)) /\ "-" \notin Range(label)
  /\ \E label \in Labels : \A other \in Labels : Len(other) <= Len(label)
  /\ Nowhere \notin Nat

Lesser(a, b) == IF a < b THEN a ELSE b
FirstOr(offsets, other) == IF offsets = {} THEN other ELSE Min(offsets)

Dashes == [k \in 1..DashRun |-> "-"]
StartsWith(bytes, at, literal) ==
  SubSeq(bytes, at + 1, Lesser(at + Len(literal), Len(bytes))) = literal

MAX_DELIMITER_LEN == 2 * DashRun + 1 + Max({Len(label) : label \in Labels})

------------------------------------------------------------------------------
(* The search for a run of dashes: every byte of a short probe, then every *)
(* DashRun-th byte, and left and right of a dash found there.              *)
NextDashRunStrided(bytes, from) ==
  LET sampled == {at \in {from + n * DashRun - 1 : n \in 1..Len(bytes)} :
                    at < Len(bytes) /\ bytes[at + 1] = "-"}
      dashes(a, b) == \A at \in a..b : bytes[at + 1] = "-"
      start(at) == Min({a \in from..at : dashes(a, at)})
      end(at) == Max({b \in at..(Len(bytes) - 1) : dashes(at, b)}) + 1
  IN FirstOr({start(at) : at \in {at \in sampled : end(at) - start(at) >= DashRun}}, Nowhere)

NextDashRun(bytes, from) ==
  LET probe == Lesser(from + ProbeBytes, Len(bytes))
  IN FirstOr({at \in from..(probe - 1) : StartsWith(bytes, at, Dashes)},
             NextDashRunStrided(bytes, probe))

(* The delimiters that start at an offset: at most one.                    *)
DelimitersAt(bytes, at) ==
  {delimiter \in
     {[kind |-> kind, label |-> label, start |-> at, end |-> at + 2 * DashRun + 1 + Len(label)] :
        kind \in {"b", "e"}, label \in Labels} :
     StartsWith(bytes, at, Dashes \o <<delimiter.kind>> \o delimiter.label \o Dashes)}

FindNextDelimiter(bytes, from) ==
  LET search[at \in 0..(Len(bytes) + 1)] ==
        LET try(run) ==
              IF run = Nowhere THEN {}
              ELSE IF DelimitersAt(bytes, run) # {} THEN DelimitersAt(bytes, run)
              ELSE search[run + 1]
        IN try(NextDashRun(bytes, at))
  IN search[from]

------------------------------------------------------------------------------
(* The delimiter stack.                                                    *)
NewState ==
  [stack |-> <<>>, hasBegin |-> FALSE, malformed |-> FALSE,
   outerStart |-> Nowhere, outerBody |-> Nowhere, spans |-> <<>>]

ProcessDelimiter(state, delimiter) ==
  IF delimiter.kind = "b" THEN
    LET outer == state.stack = <<>> IN
    [state EXCEPT !.hasBegin = TRUE, !.malformed = @ \/ ~outer,
                  !.stack = Append(@, delimiter.label),
                  !.outerStart = IF outer THEN delimiter.start ELSE @,
                  !.outerBody = IF outer THEN delimiter.end ELSE @]
  ELSE IF state.stack = <<>> THEN state
  ELSE IF Last(state.stack) # delimiter.label THEN [state EXCEPT !.malformed = TRUE]
  ELSE IF Len(state.stack) > 1 THEN [state EXCEPT !.stack = Front(@)]
  ELSE [state EXCEPT
          !.stack = <<>>, !.malformed = FALSE,
          !.outerStart = Nowhere, !.outerBody = Nowhere,
          !.spans = Append(@, [start |-> state.outerStart, body |-> state.outerBody,
                               footer |-> delimiter.start, end |-> delimiter.end,
                               malformed |-> state.malformed])]

(* scan_delimiters: each is searched for behind the one before, and those  *)
(* accounted for already are skipped.                                      *)
Scanning(bytes, position, state) ==
  [position |-> position, state |-> state, next |-> FindNextDelimiter(bytes, position)]

Moved(delimiter, by) ==
  [kind |-> delimiter.kind, label |-> delimiter.label,
   start |-> by + delimiter.start, end |-> by + delimiter.end]

ScanOne(bytes, scan, processed, offset) ==
  LET delimiter == CHOOSE d \in scan.next : TRUE
      absolute == Moved(delimiter, offset)
  IN IF scan.next = {} THEN scan
     ELSE Scanning(bytes, delimiter.end,
            IF absolute.end <= processed THEN scan.state
            ELSE ProcessDelimiter(scan.state, absolute))

ScanDelimiters(bytes, from, state, processed, offset) ==
  LET after[n \in 0..Len(bytes)] ==
        IF n = 0 THEN Scanning(bytes, from, state)
        ELSE ScanOne(bytes, after[n - 1], processed, offset)
  IN after[Len(bytes)]

(* What PrivateKeyDetector::detect reads of a text, in one such scan.      *)
Parsed(bytes) == ScanDelimiters(bytes, 0, NewState, 0, 0).state

------------------------------------------------------------------------------
(* PrivateKeyRetentionTracker.                                             *)
NewTracker == [state |-> NewState, processed |-> 0, lookbehind |-> <<>>]

ByteSuffix(bytes, length) == SubSeq(bytes, Len(bytes) - Lesser(length, Len(bytes)) + 1, Len(bytes))

(* The suffix a delimiter may begin in, from its first dash.  Mutant: one  *)
(* byte less.                                                              *)
FromFirstDash(suffix) ==
  LET dashes == {k \in DOMAIN suffix : suffix[k] = "-"} IN
  IF dashes = {} THEN <<>> ELSE SubSeq(suffix, Min(dashes), Len(suffix))

LookbehindShort(bytes) == FromFirstDash(ByteSuffix(bytes, MAX_DELIMITER_LEN - 2))

Lookbehind(bytes) == FromFirstDash(ByteSuffix(bytes, MAX_DELIMITER_LEN - 1))

(* append: a delimiter that crosses into the piece begins in the           *)
(* lookbehind, and what a whole delimiter can reach of the piece is        *)
(* scanned joined to it; the rest in place, from where that scan ended.    *)
Tracked(tracker, piece) ==
  LET behind == Len(tracker.lookbehind)
      processed == tracker.processed
      head == Lesser(Len(piece), MAX_DELIMITER_LEN - 1)
      join == tracker.lookbehind \o SubSeq(piece, 1, head)
      after(state, bytes) ==
        [state |-> state, processed |-> processed + Len(piece), lookbehind |-> Lookbehind(bytes)]
      alone(from, state) == after(ScanDelimiters(piece, from, state, processed, processed).state,
                                  piece)
      across(junction) ==
        IF head = Len(piece) THEN after(junction.state, join)
        ELSE alone(IF junction.position > behind THEN junction.position - behind ELSE 0,
                   junction.state)
  IN IF behind = 0 THEN alone(0, tracker.state)
     ELSE across(ScanDelimiters(join, 0, tracker.state, processed, processed - behind))

HasOpenBlock(tracker) == tracker.state.stack # <<>>
===============================================================================
