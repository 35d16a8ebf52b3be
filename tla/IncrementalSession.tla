-------------------------- MODULE IncrementalSession --------------------------
(***************************************************************************)
(* The bounded incremental sanitizer session (incremental.rs).             *)
(*                                                                         *)
(* A session buffers text until a unit of it, one line or several, can no  *)
(* longer be affected by what follows.  Closed units wait in a batch, are  *)
(* detected together when that is safe, and are then finalized one by one. *)
(* The released line above the batch is kept as a read-only lead while a   *)
(* detector may read it from the next unit.                                *)
(*                                                                         *)
(* `session` is the Rust struct; the helpers map a session to a session,   *)
(* as the &mut self methods do, and report through its field `error`.      *)
(* An append is a loop over the lines of its chunk, unrolled here into one *)
(* step per line: &mut self lets no other call in between.  The buffers    *)
(* that only cache (scanned, open_tail) are functions of the unit and are  *)
(* left out.                                                               *)
(***************************************************************************)
EXTENDS ScanReference

CONSTANTS
  Symbols,              \* what texts are made of
  LF, CR,               \* the two line terminators
  MaxInputBytes, MaxBufferedBytes, MaxTokenBytes, MaxMultilineBytes,
  Lookaround,           \* LOOKAROUND_BYTES
  CarriesId(_),         \* line -> an AWS access key ID is on it
  OpenConstruct(_),     \* unit -> a construct other than the next is open
  OpenAwsCandidate(_, _), \* unit, above -> its last line waits for an ID below
  Continues(_),         \* unit -> a detector may read it as a continuation
  SeesBegin(_),         \* unit -> the private-key tracker has seen a BEGIN
  BlockOpen(_),         \* unit -> ... and its delimiter stack is not empty
  Chunks(_)             \* text so far -> what the caller may append to it

(* IncrementalLimits::new.                                                 *)
ASSUME LimitsAssumption ==
  /\ {MaxInputBytes, MaxTokenBytes, MaxMultilineBytes} \subseteq Nat \ {0}
  /\ Lookaround \in Nat \ {0} /\ MaxBufferedBytes \in Nat
  /\ MaxTokenBytes <= MaxInputBytes /\ MaxMultilineBytes <= MaxInputBytes
  /\ MaxBufferedBytes >= MaxTokenBytes + Lookaround
  /\ MaxBufferedBytes >= MaxMultilineBytes + Lookaround

ASSUME TerminatorAssumption == {LF, CR} \subseteq Symbols /\ LF # CR

VARIABLES
  session,    \* the struct
  host,       \* the policy and formatter captured at construction
  rest,       \* what the running append has not read yet
  running,    \* whether an append is running
  fed,        \* history: all text passed to an append that was not refused
  output,     \* history: the text of all results
  findings,   \* history: the findings of all results
  result,     \* what the last call returned: "ok" or an error code
  failedUnit  \* history: where the unit began that was open at the failure

vars == <<session, host, rest, running, fed, output, findings, result, failedUnit>>

NoLine == -1

Fresh ==
  [state |-> "accepting", retained |-> <<>>, leadLen |-> 0, unitStart |-> 0,
   unitEnds |-> <<>>, awsHeldLine |-> NoLine, multilineOpen |-> FALSE,
   multilineDetected |-> FALSE, finalizedBytes |-> 0, totalInputBytes |-> 0,
   findingCount |-> 0, placeholderCount |-> 0,
   text |-> <<>>, found |-> {}, error |-> "none"]

------------------------------------------------------------------------------
(* Lines.  A line ends with \n, \r\n or a lone \r, terminator included.    *)
Terminators == {LF, CR}

IsTerminated(text, by) == text # <<>> /\ text[Len(text)] = by

WithoutLast(text, by) ==
  IF IsTerminated(text, by) THEN SubSeq(text, 1, Len(text) - 1) ELSE text

LastLineStart(text) ==
  LET body == WithoutLast(WithoutLast(text, LF), CR)
      breaks == {i \in 1..Len(body) : body[i] \in Terminators}
  IN IF breaks = {} THEN 0 ELSE Max(breaks)

LastLine(text) == Slice(text, LastLineStart(text), Len(text))

LinesBeforeLast(text) == Slice(text, 0, LastLineStart(text))

(* What has_open_aws_secret_candidate_line_in reads (aws.rs:335-354): the  *)
(* last line, in which an empty one has no run, and whether an ID is on    *)
(* the line above it, be it of the unit or not.                            *)
AwsCandidateIsOfItsLine(texts) ==
  /\ \A line \in texts : CarriesId(line) \in BOOLEAN
  /\ \A above \in BOOLEAN : ~OpenAwsCandidate(<<LF>>, above)
  /\ \A unit \in texts, above \in BOOLEAN :
       LastLineStart(unit) > 0 /\ OpenAwsCandidate(unit, above) =>
         OpenAwsCandidate(LastLine(unit), CarriesId(LastLine(LinesBeforeLast(unit))))

------------------------------------------------------------------------------
(* The current unit, the batch and the line above the unit.                *)
Unit(s) == Slice(s.retained, s.unitStart, Len(s.retained))

UnitFrom(s, k) == IF k = 1 THEN s.leadLen ELSE s.unitEnds[k - 1]

Batch(s) == Slice(s.retained, s.leadLen, s.unitStart)

(* The text is only the \n of a CRLF pair whose \r closed the lead.        *)
CompletesLead(s, text) ==
  s.leadLen > 0 /\ s.retained[s.leadLen] = CR /\ text = <<LF>>

(* Mutant: the \n of a split CRLF is taken for a line of its own.          *)
LineAboveIgnoringCrlf(s) ==
  LET above == Batch(s) IN
  IF above = <<>> THEN s.leadLen > 0 ELSE CarriesId(LastLine(above))

LineAboveCarriesId(s) ==
  LET above == Batch(s) IN
  IF above = <<>> \/ CompletesLead(s, above)
    THEN s.leadLen > 0
    ELSE CarriesId(LastLine(above))

(* Mutant: no line is kept for the unit below it.                          *)
LeadAfterNothing(text) == 0

(* The length of the last line when the next unit is scanned below it.     *)
LeadAfter(text) ==
  IF CarriesId(LastLine(text)) THEN Len(LastLine(text)) ELSE 0

ResetUnitState(s) ==
  [s EXCEPT !.awsHeldLine = NoLine, !.multilineOpen = FALSE, !.multilineDetected = FALSE]

(* Mutants: a terminal transition forgets the lead; or the unit state.     *)
DiscardRetainedButLead(s) ==
  ResetUnitState([s EXCEPT !.retained = <<>>, !.unitStart = 0, !.unitEnds = <<>>])

DiscardTextAlone(s) ==
  [s EXCEPT !.retained = <<>>, !.leadLen = 0, !.unitStart = 0, !.unitEnds = <<>>]

DiscardRetained(s) ==
  ResetUnitState([s EXCEPT !.retained = <<>>, !.leadLen = 0, !.unitStart = 0,
                           !.unitEnds = <<>>])

------------------------------------------------------------------------------
(* flush_batch.                                                            *)

(* The whole batch at once, below its lead: only when there is something   *)
(* to gain, and only if it is separable and no detector fails.             *)
DetectBatch(s) ==
  IF Len(s.unitEnds) > 1 \/ s.leadLen > 0
    THEN DetectUnits(Slice(s.retained, 0, s.unitStart), s.leadLen,
                     Range(s.unitEnds) \cup ({s.leadLen} \ {0}))
    ELSE [status |-> "inseparable", found |-> {}]

(* One unit below its own lead; without the lead if a candidate crosses    *)
(* from it into the unit.                                                  *)
UnlessInseparable(below, text, lead) ==
  IF lead > 0 /\ below.status # "inseparable"
    THEN below
    ELSE DetectUnits(Slice(text, lead, Len(text)), 0, {})

DetectAfter(text, lead) == UnlessInseparable(DetectUnits(text, lead, {lead}), text, lead)

DetectAlone(s, k) ==
  LET from == UnitFrom(s, k)
      leadFrom == IF k = 1 THEN 0
                  ELSE from - LeadAfter(Slice(s.retained, UnitFrom(s, k - 1), from))
  IN DetectAfter(Slice(s.retained, leadFrom, s.unitEnds[k]), from - leadFrom)

(* The ranges found in the batch's k-th unit, in session coordinates, when *)
(* the batch as a whole was answered with `batched`.                       *)
UnitDetection(s, k, batched) ==
  LET from == UnitFrom(s, k) - s.leadLen
      to == s.unitEnds[k] - s.leadLen
  IN IF batched.status = "ok"
       THEN [batched EXCEPT !.found =
               MovedAll({r \in @ : from <= r.start /\ r.start < to}, s.finalizedBytes)]
       ELSE [DetectAlone(s, k) EXCEPT !.found = MovedAll(@, s.finalizedBytes + from)]

Detections(s, batched) ==
  [k \in 1..Len(s.unitEnds) |-> UnitDetection(s, k, batched)]

BatchFindings(s, detected) ==
  Finalized(host, UNION {detected[k].found : k \in DOMAIN detected}, s.findingCount)

Replaced(findingSet) == {f \in findingSet : Replaces(f)}

(* finalize_unit hands redaction the unit's text with the unit's findings. *)
UnitText(s, k) == Slice(s.retained, UnitFrom(s, k), s.unitEnds[k])

UnitOffset(s, k) == s.finalizedBytes + UnitFrom(s, k) - s.leadLen

UnitFindings(s, k, detected) ==
  {f \in BatchFindings(s, detected) : \E r \in detected[k].found : r.start = f.start}

PlaceholdersBefore(s, k, detected) ==
  s.placeholderCount
    + Cardinality({f \in Replaced(BatchFindings(s, detected)) : f.start < UnitOffset(s, k)})

UnitError(s, k, detected) ==
  IF detected[k].status = "failed" THEN "DetectorFailure"
  ELSE IF PolicyFails(host, detected[k].found) THEN "PolicyFailure"
  ELSE RedactError(host, UnitText(s, k),
                   MovedAll(UnitFindings(s, k, detected), -UnitOffset(s, k)),
                   PlaceholdersBefore(s, k, detected))

UnitRedacted(s, k, detected) ==
  Redacted(host, UnitText(s, k), MovedAll(UnitFindings(s, k, detected), -UnitOffset(s, k)),
           PlaceholdersBefore(s, k, detected))

(* Units are finalized in order: the first that fails is reported.         *)
BatchError(s, detected) ==
  LET failing == {k \in 1..Len(s.unitEnds) : UnitError(s, k, detected) # "none"} IN
  IF failing = {} THEN "none" ELSE UnitError(s, Min(failing), detected)

BatchText(s, detected) ==
  FlattenSeq([k \in 1..Len(s.unitEnds) |-> UnitRedacted(s, k, detected)])

(* Where the next lead starts; it ends where the batch does.               *)
KeepFrom(s) ==
  IF CompletesLead(s, Batch(s)) THEN 0 ELSE s.unitStart - LeadAfter(Batch(s))

(* Mutant: the lead is counted as finalized a second time.                 *)
FinalizeUnitsCountingLead(s, detected) ==
  IF BatchError(s, detected) # "none" THEN [s EXCEPT !.error = BatchError(s, detected)]
  ELSE [s EXCEPT !.retained = Slice(@, KeepFrom(s), Len(@)),
                 !.leadLen = s.unitStart - KeepFrom(s),
                 !.unitStart = s.unitStart - KeepFrom(s),
                 !.unitEnds = <<>>,
                 !.finalizedBytes = @ + s.unitStart,
                 !.findingCount = @ + Cardinality(BatchFindings(s, detected)),
                 !.placeholderCount = @ + Cardinality(Replaced(BatchFindings(s, detected))),
                 !.text = @ \o BatchText(s, detected),
                 !.found = @ \cup BatchFindings(s, detected)]

FinalizeUnits(s, detected) ==
  IF BatchError(s, detected) # "none" THEN [s EXCEPT !.error = BatchError(s, detected)]
  ELSE [s EXCEPT !.retained = Slice(@, KeepFrom(s), Len(@)),
                 !.leadLen = s.unitStart - KeepFrom(s),
                 !.unitStart = s.unitStart - KeepFrom(s),
                 !.unitEnds = <<>>,
                 !.finalizedBytes = @ + s.unitStart - s.leadLen,
                 !.findingCount = @ + Cardinality(BatchFindings(s, detected)),
                 !.placeholderCount = @ + Cardinality(Replaced(BatchFindings(s, detected))),
                 !.text = @ \o BatchText(s, detected),
                 !.found = @ \cup BatchFindings(s, detected)]

FlushBatch(s) ==
  IF s.unitEnds = <<>> THEN s ELSE FinalizeUnits(s, Detections(s, DetectBatch(s)))

------------------------------------------------------------------------------
(* append_retained: the limits are measured on the current unit alone, and *)
(* units closed before it are finalized before any of them is reported.    *)
(* Mutant: the released lead is measured as buffered input.                *)
ExceededWithLead(s, closesLine) ==
  LET unitLength == Len(s.retained) - s.unitStart
      openLength == IF closesLine THEN unitLength - 1 ELSE unitLength
  IN IF s.multilineDetected /\ openLength > MaxMultilineBytes THEN "MultilineLimitExceeded"
     ELSE IF ~s.multilineDetected /\ openLength > MaxTokenBytes THEN "TokenLimitExceeded"
     ELSE IF Len(s.retained) > MaxBufferedBytes THEN "BufferLimitExceeded"
     ELSE "none"

Exceeded(s, closesLine) ==
  LET unitLength == Len(s.retained) - s.unitStart
      openLength == IF closesLine THEN unitLength - 1 ELSE unitLength
  IN IF s.multilineDetected /\ openLength > MaxMultilineBytes THEN "MultilineLimitExceeded"
     ELSE IF ~s.multilineDetected /\ openLength > MaxTokenBytes THEN "TokenLimitExceeded"
     ELSE IF unitLength > MaxBufferedBytes THEN "BufferLimitExceeded"
     ELSE "none"

(* Mutant: closed units stay in the buffer until the append returns.       *)
MakeNoRoom(s, piece) == s

MakeRoom(s, piece) ==
  IF s.unitEnds # <<>> /\ Len(s.retained) - s.leadLen + Len(piece) > MaxBufferedBytes
    THEN FlushBatch(s)
    ELSE s

(* Mutant: a block stays open once it was opened.                          *)
PushStickyBlock(s, piece) ==
  LET unit == Unit(s) \o piece IN
  [s EXCEPT !.retained = @ \o piece,
            !.multilineDetected = @ \/ SeesBegin(unit),
            !.multilineOpen = @ \/ BlockOpen(unit)]

Push(s, piece) ==
  LET unit == Unit(s) \o piece IN
  [s EXCEPT !.retained = @ \o piece,
            !.multilineDetected = @ \/ SeesBegin(unit),
            !.multilineOpen = BlockOpen(unit)]

(* Mutant: a limit is reported without finalizing the closed units first.  *)
EnforceLimitsAtOnce(s, closesLine) == [s EXCEPT !.error = Exceeded(s, closesLine)]

(* Here and below, a session whose last step failed is returned as it is:  *)
(* the ? operator of the source.                                           *)
ReportUnlessFailed(s, code) ==
  IF s.error # "none" THEN s ELSE [s EXCEPT !.error = code]

EnforceLimits(s, closesLine) ==
  IF Exceeded(s, closesLine) = "none" THEN s
  ELSE ReportUnlessFailed(FlushBatch(s), Exceeded(s, closesLine))

PushAndEnforce(s, piece, closesLine) ==
  IF s.error # "none" THEN s ELSE EnforceLimits(Push(s, piece), closesLine)

AppendRetained(s, piece, closesLine) ==
  PushAndEnforce(MakeRoom(s, piece), piece, closesLine)

(* close_unit: a unit that may continue the text before it starts a batch. *)
SeparateBatch(s) ==
  IF s.unitEnds # <<>> /\ Continues(Unit(s)) THEN FlushBatch(s) ELSE s

StartNextUnit(s) ==
  IF s.error # "none" THEN s
  ELSE ResetUnitState([s EXCEPT !.unitEnds = Append(@, Len(s.retained)),
                                !.unitStart = Len(s.retained)])

CloseUnit(s) == StartNextUnit(SeparateBatch(s))

(* split_before_last_line: the line held for an ID below it is settled.    *)
AppendHeldLine(s, line) ==
  IF s.error # "none" THEN s ELSE AppendRetained(s, line, TRUE)

SplitBeforeLastLine(s) ==
  LET from == s.unitStart + LastLineStart(Unit(s)) IN
  AppendHeldLine(CloseUnit([s EXCEPT !.retained = Slice(@, 0, from)]),
                 Slice(s.retained, from, Len(s.retained)))

(* The line is kept when it is only an AWS candidate that holds the unit.  *)
HoldLine(s, waits) ==
  IF s.error # "none" THEN s
  ELSE [s EXCEPT !.awsHeldLine = IF waits THEN LastLineStart(Unit(s)) ELSE NoLine]

(* Mutant: a held line is never settled by the next candidate line.        *)
JudgeLineWithoutSplit(s) ==
  LET other == OpenConstruct(Unit(s))
      aws == OpenAwsCandidate(Unit(s), LineAboveCarriesId(s))
  IN HoldLine(IF ~other /\ ~aws THEN CloseUnit(s) ELSE s, ~other /\ aws)

(* Mutant: only the AWS hold keeps a unit open.                            *)
JudgeLineIgnoringConstructs(s) ==
  LET aws == OpenAwsCandidate(Unit(s), LineAboveCarriesId(s))
      lineStart == LastLineStart(Unit(s))
  IN HoldLine(IF ~aws THEN CloseUnit(s)
              ELSE IF s.awsHeldLine \notin {NoLine, lineStart} THEN SplitBeforeLastLine(s)
              ELSE s,
              aws)

(* What append does with a line it has just closed.                        *)
JudgeLine(s) ==
  LET other == OpenConstruct(Unit(s))
      aws == OpenAwsCandidate(Unit(s), LineAboveCarriesId(s))
      lineStart == LastLineStart(Unit(s))
  IN HoldLine(IF ~other /\ ~aws THEN CloseUnit(s)
              ELSE IF ~other /\ s.awsHeldLine \notin {NoLine, lineStart}
                THEN SplitBeforeLastLine(s)
              ELSE s,
              ~other /\ aws)

(* Mutant: a line inside an open block is judged like any other.           *)
JudgeClosedLineIgnoringBlock(s, closesLine) ==
  IF s.error # "none" \/ ~closesLine THEN s ELSE JudgeLine(s)

JudgeClosedLine(s, closesLine) ==
  IF s.error # "none" \/ ~closesLine THEN s
  ELSE IF s.multilineOpen THEN [s EXCEPT !.awsHeldLine = NoLine]
  ELSE JudgeLine(s)

(* One turn of append's loop: a line, or what is left of the chunk.        *)
TakePiece(s, piece, closesLine) ==
  JudgeClosedLine(AppendRetained(s, piece, closesLine), closesLine)

PieceLength(chunk) ==
  LET breaks == {i \in 1..Len(chunk) : chunk[i] \in Terminators} IN
  IF breaks = {} THEN Len(chunk) ELSE Min(breaks)

------------------------------------------------------------------------------
(* The calls.                                                              *)

Init ==
  /\ session = Fresh
  /\ host \in Hosts
  /\ rest = <<>> /\ running = FALSE
  /\ fed = <<>> /\ output = <<>> /\ findings = {}
  /\ result = "ok" /\ failedUnit = 0

(* fail_with: what the failing call had released so far is dropped.        *)
Fail(s, error) ==
  /\ session' = [DiscardRetained(s) EXCEPT !.state = "failed", !.text = <<>>,
                                           !.found = {}, !.error = "none"]
  /\ failedUnit' = s.finalizedBytes + s.unitStart - s.leadLen
  /\ result' = error
  /\ running' = FALSE /\ rest' = <<>>
  /\ UNCHANGED <<output, findings>>

(* A call returns what was released while it ran.                          *)
Return(s) ==
  /\ session' = [s EXCEPT !.text = <<>>, !.found = {}]
  /\ output' = output \o s.text
  /\ findings' = findings \cup s.found
  /\ result' = "ok"
  /\ running' = FALSE
  /\ UNCHANGED failedUnit

AppendCall(chunk) ==
  /\ session.state = "accepting" /\ ~running
  /\ chunk \in Seq(Symbols)
  /\ IF Len(chunk) > MaxInputBytes - session.totalInputBytes
       THEN Fail(session, "InputLimitExceeded") /\ UNCHANGED fed
       ELSE /\ session' = [session EXCEPT !.totalInputBytes = @ + Len(chunk)]
            /\ rest' = chunk /\ running' = TRUE
            /\ fed' = fed \o chunk
            /\ UNCHANGED <<output, findings, result, failedUnit>>
  /\ UNCHANGED host

Proceed(s, length) ==
  IF s.error # "none"
    THEN Fail(s, s.error)
    ELSE /\ session' = s
         /\ rest' = SubSeq(rest, length + 1, Len(rest))
         /\ UNCHANGED <<running, output, findings, result, failedUnit>>

AppendPiece ==
  /\ running /\ rest # <<>>
  /\ LET length == PieceLength(rest)
         piece == SubSeq(rest, 1, length)
     IN Proceed(TakePiece(session, piece, piece[length] \in Terminators), length)
  /\ UNCHANGED <<host, fed>>

AppendReturn ==
  /\ running /\ rest = <<>>
  /\ LET flushed == FlushBatch(session) IN
       IF flushed.error # "none"
         THEN Fail(flushed, flushed.error)
         ELSE Return(flushed) /\ UNCHANGED rest
  /\ UNCHANGED <<host, fed>>

Finalize ==
  /\ session.state = "accepting" /\ ~running
  /\ LET flushed == FlushBatch([session EXCEPT
                       !.unitEnds = Append(@, Len(session.retained)),
                       !.unitStart = Len(session.retained)])
     IN IF flushed.error # "none"
          THEN Fail(flushed, flushed.error)
          ELSE Return([DiscardRetained(flushed) EXCEPT !.state = "finalized"])
               /\ UNCHANGED rest
  /\ UNCHANGED <<host, fed>>

Abort ==
  /\ session.state = "accepting" /\ ~running
  /\ session' = [DiscardRetained(session) EXCEPT !.state = "aborted"]
  /\ result' = "ok"
  /\ UNCHANGED <<host, rest, running, fed, output, findings, failedUnit>>

(* require_accepting: any call on a session that has ended.                *)
Refuse ==
  /\ session.state # "accepting"
  /\ result' = "InvalidState"
  /\ UNCHANGED <<session, host, rest, running, fed, output, findings, failedUnit>>

Next ==
  \/ \E chunk \in Chunks(fed) : AppendCall(chunk)
  \/ AppendPiece
  \/ AppendReturn
  \/ Finalize
  \/ Abort
  \/ Refuse

Spec == Init /\ [][Next]_vars

------------------------------------------------------------------------------
(* Properties.                                                             *)

Accepting == session.state = "accepting"
Idle == Accepting /\ ~running

LimitErrors == {"InputLimitExceeded", "TokenLimitExceeded", "MultilineLimitExceeded",
                "BufferLimitExceeded"}
StageErrors == {"DetectorFailure", "PolicyFailure", "PlaceholderFailure", "InvalidPlaceholder"}

(* The offsets into the buffer are in order, and the closed units of the   *)
(* batch follow one another from the lead to the open unit; an error is    *)
(* one of the documented codes.                                            *)
TypeOK ==
  /\ session.state \in {"accepting", "finalized", "aborted", "failed"}
  /\ {fed, rest, session.retained} \subseteq Seq(Symbols)
  /\ {session.leadLen, session.unitStart, session.finalizedBytes, session.totalInputBytes,
      failedUnit} \subseteq Nat
  /\ session.leadLen <= session.unitStart /\ session.unitStart <= Len(session.retained)
  /\ session.unitEnds \in Seq(Nat)
  /\ \A k \in 1..Len(session.unitEnds) :
       UnitFrom(session, k) <= session.unitEnds[k] /\ session.unitEnds[k] <= session.unitStart
  /\ running \in BOOLEAN
  /\ session.error = "none"
  /\ result \in {"ok", "InvalidState"} \cup LimitErrors \cup StageErrors

(* The buffer, followed by what the running append has not read, is the    *)
(* text fed from the start of the lead on: no flush, split or lead ever    *)
(* drops, repeats or reorders a byte, so the offsets reported in findings  *)
(* are offsets in the caller's text.                                       *)
RetainedIsSuffix ==
  Accepting =>
    session.retained \o rest
      = Slice(fed, session.finalizedBytes - session.leadLen, Len(fed))

(* Plaintext that is not released yet, the closed units of the running     *)
(* append included, never outgrows max_buffered_bytes (append_retained).   *)
RetentionBound == Len(session.retained) - session.leadLen <= MaxBufferedBytes

(* Between calls, complete lines are held only for a construct that is     *)
(* open at their end, and nothing closed is held back (append: "a complete *)
(* logical line with no open single-line construct" is released); of what  *)
(* was released one line is kept at most, however its terminator arrived   *)
(* (lead_after).                                                           *)
HoldsOnlyOpenText ==
  LET unit == Unit(session)
      lead == Slice(session.retained, 0, session.leadLen)
  IN
  Idle =>
    /\ session.unitEnds = <<>> /\ LastLine(lead) = lead
    /\ unit # <<>> /\ unit[Len(unit)] \in Terminators =>
         \/ BlockOpen(unit)
         \/ OpenConstruct(unit)
         \/ OpenAwsCandidate(unit, LineAboveCarriesId(session))

(* A line is waited for once: held only for an AWS candidate, a unit is    *)
(* held by its last line, and the lines before it were held by something   *)
(* else, which for a unit that ends in \r\n may have been open at its \r   *)
(* (split_before_last_line: "a run of such lines never accumulates").      *)
OneLineWaitsForAnId ==
  LET unit == Unit(session)
      before == LinesBeforeLast(unit)
      atCr == {text \in {WithoutLast(unit, LF)} : IsTerminated(text, CR)}
  IN Idle /\ unit # <<>> /\ unit[Len(unit)] \in Terminators
       /\ ~BlockOpen(unit) /\ ~OpenConstruct(unit)
     => \/ before = <<>>
        \/ \E held \in {before} \cup atCr : BlockOpen(held) \/ OpenConstruct(held)

(* A session that has ended holds no plaintext and nothing derived from it *)
(* (discard_retained).                                                     *)
TerminalHoldsNothing ==
  ~Accepting =>
    /\ session.retained = <<>> /\ session.unitEnds = <<>> /\ rest = <<>>
    /\ session.leadLen = 0 /\ session.awsHeldLine = NoLine
    /\ ~session.multilineOpen /\ ~session.multilineDetected /\ ~running

(* A limit is reported only when nothing before the unit that exceeds it   *)
(* fails, and a stage failure only on text a whole-input call fails on     *)
(* too: batching never changes which failure the caller sees               *)
(* (append_retained, "a failure in an earlier unit is still the one        *)
(* reported").                                                             *)
FailuresKeepTheirOrder ==
  /\ result \in LimitErrors => WholeInput(host, Slice(fed, 0, failedUnit)).error = "none"
  /\ result \in StageErrors => WholeInput(host, fed).error # "none"

(* The limits a session can be built with leave max_buffered_bytes no room *)
(* to fail before the construct limits do (IncrementalLimits::new).        *)
BufferLimitNeverTrips == result # "BufferLimitExceeded"

Abstract == INSTANCE AbstractSanitizer WITH state <- session.state, input <- fed

(* Whatever way the caller cuts the text, the results of the session add   *)
(* up to a prefix, and after finalize to the whole, of what one            *)
(* whole-input scan and redact returns: text, ids, ranges and actions      *)
(* (incremental.rs, "Partition invariance").                               *)
ImplementsAbstract == Abstract!AbsSpec
==============================================================================
