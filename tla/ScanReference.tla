---------------------------- MODULE ScanReference ----------------------------
(***************************************************************************)
(* The parts of the core that a whole-input call and an incremental        *)
(* session share: one detection pass over a text (pipeline.rs), the policy *)
(* callback, and redaction (redact.rs), and the whole-input call itself,   *)
(* which is the reference an incremental session is compared with.         *)
(*                                                                         *)
(* A text is a sequence of symbols, a symbol standing for one byte.  A     *)
(* range is [start, end) in offsets from 0, as in the source.              *)
(* The detectors are constants: what is said here is said of every         *)
(* detector set.  DetectorModel gives the ones TLC runs with.              *)
(***************************************************************************)
EXTENDS Integers, FiniteSets, FiniteSetsExt, SequencesExt

CONSTANTS
  Candidates(_),     \* text -> the candidates the registered detectors propose
  Select(_),         \* candidates -> the disjoint ones overlap resolution keeps
  DetectorFails(_),  \* text -> whether some detector reports a failure on it
  Types,             \* the finding types
  PlaceholderText(_) \* number -> the text the default formatter makes for it

(* What the host installs: the action its policy returns for each type, or *)
(* "fails", and how its formatter answers.  "echo" is a formatter whose    *)
(* fixed text happens to be a value that occurs in the input.              *)
Actions == {"redact", "block", "warn", "allow"}
Formatters == {"numbered", "fails", "empty", "echo"}

CONSTANTS
  Hosts,             \* the hosts considered
  EchoText           \* the text the "echo" formatter always answers

ASSUME HostsAssumption ==
  Hosts \subseteq [policy : [Types -> Actions \cup {"fails"}], formatter : Formatters]

Slice(text, from, to) == SubSeq(text, from + 1, to)

Moved(range, by) == [range EXCEPT !.start = @ + by, !.end = @ + by]
MovedAll(ranges, by) == {Moved(r, by) : r \in ranges}

(* 1 for the finding that starts first, 2 for the next one, ...            *)
Rank(finding, findings) == Cardinality({g \in findings : g.start <= finding.start})

------------------------------------------------------------------------------
(* Detection (pipeline.rs, detect_units).  `ends` are the ends of the      *)
(* units text[lead..] is made of; the lead is scanned and not reported.    *)
(* "inseparable" is the source's Ok(None): a candidate reaches the end of  *)
(* a unit that is not the last one.                                        *)
Crosses(candidate, ends, length) ==
  \E e \in ends : e < length /\ candidate.start < e /\ e <= candidate.end

ResolveUnits(proposed, text, lead, ends) ==
  IF DetectorFails(text)
    THEN [status |-> "failed", found |-> {}]
  ELSE IF \E c \in proposed : Crosses(c, ends, Len(text))
    THEN [status |-> "inseparable", found |-> {}]
  ELSE [status |-> "ok",
        found |-> {Moved(c, -lead) : c \in {d \in Select(proposed) : d.start >= lead}}]

DetectUnits(text, lead, ends) == ResolveUnits(Candidates(text), text, lead, ends)

------------------------------------------------------------------------------
(* Redaction (redact.rs, redact_shifted_into) of one text with its         *)
(* findings in the text's own coordinates; `before` placeholders have been *)
(* issued already.  Every placeholder is formatted and validated before    *)
(* anything is written.                                                    *)
Replaces(finding) == finding.action \in {"redact", "block"}

Formatted(host, number) ==
  CASE host.formatter = "numbered" -> PlaceholderText(number)
    [] host.formatter = "echo"     -> EchoText
    [] OTHER                       -> <<>>

Occurs(part, text) ==
  \E i \in 0..(Len(text) - Len(part)) : SubSeq(text, i + 1, i + Len(part)) = part

(* ForbiddenMatchedText: no placeholder may reproduce what any of these    *)
(* findings matched, whatever its action.                                  *)
Reproduces(placeholder, text, findings) ==
  \E f \in findings : Occurs(Slice(text, f.start, f.end), placeholder)

RedactError(host, text, findings, before) ==
  LET replaced == {f \in findings : Replaces(f)} IN
  IF replaced = {} THEN "none"
  ELSE IF host.formatter = "fails" THEN "PlaceholderFailure"
  ELSE IF \E f \in replaced :
            LET placeholder == Formatted(host, before + Rank(f, replaced)) IN
            placeholder = <<>> \/ Reproduces(placeholder, text, findings)
    THEN "InvalidPlaceholder"
  ELSE "none"

Redacted(host, text, findings, before) ==
  LET replaced == {f \in findings : Replaces(f)}
      Emitted(p) ==
        IF \E f \in replaced : f.start = p
          THEN Formatted(host, before + Cardinality({f \in replaced : f.start <= p}))
        ELSE IF \E f \in replaced : f.start < p /\ p < f.end
          THEN <<>>
        ELSE <<text[p + 1]>>
  IN FlattenSeq([i \in 1..Len(text) |-> Emitted(i - 1)])

------------------------------------------------------------------------------
(* The policy is evaluated once on each accepted range, in order, and      *)
(* gives a finding its action; ids count from `before` + 1.                *)
Finalized(host, ranges, before) ==
  {[id     |-> before + Rank(r, ranges), start |-> r.start, end |-> r.end,
    type   |-> r.type, action |-> host.policy[r.type]] : r \in ranges}

PolicyFails(host, ranges) == \E r \in ranges : host.policy[r.type] = "fails"

(* Scan, then redact (pipeline.rs, scan_and_redact_in): the first stage    *)
(* that fails is the error, and no text is returned beside an error.       *)
WholeInput(host, text) ==
  LET detected == DetectUnits(text, 0, {})
      findings == Finalized(host, detected.found, 0)
      error    == IF detected.status = "failed" THEN "DetectorFailure"
                  ELSE IF PolicyFails(host, detected.found) THEN "PolicyFailure"
                  ELSE RedactError(host, text, findings, 0)
  IN [error    |-> error,
      text     |-> IF error = "none" THEN Redacted(host, text, findings, 0) ELSE <<>>,
      findings |-> IF error = "none" THEN findings ELSE {}]
==============================================================================
