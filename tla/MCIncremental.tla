---------------------------- MODULE MCIncremental ----------------------------
(* IncrementalSession with the detectors of DetectorModel, for TLC.        *)
EXTENDS SessionContract, DetectorModel

CONSTANTS
  MaxLength,      \* texts considered are at most this long
  Alphabets,      \* and use the symbols of one of these
  Policies, Answers

NumberedPlaceholder(n) == <<CASE n = 1 -> "#1" [] n = 2 -> "#2" [] n = 3 -> "#3"
                              [] n = 4 -> "#4" [] OTHER -> "#5">>

(* The hosts: redact everything; only warn about key IDs and allow tokens; *)
(* fail on a secret.                                                       *)
RedactAll == [t \in DetectedTypes |-> "redact"]
Mixed == [RedactAll EXCEPT !["aws_access_key_id"] = "warn", !["private_key"] = "block"]
FailsOnSecret == [RedactAll EXCEPT !["aws_secret_access_key"] = "fails"]

PolicyNamed == [redact |-> RedactAll, mixed |-> Mixed, fails |-> FailsOnSecret]

(* What the "echo" formatter answers.                                      *)
EchoedText == <<"I">>

InstalledHosts == [policy : {PolicyNamed[p] : p \in Policies}, formatter : Answers]

AllSymbols == UNION Alphabets \cup {LF, CR}

(* All texts over an alphabet: the caller may append any of them whole.    *)
AllChunks(text) ==
  UNION {[1..k -> alphabet] :
           k \in 1..(MaxLength - Len(text)),
           alphabet \in {a \in Alphabets : \A i \in 1..Len(text) : text[i] \in a}}

TextsOver(alphabet, length) == UNION {[1..k -> alphabet] : k \in 0..length}
TextsUpTo(length) == UNION {TextsOver(alphabet, length) : alphabet \in Alphabets}

(* The detectors of DetectorModel meet SessionContract, clause by clause,  *)
(* on the short texts over these alphabets.                                *)
ASSUME RangesAssumption == CandidatesAreRanges(TextsUpTo(5))
ASSUME SelectionAssumption == SelectionIsLocal(TextsUpTo(5))
ASSUME FailuresAssumption == FailuresAreLocal(TextsUpTo(3))
ASSUME IdsAssumption == IdsAreOfTheLine(TextsUpTo(5))
ASSUME AwsCandidateAssumption == AwsCandidateIsOfItsLine(TextsUpTo(5))
ASSUME OpenLinesAssumption == HintsReadTheLastLine(TextsUpTo(5))
ASSUME SettledAssumption == \A alphabet \in Alphabets : HintsSettle(TextsOver(alphabet, 2))

(* A formatter that answers with a value of the input breaks a clause: of  *)
(* one, nothing is promised (see PlaceholdersReproduceNothing).            *)
ASSUME PlaceholderTextsAssumption == PlaceholdersAreTexts(1..5)
ASSUME PlaceholderAssumption == "echo" \notin Answers => PlaceholdersAreNew(TextsUpTo(5), 1..5)

------------------------------------------------------------------------------
(* The same session fed all of a text in one append.                       *)
RECURSIVE TakeAll(_, _)
TakeAll(s, chunk) ==
  IF chunk = <<>> \/ s.error # "none" THEN s
  ELSE LET length == PieceLength(chunk)
           piece == SubSeq(chunk, 1, length)
       IN TakeAll(TakePiece(s, piece, piece[length] \in Terminators),
                  SubSeq(chunk, length + 1, Len(chunk)))

InOneAppend(text) ==
  LET taken == TakeAll([Fresh EXCEPT !.totalInputBytes = Len(text)], text) IN
  IF taken.error # "none" THEN taken ELSE FlushBatch(taken)

(* A limit that stops one partition of an input stops the input however it *)
(* is cut: what was fed can not be the start of a text that one append     *)
(* accepts (incremental.rs:14, "whole-input acceptance does not depend on  *)
(* how the caller partitions it into chunks").                             *)
AcceptanceIgnoresPartition ==
  result \in LimitErrors =>
    \A more \in Chunks(fed) : InOneAppend(fed \o more).error # "none"

(* In a session that was accepted to its end, no placeholder reproduces    *)
(* any finding's matched value (docs/reference/plaintext-lifetime.md:67).  *)
PlaceholdersReproduceNothing ==
  session.state = "finalized" =>
    \A number \in 1..Cardinality(Replaced(findings)) :
      ~Reproduces(Formatted(host, number), fed, findings)
==============================================================================
