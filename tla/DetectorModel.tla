----------------------------- MODULE DetectorModel -----------------------------
(***************************************************************************)
(* A small detector set with every kind of construct that ties text to the *)
(* text before or after it, for TLC to run sessions with.                  *)
(*                                                                         *)
(* A symbol stands for a run of bytes that its neighbours do not extend:   *)
(*   "n" LF        "r" CR        "x" text no detector reads                *)
(*   "I" an AWS access key ID    "S" a run shaped like an AWS secret       *)
(*   "N" a high-signal name      "=" an assignment operator                *)
(*   "V" a value                 "!" text some detector fails on           *)
(*   "B" "E" a PEM BEGIN and its END     "F" an END of another label       *)
(* Names follow the source; see private_key.rs, aws.rs, generic_token.rs.  *)
(***************************************************************************)
EXTENDS Integers, FiniteSets, Sequences

Whitespace == {"n", "r"}

(* The index of the last symbol of text[1..i] that is not whitespace, or 0. *)
Solid(text, i) ==
  LET solid == {j \in 1..i : text[j] \notin Whitespace} IN
  IF solid = {} THEN 0 ELSE CHOOSE j \in solid : \A k \in solid : k <= j

(* How many line ends lie before symbol i: \n, \r\n and a lone \r each end *)
(* one line.                                                               *)
LineOf(text, i) ==
  Cardinality({j \in 1..(i - 1) :
                 text[j] = "n" \/ (text[j] = "r" /\ text[j + 1] # "n")})

OnLine(text, line, symbol) ==
  \E i \in 1..Len(text) : text[i] = symbol /\ LineOf(text, i) = line

Candidate(type, start, end) == [type |-> type, start |-> start, end |-> end]

DetectedTypes == {"private_key", "aws_access_key_id", "aws_secret_access_key", "generic_token"}

------------------------------------------------------------------------------
(* generic_token.rs: name, operator and value may be on different lines.   *)
IsAssigned(text, i) ==
  LET op == Solid(text, i - 1)
      name == IF op = 0 THEN 0 ELSE Solid(text, op - 1)
  IN op # 0 /\ text[op] = "=" /\ name # 0 /\ text[name] = "N"

has_open_contextual_assignment(text) ==
  LET last == Solid(text, Len(text))
      name == IF last # 0 /\ text[last] = "=" THEN Solid(text, last - 1) ELSE last
  IN name # 0 /\ text[name] = "N"

continues_previous_line(text) ==
  \E i \in 1..Len(text) : text[i] = "=" /\ Solid(text, i - 1) = 0

------------------------------------------------------------------------------
(* aws.rs: a secret is claimed by an ID on its line or on an adjacent one. *)
IsClaimed(text, i) ==
  LET line == LineOf(text, i) IN
  \E near \in {line - 1, line, line + 1} : OnLine(text, near, "I")

carries_aws_access_key_id(line) == \E i \in 1..Len(line) : line[i] = "I"

(* The last line of the unit waits for an ID on the line below it.         *)
has_open_aws_secret_candidate_line(unit, aboveHasId) ==
  LET last == LineOf(unit, Len(unit)) IN
  /\ OnLine(unit, last, "S")
  /\ ~OnLine(unit, last, "I")
  /\ IF last = 0 THEN ~aboveHasId ELSE ~OnLine(unit, last - 1, "I")

------------------------------------------------------------------------------
(* private_key.rs: the delimiter stack.  One label has BEGINs, so the      *)
(* stack is its depth.                                                     *)
process_delimiter(state, symbol, at) ==
  CASE symbol = "B" ->
         [state EXCEPT !.depth = @ + 1, !.hasBegin = TRUE,
                       !.malformed = @ \/ state.depth > 0,
                       !.start = IF state.depth = 0 THEN at ELSE @]
    [] symbol = "E" /\ state.depth > 1 -> [state EXCEPT !.depth = @ - 1]
    [] symbol = "E" /\ state.depth = 1 ->
         [state EXCEPT !.depth = 0, !.malformed = FALSE,
            !.spans = @ \cup {[start |-> state.start, end |-> at + 1,
                               malformed |-> state.malformed]}]
    [] symbol = "F" /\ state.depth > 0 -> [state EXCEPT !.malformed = TRUE]
    [] OTHER -> state

Parsed(text) ==
  LET scan[i \in 0..Len(text)] ==
        IF i = 0 THEN [depth |-> 0, hasBegin |-> FALSE, malformed |-> FALSE,
                       start |-> 0, spans |-> {}]
        ELSE process_delimiter(scan[i - 1], text[i], i - 1)
  IN scan[Len(text)]

has_encoded_body(text, span) ==
  \E i \in (span.start + 2)..(span.end - 1) : text[i] \in {"I", "S"}

(* A completed block with a body, a malformed one, or all the rest of the  *)
(* text when a malformed one never completes.                              *)
PrivateKeys(text) ==
  LET parsed == Parsed(text) IN
  {Candidate("private_key", s.start, s.end) :
     s \in {t \in parsed.spans : t.malformed \/ has_encoded_body(text, t)}}
  \cup (IF parsed.depth > 0 /\ parsed.malformed
          THEN {Candidate("private_key", parsed.start, Len(text))} ELSE {})

HasBegin(text) == Parsed(text).hasBegin
HasOpenBlock(text) == Parsed(text).depth > 0

------------------------------------------------------------------------------
(* The whole set.                                                          *)
TypeOfSymbol(text, i) ==
  CASE text[i] = "I" -> "aws_access_key_id"
    [] text[i] = "S" -> IF IsClaimed(text, i) THEN "aws_secret_access_key" ELSE "none"
    [] text[i] = "V" -> IF IsAssigned(text, i) THEN "generic_token" ELSE "none"
    [] OTHER -> "none"

Proposed(text) ==
  {c \in PrivateKeys(text)
           \cup {Candidate(TypeOfSymbol(text, i), i - 1, i) : i \in 1..Len(text)} :
     c.type # "none"}

(* A detector reports a failure, or proposes a candidate the pipeline      *)
(* rejects as InvalidCandidate: either way the detection pass fails.       *)
Rejected(text) == \E i \in 1..Len(text) : text[i] = "!"

(* Overlap resolution: a private key blocks and everything else redacts,   *)
(* and the stricter action is never displaced.                             *)
Overlap(c, d) == c.start < d.end /\ d.start < c.end

StrictestDisjoint(candidates) ==
  {c \in candidates : c.type = "private_key" \/
     ~\E d \in candidates : d.type = "private_key" /\ Overlap(c, d)}
==============================================================================
