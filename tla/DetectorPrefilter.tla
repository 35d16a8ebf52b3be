-------------------------- MODULE DetectorPrefilter --------------------------
(***************************************************************************)
(* Which detectors a scan may skip (registry.rs, detectors/prefilter.rs    *)
(* and collect_candidates of pipeline.rs).  A registry compiles the        *)
(* literals its built-in detectors declare into one matcher, indexed by    *)
(* the detectors' positions; one pass of it over the scan copy tells which *)
(* of them can find anything.  Other detectors ask, while they run, what   *)
(* occurs in the text they were handed: a thread-local mark names the scan *)
(* copy by its address and length and caches the byte pairs of it.  Scans  *)
(* nest, when a detector of the caller scans, too.                         *)
(*                                                                         *)
(* A text is a sequence of bytes, a piece of memory <<buffer, from, len>>. *)
(***************************************************************************)
EXTENDS LiteralAnswers, FiniteSets, SequencesExt

CONSTANTS
  BuiltIns,      \* the detectors of a profile, in order: their declared literals
  Texts,         \* the texts considered
  Asked,         \* literals a detector asks for: prefixes of rulesets
  Buffers,       \* places in memory
  Lengths,       \* how much of a buffer a scan copy may take
  Starts,        \* where its second unit may start, 0: it has one unit
  MaxSlots,      \* MAX_SLOTS
  ExactFrom,     \* EXACT_PAIRS_FROM
  MaxCustom,     \* detectors registered by the caller: a bound of the model
  MaxDepth       \* scans that are nested: a bound of the model

VARIABLES
  detectors,     \* the registry: what holds a detector, and what it declares
  prefilter,     \* the declarations its matcher was compiled from, or Nil
  memory,        \* the text in each buffer, or Nil when it is free
  scans,         \* the scans that run, the innermost last
  mark           \* ACTIVE_SCAN

vars == <<detectors, prefilter, memory, scans, mark, answer>>

(* What is asked of the constants: texts and literals are sequences.        *)
IsText(t) == t \in Seq(Range(t))

ConstantsAssumption ==
  /\ BuiltIns \in Seq(Range(BuiltIns))
  /\ \A k \in DOMAIN BuiltIns : \A l \in BuiltIns[k] : IsText(l)
  /\ \A t \in Texts \cup Asked : IsText(t)

Detector(held, literals) == [held |-> held, literals |-> literals]

Bytes(piece) ==
  SubSeq(memory[piece.buffer], piece.from, piece.from + piece.len - 1)
Piece(buffer, from, len) == [buffer |-> buffer, from |-> from, len |-> len]

Pairs(text) == {<<text[k], text[k + 1]>> : k \in 1..(Len(text) - 1)}

------------------------------------------------------------------------------
(* The matcher.                                                            *)

(* RequiredLiterals::any_of: a detector with a literal too short to have a *)
(* pair of bytes declares nothing.                                         *)
Required(literals) ==
  IF \E l \in literals : Len(l) < 2 THEN {} ELSE literals

(* compile_matcher: none when a detector that declares is out of its range.*)
Compile(ds) ==
  IF \E slot \in DOMAIN ds : slot > MaxSlots /\ ds[slot].literals # {} THEN Nil
  ELSE [slot \in DOMAIN ds |-> ds[slot].literals]

(* present: at each offset the literals that begin with its pair, until    *)
(* every detector that declares has one.                                   *)
Declaring(matcher) == {slot \in DOMAIN matcher : matcher[slot] # {}}

PresentAt(matcher, text, at, found) ==
  LET group == {e \in Declaring(matcher) \X UNION Range(matcher) :
                  e[2] \in matcher[e[1]] /\ SubSeq(e[2], 1, 2) = SubSeq(text, at, at + 1)}
  IN {slot \in {e[1] : e \in group} \ found :
        \E e \in group : e[1] = slot /\ OccursAt(e[2], text, at)}

Present(matcher, text) ==
  LET look[at \in 0..Len(text)] ==
        IF at = 0 THEN [present |-> {}, remaining |-> Cardinality(Declaring(matcher))]
        ELSE LET found == look[at - 1]
                 new == PresentAt(matcher, text, at, found.present)
             IN IF found.remaining = 0 THEN found
                ELSE [present |-> found.present \cup new,
                      remaining |-> found.remaining - Cardinality(new)]
  IN look[Len(text) - 1].present

------------------------------------------------------------------------------
(* The registry, composed before it scans.                                 *)
Composing == scans = <<>>

(* with_built_in: the built-ins of a profile, the PII adapter after them.  *)
Composed(pii) ==
  [k \in DOMAIN BuiltIns |-> Detector("built-in", Required(BuiltIns[k]))]
    \o (IF pii THEN <<Detector("pii", {})>> ELSE <<>>)

(* retain_and_recompile.  Mutant: the matcher is kept as it was.           *)
RecompiledNot(ds) == prefilter

Recompiled(ds) == Compile(ds)

(* with_detection: only built-in detectors are ever removed, and one must  *)
(* be left.                                                                *)
WithDetection(removed) ==
  /\ answer' = Nil
  /\ Composing /\ removed # {}
  /\ \A k \in removed : detectors[k].held = "built-in"
  /\ removed # DOMAIN detectors
  /\ \E kept \in [1..(Len(detectors) - Cardinality(removed)) -> DOMAIN detectors \ removed] :
       LET ds == [k \in DOMAIN kept |-> detectors[kept[k]]]
       IN /\ \A i, j \in DOMAIN kept : i < j => kept[i] < kept[j]
          /\ detectors' = ds /\ prefilter' = Recompiled(ds)
  /\ UNCHANGED <<memory, scans, mark>>

(* register: a detector of the caller, or of a ruleset, comes last.        *)
Register ==
  /\ answer' = Nil
  /\ Composing
  /\ Cardinality({k \in DOMAIN detectors : detectors[k].held = "custom"}) < MaxCustom
  /\ detectors' = Append(detectors, Detector("custom", {}))
  /\ UNCHANGED <<prefilter, memory, scans, mark>>

------------------------------------------------------------------------------
(* Memory.                                                                 *)
Allocate(buffer, text) ==
  /\ answer' = Nil
  /\ memory[buffer] = Nil
  /\ memory' = [memory EXCEPT ![buffer] = text]
  /\ UNCHANGED <<detectors, prefilter, scans, mark>>

(* What a scan runs on is borrowed for as long as it runs.                 *)
Free(buffer) ==
  /\ answer' = Nil
  /\ memory[buffer] # Nil
  /\ \A k \in DOMAIN scans : scans[k].copy.buffer # buffer
  /\ memory' = [memory EXCEPT ![buffer] = Nil]
  /\ UNCHANGED <<detectors, prefilter, scans, mark>>

------------------------------------------------------------------------------
(* A scan.                                                                 *)
Innermost == scans[Len(scans)]
Running == Innermost.next \in DOMAIN detectors
Current == detectors[Innermost.next]

(* What was decided of a text: whether nothing of the literals is in it.   *)
Said(literals, text, ruledOut, exact) ==
  [literals |-> literals, text |-> text, ruledOut |-> ruledOut, exact |-> exact]

(* collect_candidates: the matcher's pass, then the mark of the scan copy. *)
(* The caller of a scan is outside any, or a detector of the caller.       *)
Begin(buffer, len, boundary) ==
  /\ answer' = Nil
  /\ memory[buffer] # Nil /\ len \in 1..Len(memory[buffer]) /\ boundary \in 0..len
  /\ Len(scans) <= MaxDepth
  /\ scans # <<>> => Running /\ Current.held = "custom" /\ boundary = 0
  /\ LET copy == Piece(buffer, 1, len) IN
     /\ scans' = Append(scans,
          [copy |-> copy, boundary |-> boundary, next |-> 1, previous |-> mark,
           present |-> IF prefilter = Nil THEN DOMAIN detectors
                       ELSE Present(prefilter, Bytes(copy))])
     /\ mark' = [copy |-> copy, pairs |-> Nil]
  /\ UNCHANGED <<detectors, prefilter, memory>>

(* A detector that declares literals runs only when one is present.        *)
Skips(scan) ==
  detectors[scan.next].literals # {} /\ scan.next \notin scan.present

(* The next detector of the innermost scan is skipped, or has run.         *)
NextDetector ==
  /\ scans # <<>> /\ Running
  /\ scans' = [scans EXCEPT ![Len(scans)].next = @ + 1]
  /\ answer' = IF Current.literals = {} THEN answer
               ELSE Said(Current.literals, Bytes(Innermost.copy), Skips(Innermost),
                         prefilter # Nil)
  /\ UNCHANGED <<detectors, prefilter, memory, mark>>

(* may_contain_literal: of a short text, pairs may seem to occur that do   *)
(* not, as their hashes collide.                                           *)
MayContain(pairs, literal, len) ==
  IF Pairs(literal) \subseteq pairs THEN {TRUE}
  ELSE IF len < ExactFrom THEN BOOLEAN ELSE {FALSE}

(* The text is the marked one when both begin and end at the same bytes.   *)
IsMarked(input) == mark # Nil /\ mark.copy = input

(* ruleset_literal_may_occur and the like, asked by a detector about the   *)
(* text it was handed; the marked text's pairs are collected once.         *)
Ask(input, literal) ==
  /\ IF Len(literal) < 2 \/ ~IsMarked(input) THEN
       /\ answer' = Said({literal}, Bytes(input), FALSE, FALSE)
       /\ UNCHANGED mark
     ELSE LET pairs == IF mark.pairs = Nil THEN Pairs(Bytes(mark.copy)) ELSE mark.pairs IN
       /\ mark' = [mark EXCEPT !.pairs = pairs]
       /\ \E may \in MayContain(pairs, literal, mark.copy.len) :
            answer' = Said({literal}, Bytes(input), ~may, FALSE)
  /\ UNCHANGED <<detectors, prefilter, memory, scans>>

(* What the running detector is handed: the scan copy; by                  *)
(* detect_each_unit, a unit of it; and a detector of the caller hands on   *)
(* any text it can see: of the model's, pieces of two bytes.               *)
HandedLength == 2

Handed ==
  LET copy == Innermost.copy
      at == Innermost.boundary
      all == Piece(copy.buffer, 1, copy.len)
  IN IF Current.held = "custom"
       THEN {all} \cup {Piece(b, from, HandedLength) :
                          b \in {b \in Buffers : memory[b] # Nil}, from \in {1, 2}}
     ELSE IF Current.held = "pii" /\ at # 0
       THEN {Piece(copy.buffer, 1, at), Piece(copy.buffer, at + 1, copy.len - at)}
     ELSE {all}

Detect ==
  /\ scans # <<>> /\ Running /\ ~Skips(Innermost)
  /\ \E input \in Handed, literal \in Asked :
       /\ input.len > 0 /\ input.from + input.len - 1 <= Len(memory[input.buffer])
       /\ Ask(input, literal)

(* Outside any scan a ruleset's detector may be called by itself.          *)
DetectAlone ==
  /\ scans = <<>>
  /\ \E buffer \in Buffers, literal \in Asked :
       memory[buffer] # Nil /\ Ask(Piece(buffer, 1, Len(memory[buffer])), literal)

(* ScanScope::drop, at the end or when a detector fails.  Mutant: the mark *)
(* is left as it is.                                                       *)
MarkLeft(previous) == mark

MarkRestored(previous) == previous

End ==
  /\ answer' = Nil
  /\ scans # <<>>
  /\ mark' = MarkRestored(Innermost.previous)
  /\ scans' = Front(scans)
  /\ UNCHANGED <<detectors, prefilter, memory>>

Init ==
  /\ \E pii \in BOOLEAN :
       detectors = Composed(pii) /\ prefilter = Compile(Composed(FALSE))
  /\ memory = [b \in Buffers |-> Nil]
  /\ scans = <<>> /\ mark = Nil /\ answer = Nil

Next ==
  \/ \E removed \in SUBSET DOMAIN detectors : WithDetection(removed)
  \/ Register
  \/ \E buffer \in Buffers, text \in Texts : Allocate(buffer, text)
  \/ \E buffer \in Buffers : Free(buffer)
  \/ \E buffer \in Buffers, len \in Lengths, boundary \in Starts :
       Begin(buffer, len, boundary)
  \/ NextDetector \/ Detect \/ DetectAlone \/ End

Spec == Init /\ [][Next]_vars
=============================================================================
