------------------------------- MODULE HeldUnits -------------------------------
(***************************************************************************)
(* A session that closes a unit at the end of a line unless a hint holds   *)
(* it, beside a detector that reads several lines (incremental.rs).  What  *)
(* the detector reads in the units must be what it reads in the text.      *)
(***************************************************************************)
EXTENDS LookbackHints, CurlCommand

CONSTANTS
  Carriers        \* what texts are made of: [curl, registry, adds, length]

VARIABLES
  carrier,        \* the one of this session
  input,          \* the text so far
  unit,           \* the part of it that is not closed
  batch,          \* closed units of the running append
  read,           \* what was found
  over            \* finalize() has returned

vars == <<carrier, input, unit, batch, read, over>>

Found(text) ==
  IF carrier.curl THEN Passwords(text) ELSE ReadLines(carrier.registry, text)

(* has_open_single_line_construct                                          *)
Open(text) ==
  IF carrier.curl THEN HasOpenCurlCommand(text) ELSE HasOpenLayout(carrier.registry, text)

(* find_next_newline: a line ends at either half of a CRLF.                *)
EndsLine(text) == carrier.curl => IsLineEnd(Last(text))

FoundFrom(text, before) ==
  {<<range[1] + before, range[2] + before>> : range \in Found(text)}

Init ==
  /\ carrier \in Carriers
  /\ input = <<>> /\ unit = <<>> /\ batch = <<>> /\ read = {} /\ over = FALSE

(* A turn of append's loop: a piece up to the end of a line, or of the     *)
(* text that append was given.                                             *)
Piece(piece) ==
  /\ ~over /\ Len(input) + Len(piece) <= carrier.length
  /\ input' = input \o piece
  /\ LET grown == unit \o piece
     IN IF EndsLine(grown) /\ ~Open(grown)
          THEN batch' = batch \o grown /\ unit' = <<>>
          ELSE unit' = grown /\ UNCHANGED batch
  /\ UNCHANGED <<carrier, read, over>>

(* flush_batch, at the end of append: its units are detected together.     *)
(* Units that have to be detected alone are as if flushed one by one.      *)
FlushBatch ==
  /\ ~over /\ batch # <<>>
  /\ read' = read \cup FoundFrom(batch, Len(input) - Len(unit) - Len(batch))
  /\ batch' = <<>>
  /\ UNCHANGED <<carrier, input, unit, over>>

Finalize ==
  /\ ~over /\ batch = <<>>
  /\ read' = read \cup FoundFrom(unit, Len(input) - Len(unit))
  /\ unit' = <<>> /\ over' = TRUE
  /\ UNCHANGED <<carrier, input, batch>>

Next == (\E piece \in carrier.adds : Piece(piece)) \/ FlushBatch \/ Finalize

Spec == Init /\ [][Next]_vars

------------------------------------------------------------------------------
(* Properties.                                                             *)
(* What a session reads in its units is what a scan reads in the text: no  *)
(* layout and no window is cut apart (heroku.rs:503, "so the unit always   *)
(* contains the context line whenever the whole-input scan would use it",  *)
(* and its siblings).  The one exception is a member whose name is written *)
(* otherwise than the hint spells it: it is read beside its partner, but   *)
(* it does not keep the unit open for one that follows it.                 *)
UnitsReadAsWhole ==
  over =>
    /\ read \subseteq Found(input)
    /\ \A range \in Found(input) \ read :
         ~carrier.curl /\ input[range[2]].says = "member"
         /\ input[range[2]].written # Normalized(input[range[2]].written)

(* A window that stops at a word which an earlier one has read loses only  *)
(* what the earlier one was cut short of (curl_user.rs:269, "would read    *)
(* the rest as that window did").                                          *)
ShortcutSkipsNothing ==
  over /\ carrier.curl =>
    \A range \in PasswordsAlone(input) \ read :
      \E p \in DOMAIN input : IsCurlWord(input, p) /\ p + WindowBytes <= range[2]

SessionsReadAll == UnitsReadAsWhole /\ ShortcutSkipsNothing
===============================================================================
