------------------------------ MODULE CurlCommand ------------------------------
(***************************************************************************)
(* The password argument of a curl command (curl_user.rs): the window of a *)
(* curl word is read as shell words, over lines that a backslash continues.*)
(* Windows overlap, when a command's words name curl again, and a window   *)
(* that comes to a word an earlier one has read stops there.               *)
(*                                                                         *)
(* A text is a sequence of symbols: "c" the four letters curl, "u" an      *)
(* option -u, " " a blank, "n" and "r" line ends, "q" a double quote, ";"  *)
(* an end of a command, ":" a colon, "b" a backslash, "x" other text.      *)
(***************************************************************************)
EXTENDS Integers, SequencesExt

CONSTANT WindowBytes   \* WINDOW_BYTES

IsLineEnd(symbol) == symbol \in {"n", "r"}
EndsWord(symbol) == symbol \in {" ", "n", "r", ";"}
At(t, p) == IF p \in DOMAIN t THEN t[p] ELSE ""

(* curl_word_end                                                           *)
IsCurlWord(t, p) ==
  /\ At(t, p) = "c"
  /\ At(t, p - 1) \in {"", " ", "n", "r", "q", ";", "b"}
  /\ At(t, p + 1) \in {" ", "n", "r"}

(* continuation: how long it is.                                           *)
Continuation(t, p) ==
  CASE At(t, p) # "b" -> 0
    [] At(t, p + 1) = "n" -> 2
    [] At(t, p + 1) = "r" /\ At(t, p + 2) = "n" -> 3
    [] OTHER -> 0

(* Mutant: the carriage return at the end of the text ends the window.     *)
NeverPending(t, p) == FALSE

(* pending_continuation                                                    *)
PendingContinuation(t, p) == At(t, p) = "b" /\ At(t, p + 1) = "r" /\ p + 1 = Len(t)

(* A window: where it ends, and whether the text ends there.               *)
Limit(t, p) == Min({p + WindowBytes, Len(t)})

------------------------------------------------------------------------------
(* Words.                                                                  *)
WordEnd(p, complete) ==
  [end |-> p, colon |-> 0, quoted |-> FALSE, close |-> 0, complete |-> complete]
Colon(word, p, quoted) == [word EXCEPT !.colon = p, !.quoted = quoted]
Close(word, p) == [word EXCEPT !.close = IF @ = 0 THEN p ELSE @]

(* read_word and quoted: what is read from each position on, in a word and *)
(* in quotes.  A word that the cap of its window ends is not complete.     *)
ReadWord(t, limit, start) ==
  LET read[quotes \in BOOLEAN, p \in 1..(Len(t) + 2)] ==
        CASE p > limit -> WordEnd(limit + 1, ~quotes /\ limit = Len(t))
          [] p <= limit /\ quotes ->
               CASE IsLineEnd(t[p]) -> WordEnd(p, FALSE)
                 [] t[p] = "q" -> Close(read[FALSE, p + 1], p)
                 [] t[p] = "b" /\ At(t, p + 1) \in {"q", "b"} -> read[TRUE, p + 2]
                 [] t[p] = ":" -> Colon(read[TRUE, p + 1], p, TRUE)
                 [] OTHER -> read[TRUE, p + 1]
          [] OTHER ->
               CASE EndsWord(t[p]) \/ Continuation(t, p) > 0 \/ PendingContinuation(t, p) ->
                      WordEnd(p, TRUE)
                 [] t[p] = "q" -> read[TRUE, p + 1]
                 [] t[p] = ":" -> Colon(read[FALSE, p + 1], p, FALSE)
                 [] t[p] = "b" /\ At(t, p + 1) = ":" -> Colon(read[FALSE, p + 2], p + 1, FALSE)
                 [] t[p] = "b" /\ At(t, p + 1) \notin {"", "r", ":"} -> read[FALSE, p + 2]
                 [] OTHER -> read[FALSE, p + 1]
  IN read[FALSE, start] @@ [start |-> start, stop |-> ""]

(* next_word, until the window ends: its words and how it ends.            *)
WindowWords(t, at) ==
  LET limit == Limit(t, at)
      words[p \in 1..(Len(t) + 3)] ==
        IF p > limit THEN <<[stop |-> IF limit = Len(t) THEN "open" ELSE "closed"]>>
        ELSE IF t[p] = " " THEN words[p + 1]
        ELSE IF Continuation(t, p) > 0 THEN words[p + Continuation(t, p)]
        ELSE IF PendingContinuation(t, p) THEN <<[stop |-> "open"]>>
        ELSE IF EndsWord(t[p]) THEN <<[stop |-> "closed"]>>
        ELSE LET word == ReadWord(t, limit, p) IN <<word>> \o words[word.end]
  IN words[at + 1]

------------------------------------------------------------------------------
(* Windows.                                                                *)

(* password_span: behind the first colon of an argument that is whole.     *)
PasswordSpan(t, word, start) ==
  LET from == IF ~word.quoted /\ At(t, word.colon + 1) = "q" THEN word.colon + 2 ELSE word.colon + 1
      end == IF word.close = word.end - 1 THEN word.end - 1 ELSE word.end
      nested == At(t, start) = "b" /\ At(t, start + 1) = "q"
  IN IF word.colon >= start /\ word.complete /\ ~nested /\ end > from THEN {<<from - 1, end - 1>>} ELSE {}

(* option_spelling: whether a word is an option, and its argument its own. *)
IsOption(t, word) == t[word.start] = "u"
IsAttached(t, word) == IsOption(t, word) /\ word.end > word.start + 1

(* What a scan has found, the words it has visited, whether a window ended *)
(* open; of the window that is read, whether an argument is next and       *)
(* whether it is over.                                                     *)
Nothing ==
  [passwords |-> {}, visited |-> {}, open |-> FALSE, argument |-> FALSE, over |-> FALSE]

(* Mutant: every byte of the word is marked.                               *)
MarkedBytes(word) == word.start..(word.end - 1)

(* visited: a window marks where its words begin.                          *)
Marked(word) == {word.start}

(* A turn of Walk::run's loop.  Only a word in the place of an option is   *)
(* marked, and ends a window when an earlier one has marked it.            *)
Walk(t, scan, word) ==
  CASE scan.over -> scan
    [] word.stop # "" -> [scan EXCEPT !.over = TRUE, !.open = @ \/ word.stop = "open"]
    [] scan.argument ->
         [scan EXCEPT !.argument = FALSE, !.passwords = @ \cup PasswordSpan(t, word, word.start)]
    [] word.start \in scan.visited -> [scan EXCEPT !.over = TRUE]
    [] OTHER ->
         [scan EXCEPT
            !.visited = @ \cup Marked(word),
            !.argument = IsOption(t, word) /\ ~IsAttached(t, word),
            !.passwords = @ \cup IF IsAttached(t, word) THEN PasswordSpan(t, word, word.start + 1) ELSE {}]

(* The window of the curl word at a position.                              *)
Run(t, at, scan) ==
  FoldLeft(LAMBDA walk, word : Walk(t, walk, word),
           [scan EXCEPT !.argument = FALSE, !.over = FALSE], WindowWords(t, at))

(* scan: every curl word from a position on, in order.                     *)
Scan(t, from) ==
  FoldLeft(LAMBDA scan, p : IF p > from /\ IsCurlWord(t, p) THEN Run(t, p, scan) ELSE scan,
           Nothing, [p \in 1..Len(t) |-> p])

(* candidates                                                              *)
Passwords(t) == Scan(t, 0).passwords

(* has_open_curl_command: only a curl word near the end has its window     *)
(* open; CURL.len(), EXE.len() and one more are symbols here.              *)
HasOpenCurlCommand(t) == Scan(t, Max({0, Len(t) - (WindowBytes + 3)})).open

(* What each window reads by itself.                                       *)
PasswordsAlone(t) == UNION {Run(t, p, Nothing).passwords : p \in {p \in DOMAIN t : IsCurlWord(t, p)}}
===============================================================================
