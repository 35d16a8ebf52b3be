------------------------------ MODULE MCDetection ------------------------------
(***************************************************************************)
(* The parts of a detection pass, for TLC.  They are pure or share no      *)
(* state, so a behaviour is one of a single part: the overlap resolution   *)
(* of a set of candidates, the prefilter of a registry and its scans, the  *)
(* view a session keeps of a unit, the units it holds for layouts of       *)
(* several lines, the words around values that may be personal data, or a  *)
(* comparison of configurations.                                           *)
(***************************************************************************)
EXTENDS OverlapSelection, PolicyComparison, LiteralAnswers, UnitView, TLC

CONSTANTS
  Width, LongestSpan,                                     \* of candidates
  BuiltIns, Texts, Asked, Buffers, Lengths, Starts, MaxSlots, ExactFrom, MaxCustom, MaxDepth,
  NetrcLines, AuthorizationRows, CliTableRows, PropertyLines, SiblingLines, BlockLines,
  JsonWindow, RequestWindow, MaxWindowBytes, WindowBytes, Carriers,
  Inputs, Vocabularies, FieldDistance, MaxDistance, Families, Compositions,
  b1, b2, Tested

VARIABLES
  tested,
  detectors, prefilter, memory, scans, mark,
  given, associated, emitted,
  carrier, input, unit, batch, read, over

prefilterVars == <<detectors, prefilter, memory, scans, mark, answer>>
piiVars == <<given, associated, emitted>>
heldVars == <<carrier, input, unit, batch, read, over>>

Prefilter == INSTANCE DetectorPrefilter
Pii == INSTANCE PiiContext
Held == INSTANCE HeldUnits

(* What the theorems about the prefilter and comparisons ask of constants. *)
ASSUME PrefilterAssumption == Prefilter!ConstantsAssumption
ASSUME ComparisonAssumption == ComparisonConstants
ASSUME ViewAssumption == ViewConstants

------------------------------------------------------------------------------
(* Candidates: what a detector says of them, a detector of two resolved    *)
(* severities and a milder one that is more specific or more confident;    *)
(* one candidate of a detector per start, emitted in the order of starts.  *)
CandidateSpans == {s \in (0..Width) \X (0..Width) : s[1] < s[2] /\ s[2] - s[1] <= LongestSpan}

Ranks ==
  {[severity |-> 1, specificity |-> 0, confidence |-> 0, detectorOrder |-> 0],
   [severity |-> 2, specificity |-> 0, confidence |-> 0, detectorOrder |-> 0],
   [severity |-> 1, specificity |-> 1, confidence |-> 1, detectorOrder |-> 1]}

AllShapes ==
  {[start |-> span[1], end |-> span[2], severity |-> rank.severity,
    specificity |-> rank.specificity, confidence |-> rank.confidence,
    detectorOrder |-> rank.detectorOrder, candidateOrder |-> span[1]] :
     span \in CandidateSpans, rank \in Ranks}

------------------------------------------------------------------------------
(* Registries: detectors that declare one literal, none, and two that      *)
(* begin alike.                                                            *)
MCBuiltIns == << {<<"g", "h">>}, {}, {<<"h", "g">>, <<"h", "h", "g">>} >>
MCTexts == {<<"h", "h", "g">>, <<"g", "h", "h">>}
MCAsked == {<<"g">>, <<"h", "g">>}

------------------------------------------------------------------------------
(* Units: a name, its operator and blank lines, and a PEM block, cut and   *)
(* mixed with invisible code points; a line cut between two delimiters     *)
(* that share their dashes.                                                *)
MCLabels == {<<"k">>, <<"m", "k">>}
Lines ==
  {[pieces |-> {<<"p">>, <<"p", "w">>, <<"w", "n">>, <<"=">>, <<"z">>, <<" ", "n">>,
                <<"z", "n">>}, length |-> 7],
   [pieces |-> {<<"-">>, <<"-", "-", "b">>, <<"m", "k">>, <<"z", "k", "-">>,
                <<"k", "-", "-", "n">>, <<"k", "-", "-", "-", "-", "b", "m">>,
                <<"-", "-", "e", "m", "k", "-", "-", "n">>}, length |-> 13]}
SharedDashes ==
  {[pieces |-> {<<"-", "-", "b", "m", "k", "-", "-">>, <<"e", "m", "k", "-", "-", "n">>,
                <<"V", "n">>, <<"-", "-", "e", "m", "k", "-", "-", "n">>}, length |-> 24]}

------------------------------------------------------------------------------
(* Comparisons: every pair of rules over keys that are lacking, covered or *)
(* not, against findings of every kind; every pair of layouts of findings. *)
Known(enabled, rulesets, pii, closed) ==
  [enabled |-> enabled, rulesetIds |-> rulesets, pii |-> pii,
   closedTypes |-> closed, closedDetectors |-> closed]
MCManifest == [declared |-> [d \in {"jwt", "github"} |-> {d}], notIncluded |-> {"slack"}]
MCContexts ==
  {Known({"jwt"}, {}, TRUE, None), Known({"jwt", "github"}, {"mine"}, FALSE, {"mine"})}

InSomeOrder(S) == LET add(x, sequence) == Append(sequence, x) IN FoldSet(add, <<>>, S)
Finding(span, type, detector, confidence, obfuscation) ==
  [start |-> span[1], end |-> span[2], type |-> type, detector |-> detector,
   confidence |-> confidence, obfuscation |-> obfuscation]
SideOf(findings, policy) == [failure |-> None, findings |-> findings, policy |-> policy]
Failed(policy) == [failure |-> "INPUT_LIMIT_EXCEEDED", findings |-> <<>>, policy |-> policy]
Default == [kind |-> "default"]
Callback == [kind |-> "callback", answers |-> {"warn", "block"}]

Samples ==
  InSomeOrder({Finding(<<0, 1>>, type, detector, confidence, obfuscation) :
    type \in {"jwt", "github", "private_key"}, detector \in {"jwt", "pii"},
    confidence \in {"high", "low"}, obfuscation \in {"none", "invisible"}})
RuleMatches ==
  {[type |-> t, detector |-> d, confidence |-> c, obfuscation |-> o] :
     t \in {{}, {"jwt"}, {"jwt", "github"}}, d \in {{}, {"pii"}, {"jwt", "slack"}},
     c \in {{}, {"high"}, {"high", "low"}}, o \in {{}, {"none"}}}
RulePairs ==
  {<<SideOf(Samples, [kind |-> "rules",
       rules |-> <<[id |-> "first", match |-> first, action |-> "warn"],
                   [id |-> "second", match |-> second, action |-> "default"]>>])>> :
     first \in RuleMatches, second \in RuleMatches}

Layouts(width) ==
  LET spans == {s \in (0..width) \X (0..width) : s[1] < s[2]}
      apart == {S \in SUBSET spans : \A a, b \in S : a = b \/ a[2] <= b[1] \/ b[2] <= a[1]}
      inOrder(S) == SortSeq(InSomeOrder(S), LAMBDA a, b : a[1] < b[1])
      confidence(k) == IF k = 2 THEN "low" ELSE "high"
  IN {[k \in DOMAIN inOrder(S) |-> Finding(inOrder(S)[k], "jwt", "jwt", confidence(k), "none")] :
        S \in apart}
LayoutPairs ==
  {<<SideOf(a, Default), SideOf(b, policy)>> :
     a \in Layouts(4), b \in Layouts(4), policy \in {Default, Callback}}
  \cup {<<Failed(Default), SideOf(a, Callback)>> : a \in Layouts(2)}
  \cup {<<>>, <<SideOf(<<>>, Default), Failed(Default), SideOf(<<>>, Default)>>}

MCRequests == RulePairs \cup LayoutPairs

------------------------------------------------------------------------------
(* Context: labels of one and of two words, positive and negative ones of  *)
(* which one begins with the other, and in a second vocabulary one whose   *)
(* occurrences overlap; families that read one value alike, or the start   *)
(* of another's.                                                           *)
Entry(id, kind, class, strength, domains, forms) ==
  [id |-> id, kind |-> kind, class |-> class, strength |-> strength,
   domains |-> domains, forms |-> forms]
Cards == {"card"}
Phones == {"phone"}
Vocabulary ==
  {Entry(1, "field label", "positive", "high signal", Cards, {<<"a">>, <<"b", " ", "a">>}),
   Entry(2, "field label", "positive", "high signal", Phones, {<<"b">>}),
   Entry(3, "language label", "positive", "ambiguous", Cards \cup Phones, {<<"c">>}),
   Entry(4, "language label", "positive", "high signal", Cards, {<<"c", " ", "a">>}),
   Entry(5, "language label", "negative", "high signal", Cards \cup Phones,
         {<<"b">>, <<"c", "c">>})}
Chained ==
  Vocabulary \cup
  {Entry(6, "language label", "positive", "high signal", Cards, {<<"a", " ", "a">>})}
MCVocabularies == {Vocabulary, Chained}

Family(id, domain, values, sensitivity, requirement, exclusions) ==
  [id |-> id, domain |-> domain, values |-> values, identity |-> 2, sensitivity |-> sensitivity,
   confidence |-> 0, requirement |-> requirement, exclusions |-> exclusions, reinforced |-> 1]
MCFamilies ==
  {Family("global card", "card", {<<"v">>}, "not established", "required", {5}),
   Family("local card", "card", {<<"v">>, <<"w">>}, "sensitive", "reinforcing", {5}),
   Family("phone", "phone", {<<"v">>, <<"w", " ", "w">>}, "sensitive", "none", {})}
MCCompositions == [c \in {"a", " "} |-> IF c = "a" THEN "A" ELSE "y"]

Strings(pieces, length) == {FlattenSeq(s) : s \in UNION {[1..k -> pieces] : k \in 0..length}}
MCInputs ==
  {s \o <<"v">> : s \in Strings({<<"a">>, <<" ">>, <<"b">>, <<"c", " ">>, <<"m">>}, 5)}
  \cup {s \o <<"c", " ", "a", "v", "w">> :
         s \in Strings({<<"x", "x", "x", "x">>, <<" ">>, <<"a", "m">>}, 5)}
  \cup {s \o <<"v">> : s \in Strings({<<"a", " ">>, <<"c", " ">>, <<"a", "m">>}, 6)}
  \cup {<<"v">> \o s : s \in Strings({<<"a", " ">>, <<" ">>, <<"c", " ">>, <<"z">>, <<"m">>}, 5)}
  \cup Strings({<<"a">>, <<" ">>, <<"b">>, <<"c">>, <<"v">>, <<"w">>, <<"n">>, <<"|">>}, 4)

------------------------------------------------------------------------------
(* Held units: the lines of each layout, blank and other ones among them,  *)
(* under the detectors that read it; commands with words, quotes and       *)
(* continuations, more of them than a window holds.                        *)
Says(what) == [says |-> what]
Cell(what, at) == [says |-> what, column |-> at]
Property(confluent, secret) == [says |-> "property", confluent |-> confluent, secret |-> secret]
Key(key, at, opens) == [says |-> "key", key |-> key, column |-> at, item |-> opens]
Http(what, deepgram, token) == [says |-> what, deepgram |-> deepgram, token |-> token]
Member(written, size) == [says |-> "member", written |-> written, bytes |-> size]
Sized(what, size) == [says |-> what, bytes |-> size]

Layout(detector, lines, length) ==
  [curl |-> FALSE, registry |-> {detector}, adds |-> {<<line>> : line \in lines}, length |-> length]
Command(pieces, length) == [curl |-> TRUE, registry |-> {}, adds |-> pieces, length |-> length]

MCCarriers ==
  {Layout("heroku-api-key-legacy",
     {Says(s) : s \in {"machine", "login", "password", "auth:token", "UUID",
                       "authorizations:info", "row", "Token row"}}, 4),
   Layout("twilio-auth-token",
     {Says("twilio"), Says(""), Cell("cell", 1)} \cup {Cell("Auth Token column", at) : at \in {1, 2}}, 5),
   Layout("confluent-cloud-api-secret-legacy",
     {Property(x, y) : x, y \in BOOLEAN} \cup {Says("")}, 4),
   Layout("generic-token",
     {Key(k, at, opens) : k \in {"name", "value"}, at \in {2, 4}, opens \in BOOLEAN}, 3),
   Layout("mistral-api-key",
     {Key(k, at, FALSE) : k \in {"provider", "api_key", "value"}, at \in {2, 4}}
     \cup {Key("provider", 2, TRUE), Key("value", 2, TRUE), Says("")}, 4),
   Layout("deepgram-api-key",
     {Http("request", host, FALSE) : host \in BOOLEAN}
     \cup {Http("header", FALSE, TRUE), Http("header", TRUE, FALSE), Http("header", FALSE, FALSE),
           Says("")}, 4),
   Layout("generic-token",
     {Member("token", 2), Member("Token", 2), Member("scopes", 2), Member("api_key", 1),
      Member("encoded", 1), Sized("", 0), Sized("", 2)}, 4),
   Layout("generic-token",
     {Sized("/revoke", 1), Sized("token=", 1), Sized("", 0), Sized("", 2)}, 5),
   Command({<<"c", " ">>, <<"u", " ">>, <<":", "x">>, <<"b", "n">>, <<"n">>}, 10),
   Command({<<"c", " ">>, <<"u">>, <<":", "x">>, <<"b", "r">>, <<"n">>, <<"q">>}, 8)}

------------------------------------------------------------------------------
(* A part that is not tested has one initial state.                        *)
MCInit ==
  /\ tested \in Tested
  /\ IF tested = "overlap" THEN TRUE ELSE ranked = <<>> /\ boundary = 0
  /\ IF tested = "prefilter" THEN TRUE ELSE detectors = <<>>
  /\ IF tested = "unit" THEN TRUE ELSE appends = (CHOOSE a \in Appends : TRUE)
  /\ IF tested = "comparison" THEN TRUE
     ELSE request = <<>> /\ context = (CHOOSE known \in Contexts : TRUE)
  /\ IF tested = "pii" THEN TRUE ELSE given = <<<<>>, Vocabulary>>
  /\ IF tested = "held" THEN TRUE ELSE carrier = (CHOOSE c \in Carriers : TRUE)
  /\ Init
  /\ IF tested = "prefilter" THEN Prefilter!Init
     ELSE prefilter = Nil /\ memory = Nil /\ scans = <<>> /\ mark = Nil /\ answer = Nil
  /\ ViewInit
  /\ ComparisonInit
  /\ Held!Init
  /\ IF tested = "pii" THEN Pii!Init ELSE associated = None /\ emitted = {}

OthersUnchanged(part) ==
  /\ UNCHANGED tested
  /\ part # "overlap" => UNCHANGED vars
  /\ part # "prefilter" => UNCHANGED prefilterVars
  /\ part # "unit" => UNCHANGED viewVars
  /\ part # "comparison" => UNCHANGED comparisonVars
  /\ part # "pii" => UNCHANGED piiVars
  /\ part # "held" => UNCHANGED heldVars

MCNext ==
  \/ tested = "overlap" /\ Next /\ OthersUnchanged("overlap")
  \/ tested = "prefilter" /\ Prefilter!Next /\ OthersUnchanged("prefilter")
  \/ tested = "unit" /\ ViewNext /\ OthersUnchanged("unit")
  \/ tested = "comparison" /\ ComparisonNext /\ OthersUnchanged("comparison")
  \/ tested = "pii" /\ Pii!Next /\ OthersUnchanged("pii")
  \/ tested = "held" /\ Held!Next /\ OthersUnchanged("held")

MCSpec ==
  MCInit
  /\ [][MCNext]_<<tested, vars, prefilterVars, viewVars, comparisonVars, piiVars, heldVars>>

Symmetry == Permutations(Buffers)

------------------------------------------------------------------------------
(* Context: clipped views and indexed offsets change no association.       *)
AssociationIsExact == Pii!AssociationIsExact

(* Context: a pipe adds association, never a suppression.                  *)
PipesNeverSuppress == Pii!PipesNeverSuppress

(* Held units: a layout or a window that lines share is read whole by a    *)
(* session, but for names written otherwise and windows cut short.         *)
SessionsReadAll == Held!SessionsReadAll
===============================================================================
