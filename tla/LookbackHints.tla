----------------------------- MODULE LookbackHints -----------------------------
(***************************************************************************)
(* Layouts of several lines: what detectors read on the lines around a     *)
(* value, and the hints by which a session holds lines until such a layout *)
(* can no longer be completed (heroku.rs, twilio.rs, confluent.rs,         *)
(* keyword_gated_keys.rs, scoped_context.rs and text.rs).                  *)
(*                                                                         *)
(* A text is a sequence of lines.  A line says one thing: it is a record   *)
(* with what a layout may ask of it.  What is found is a range of lines.   *)
(***************************************************************************)
EXTENDS Integers, SequencesExt

CONSTANTS
  NetrcLines,       \* NETRC_MAX_CONTINUATION_LINES
  AuthorizationRows, \* AUTHORIZATIONS_MAX_ROWS
  CliTableRows,     \* CLI_TABLE_MAX_DATA_ROWS
  PropertyLines,    \* PROPERTIES_LOOKBACK_LINES
  SiblingLines,     \* MAX_SIBLING_LINES
  BlockLines,       \* MAX_HTTP_BLOCK_LINES
  JsonWindow,       \* JSON_WINDOW_LINES
  RequestWindow,    \* REQUEST_WINDOW_LINES
  MaxWindowBytes    \* MAX_WINDOW_BYTES

(* tail_lines and preceding_lines                                          *)
LastLines(t, count) == SubSeq(t, Max({1, Len(t) - count + 1}), Len(t))
Above(t, k, count) == LastLines(SubSeq(t, 1, k - 1), count)

------------------------------------------------------------------------------
(* Heroku: a netrc entry, a command's output, a command's table.           *)

(* A line that opens a layout, and at most so many others behind it.       *)
EndsInside(lines, opener, between, most) ==
  \E k \in DOMAIN lines :
    /\ lines[k].says = opener /\ Len(lines) - k <= most
    /\ \A j \in (k + 1)..Len(lines) : lines[j].says \in between

EndsInsideNetrcEntry(lines) == EndsInside(lines, "machine", {"login"}, NetrcLines)
EndsInsideAuthorizations(lines) ==
  EndsInside(lines, "authorizations:info", {"row", "Token row"}, AuthorizationRows)

HerokuLines == AuthorizationRows + 1

ReadsHeroku(t, k) ==
  LET above == Above(t, k, HerokuLines)
  IN \/ t[k].says = "password" /\ EndsInsideNetrcEntry(above)
     \/ t[k].says = "UUID" /\ above # <<>> /\ Last(above).says = "auth:token"
     \/ t[k].says = "Token row" /\ EndsInsideAuthorizations(above)

HasOpenHerokuContext(tail) ==
  LET lines == LastLines(tail, HerokuLines)
  IN \/ lines # <<>> /\ Last(lines).says = "auth:token"
     \/ EndsInsideNetrcEntry(lines)
     \/ EndsInsideAuthorizations(lines)

------------------------------------------------------------------------------
(* Twilio: a column of a command's table.                                  *)
CliTableLines == CliTableRows + 1

OpenCliTableColumns(lines) ==
  {lines[k].column : k \in {k \in 2..Len(lines) :
     /\ lines[k].says = "Auth Token column" /\ lines[k - 1].says = "twilio"
     /\ Len(lines) - k < CliTableRows
     /\ \A j \in (k + 1)..Len(lines) : lines[j].says \notin {"", "twilio"}}}

ReadsTwilio(t, k) ==
  t[k].says = "cell" /\ t[k].column \in OpenCliTableColumns(Above(t, k, CliTableLines))

HasOpenTwilioCliTable(tail) ==
  LET lines == LastLines(tail, CliTableLines)
  IN (lines # <<>> /\ Last(lines).says = "twilio") \/ OpenCliTableColumns(lines) # {}

------------------------------------------------------------------------------
(* Confluent: properties under one that names it.                          *)
EndsInsideConfluentProperties(lines) ==
  \E k \in DOMAIN lines :
    /\ lines[k].says = "property" /\ lines[k].confluent
    /\ \A j \in (k + 1)..Len(lines) : lines[j].says = "property"

ReadsConfluent(t, k) ==
  /\ t[k].says = "property" /\ t[k].secret
  /\ EndsInsideConfluentProperties(Above(t, k, PropertyLines))

HasOpenConfluentProperties(tail) == EndsInsideConfluentProperties(LastLines(tail, PropertyLines))

------------------------------------------------------------------------------
(* YAML: the name of a value beside it, the provider of a key above it.    *)
ListItemPaired(t, k) ==
  /\ t[k].says = "key" /\ t[k].key = "value"
  /\ LET other == IF t[k].item THEN k + 1 ELSE k - 1
     IN /\ other \in DOMAIN t /\ t[other].says = "key" /\ t[other].key = "name"
        /\ t[other].item # t[k].item /\ t[other].column = t[k].column

(* Mutant: only a name is waited for.                                      *)
NameOpensPair(tail) ==
  tail # <<>> /\ Last(tail).says = "key" /\ Last(tail).item /\ Last(tail).key = "name"

HasOpenListItemPair(tail) ==
  tail # <<>> /\ Last(tail).says = "key" /\ Last(tail).item /\ Last(tail).key \in {"name", "value"}

SiblingLine(line, column) ==
  CASE line.says # "key" -> "end"
    [] line.column # column -> "end"
    [] line.key = "provider" -> "provider"
    [] line.item -> "end"
    [] OTHER -> "sibling"

EndsInsideMapping(lines, column) ==
  \E k \in DOMAIN lines :
    /\ SiblingLine(lines[k], column) = "provider"
    /\ \A j \in (k + 1)..Len(lines) : SiblingLine(lines[j], column) = "sibling"

YamlSiblingNamesProvider(t, k) ==
  /\ t[k].says = "key" /\ t[k].key = "api_key" /\ ~t[k].item
  /\ EndsInsideMapping(Above(t, k, SiblingLines), t[k].column)

HasOpenProviderSibling(tail) ==
  LET lines == LastLines(tail, SiblingLines)
  IN /\ lines # <<>> /\ Last(lines).says = "key"
     /\ EndsInsideMapping(lines, Last(lines).column)

------------------------------------------------------------------------------
(* HTTP: the host of a request above a header.                             *)
EndsInsideRequest(lines) ==
  \E k \in DOMAIN lines :
    /\ lines[k].says \in {"request", "header"} /\ lines[k].deepgram
    /\ \A j \in (k + 1)..Len(lines) : lines[j].says = "header" /\ ~lines[j].deepgram

HttpBlockNamesHost(t, k) ==
  t[k].says = "header" /\ t[k].token /\ EndsInsideRequest(Above(t, k, BlockLines))

HasOpenDeepgramRequest(tail) == EndsInsideRequest(LastLines(tail, BlockLines))

------------------------------------------------------------------------------
(* Scoped names: a member beside its partners, a parameter under its       *)
(* request.  A window is bounded in lines and in bytes.                    *)
Bytes(t, from, to) == FoldLeft(+, 0, [k \in 1..(to - from + 1) |-> t[from + k - 1].bytes])
Span(t, from, to) == Bytes(t, from, to) + (to - from)

(* line_has_member: names are compared as they are written.                *)
LineHasMember(line, names) == line.says = "member" /\ line.written \in names

Normalized(written) == IF written = "Token" THEN "token" ELSE written

JsonPartner(t, k, partners) ==
  \E j \in DOMAIN t :
    /\ LineHasMember(t[j], partners)
    /\ j - k < JsonWindow /\ k - j < JsonWindow
    /\ j = k \/ Span(t, Min({j, k}), Max({j, k})) <= MaxWindowBytes

RevocationContext(t, k) ==
  \E j \in 1..k : /\ t[j].says = "/revoke" /\ k - j < RequestWindow
                  /\ Span(t, j, k) <= MaxWindowBytes

(* scoped_alias: of names as they are normalized.                          *)
ScopedAlias(t, k) ==
  \/ t[k].says = "member" /\ CASE Normalized(t[k].written) = "token" -> JsonPartner(t, k, {"sys", "scopes"})
                               [] Normalized(t[k].written) = "encoded" -> JsonPartner(t, k, {"api_key"})
                               [] OTHER -> FALSE
  \/ t[k].says = "token=" /\ RevocationContext(t, k)

(* The lines which would open a window must still fit it.                  *)
OpenWindow(recent, opening) ==
  \E k \in opening : Bytes(recent, k, Len(recent)) <= MaxWindowBytes

JsonTriggers == {"api_key", "encoded", "sys", "scopes", "token"}

OpenJsonWindow(tail) ==
  LET recent == LastLines(tail, JsonWindow - 1)
  IN OpenWindow(recent, {k \in DOMAIN recent : LineHasMember(recent[k], JsonTriggers)})

OpenRequestWindow(tail) ==
  LET recent == LastLines(tail, RequestWindow - 1)
  IN OpenWindow(recent, {k \in DOMAIN recent : recent[k].says = "/revoke"})

HasOpenScopedContext(tail) == OpenJsonWindow(tail) \/ OpenRequestWindow(tail)

------------------------------------------------------------------------------
(* Which detector reads what, and which hints a session has (LookbackHints *)
(* of incremental.rs): those that serve a detector of its registry.        *)
KeywordGated == {"mistral-api-key", "deepgram-api-key"}
ListItemPairs == KeywordGated \cup {"generic-token"}

Reads(registry, t, k) ==
  \/ "heroku-api-key-legacy" \in registry /\ ReadsHeroku(t, k)
  \/ "twilio-auth-token" \in registry /\ ReadsTwilio(t, k)
  \/ "confluent-cloud-api-secret-legacy" \in registry /\ ReadsConfluent(t, k)
  \/ registry \cap ListItemPairs # {} /\ ListItemPaired(t, k)
  \/ registry \cap KeywordGated # {} /\ YamlSiblingNamesProvider(t, k)
  \/ "deepgram-api-key" \in registry /\ HttpBlockNamesHost(t, k)
  \/ "generic-token" \in registry /\ ScopedAlias(t, k)

ReadLines(registry, t) == {<<k - 1, k>> : k \in {k \in DOMAIN t : Reads(registry, t, k)}}

(* MAX_LOOKBACK_LINES: as many lines as any hint reads.                    *)
MaxLookbackLines ==
  Max({HerokuLines, CliTableLines, PropertyLines, SiblingLines, BlockLines, RequestWindow, 2})

(* has_open_single_line_construct: the hints share one tail.               *)
HasOpenLayout(registry, unit) ==
  LET tail == LastLines(unit, MaxLookbackLines)
  IN \/ "heroku-api-key-legacy" \in registry /\ HasOpenHerokuContext(tail)
     \/ "twilio-auth-token" \in registry /\ HasOpenTwilioCliTable(tail)
     \/ "confluent-cloud-api-secret-legacy" \in registry /\ HasOpenConfluentProperties(tail)
     \/ registry \cap ListItemPairs # {} /\ HasOpenListItemPair(tail)
     \/ registry \cap KeywordGated # {} /\ HasOpenProviderSibling(tail)
     \/ "deepgram-api-key" \in registry /\ HasOpenDeepgramRequest(tail)
     \/ "generic-token" \in registry /\ HasOpenScopedContext(tail)
===============================================================================
