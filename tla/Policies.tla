------------------------------- MODULE Policies --------------------------------
(***************************************************************************)
(* What policies decide of findings, and what is said of their rules       *)
(* beforehand (action_policy.rs, policy_diagnostics.rs): pure functions of *)
(* a policy, and what must hold between the two of every decision made.    *)
(***************************************************************************)
EXTENDS Integers, Sequences, FiniteSets, SequencesExt, FiniteSetsExt

CONSTANTS
  Blocking,      \* finding types the default policy always blocks
  Redacting,     \* and ALWAYS_REDACT_TYPES
  Manifest,      \* the artifact: its detectors' declared types, those of others it has not
  PiiAdapter, None

VARIABLES
  context,       \* the configuration its findings come from
  request,       \* the sides: what a scan finds, or its failure, and a policy
  results        \* the sides done: findings and decisions, or the failure

------------------------------------------------------------------------------
(* Policies.  A rule has sets of types, detectors, confidences and         *)
(* obfuscations; an empty set is a key the rule lacks.                     *)
MatchKeys == {"type", "detector", "confidence", "obfuscation"}

default_action_for(finding) ==
  IF finding.type \in Blocking THEN "block"
  ELSE IF finding.type \in Redacting \/ finding.confidence = "high" THEN "redact"
  ELSE "warn"

Matches(rule, finding) ==
  \A key \in MatchKeys : rule.match[key] = {} \/ finding[key] \in rule.match[key]

(* explain: the first rule that matches decides, if by the default action. *)
Basis(kind, id, index) == [kind |-> kind, id |-> id, index |-> index]

Explain(rules, finding) ==
  LET matching == {k \in DOMAIN rules : Matches(rules[k], finding)}
      first == Min(matching)
      base == default_action_for(finding)
  IN IF matching = {}
       THEN [action |-> base, basis |-> Basis("no rule matched", None, 0)]
     ELSE IF rules[first].action = "default"
       THEN [action |-> base, basis |-> Basis("rule default", rules[first].id, first)]
     ELSE [action |-> rules[first].action, basis |-> Basis("rule", rules[first].id, first)]

(* shadows: an earlier rule matches all a later one does, key by key.      *)
(* Mutant: a key the later rule lacks is taken for one it has covered.     *)
ShadowsLackingKeys(earlier, later) ==
  \A key \in MatchKeys :
    earlier.match[key] = {} \/ later.match[key] \subseteq earlier.match[key]

Shadows(earlier, later) ==
  \A key \in MatchKeys :
    \/ earlier.match[key] = {}
    \/ later.match[key] # {} /\ later.match[key] \subseteq earlier.match[key]

(* check_detector: what is known of a detector a rule names, in a          *)
(* configuration.                                                          *)
DetectorCode(name, known) ==
  IF name \in known.enabled \cup known.rulesetIds THEN "silent"
  ELSE IF name \in DOMAIN Manifest.declared THEN "not enabled"
  ELSE IF name \in Manifest.notIncluded THEN "not included"
  ELSE IF name = PiiAdapter THEN IF known.pii THEN "silent" ELSE "not enabled"
  ELSE IF known.closedDetectors # None /\ name \in known.closedDetectors THEN "silent"
  ELSE "unknown detector"

(* check_type: types that a ruleset or the PII adapter emits are on no     *)
(* list.                                                                   *)
TypeCode(name, known) ==
  LET declared(detectors) == \E d \in detectors : name \in Manifest.declared[d] IN
  IF declared(known.enabled) THEN "silent"
  ELSE IF declared(DOMAIN Manifest.declared \ known.enabled) THEN "not enabled"
  ELSE IF known.closedTypes # None
    THEN IF name \in known.closedTypes THEN "silent" ELSE "unknown type"
  ELSE IF known.rulesetIds # {} \/ known.pii THEN "uncertain"
  ELSE "unknown type"

(* analyze: the names of a rule that are reported, and why.                *)
Reported(rule, known) ==
  {r \in {[key |-> "type", name |-> n, code |-> TypeCode(n, known)] : n \in rule.match["type"]}
          \cup {[key |-> "detector", name |-> n, code |-> DetectorCode(n, known)] :
                   n \in rule.match["detector"]} :
     r.code # "silent"}

(* analyze: a rule is reported with the first of those that shadow it.     *)
ShadowedBy(rules, k) == {e \in 1..(k - 1) : Shadows(rules[e], rules[k])}

------------------------------------------------------------------------------
(* A rule reported as shadowed decides nothing, whatever is found; nor is  *)
(* a rule that decided reported for a detector of the configuration that   *)
(* found something, or for a type that detector declares                   *)
(* (policy_diagnostics.rs:13-49).                                          *)
Finders(known) ==
  known.enabled \cup known.rulesetIds \cup (IF known.pii THEN {PiiAdapter} ELSE {})

WarnedRulesNeverDecide ==
  \A k \in DOMAIN results :
    request[k].policy.kind = "rules" =>
      \A n \in DOMAIN results[k].decisions :
        LET rule == results[k].decisions[n].basis.index
            finding == results[k].findings[n]
            rules == request[k].policy.rules
            named == {<<r.key, r.name>> : r \in Reported(rules[rule], context)}
        IN rule # 0 =>
             /\ ShadowedBy(rules, rule) = {}
             /\ finding.detector \in Finders(context) =>
                  <<"detector", finding.detector>> \notin named
             /\ /\ finding.detector \in context.enabled
                /\ finding.type \in Manifest.declared[finding.detector]
                => <<"type", finding.type>> \notin named
================================================================================
