------------------------------ MODULE AddonCells -------------------------------
(***************************************************************************)
(* The thread-local cells of the JavaScript bindings, what they say of a   *)
(* profile and its owner, and what must hold of them and of the calls that *)
(* are in a callback.  AddonRegistry has the operations.                   *)
(***************************************************************************)
EXTENDS BindingConstants, Sequences, SequencesExt

CONSTANTS
  Profiles,     \* the profiles the Node.js addon links
  Included      \* profile -> its built-in detectors

VARIABLES
  addon,        \* what was loaded: "node", "wasm" or "wasm_without_pii"
  registry,     \* profile -> REGISTRY
  piiSelection, \* profile -> PII_SELECTION / SELECTION
  detection,    \* profile -> DETECTION_SELECTION / DETECTION
  entry,        \* RULESET_REGISTRY
  running,      \* the calls that are in a callback, outermost first
  answer        \* what the last call answered

addonVars == <<addon, registry, piiSelection, detection, entry, running, answer>>

------------------------------------------------------------------------------
(* Detector selections (crates/secret-scan-core/src/selection.rs).         *)
All == [mode |-> "all", ids |-> <<>>]

IsAll(d) == d.mode = "all" \/ (d.mode = "exclude" /\ d.ids = <<>>)

Enabled(d, profile) ==
  CASE d.mode = "all"     -> Included[profile]
    [] d.mode = "include" -> ToSet(d.ids)
    [] d.mode = "exclude" -> Included[profile] \ ToSet(d.ids)

(* A registry, as far as calls can tell; `given` is the selection it was   *)
(* narrowed by.  The PII adapter and a ruleset's detectors are not         *)
(* built-in, so no selection removes them.                                 *)
RegistryOf(profile, pii, d, ruleset) ==
  [profile |-> profile, pii |-> pii, enabled |-> Enabled(d, profile),
   ruleset |-> ruleset, given |-> IF IsAll(d) THEN All ELSE d]

(* What the cells say, defaults included.                                  *)
Pii(profile) == IF piiSelection[profile] = None THEN Off ELSE piiSelection[profile]
Detection(profile) == IF detection[profile] = None THEN All ELSE detection[profile]

------------------------------------------------------------------------------
(* Properties.                                                             *)

(* The three cells of a profile tell the same: a session or a ruleset      *)
(* scan, which read the selections, detect what a scan with the registry   *)
(* detects.  They are written by three operations in different orders.     *)
CellsAgree ==
  \A p \in Profiles :
    LET told == RegistryOf(p, Pii(p), Detection(p), BuiltIn)
    IN /\ registry[p] # None => registry[p].pii = told.pii /\ registry[p].enabled = told.enabled
       /\ registry[p] = None => piiSelection[p] = None /\ detection[p] = None

(* Every call in a callback runs under its profile, its ruleset and the    *)
(* selections in force when it began, whatever was initialized, cached or  *)
(* replaced around it and in its callbacks.                                *)
RunsAsAsked ==
  \A i \in DOMAIN running :
    LET call == running[i]
    IN /\ call.uses.profile = call.profile /\ call.uses.ruleset = call.ruleset
       /\ call.uses.pii = call.asked.pii /\ call.uses.enabled = call.asked.enabled

(* What an owner is fixed to never changes, and a call that is refused     *)
(* changes nothing.                                                        *)
SettledForGood ==
  [][/\ \A p \in Profiles :
          registry[p] # None =>
            /\ registry'[p] = registry[p]
            /\ Pii(p)' = Pii(p)
            /\ Enabled(Detection(p)', p) = Enabled(Detection(p), p)
     /\ answer'.error # "none" => UNCHANGED <<registry, piiSelection, detection, entry>>]_addonVars
================================================================================
