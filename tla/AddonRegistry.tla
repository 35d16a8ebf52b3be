---------------------------- MODULE AddonRegistry ----------------------------
(***************************************************************************)
(* The owner of detection in the JavaScript bindings: the Node.js addon    *)
(* (bindings/node/src/lib.rs) and the WebAssembly module                   *)
(* (bindings/wasm/src/lifecycle.rs).  Everything lives in thread-local     *)
(* cells: per profile the registry, the PII selection and the detector     *)
(* selection the owner is fixed to, and one entry for the ruleset last     *)
(* used.  The addon links both profiles and fixes itself to the defaults   *)
(* when it is first used; the module is compiled for one profile and must  *)
(* be initialized first.                                                   *)
(*                                                                         *)
(* A thread runs JavaScript, so calls are atomic up to the callbacks they  *)
(* make: a policy callback may call any operation again, and whatever the  *)
(* outer call holds must survive that.                                     *)
(***************************************************************************)
EXTENDS AddonCells

CONSTANTS
  Compiled,     \* the profile a WebAssembly module is compiled for
  Detections,   \* detector selections [mode, ids], All among them
  MaxDepth      \* calls nested in callbacks

vars == addonVars

Node == addon = "node"
HasPii == addon # "wasm_without_pii"
Linked == IF Node THEN Profiles ELSE {Compiled}

------------------------------------------------------------------------------
(* Detector selections (crates/secret-scan-core/src/selection.rs).         *)
(* judge: every id named is included, and none is named twice.             *)
Judged(d, profile) ==
  /\ ToSet(d.ids) \subseteq Included[profile]
  /\ \A i, j \in DOMAIN d.ids : d.ids[i] = d.ids[j] => i = j

(* with_detection, plan_selection: why it is refused, or "none".           *)
Refusal(profile, pii, d, ruleset) ==
  IF IsAll(d) THEN "none"
  ELSE IF ~Judged(d, profile) THEN "invalid_detection"
  ELSE IF Enabled(d, profile) = {} /\ pii = Off /\ ruleset = BuiltIn THEN "empty_detection"
  ELSE "none"

(* What is asked of the constants: the defaults are among the selections,  *)
(* and None is none of the values a cell holds.                            *)
ConstantsAssumption ==
  /\ Compiled \in Profiles /\ MaxDepth \in Nat
  /\ Off \in Selections /\ None \notin Selections
  /\ All \in Detections /\ None \notin Detections
  /\ \A d \in Detections : d.mode \in {"all", "include", "exclude"}
  /\ \A p \in Profiles, s \in Selections, d \in Detections, r \in Rulesets \cup {BuiltIn} :
       RegistryOf(p, s, d, r) # None

------------------------------------------------------------------------------
Answers(op, error) == answer' = [op |-> op, error |-> error]

MayCall == Len(running) <= MaxDepth

(* Mutant: a cell may be set again.                                        *)
SetAgain(cell, profile, value) == [cell EXCEPT ![profile] = value]

SetIfEmpty(cell, profile, value) ==
  IF cell[profile] = None THEN [cell EXCEPT ![profile] = value] ELSE cell

(* with_profile_registry: the addon builds the defaults on first use.      *)
Locked(profile) == SetIfEmpty(registry, profile, RegistryOf(profile, Off, All, BuiltIn))

(* Mutant: the detectors enabled are not compared.                         *)
InitializeErrorIgnoringIds(profile, pii, d) ==
  IF registry[profile] # None /\ registry[profile].pii # pii THEN "pii_conflict"
  ELSE IF ~HasPii /\ pii # Off THEN "pii_unavailable"
  ELSE Refusal(profile, pii, d, BuiltIn)

(* A conflict with the PII activation comes first, then the selection's    *)
(* own rejection, then a conflict with the detectors enabled.              *)
InitializeError(profile, pii, d) ==
  LET existing == registry[profile]
      refusal == Refusal(profile, pii, d, BuiltIn)
  IN IF existing # None /\ existing.pii # pii THEN "pii_conflict"
     ELSE IF ~HasPii /\ pii # Off THEN "pii_unavailable"
     ELSE IF refusal # "none" THEN refusal
     ELSE IF existing # None /\ existing.enabled # Enabled(d, profile) THEN "detection_conflict"
     ELSE "none"

(* initialize_profile_with_detection of the addon and initialize_with of   *)
(* the module: nothing is stored before everything has been judged.        *)
Initialize(profile, pii, d) ==
  LET error == InitializeError(profile, pii, d)
  IN /\ MayCall /\ profile \in Linked
     /\ IF error = "none"
          THEN /\ registry' = SetIfEmpty(registry, profile, RegistryOf(profile, pii, d, BuiltIn))
               /\ piiSelection' = SetIfEmpty(piiSelection, profile, pii)
               /\ detection' = SetIfEmpty(detection, profile, d)
          ELSE UNCHANGED <<registry, piiSelection, detection>>
     /\ Answers("initialize", error)
     /\ UNCHANGED <<addon, entry, running>>

(* initialize_profile: the addon's initialize(), older than the selections. *)
InitializeLegacy(profile) ==
  LET existing == Locked(profile)[profile]
      error == IF existing.pii # Off THEN "pii_conflict"
               ELSE IF existing.given # All THEN "detection_conflict" ELSE "none"
  IN /\ MayCall /\ Node /\ profile \in Linked
     /\ registry' = Locked(profile)
     /\ piiSelection' = IF error = "none" THEN SetIfEmpty(piiSelection, profile, Off) ELSE piiSelection
     /\ Answers("initialize", error)
     /\ UNCHANGED <<addon, detection, entry, running>>

(* pii_activation reads the registry: the addon fixes itself to do so.     *)
Activation(profile) ==
  /\ MayCall /\ profile \in Linked
  /\ registry' = IF Node THEN Locked(profile) ELSE registry
  /\ Answers("activation", IF registry'[profile] = None THEN "not_initialized" ELSE "none")
  /\ UNCHANGED <<addon, piiSelection, detection, entry, running>>

------------------------------------------------------------------------------
(* Calls with callbacks: scan, scanAndRedact, compareActionPolicies.       *)
Runs(profile, ruleset, uses) ==
  running' = Append(running,
    [profile |-> profile, ruleset |-> ruleset, uses |-> uses,
     asked |-> [pii |-> Pii(profile), enabled |-> Enabled(Detection(profile), profile)]])

(* Without a ruleset the call runs under the owner's registry.             *)
Scan(profile) ==
  /\ MayCall /\ profile \in Linked
  /\ IF Node \/ registry[profile] # None
       THEN /\ registry' = Locked(profile)
            /\ Runs(profile, BuiltIn, registry'[profile])
            /\ Answers("scan", "none")
       ELSE /\ Answers("scan", "not_initialized")
            /\ UNCHANGED <<registry, running>>
  /\ UNCHANGED <<addon, piiSelection, detection, entry>>

Entry(profile, ruleset) ==
  [profile |-> profile, pii |-> Pii(profile), detection |-> Detection(profile),
   ruleset |-> ruleset,
   registry |-> RegistryOf(profile, Pii(profile), Detection(profile), ruleset)]

(* Mutant: the entry is found by its ruleset alone, as the module finds it. *)
CachedByRuleset(profile, ruleset) ==
  entry # None /\ entry.ruleset = ruleset

(* The module compares the ruleset only: its owner is fixed by now.        *)
Cached(profile, ruleset) ==
  /\ entry # None /\ entry.ruleset = ruleset
  /\ Node => /\ entry.profile = profile
             /\ entry.pii = Pii(profile) /\ entry.detection = Detection(profile)

(* with_ruleset_registry: what a callback does to the entry does not reach *)
(* the calls around it, which keep the registry they were given.           *)
ScanWithRuleset(profile, ruleset) ==
  LET found == IF Cached(profile, ruleset) THEN entry ELSE Entry(profile, ruleset)
      error == IF ~Node /\ registry[profile] = None THEN "not_initialized"
               ELSE IF ~Cached(profile, ruleset) /\ ruleset \in Malformed THEN "invalid_ruleset"
               ELSE "none"
  IN /\ MayCall /\ profile \in Linked
     /\ IF error = "none"
          THEN entry' = found /\ Runs(profile, ruleset, found.registry)
          ELSE UNCHANGED <<entry, running>>
     /\ Answers("scan", error)
     /\ UNCHANGED <<addon, registry, piiSelection, detection>>

(* The innermost call returns from its callbacks, or one of them throws.   *)
Return ==
  /\ running # <<>>
  /\ running' = Front(running)
  /\ Answers("return", "none")
  /\ UNCHANGED <<addon, registry, piiSelection, detection, entry>>

------------------------------------------------------------------------------
Init ==
  /\ addon \in {"node", "wasm", "wasm_without_pii"}
  /\ registry = [p \in Profiles |-> None]
  /\ piiSelection = [p \in Profiles |-> None]
  /\ detection = [p \in Profiles |-> None]
  /\ entry = None /\ running = <<>>
  /\ answer = [op |-> "none", error |-> "none"]

Next ==
  \/ \E p \in Profiles, s \in Selections, d \in Detections : Initialize(p, s, d)
  \/ \E p \in Profiles : InitializeLegacy(p) \/ Activation(p) \/ Scan(p)
  \/ \E p \in Profiles, r \in Rulesets : ScanWithRuleset(p, r)
  \/ Return

Spec == Init /\ [][Next]_vars
=============================================================================
