------------------------- MODULE AddonRegistry_proofs --------------------------
(***************************************************************************)
(* Proofs about AddonRegistry: its safety properties hold for any          *)
(* profiles, selections and rulesets, and for callbacks nested to any      *)
(* depth, on Node.js and for both builds of the module.                    *)
(***************************************************************************)
EXTENDS AddonRegistry, TLAPS

Detectors == UNION {Included[p] : p \in Profiles}

Registries ==
  [profile : Profiles, pii : Selections, enabled : SUBSET Detectors,
   ruleset : Rulesets \cup {BuiltIn}, given : Detections]

Entries ==
  [profile : Profiles, pii : Selections, detection : Detections, ruleset : Rulesets,
   registry : Registries]

Calls ==
  [profile : Profiles, ruleset : Rulesets \cup {BuiltIn}, uses : Registries,
   asked : [pii : Selections, enabled : SUBSET Detectors]]

(* A selection that was judged and found good.                             *)
Accepted(d, profile) == IsAll(d) \/ Judged(d, profile)

TypeOK ==
  /\ addon \in {"node", "wasm", "wasm_without_pii"}
  /\ registry \in [Profiles -> Registries \cup {None}]
  /\ piiSelection \in [Profiles -> Selections \cup {None}]
  /\ detection \in [Profiles -> Detections \cup {None}]
  /\ entry \in Entries \cup {None}
  /\ running \in Seq(Calls) /\ Len(running) <= MaxDepth + 1

(* The owner is built from the selections in force, and they are in force  *)
(* only once it is built.                                                  *)
CellsKnow ==
  \A p \in Profiles :
    /\ registry[p] # None =>
         /\ registry[p].profile = p /\ registry[p].ruleset = BuiltIn
         /\ registry[p].pii = Pii(p)
         /\ registry[p].enabled = Enabled(Detection(p), p)
    /\ registry[p] = None => piiSelection[p] = None /\ detection[p] = None
    /\ Accepted(Detection(p), p)

(* An entry holds the registry its key describes.  The module compares no  *)
(* selections: once it has an entry, those in force are the entry's.       *)
EntryKnows ==
  entry # None =>
    /\ entry.registry = RegistryOf(entry.profile, entry.pii, entry.detection, entry.ruleset)
    /\ ~Node => /\ entry.profile = Compiled /\ registry[Compiled] # None
                /\ entry.pii = Pii(Compiled)
                /\ Enabled(entry.detection, Compiled) = Enabled(Detection(Compiled), Compiled)

IInv ==
  /\ TypeOK
  /\ CellsKnow
  /\ EntryKnows
  /\ RunsAsAsked

------------------------------------------------------------------------------
(* Selections and the registries built from them.                          *)

(* A registry enables built-in detectors of its profile only.              *)
LEMMA EnabledAreIncluded ==
  ASSUME ConstantsAssumption, NEW p \in Profiles, NEW d \in Detections, Accepted(d, p)
  PROVE  Enabled(d, p) \subseteq Included[p] /\ Enabled(d, p) \subseteq Detectors
<1>1. d.mode \in {"all", "include", "exclude"} BY DEF ConstantsAssumption
<1>2. Enabled(d, p) \subseteq Included[p]
  BY <1>1 DEF Enabled, Accepted, IsAll, Judged
<1> QED BY <1>2 DEF Detectors

(* Naming every detector by leaving none out is naming all of them.        *)
LEMMA AllIsAccepted ==
  ASSUME ConstantsAssumption
  PROVE  All \in Detections /\ IsAll(All) /\ \A p \in Profiles : Accepted(All, p)
  BY DEF ConstantsAssumption, All, IsAll, Accepted

LEMMA RegistryHasType ==
  ASSUME ConstantsAssumption, NEW p \in Profiles, NEW s \in Selections,
         NEW d \in Detections, Accepted(d, p), NEW r \in Rulesets \cup {BuiltIn}
  PROVE  /\ RegistryOf(p, s, d, r) \in Registries
         /\ RegistryOf(p, s, d, r) # None
         /\ RegistryOf(p, s, d, r).profile = p /\ RegistryOf(p, s, d, r).pii = s
         /\ RegistryOf(p, s, d, r).enabled = Enabled(d, p)
         /\ RegistryOf(p, s, d, r).ruleset = r
<1>1. Enabled(d, p) \subseteq Detectors BY EnabledAreIncluded
<1>2. (IF IsAll(d) THEN All ELSE d) \in Detections BY AllIsAccepted
<1>3. RegistryOf(p, s, d, r) # None BY DEF ConstantsAssumption
<1> QED BY <1>1, <1>2, <1>3 DEF RegistryOf, Registries

(* What is in force, by default or not.                                    *)
LEMMA InForce ==
  ASSUME ConstantsAssumption, TypeOK, NEW p \in Profiles
  PROVE  Pii(p) \in Selections /\ Detection(p) \in Detections
  BY AllIsAccepted DEF ConstantsAssumption, TypeOK, Pii, Detection

(* The selections that are accepted are those refused for no reason of     *)
(* their own.                                                              *)
LEMMA RefusalJudges ==
  ASSUME NEW p, NEW s, NEW d, NEW r, Refusal(p, s, d, r) = "none"
  PROVE  Accepted(d, p)
  BY DEF Refusal, Accepted

------------------------------------------------------------------------------
(* What the operations do to the cells.                                    *)

(* What an owner was fixed to is what it stays fixed to.                   *)
KeepsOwners ==
  \A p \in Profiles :
    registry[p] # None =>
      /\ registry'[p] = registry[p]
      /\ Pii(p)' = Pii(p)
      /\ Enabled(Detection(p)', p) = Enabled(Detection(p), p)

CellsType ==
  /\ registry \in [Profiles -> Registries \cup {None}]
  /\ piiSelection \in [Profiles -> Selections \cup {None}]
  /\ detection \in [Profiles -> Detections \cup {None}]

(* An initialize() that succeeds has judged its selection and found it to  *)
(* agree with the owner that is there.                                     *)
LEMMA InitializeJudges ==
  ASSUME NEW p, NEW s, NEW d, InitializeError(p, s, d) = "none"
  PROVE  /\ Accepted(d, p)
         /\ registry[p] # None => registry[p].pii = s /\ registry[p].enabled = Enabled(d, p)
<1>1. Refusal(p, s, d, BuiltIn) = "none" BY Zenon DEF InitializeError
<1>2. registry[p] # None => registry[p].pii = s BY DEF InitializeError
<1>3. registry[p] # None => registry[p].enabled = Enabled(d, p)
  BY <1>1, <1>2 DEF InitializeError
<1> QED BY <1>1, <1>2, <1>3, RefusalJudges

(* initialize() fills the cells that are empty, all for one selection.     *)
LEMMA InitializeSettles ==
  ASSUME ConstantsAssumption, IInv, NEW p \in Profiles, NEW s \in Selections,
         NEW d \in Detections, Initialize(p, s, d)
  PROVE  CellsType' /\ CellsKnow' /\ KeepsOwners
<1>1. CASE UNCHANGED <<registry, piiSelection, detection>>
  BY <1>1 DEF IInv, TypeOK, CellsType, CellsKnow, KeepsOwners, Pii, Detection
<1>2. CASE InitializeError(p, s, d) = "none"
  <2>1. /\ registry' = SetIfEmpty(registry, p, RegistryOf(p, s, d, BuiltIn))
        /\ piiSelection' = SetIfEmpty(piiSelection, p, s)
        /\ detection' = SetIfEmpty(detection, p, d)
    BY <1>2 DEF Initialize
  <2>2. /\ Accepted(d, p)
        /\ registry[p] # None => registry[p].pii = s /\ registry[p].enabled = Enabled(d, p)
    BY <1>2, InitializeJudges
  <2> DEFINE owner == RegistryOf(p, s, d, BuiltIn)
  <2>3. /\ owner \in Registries /\ owner # None /\ owner.profile = p /\ owner.pii = s
        /\ owner.enabled = Enabled(d, p) /\ owner.ruleset = BuiltIn
    BY <2>2, RegistryHasType
  <2> HIDE DEF owner
  <2>4. s # None /\ d # None BY DEF ConstantsAssumption
  <2>5. CellsType' BY <2>1, <2>3 DEF IInv, TypeOK, CellsType, SetIfEmpty, owner
  <2>6. /\ registry'[p] = (IF registry[p] = None THEN owner ELSE registry[p])
        /\ piiSelection'[p] = (IF piiSelection[p] = None THEN s ELSE piiSelection[p])
        /\ detection'[p] = (IF detection[p] = None THEN d ELSE detection[p])
    BY <2>1 DEF IInv, TypeOK, SetIfEmpty, owner
  <2>7. \A q \in Profiles : q # p =>
          registry'[q] = registry[q] /\ piiSelection'[q] = piiSelection[q] /\ detection'[q] = detection[q]
    BY <2>1 DEF IInv, TypeOK, SetIfEmpty
  <2>8. Pii(p)' = s /\ Enabled(Detection(p)', p) = Enabled(d, p) /\ Accepted(Detection(p)', p)
    <3>1. CASE registry[p] = None
      <4>1. piiSelection'[p] = s /\ detection'[p] = d BY <3>1, <2>6 DEF IInv, CellsKnow
      <4> QED BY <4>1, <2>2, <2>4 DEF Pii, Detection
    <3>2. CASE registry[p] # None
      <4>1. Pii(p) = s /\ Enabled(Detection(p), p) = Enabled(d, p) /\ Accepted(Detection(p), p)
        BY <3>2, <2>2 DEF IInv, CellsKnow
      <4> QED BY <4>1, <2>2, <2>4, <2>6 DEF Pii, Detection
    <3> QED BY <3>1, <3>2
  <2>9. \A q \in Profiles : q # p => Pii(q)' = Pii(q) /\ Detection(q)' = Detection(q)
    BY <2>7 DEF Pii, Detection
  <2>10. KeepsOwners
    <3> SUFFICES ASSUME NEW q \in Profiles, registry[q] # None
                 PROVE  /\ registry'[q] = registry[q] /\ Pii(q)' = Pii(q)
                        /\ Enabled(Detection(q)', q) = Enabled(Detection(q), q)
      BY DEF KeepsOwners
    <3>1. CASE q = p BY <3>1, <2>2, <2>6, <2>8 DEF IInv, CellsKnow
    <3>2. CASE q # p BY <3>2, <2>7, <2>9
    <3> QED BY <3>1, <3>2
  <2>11. CellsKnow'
    <3> SUFFICES ASSUME NEW q \in Profiles
                 PROVE  /\ registry'[q] # None =>
                             /\ registry'[q].profile = q /\ registry'[q].ruleset = BuiltIn
                             /\ registry'[q].pii = Pii(q)'
                             /\ registry'[q].enabled = Enabled(Detection(q)', q)
                        /\ registry'[q] = None => piiSelection'[q] = None /\ detection'[q] = None
                        /\ Accepted(Detection(q)', q)
      BY DEF CellsKnow
    <3>1. CASE q = p BY <3>1, <2>2, <2>3, <2>6, <2>8 DEF IInv, CellsKnow
    <3>2. CASE q # p BY <3>2, <2>7, <2>9 DEF IInv, CellsKnow
    <3> QED BY <3>1, <3>2
  <2> QED BY <2>5, <2>10, <2>11
<1> QED BY <1>1, <1>2 DEF Initialize

(* The owner an addon fixes itself to is the one of the defaults.          *)
LEMMA LockedSettles ==
  ASSUME ConstantsAssumption, IInv, NEW p \in Profiles, registry' = Locked(p),
         piiSelection' \in {piiSelection, SetIfEmpty(piiSelection, p, Off)}, detection' = detection
  PROVE  CellsType' /\ CellsKnow' /\ KeepsOwners /\ registry'[p] # None
<1> DEFINE owner == RegistryOf(p, Off, All, BuiltIn)
<1>1. /\ owner \in Registries /\ owner # None /\ owner.profile = p /\ owner.pii = Off
      /\ owner.enabled = Enabled(All, p) /\ owner.ruleset = BuiltIn
  BY AllIsAccepted, RegistryHasType DEF ConstantsAssumption
<1> HIDE DEF owner
<1>2. registry' = SetIfEmpty(registry, p, owner) BY DEF Locked, owner
<1>3. /\ Off \in Selections /\ Off # None /\ None \notin Detections
  BY DEF ConstantsAssumption
<1>4. CellsType' BY <1>1, <1>2, <1>3 DEF IInv, TypeOK, CellsType, SetIfEmpty
<1>5. registry'[p] = (IF registry[p] = None THEN owner ELSE registry[p])
  BY <1>2 DEF IInv, TypeOK, SetIfEmpty
<1>6. \A q \in Profiles : q # p => registry'[q] = registry[q] /\ piiSelection'[q] = piiSelection[q]
  BY <1>2 DEF IInv, TypeOK, SetIfEmpty
<1>7. Detection(p)' = Detection(p) /\ \A q \in Profiles : Detection(q)' = Detection(q)
  BY DEF Detection
<1>8. \A q \in Profiles : q # p => Pii(q)' = Pii(q) BY <1>6 DEF Pii
<1>9. Pii(p)' = Pii(p) /\ (registry[p] = None => Pii(p) = Off /\ Detection(p) = All)
  <2>1. registry[p] = None => Pii(p) = Off /\ Detection(p) = All
    BY DEF IInv, CellsKnow, Pii, Detection
  <2>2. CASE piiSelection' = piiSelection BY <2>1, <2>2 DEF Pii
  <2>3. CASE piiSelection' # piiSelection
    <3>1. piiSelection'[p] = (IF piiSelection[p] = None THEN Off ELSE piiSelection[p])
      BY <2>3 DEF IInv, TypeOK, SetIfEmpty
    <3> QED BY <2>1, <3>1, <1>3 DEF Pii
  <2> QED BY <2>2, <2>3
<1>10. registry'[p] = None => FALSE BY <1>1, <1>5
<1>11. KeepsOwners
  <2> SUFFICES ASSUME NEW q \in Profiles, registry[q] # None
               PROVE  /\ registry'[q] = registry[q] /\ Pii(q)' = Pii(q)
                      /\ Enabled(Detection(q)', q) = Enabled(Detection(q), q)
    BY DEF KeepsOwners
  <2> QED BY <1>5, <1>6, <1>7, <1>8, <1>9
<1>12. CellsKnow'
  <2> SUFFICES ASSUME NEW q \in Profiles
               PROVE  /\ registry'[q] # None =>
                           /\ registry'[q].profile = q /\ registry'[q].ruleset = BuiltIn
                           /\ registry'[q].pii = Pii(q)'
                           /\ registry'[q].enabled = Enabled(Detection(q)', q)
                      /\ registry'[q] = None => piiSelection'[q] = None /\ detection'[q] = None
                      /\ Accepted(Detection(q)', q)
    BY DEF CellsKnow
  <2>1. CASE q = p BY <2>1, <1>1, <1>5, <1>7, <1>9, <1>10 DEF IInv, CellsKnow
  <2>2. CASE q # p BY <2>2, <1>6, <1>7, <1>8 DEF IInv, CellsKnow
  <2> QED BY <2>1, <2>2
<1> QED BY <1>4, <1>10, <1>11, <1>12

------------------------------------------------------------------------------
(* The entry and the calls that run.                                       *)

(* An entry outlives what is initialized later: it stays what its key      *)
(* says, and for the module what is in force.                              *)
LEMMA EntryStays ==
  ASSUME IInv, ConstantsAssumption, KeepsOwners, addon' = addon, entry' = entry
  PROVE  EntryKnows'
<1>1. Compiled \in Profiles BY DEF ConstantsAssumption
<1>2. CASE entry = None BY <1>2 DEF EntryKnows
<1>3. CASE entry # None /\ Node
  BY <1>3 DEF IInv, EntryKnows, Node
<1>4. CASE entry # None /\ ~Node
  BY <1>1, <1>4 DEF IInv, EntryKnows, Node, KeepsOwners
<1> QED BY <1>2, <1>3, <1>4

(* A call that begins is asked for the selections in force.                *)
LEMMA CallBegins ==
  ASSUME ConstantsAssumption, IInv, MayCall, NEW p \in Profiles,
         NEW r \in Rulesets \cup {BuiltIn}, NEW uses \in Registries, Runs(p, r, uses),
         uses.profile = p, uses.ruleset = r,
         uses.pii = Pii(p), uses.enabled = Enabled(Detection(p), p)
  PROVE  /\ running' \in Seq(Calls) /\ Len(running') <= MaxDepth + 1
         /\ RunsAsAsked'
<1> DEFINE call == [profile |-> p, ruleset |-> r, uses |-> uses,
                    asked |-> [pii |-> Pii(p), enabled |-> Enabled(Detection(p), p)]]
<1>1. running' = Append(running, call) BY DEF Runs
<1>2. call \in Calls
  <2>1. Pii(p) \in Selections /\ Detection(p) \in Detections BY InForce DEF IInv
  <2>2. Enabled(Detection(p), p) \subseteq Detectors
    BY <2>1, EnabledAreIncluded DEF IInv, CellsKnow
  <2> QED BY <2>1, <2>2 DEF Calls
<1>3. /\ call.uses.profile = call.profile /\ call.uses.ruleset = call.ruleset
      /\ call.uses.pii = call.asked.pii /\ call.uses.enabled = call.asked.enabled
  OBVIOUS
<1> HIDE DEF call
<1>4. running \in Seq(Calls) /\ Len(running) <= MaxDepth /\ MaxDepth \in Nat
  BY DEF IInv, TypeOK, MayCall, ConstantsAssumption
<1>5. running' \in Seq(Calls) /\ Len(running') <= MaxDepth + 1
  BY <1>1, <1>2, <1>4
<1>6. \A i \in DOMAIN running' :
        running'[i] = call \/ (i \in DOMAIN running /\ running'[i] = running[i])
  BY <1>1, <1>2, <1>4
<1>7. RunsAsAsked'
  BY <1>3, <1>6 DEF IInv, RunsAsAsked
<1> QED BY <1>5, <1>7

(* What with_ruleset_registry gives a call, found or made.                 *)
LEMMA EntryFits ==
  ASSUME ConstantsAssumption, IInv, NEW p \in Linked, p \in Profiles, NEW r \in Rulesets,
         Node \/ registry[p] # None,
         NEW found, found = IF Cached(p, r) THEN entry ELSE Entry(p, r)
  PROVE  /\ found \in Entries
         /\ found.registry = RegistryOf(found.profile, found.pii, found.detection, found.ruleset)
         /\ found.registry.profile = p /\ found.registry.ruleset = r
         /\ found.registry.pii = Pii(p)
         /\ found.registry.enabled = Enabled(Detection(p), p)
         /\ found.profile = p /\ found.pii = Pii(p)
         /\ Enabled(found.detection, p) = Enabled(Detection(p), p)
<1>1. Pii(p) \in Selections /\ Detection(p) \in Detections /\ Accepted(Detection(p), p)
  BY InForce DEF IInv, CellsKnow
<1>2. CASE ~Cached(p, r)
  <2>1. found = [profile |-> p, pii |-> Pii(p), detection |-> Detection(p), ruleset |-> r,
                 registry |-> RegistryOf(p, Pii(p), Detection(p), r)]
    BY <1>2 DEF Entry
  <2>2. /\ RegistryOf(p, Pii(p), Detection(p), r) \in Registries
        /\ RegistryOf(p, Pii(p), Detection(p), r).profile = p
        /\ RegistryOf(p, Pii(p), Detection(p), r).pii = Pii(p)
        /\ RegistryOf(p, Pii(p), Detection(p), r).enabled = Enabled(Detection(p), p)
        /\ RegistryOf(p, Pii(p), Detection(p), r).ruleset = r
    BY <1>1, RegistryHasType
  <2> QED BY <1>1, <2>1, <2>2 DEF Entries
<1>3. CASE Cached(p, r)
  <2>1. found = entry /\ entry # None /\ entry.ruleset = r BY <1>3 DEF Cached
  <2>2. entry \in Entries BY <2>1 DEF IInv, TypeOK
  <2>3. entry.registry = RegistryOf(entry.profile, entry.pii, entry.detection, entry.ruleset)
    BY <2>1 DEF IInv, EntryKnows
  <2>4. /\ entry.profile = p /\ entry.pii = Pii(p)
        /\ Enabled(entry.detection, p) = Enabled(Detection(p), p)
    <3>1. CASE Node BY <1>3, <3>1 DEF Cached
    <3>2. CASE ~Node
      <4>1. p = Compiled BY <3>2 DEF Linked
      <4> QED BY <3>2, <4>1, <2>1 DEF IInv, EntryKnows
    <3> QED BY <3>1, <3>2
  <2>5. /\ entry.registry.profile = entry.profile /\ entry.registry.pii = entry.pii
        /\ entry.registry.enabled = Enabled(entry.detection, entry.profile)
        /\ entry.registry.ruleset = entry.ruleset
    BY <2>3 DEF RegistryOf
  <2> QED BY <2>1, <2>2, <2>3, <2>4, <2>5
<1> QED BY <1>2, <1>3

------------------------------------------------------------------------------
(* Every operation preserves the invariant and the owners.                 *)
LEMMA Settled ==
  ASSUME ConstantsAssumption, IInv, addon' = addon, CellsType', CellsKnow', KeepsOwners
  PROVE  /\ entry' = entry /\ running' = running => IInv'
         /\ entry' = entry /\ running' \in Seq(Calls) /\ Len(running') <= MaxDepth + 1
              /\ RunsAsAsked' => IInv'
<1>1. entry' = entry => EntryKnows' BY EntryStays
<1>2. running' = running => RunsAsAsked' BY DEF IInv, RunsAsAsked
<1> QED BY <1>1, <1>2 DEF IInv, TypeOK, CellsType

LEMMA CellsStay ==
  ASSUME IInv, UNCHANGED <<addon, registry, piiSelection, detection>>
  PROVE  CellsType' /\ CellsKnow' /\ KeepsOwners
  BY DEF IInv, TypeOK, CellsType, CellsKnow, KeepsOwners, Pii, Detection

LEMMA InitializeKeeps ==
  ASSUME ConstantsAssumption, IInv, NEW p \in Profiles, NEW s \in Selections,
         NEW d \in Detections, Initialize(p, s, d)
  PROVE  IInv' /\ KeepsOwners
<1>1. CellsType' /\ CellsKnow' /\ KeepsOwners BY InitializeSettles
<1>2. addon' = addon /\ entry' = entry /\ running' = running BY DEF Initialize
<1> QED BY <1>1, <1>2, Settled

LEMMA LegacyKeeps ==
  ASSUME ConstantsAssumption, IInv, NEW p \in Profiles, InitializeLegacy(p)
  PROVE  IInv' /\ KeepsOwners
<1>1. /\ registry' = Locked(p) /\ detection' = detection
      /\ piiSelection' \in {piiSelection, SetIfEmpty(piiSelection, p, Off)}
      /\ addon' = addon /\ entry' = entry /\ running' = running
  BY DEF InitializeLegacy
<1> QED BY <1>1, LockedSettles, Settled

LEMMA ActivationKeeps ==
  ASSUME ConstantsAssumption, IInv, NEW p \in Profiles, Activation(p)
  PROVE  IInv' /\ KeepsOwners
<1>1. /\ registry' = (IF Node THEN Locked(p) ELSE registry)
      /\ piiSelection' = piiSelection /\ detection' = detection
      /\ addon' = addon /\ entry' = entry /\ running' = running
  BY DEF Activation
<1>2. CASE Node BY <1>1, <1>2, LockedSettles, Settled
<1>3. CASE ~Node BY <1>1, <1>3, CellsStay, Settled
<1> QED BY <1>2, <1>3

(* A scan runs under the owner, which the addon may have fixed just now.   *)
LEMMA ScanKeeps ==
  ASSUME ConstantsAssumption, IInv, NEW p \in Profiles, Scan(p)
  PROVE  IInv' /\ KeepsOwners
<1>1. /\ addon' = addon /\ entry' = entry /\ MayCall
      /\ piiSelection' = piiSelection /\ detection' = detection
  BY DEF Scan
<1>2. CASE Node \/ registry[p] # None
  <2>1. registry' = Locked(p) /\ Runs(p, BuiltIn, registry'[p]) BY <1>2 DEF Scan
  <2>2. CellsType' /\ CellsKnow' /\ KeepsOwners /\ registry'[p] # None
    BY <1>1, <2>1, LockedSettles
  <2>3. Pii(p)' = Pii(p) /\ Detection(p)' = Detection(p) BY <1>1 DEF Pii, Detection
  <2>4. /\ registry'[p] \in Registries
        /\ registry'[p].profile = p /\ registry'[p].ruleset = BuiltIn
        /\ registry'[p].pii = Pii(p) /\ registry'[p].enabled = Enabled(Detection(p), p)
    BY <2>2, <2>3 DEF CellsType, CellsKnow
  <2>5. /\ running' \in Seq(Calls) /\ Len(running') <= MaxDepth + 1
        /\ RunsAsAsked'
    BY <1>1, <2>1, <2>4, CallBegins
  <2> QED BY <1>1, <2>2, <2>5, Settled
<1>3. CASE ~(Node \/ registry[p] # None)
  <2>1. registry' = registry /\ running' = running BY <1>3 DEF Scan
  <2> QED BY <1>1, <2>1, CellsStay, Settled
<1> QED BY <1>2, <1>3

LEMMA RulesetScanKeeps ==
  ASSUME ConstantsAssumption, IInv, NEW p \in Profiles, NEW r \in Rulesets, ScanWithRuleset(p, r)
  PROVE  IInv' /\ KeepsOwners
<1> DEFINE found == IF Cached(p, r) THEN entry ELSE Entry(p, r)
<1>1. /\ UNCHANGED <<addon, registry, piiSelection, detection>> /\ MayCall /\ p \in Linked
  BY DEF ScanWithRuleset
<1>2. CellsType' /\ CellsKnow' /\ KeepsOwners BY <1>1, CellsStay
<1>3. CASE entry' = entry /\ running' = running BY <1>1, <1>2, <1>3, Settled
<1>4. CASE (Node \/ registry[p] # None) /\ entry' = found /\ Runs(p, r, found.registry)
  <2>1. /\ found \in Entries
        /\ found.registry = RegistryOf(found.profile, found.pii, found.detection, found.ruleset)
        /\ found.registry.profile = p /\ found.registry.ruleset = r
        /\ found.registry.pii = Pii(p)
        /\ found.registry.enabled = Enabled(Detection(p), p)
        /\ found.profile = p /\ found.pii = Pii(p)
        /\ Enabled(found.detection, p) = Enabled(Detection(p), p)
    BY <1>1, <1>4, EntryFits
  <2> HIDE DEF found
  <2>2. found.registry \in Registries BY <2>1 DEF Entries
  <2>3. /\ running' \in Seq(Calls) /\ Len(running') <= MaxDepth + 1
        /\ RunsAsAsked'
    BY <1>1, <1>4, <2>1, <2>2, CallBegins
  <2>4. EntryKnows'
    <3>1. ~Node => p = Compiled /\ registry[p] # None BY <1>1, <1>4 DEF Linked
    <3>2. /\ Pii(p)' = Pii(p) /\ Detection(p)' = Detection(p) /\ registry' = registry
          /\ Node' <=> Node
      BY <1>1 DEF Pii, Detection, Node
    <3> QED BY <1>4, <2>1, <3>1, <3>2 DEF EntryKnows
  <2> QED BY <1>1, <1>2, <1>4, <2>1, <2>3, <2>4 DEF IInv, TypeOK, CellsType
<1>5. \/ entry' = entry /\ running' = running
      \/ (Node \/ registry[p] # None) /\ entry' = found /\ Runs(p, r, found.registry)
  BY Zenon DEF ScanWithRuleset
<1> QED BY <1>3, <1>4, <1>5

LEMMA ReturnKeeps ==
  ASSUME ConstantsAssumption, IInv, Return
  PROVE  IInv' /\ KeepsOwners
<1>1. /\ UNCHANGED <<addon, registry, piiSelection, detection, entry>> /\ running # <<>>
      /\ running' = SubSeq(running, 1, Len(running) - 1)
  BY DEF Return, Front
<1>2. running \in Seq(Calls) /\ Len(running) <= MaxDepth + 1 /\ MaxDepth \in Nat
  BY DEF IInv, TypeOK, ConstantsAssumption
<1>3. /\ running' \in Seq(Calls) /\ Len(running') <= MaxDepth + 1
      /\ \A i \in DOMAIN running' : i \in DOMAIN running /\ running'[i] = running[i]
  BY <1>1, <1>2
<1>4. RunsAsAsked' BY <1>3 DEF IInv, RunsAsAsked
<1> QED BY <1>1, <1>3, <1>4, CellsStay, Settled

LEMMA Initially == ASSUME ConstantsAssumption, Init PROVE IInv
<1>1. /\ registry = [p \in Profiles |-> None] /\ piiSelection = [p \in Profiles |-> None]
      /\ detection = [p \in Profiles |-> None] /\ entry = None /\ running = <<>>
      /\ addon \in {"node", "wasm", "wasm_without_pii"}
  BY DEF Init
<1>2. TypeOK BY <1>1 DEF TypeOK, ConstantsAssumption
<1>3. CellsKnow
  <2>1. \A p \in Profiles : Detection(p) = All BY <1>1 DEF Detection
  <2> QED BY <1>1, <2>1, AllIsAccepted DEF CellsKnow
<1> QED BY <1>1, <1>2, <1>3 DEF IInv, EntryKnows, RunsAsAsked

LEMMA Steps ==
  ASSUME ConstantsAssumption, IInv, [Next]_vars
  PROVE  IInv' /\ KeepsOwners
<1>1. CASE Next
  <2>1. ASSUME NEW p \in Profiles, NEW s \in Selections, NEW d \in Detections,
               Initialize(p, s, d)
        PROVE  IInv' /\ KeepsOwners
    BY <2>1, InitializeKeeps
  <2>2. ASSUME NEW p \in Profiles, InitializeLegacy(p) \/ Activation(p) \/ Scan(p)
        PROVE  IInv' /\ KeepsOwners
    BY <2>2, LegacyKeeps, ActivationKeeps, ScanKeeps
  <2>3. ASSUME NEW p \in Profiles, NEW r \in Rulesets, ScanWithRuleset(p, r)
        PROVE  IInv' /\ KeepsOwners
    BY <2>3, RulesetScanKeeps
  <2>4. CASE Return BY <2>4, ReturnKeeps
  <2> QED BY <1>1, <2>1, <2>2, <2>3, <2>4 DEF Next
<1>2. CASE UNCHANGED vars
  <2>1. UNCHANGED <<addon, registry, piiSelection, detection, entry, running>>
    BY <1>2 DEF vars, addonVars
  <2> QED BY <2>1, CellsStay, Settled
<1> QED BY <1>1, <1>2

(* A call that is refused stores nothing: what it would have stored was    *)
(* judged before.                                                          *)
LEMMA RefusedChangesNothing ==
  ASSUME ConstantsAssumption, IInv, [Next]_vars, answer'.error # "none"
  PROVE  UNCHANGED <<registry, piiSelection, detection, entry>> \/ UNCHANGED vars
<1>1. ASSUME NEW p \in Profiles, NEW s \in Selections, NEW d \in Detections,
             Initialize(p, s, d)
      PROVE  UNCHANGED <<registry, piiSelection, detection, entry>>
  BY <1>1, Zenon DEF Initialize, Answers
<1>2. ASSUME NEW p \in Profiles, InitializeLegacy(p)
      PROVE  UNCHANGED <<registry, piiSelection, detection, entry>>
  <2> DEFINE owner == RegistryOf(p, Off, All, BuiltIn)
  <2>1. owner.pii = Off /\ owner.given = All
    BY AllIsAccepted DEF RegistryOf
  <2>2. registry[p] = None => Locked(p)[p] = owner
    BY DEF Locked, SetIfEmpty, IInv, TypeOK
  <2>3. registry[p] # None => Locked(p) = registry
    BY DEF Locked, SetIfEmpty
  <2> HIDE DEF owner
  <2>4. registry[p] # None
    <3>1. ~(Locked(p)[p].pii = Off /\ Locked(p)[p].given = All)
      BY <1>2 DEF InitializeLegacy, Answers
    <3> QED BY <2>1, <2>2, <3>1
  <2>5. answer'.error = "none" \/ piiSelection' = piiSelection
    BY <1>2, Zenon DEF InitializeLegacy, Answers
  <2> QED BY <1>2, <2>3, <2>4, <2>5 DEF InitializeLegacy
<1>3. ASSUME NEW p \in Profiles, Activation(p)
      PROVE  UNCHANGED <<registry, piiSelection, detection, entry>>
  <2>1. CASE Node
    <3>1. registry' = Locked(p) /\ piiSelection' = piiSelection /\ detection' = detection
      BY <1>3, <2>1 DEF Activation
    <3>2. registry'[p] # None BY <3>1, LockedSettles
    <3> QED BY <1>3, <3>2 DEF Activation, Answers
  <2>2. CASE ~Node BY <1>3, <2>2 DEF Activation
  <2> QED BY <2>1, <2>2
<1>4. ASSUME NEW p \in Profiles, Scan(p)
      PROVE  UNCHANGED <<registry, piiSelection, detection, entry>>
  BY <1>4 DEF Scan, Answers
<1>5. ASSUME NEW p \in Profiles, NEW r \in Rulesets, ScanWithRuleset(p, r)
      PROVE  UNCHANGED <<registry, piiSelection, detection, entry>>
  BY <1>5, Zenon DEF ScanWithRuleset, Answers
<1>6. CASE Return BY <1>6 DEF Return
<1> QED BY <1>1, <1>2, <1>3, <1>4, <1>5, <1>6 DEF Next

------------------------------------------------------------------------------
THEOREM Invariant == ConstantsAssumption => (Spec => []IInv)
<1> SUFFICES ASSUME ConstantsAssumption PROVE Spec => []IInv OBVIOUS
<1>1. Init => IInv BY Initially
<1>2. IInv /\ [Next]_vars => IInv' BY Steps
<1> QED BY <1>1, <1>2, PTL DEF Spec

(* The three cells of a profile tell the same, whichever operations filled *)
(* them and in which order: a session or a ruleset scan detects what a     *)
(* scan with the owner detects (initialize_profile_with_detection,         *)
(* initialize_profile, with_profile_registry).                             *)
THEOREM OwnersAgree == ConstantsAssumption => (Spec => []CellsAgree)
<1> SUFFICES ASSUME ConstantsAssumption PROVE Spec => []CellsAgree OBVIOUS
<1>1. IInv => CellsAgree BY DEF IInv, CellsKnow, CellsAgree, RegistryOf
<1> QED BY <1>1, Invariant, PTL

(* A call runs under its profile, its ruleset and the selections in force  *)
(* when it began, at any depth of callbacks, though the module finds its   *)
(* ruleset's entry by the ruleset alone (with_ruleset_registry).           *)
THEOREM CallsRunAsAsked == ConstantsAssumption => (Spec => []RunsAsAsked)
<1> SUFFICES ASSUME ConstantsAssumption PROVE Spec => []RunsAsAsked OBVIOUS
<1>1. IInv => RunsAsAsked BY DEF IInv
<1> QED BY <1>1, Invariant, PTL

(* What an owner is fixed to never changes, and a refused call changes     *)
(* nothing: everything is judged before anything is stored.                *)
THEOREM OwnersAreSettled == ConstantsAssumption => (Spec => SettledForGood)
<1> SUFFICES ASSUME ConstantsAssumption PROVE Spec => SettledForGood OBVIOUS
<1> DEFINE A == /\ \A p \in Profiles :
                     registry[p] # None =>
                       /\ registry'[p] = registry[p]
                       /\ Pii(p)' = Pii(p)
                       /\ Enabled(Detection(p)', p) = Enabled(Detection(p), p)
                /\ answer'.error # "none" => UNCHANGED <<registry, piiSelection, detection, entry>>
<1>1. IInv /\ [Next]_vars => [A]_vars
  <2> SUFFICES ASSUME IInv, [Next]_vars PROVE A \/ UNCHANGED vars OBVIOUS
  <2>1. KeepsOwners BY Steps
  <2>2. CASE answer'.error = "none" BY <2>1, <2>2 DEF KeepsOwners
  <2>3. CASE answer'.error # "none" BY <2>1, <2>3, RefusedChangesNothing DEF KeepsOwners
  <2> QED BY <2>2, <2>3
<1> QED BY <1>1, Invariant, PTL DEF Spec, SettledForGood, vars
=============================================================================
