------------------------------ MODULE RuntimeInit ------------------------------
(***************************************************************************)
(* The lifecycle of the JavaScript runtime (packages/javascript,           *)
(* createRedactSecretRuntime): initialize() may be called from any number  *)
(* of places, loads one artifact and fixes its owner configuration for     *)
(* good.  An attempt to load waits for the artifact and then for the       *)
(* digest of its manifest; in between the event loop runs other calls.     *)
(* The artifact's own one-shot state (bindings/wasm, initialize_with) is   *)
(* the other half of the contract.                                         *)
(*                                                                         *)
(* One action is one run of JavaScript between two awaits.  Promises are   *)
(* attempts here: `pending` is the attempt whose promise is kept, and a    *)
(* call holds the attempt whose promise it returned or chained on.         *)
(***************************************************************************)
EXTENDS Integers, FiniteSets, Sequences

CONSTANTS
  Calls,        \* the calls of initialize() considered
  Options,      \* what a call may be given
  Rewrites,     \* <<o, p>>: an options object its caller may change from o to p
  Artifacts,
  Loads,        \* whether PII is asked for -> the artifacts the loader may find
  Reports,      \* the artifacts that report a manifest
  PiiRuntime,   \* the artifacts that link the PII runtime
  None

(* What initialize() reads of its options: the key that tells requests     *)
(* apart, whether any selector is given, and what the core makes of the    *)
(* selectors and of the detection text.  Requests with one key are one     *)
(* request here.                                                           *)
Rejected == "rejected"
Off == "off"
All == "all"

Fixed(o) == [selection |-> o.selection, detection |-> o.detection]

ASSUME OptionsAssumption ==
  /\ \A o, p \in Options : o.key = p.key => o = p
  /\ \A o \in Options : DOMAIN o = {"key", "pii", "selection", "detection"}
                        /\ o.pii \in BOOLEAN /\ (~o.pii => o.selection = Off)
  /\ Rewrites \subseteq Options \X Options
  /\ Loads \in [BOOLEAN -> SUBSET Artifacts]
  /\ Reports \subseteq Artifacts /\ PiiRuntime \subseteq Artifacts
  /\ None \notin Artifacts \cup {Fixed(o) : o \in Options}

VARIABLES
  binding,      \* the artifact in use
  manifest,     \* the artifact whose manifest is kept
  activeKey,
  pending,      \* the attempt in flight, 0 for none
  attempts,     \* the attempts made, a sequence
  calls,        \* call -> where it stands
  options,      \* call -> its options object as it is now
  request,      \* call -> what its last run of initialize() copied from it
  owner,        \* artifact -> the selection its core is fixed to
  cleared       \* history: call -> the attempts that were over when it was made

vars == <<binding, manifest, activeKey, pending, attempts, calls, options, request,
          owner, cleared>>

Unmade == [status |-> "unmade", attempt |-> 0, error |-> "none"]
Resolved == [status |-> "resolved", attempt |-> 0, error |-> "none"]
RejectedBy(error, n) == [status |-> "rejected", attempt |-> n, error |-> error]
Shares(n) == [status |-> "shares", attempt |-> n, error |-> "none"]
WaitsFor(n) == [status |-> "waits", attempt |-> n, error |-> "none"]

Unsettled(c) == calls[c].status \in {"shares", "waits"}

------------------------------------------------------------------------------
(* The core of one artifact: initialize_with.  The error it answers with.  *)
CoreError(artifact, o) ==
  IF o.selection = Rejected THEN "PII_SELECTOR_INVALID"
  ELSE IF owner[artifact] # None THEN
    IF o.selection # owner[artifact].selection THEN "PII_ACTIVATION_CONFLICT"
    ELSE IF o.detection = Rejected THEN "INVALID_DETECTION_CONFIG"
    ELSE IF o.detection # owner[artifact].detection THEN "DETECTION_CONFIG_CONFLICT"
    ELSE "none"
  ELSE IF o.selection # Off /\ artifact \notin PiiRuntime THEN "PII_SELECTOR_UNAVAILABLE"
  ELSE IF o.detection = Rejected THEN "INVALID_DETECTION_CONFIG"
  ELSE "none"

(* The first request that is accepted fixes the core; no later one does.   *)
CoreInitialize(artifact, o) ==
  owner' = IF CoreError(artifact, o) = "none" /\ owner[artifact] = None
             THEN [owner EXCEPT ![artifact] = Fixed(o)]
             ELSE owner

------------------------------------------------------------------------------
(* initialize().                                                           *)

(* With a binding: the same key is done, another is the core's to judge.   *)
AskCore(c, o) ==
  LET error == CoreError(binding, o) IN
  /\ calls' = [calls EXCEPT ![c] =
       IF o.key = activeKey \/ error = "none" THEN Resolved ELSE RejectedBy(error, 0)]
  /\ activeKey' = IF o.key # activeKey /\ error = "none" THEN o.key ELSE activeKey
  /\ UNCHANGED <<owner, pending, attempts>>

StartAttempt(c, o) ==
  /\ attempts' = Append(attempts, [request |-> o, artifact |-> None, stage |-> "loading",
                                   error |-> "none"])
  /\ pending' = Len(attempts) + 1
  /\ calls' = [calls EXCEPT ![c] = Shares(Len(attempts) + 1)]
  /\ UNCHANGED <<owner, activeKey>>

Join(c, o) ==
  /\ calls' = [calls EXCEPT ![c] =
       IF attempts[pending].request.key = o.key THEN Shares(pending) ELSE WaitsFor(pending)]
  /\ UNCHANGED <<owner, activeKey, pending, attempts>>

(* Mutants: any attempt in flight is shared; one with another key is not   *)
(* waited for; it is refused without waiting for the attempt's outcome.    *)
InitializeSharing(c, o) ==
  IF binding # None THEN AskCore(c, o)
  ELSE IF pending # 0 THEN
    /\ calls' = [calls EXCEPT ![c] = Shares(pending)]
    /\ UNCHANGED <<owner, activeKey, pending, attempts>>
  ELSE StartAttempt(c, o)

InitializeAnew(c, o) ==
  IF binding # None THEN AskCore(c, o)
  ELSE IF pending # 0 /\ attempts[pending].request.key = o.key THEN Join(c, o)
  ELSE StartAttempt(c, o)

InitializeRefusing(c, o) ==
  IF binding # None THEN AskCore(c, o)
  ELSE IF pending # 0 /\ attempts[pending].request.key # o.key THEN
    /\ calls' = [calls EXCEPT ![c] = RejectedBy("PII_ACTIVATION_CONFLICT", 0)]
    /\ UNCHANGED <<owner, activeKey, pending, attempts>>
  ELSE IF pending # 0 THEN Join(c, o)
  ELSE StartAttempt(c, o)

Initialize(c, o) ==
  IF binding # None THEN AskCore(c, o)
  ELSE IF pending # 0 THEN Join(c, o)
  ELSE StartAttempt(c, o)

Call(c, o) ==
  /\ calls[c] = Unmade
  /\ Initialize(c, o)
  /\ options' = [options EXCEPT ![c] = o]
  /\ request' = [request EXCEPT ![c] = o]
  /\ cleared' = [cleared EXCEPT ![c] = {n \in 1..Len(attempts) : attempts[n].stage = "over"}]
  /\ UNCHANGED <<binding, manifest>>

(* The caller keeps its options object and may change it.                  *)
Rewrite(c) ==
  /\ Unsettled(c)
  /\ \E o \in Options :
       /\ <<options[c], o>> \in Rewrites
       /\ options' = [options EXCEPT ![c] = o]
  /\ UNCHANGED <<binding, manifest, activeKey, pending, attempts, calls, request, owner,
                 cleared>>

------------------------------------------------------------------------------
(* load().                                                                 *)

Fails(n, error) ==
  /\ attempts' = [attempts EXCEPT ![n].stage = "settled", ![n].error = error,
                                  ![n].artifact = None]
  /\ UNCHANGED <<binding, manifest, activeKey, owner>>

(* loaded.initialize, and what follows it without another await.           *)
Activate(n, artifact) ==
  LET o == attempts[n].request
      error == CoreError(artifact, o)
  IN /\ CoreInitialize(artifact, o)
     /\ attempts' = [attempts EXCEPT ![n].stage = "settled", ![n].error = error,
                                     ![n].artifact = None]
     /\ binding' = IF error = "none" THEN artifact ELSE binding
     /\ activeKey' = IF error = "none" THEN o.key ELSE activeKey

(* The loader finds an artifact or fails.  One of another version or       *)
(* profile, or with a malformed manifest, is as good as none.              *)
LoaderAnswers(n) ==
  /\ attempts[n].stage = "loading"
  /\ \/ Fails(n, "INITIALIZATION_FAILED")
     \/ \E artifact \in Loads[attempts[n].request.pii] \cap Reports :
          /\ attempts' = [attempts EXCEPT ![n].stage = "digest", ![n].artifact = artifact]
          /\ UNCHANGED <<binding, manifest, activeKey, owner>>
     \/ \E artifact \in Loads[attempts[n].request.pii] \ Reports :
          Activate(n, artifact) /\ UNCHANGED manifest
  /\ UNCHANGED <<pending, calls, options, request, cleared>>

(* Mutant: the manifest of the first attempt is kept.                      *)
DigestCheckedOnce(n) ==
  /\ attempts[n].stage = "digest"
  /\ \/ Fails(n, "INITIALIZATION_FAILED")
     \/ /\ manifest' = IF manifest = None THEN attempts[n].artifact ELSE manifest
        /\ Activate(n, attempts[n].artifact)
  /\ UNCHANGED <<pending, calls, options, request, cleared>>

DigestChecked(n) ==
  /\ attempts[n].stage = "digest"
  /\ \/ Fails(n, "INITIALIZATION_FAILED")
     \/ manifest' = attempts[n].artifact /\ Activate(n, attempts[n].artifact)
  /\ UNCHANGED <<pending, calls, options, request, cleared>>

(* Mutants: only an attempt that succeeded is forgotten; or only then does *)
(* its promise settle.                                                     *)
SettleCaching(n) ==
  /\ attempts[n].stage = "settled"
  /\ attempts' = [attempts EXCEPT ![n].stage = "over"]
  /\ pending' = IF attempts[n].error = "none" THEN 0 ELSE pending
  /\ UNCHANGED <<binding, manifest, activeKey, calls, options, request, owner, cleared>>

SettleSuccess(n) ==
  /\ attempts[n].stage = "settled" /\ attempts[n].error = "none"
  /\ attempts' = [attempts EXCEPT ![n].stage = "over"]
  /\ pending' = 0
  /\ UNCHANGED <<binding, manifest, activeKey, calls, options, request, owner, cleared>>

(* The finally callback.                                                   *)
Settle(n) ==
  /\ attempts[n].stage = "settled"
  /\ attempts' = [attempts EXCEPT ![n].stage = "over"]
  /\ pending' = 0
  /\ UNCHANGED <<binding, manifest, activeKey, calls, options, request, owner, cleared>>

(* A call learns the outcome of its attempt; one that only waited for it   *)
(* starts again, with the options object as it is now.                     *)
Continue(c) ==
  LET n == calls[c].attempt IN
  /\ Unsettled(c) /\ attempts[n].stage = "over"
  /\ IF attempts[n].error = "none" /\ calls[c].status = "waits"
       THEN /\ Initialize(c, options[c])
            /\ request' = [request EXCEPT ![c] = options[c]]
       ELSE /\ calls' = [calls EXCEPT ![c] =
                 IF attempts[n].error = "none" THEN Resolved
                 ELSE RejectedBy(attempts[n].error, n)]
            /\ UNCHANGED <<owner, activeKey, pending, attempts, request>>
  /\ UNCHANGED <<binding, manifest, options, cleared>>

Init ==
  /\ binding = None /\ manifest = None /\ activeKey = None
  /\ pending = 0 /\ attempts = <<>>
  /\ calls = [c \in Calls |-> Unmade]
  /\ options = [c \in Calls |-> None]
  /\ request = [c \in Calls |-> None]
  /\ owner = [a \in Artifacts |-> None]
  /\ cleared = [c \in Calls |-> {}]

AttemptStep(n) == LoaderAnswers(n) \/ DigestChecked(n) \/ Settle(n)

Next ==
  \/ \E c \in Calls : \/ \E o \in Options : Call(c, o)
                      \/ Rewrite(c)
                      \/ Continue(c)
  \/ \E n \in 1..Len(attempts) : AttemptStep(n)

(* The event loop runs every queued job, and an import or a digest settles *)
(* in the end: the platform's promises.  No call has to be made.           *)
Fairness ==
  /\ \A c \in Calls : WF_vars(Continue(c))
  /\ \A n \in 1..Cardinality(Calls) : WF_vars(n <= Len(attempts) /\ AttemptStep(n))

Spec == Init /\ [][Next]_vars /\ Fairness

------------------------------------------------------------------------------
(* Properties.                                                             *)

Errors == {"none", "INITIALIZATION_FAILED", "PII_SELECTOR_INVALID", "PII_SELECTOR_UNAVAILABLE",
           "PII_ACTIVATION_CONFLICT", "INVALID_DETECTION_CONFIG", "DETECTION_CONFIG_CONFLICT"}
Attempt == [request: Options, artifact: Artifacts \cup {None}, error: Errors,
            stage: {"loading", "digest", "settled", "over"}]

(* Every variable has its type, and an attempt is pending exactly while    *)
(* its promise is neither settled nor forgotten.                           *)
TypeOK ==
  /\ binding \in Artifacts \cup {None} /\ manifest \in Artifacts \cup {None}
  /\ activeKey \in {o.key : o \in Options} \cup {None}
  /\ attempts \in Seq(Attempt)
  /\ pending \in 0..Len(attempts)
  /\ \A c \in Calls :
       /\ calls[c].attempt \in 0..Len(attempts) /\ calls[c].error \in Errors
       /\ Unsettled(c) => calls[c].attempt > 0
       /\ {options[c], request[c]} \subseteq Options \cup {None}
  /\ \A n \in 1..Len(attempts) : n = pending <=> attempts[n].stage # "over"
  /\ \A a \in Artifacts : owner[a] # None => owner[a] \in {Fixed(o) : o \in Options}

(* initialize() "may be awaited any number of times from any number of     *)
(* call sites and loads at most once": however the calls interleave with   *)
(* an attempt's awaits, two attempts are never under way together and      *)
(* none is made once one has succeeded.                                    *)
LoadsOnce ==
  \A m, n \in 1..Len(attempts) :
    m < n => attempts[m].stage = "over" /\ attempts[m].error # "none"

(* A call whose promise resolves finds the runtime fixed to what it asked  *)
(* for when initialize() last read its options, whoever's attempt loaded   *)
(* the artifact.                                                           *)
ResolvedIsOwned ==
  \A c \in Calls : calls[c].status = "resolved" =>
    binding # None /\ owner[binding] = Fixed(request[c])

(* No call is told of a conflict with a configuration that never took      *)
(* effect: a conflict is with the one the runtime is fixed to.             *)
ConflictIsWithTheOwner ==
  \A c \in Calls :
    /\ calls[c].error = "PII_ACTIVATION_CONFLICT" =>
         binding # None /\ owner[binding].selection # request[c].selection
    /\ calls[c].error = "DETECTION_CONFIG_CONFLICT" =>
         /\ binding # None /\ owner[binding].selection = request[c].selection
         /\ owner[binding].detection # request[c].detection

(* Activation is one-shot: no later call or attempt replaces the artifact  *)
(* in use or changes what its core is fixed to, and only the artifact in   *)
(* use is ever fixed.                                                      *)
ActivationIsOneShot ==
  [][ /\ binding # None => binding' = binding
      /\ \A a \in Artifacts : owner[a] # None => owner'[a] = owner[a]
      /\ \A a \in Artifacts : owner'[a] # None => binding' = a ]_vars

(* A failed attempt is not cached: a call is never rejected with the       *)
(* outcome of an attempt that was over before the call was made, so a      *)
(* caller that saw a failure may retry.                                    *)
RejectionIsFresh ==
  \A c \in Calls : calls[c].attempt \notin cleared[c]

(* The manifest artifactManifest() answers with is the one the artifact in *)
(* use reported, although an attempt that failed after its digest was      *)
(* checked has already replaced what is kept.                              *)
ManifestIsTheBindings ==
  binding \in Reports => manifest = binding

(* Every call is answered, whatever the attempts it depends on come to.    *)
EveryCallSettles == \A c \in Calls : Unsettled(c) ~> ~Unsettled(c)

(* runtime.ts on artifactManifest(): "An artifact that reports no manifest *)
(* fails with INITIALIZATION_FAILED".  A manifest that a failed attempt    *)
(* left behind is answered instead.                                        *)
SilentArtifactHasNoManifest ==
  binding \in Artifacts \ Reports => manifest = None

(* runtime.ts on the options of a call: copied "at call time, so a later   *)
(* mutation of the caller's arrays changes nothing".  A call that waited   *)
(* for another's attempt copies them again afterwards.                     *)
OptionsAreCopiedAtCallTime ==
  [][\A c \in Calls : request[c] # None => request'[c] = request[c]]_vars
==============================================================================
