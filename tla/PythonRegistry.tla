---------------------------- MODULE PythonRegistry ----------------------------
(***************************************************************************)
(* The Python binding's PII selection and registry caches                  *)
(* (bindings/python/src/lib.rs).  The selection is one per process, behind *)
(* a mutex; each thread caches the registries it has built, tagged with    *)
(* the epoch it read before building.  Detection runs without the GIL, so  *)
(* scans of several threads interleave with an initialize() at any step.   *)
(* Policy callbacks are Python code, which may call the binding again.     *)
(*                                                                         *)
(* A call is numbered when it begins.  `gil` is the call whose native code *)
(* holds the GIL; Python code may be switched at any bytecode, so it is    *)
(* free whenever Python code runs.                                         *)
(***************************************************************************)
EXTENDS BindingConstants

CONSTANTS
  Threads,
  MaxCalls,     \* calls considered
  Requests      \* call -> what it may be: an operation, and its selection or ruleset

ASSUME PythonAssumption ==
  /\ MaxCalls \in Nat
  /\ Off \in Selections /\ None \notin Selections
  /\ Malformed \subseteq Rulesets /\ BuiltIn \notin Rulesets
  /\ Requests \in [1..MaxCalls -> SUBSET
       ( ({"initialize"} \X Selections)
         \cup ({"scan", "compare"} \X (Rulesets \cup {BuiltIn}))
         \cup ({"status", "session"} \X {BuiltIn}) )]

VARIABLES
  selection,    \* PII_SELECTION: what initialize() has fixed, or None
  epoch,        \* PII_EPOCH
  mutex,        \* the call that holds the lock of the selection, or 0
  gil,          \* the call whose native code holds the GIL, or 0
  cache,        \* thread -> REGISTRY_CACHE: its slots
  made,         \* how many calls were made
  calls,        \* call -> where it stands
  seen          \* history: whether the selection in force has shown

vars == <<selection, epoch, mutex, gil, cache, made, calls, seen>>

Slots == {"built_in", "with_ruleset"}
SlotOf(ruleset) == IF ruleset = BuiltIn THEN "built_in" ELSE "with_ruleset"

Registry(tag, ruleset, active) == [epoch |-> tag, ruleset |-> ruleset, selection |-> active]

(* A call: its thread, the call whose callback made it (0: none), what it  *)
(* asks for, the epoch it loaded, the registry it runs under, whether it   *)
(* keeps the cache borrowed, and whether the selection in force had shown  *)
(* when it began.                                                          *)
NewCall(t, p, request) ==
  [thread |-> t, parent |-> p, op |-> request[1], asked |-> request[2], at |-> "begun",
   epoch |-> 0, uses |-> None, borrows |-> FALSE, mustSee |-> seen, error |-> "none"]

Made == 1..made
Running(c) == calls[c].at # "over"
OnTop(c) == \A d \in Made : Running(d) => calls[d].parent # c

(* active_pii_selection.                                                   *)
Active == IF selection = None THEN Off ELSE selection

------------------------------------------------------------------------------
(* A call begins in Python code: on an idle thread, or in a callback.      *)
MayBegin(t, p) ==
  /\ made < MaxCalls /\ gil = 0
  /\ IF p = 0 THEN \A d \in Made : Running(d) => calls[d].thread # t
     ELSE calls[p].at = "callback" /\ calls[p].thread = t /\ OnTop(p)

Begin(call) ==
  /\ made' = made + 1
  /\ calls' = [c \in 1..(made + 1) |-> IF c = made + 1 THEN call ELSE calls[c]]

(* initialize(): attached to the interpreter from start to end.            *)
Initialize(t, p, request) ==
  /\ request[1] = "initialize"
  /\ Begin([NewCall(t, p, request) EXCEPT !.at = "lock"])
  /\ gil' = made + 1
  /\ UNCHANGED <<selection, epoch, mutex, cache, seen>>

(* Mutant: the lock is released before the epoch is bumped.                *)
LockSelectionBriefly(c) ==
  /\ calls[c].at = "lock" /\ mutex = 0
  /\ IF selection = None
       THEN /\ selection' = calls[c].asked
            /\ calls' = [calls EXCEPT ![c].at = "bump"]
            /\ UNCHANGED <<gil, seen>>
       ELSE /\ calls' = [calls EXCEPT ![c].at = "over"]
            /\ gil' = 0
            /\ seen' = TRUE
            /\ UNCHANGED selection
  /\ UNCHANGED <<epoch, mutex, cache, made>>

(* Under the lock the first selection is stored; a different one conflicts *)
(* with it.                                                                *)
LockSelection(c) ==
  /\ calls[c].at = "lock" /\ mutex = 0
  /\ IF selection = None
       THEN /\ selection' = calls[c].asked
            /\ mutex' = c
            /\ calls' = [calls EXCEPT ![c].at = "bump"]
            /\ UNCHANGED <<gil, seen>>
       ELSE /\ calls' = [calls EXCEPT ![c].at = "over",
                           ![c].error = IF calls[c].asked = selection THEN "none" ELSE "conflict"]
            /\ gil' = 0
            /\ seen' = TRUE
            /\ UNCHANGED <<selection, mutex>>
  /\ UNCHANGED <<epoch, cache, made>>

(* The epoch is bumped before the lock is released.                        *)
BumpEpoch(c) ==
  /\ calls[c].at = "bump"
  /\ epoch' = epoch + 1
  /\ mutex' = 0 /\ gil' = 0 /\ seen' = TRUE
  /\ calls' = [calls EXCEPT ![c].at = "over"]
  /\ UNCHANGED <<selection, cache, made>>

(* status() and the constructor of a session: attached, under the lock.    *)
Status(t, p, request) ==
  /\ request[1] = "status" /\ mutex = 0
  /\ Begin([NewCall(t, p, request) EXCEPT !.at = "over"])
  /\ seen' = (seen \/ selection # None)
  /\ UNCHANGED <<selection, epoch, mutex, gil, cache>>

Session(t, p, request) ==
  /\ request[1] = "session" /\ mutex = 0
  /\ Begin([NewCall(t, p, request) EXCEPT
             !.at = "over", !.uses = Registry(epoch, BuiltIn, Active)])
  /\ seen' = (seen \/ Active # Off)
  /\ UNCHANGED <<selection, epoch, mutex, gil, cache>>

------------------------------------------------------------------------------
(* scan() and scan_and_redact() detach before they look for a registry; a  *)
(* comparison with callbacks stays attached.                               *)
Scan(t, p, request) ==
  /\ request[1] = "scan"
  /\ Begin(NewCall(t, p, request))
  /\ UNCHANGED <<selection, epoch, mutex, gil, cache, seen>>

Compare(t, p, request) ==
  /\ request[1] = "compare"
  /\ Begin(NewCall(t, p, request))
  /\ gil' = made + 1
  /\ UNCHANGED <<selection, epoch, mutex, cache, seen>>

(* with_registry.                                                          *)
LoadEpoch(c) ==
  /\ calls[c].at = "begun"
  /\ calls' = [calls EXCEPT ![c].at = "lookup", ![c].epoch = epoch]
  /\ UNCHANGED <<selection, epoch, mutex, gil, cache, made, seen>>

Cached(c) == cache[calls[c].thread][SlotOf(calls[c].asked)]

Hit(c) ==
  /\ Cached(c) # None
  /\ Cached(c).epoch = calls[c].epoch /\ Cached(c).ruleset = calls[c].asked

Store(c, registry) ==
  cache' = [cache EXCEPT ![calls[c].thread][SlotOf(calls[c].asked)] = registry]

(* Mutant: a comparison keeps the cache borrowed while its callbacks run.  *)
UseInPlace(c, registry) ==
  /\ calls' = [calls EXCEPT ![c].at = "detect", ![c].uses = registry, ![c].borrows = TRUE]
  /\ Store(c, registry)

(* The registry is used where it is, the cache borrowed; or, in            *)
(* with_registry_released, it is moved out of its slot.                    *)
Use(c, registry) ==
  /\ calls' = [calls EXCEPT ![c].at = "detect", ![c].uses = registry,
                            ![c].borrows = (calls[c].op = "scan")]
  /\ Store(c, IF calls[c].op = "scan" THEN registry ELSE None)

Lookup(c) ==
  /\ calls[c].at = "lookup"
  /\ IF Hit(c) THEN Use(c, Cached(c)) /\ UNCHANGED gil
     ELSE IF calls[c].asked \in Malformed
       THEN /\ calls' = [calls EXCEPT ![c].at = "over", ![c].error = "invalid_ruleset"]
            /\ gil' = IF gil = c THEN 0 ELSE gil
            /\ UNCHANGED cache
       ELSE calls' = [calls EXCEPT ![c].at = "build"] /\ UNCHANGED <<cache, gil>>
  /\ UNCHANGED <<selection, epoch, mutex, made, seen>>

(* Mutant: the guard of the selection is kept with the registry.           *)
ReadSelectionAndHold(c) ==
  /\ calls[c].at = "build" /\ mutex = 0
  /\ calls' = [calls EXCEPT ![c].at = "compose",
                            ![c].uses = Registry(calls[c].epoch, calls[c].asked, Active)]
  /\ mutex' = c
  /\ UNCHANGED <<selection, epoch, gil, cache, made, seen>>

(* The selection is read, under its lock, after the epoch.                 *)
ReadSelection(c) ==
  /\ calls[c].at = "build" /\ mutex = 0
  /\ calls' = [calls EXCEPT ![c].at = "compose",
                            ![c].uses = Registry(calls[c].epoch, calls[c].asked, Active)]
  /\ UNCHANGED <<selection, epoch, mutex, gil, cache, made, seen>>

(* Mutant: the registry is tagged with the epoch as it is once it is built. *)
ComposeTaggedLate(c) ==
  /\ calls[c].at = "compose"
  /\ Use(c, [calls[c].uses EXCEPT !.epoch = epoch])
  /\ UNCHANGED <<selection, epoch, mutex, gil, made, seen>>

Compose(c) ==
  /\ calls[c].at = "compose"
  /\ Use(c, calls[c].uses)
  /\ UNCHANGED <<selection, epoch, mutex, gil, made, seen>>

(* Detection ends; it is all that a scan does under its borrow, while a    *)
(* comparison makes its callbacks too.  The call is attached, and what it  *)
(* found shows in Python from here on.                                     *)
Detected(c) ==
  /\ calls[c].at = "detect" /\ gil \in {0, c}
  /\ calls' = [calls EXCEPT ![c].at = "callback",
                            ![c].borrows = (calls[c].borrows /\ calls[c].op # "scan")]
  /\ gil' = 0
  /\ seen' = (seen \/ calls[c].uses.selection # Off)
  /\ UNCHANGED <<selection, epoch, mutex, cache, made>>

(* The callbacks, if any, are done, or one has failed.  A registry that    *)
(* was moved out goes back, unless a nested call has filled its slot.      *)
Return(c) ==
  /\ calls[c].at = "callback" /\ OnTop(c) /\ gil = 0
  /\ calls' = [calls EXCEPT ![c].at = "over", ![c].borrows = FALSE]
  /\ IF calls[c].op = "compare" /\ Cached(c) = None
       THEN Store(c, calls[c].uses)
       ELSE UNCHANGED cache
  /\ UNCHANGED <<selection, epoch, mutex, gil, made, seen>>

------------------------------------------------------------------------------
Init ==
  /\ selection = None /\ epoch = 0 /\ mutex = 0 /\ gil = 0
  /\ cache = [t \in Threads |-> [s \in Slots |-> None]]
  /\ made = 0 /\ calls = [c \in 1..0 |-> None]
  /\ seen = FALSE

Ask(t, p, request) ==
  \/ Initialize(t, p, request)
  \/ Status(t, p, request) \/ Session(t, p, request)
  \/ Scan(t, p, request) \/ Compare(t, p, request)

Call(t, p) ==
  /\ MayBegin(t, p)
  /\ \E request \in Requests[made + 1] : Ask(t, p, request)

Step(c) ==
  \/ LockSelection(c) \/ BumpEpoch(c)
  \/ LoadEpoch(c) \/ Lookup(c) \/ ReadSelection(c) \/ Compose(c) \/ Detected(c) \/ Return(c)

(* Calls end; whether more are made is up to the program.                  *)
Next ==
  \/ \E t \in Threads, p \in 0..made : Call(t, p)
  \/ \E c \in Made : Step(c)

(* The operating system runs every thread; the interpreter switches.       *)
Fairness == \A c \in 1..MaxCalls : WF_vars(c \in Made /\ Step(c))

Spec == Init /\ [][Next]_vars /\ Fairness

------------------------------------------------------------------------------
(* Properties.                                                             *)
Ats == {"begun", "lock", "bump", "lookup", "build", "compose", "detect", "callback", "over"}

Registries == [epoch : Nat, ruleset : Rulesets \cup {BuiltIn}, selection : Selections]

CallType ==
  [thread : Threads, parent : Nat, op : {"initialize", "status", "session", "scan", "compare"},
   asked : Selections \cup Rulesets \cup {BuiltIn}, at : Ats, epoch : Nat,
   uses : Registries \cup {None}, borrows : BOOLEAN, mustSee : BOOLEAN,
   error : {"none", "conflict", "invalid_ruleset"}]

(* Every variable keeps its type; the epoch is bumped once at most.        *)
TypeOK ==
  /\ selection \in Selections \cup {None} /\ epoch \in 0..1
  /\ made \in 0..MaxCalls /\ calls \in [Made -> CallType]
  /\ mutex \in 0..made /\ gil \in 0..made
  /\ cache \in [Threads -> [Slots -> Registries \cup {None}]]
  /\ seen \in BOOLEAN

(* A cached registry whose tag is the current epoch was built for the      *)
(* selection in force: with_registry need compare nothing else ("never a   *)
(* stale registry look current").                                          *)
CacheIsCurrent ==
  mutex = 0 =>
    \A t \in Threads, s \in Slots :
      cache[t][s] # None /\ cache[t][s].epoch = epoch => cache[t][s].selection = Active

(* A call that begins once the selection in force has shown, in any        *)
(* thread, by an initialize() that returned, by status() or by what        *)
(* another call found, runs under it; and always with the ruleset it was   *)
(* given, whatever calls its thread nests.                                 *)
ServedAsConfigured ==
  \A c \in Made :
    calls[c].uses # None =>
      /\ calls[c].uses.ruleset = calls[c].asked
      /\ calls[c].mustSee => calls[c].uses.selection = selection

(* A call reads its thread's cache only while no call around it keeps the  *)
(* cache borrowed: borrow_mut would panic (with_registry_released).        *)
NeverBorrowedTwice ==
  \A c, d \in Made :
    /\ c # d /\ calls[c].thread = calls[d].thread
    /\ calls[c].at \in {"lookup", "build", "compose"}
    => ~calls[d].borrows

(* Every call returns: the lock of the selection and the GIL are never     *)
(* waited for in a circle.                                                 *)
EveryCallReturns == \A c \in 1..MaxCalls : (c \in Made) ~> (c \in Made /\ ~Running(c))

(* A registry built without PII fixes the binding to it: initialize() with *)
(* another selection conflicts (docs/reference/                            *)
(* detector-capability-matrix.md:127, "PII on after a lazy PII-off         *)
(* registry exists, is PII_ACTIVATION_CONFLICT").                          *)
LazyRegistryIsFixed ==
  [][selection = None /\ selection' \notin {None, Off} =>
       \A t \in Threads : cache[t]["built_in"] = None]_vars
=============================================================================
