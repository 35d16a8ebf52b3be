# Formal model of redact-secret

TLA+ modules, TLC runs and TLAPS proofs about
[redact-secret](../src/README.md): a Rust core that finds secrets in text and
replaces them with placeholders, its incremental sessions for streams, and the
JavaScript, Python, Node.js and command-line layers around it. Every definition
is translated from the source; `PROJECT.json` names the lines each stands for.

- [The system](#the-system): inventory of its parts
- [The modules](#the-modules): what each one models and how it maps to the code
- [The runs](#the-runs): what is model-checked, with which bounds
- [The proofs](#the-proofs): what holds for every value of the constants
- [Where code and documentation disagree](#where-code-and-documentation-disagree)
- [What is not modelled](#what-is-not-modelled)
- [Plan](#plan)

Run `tlc -config X.cfg M` for the configuration of a run (table below) and
`tlapm M.tla` for a proof module.

## The system

### How the parts interact

```
 caller ─┬─ CLI (modes.rs) ───────────────┐
         ├─ Python binding (threads) ─────┤
         ├─ Node.js binding ──────────────┼──> core ──> detectors ──> overlap
         └─ JavaScript runtime ── wasm ───┘     │        resolution ──> policy
              └─ stream adapters ── session ────┘        ──> redaction
```

A whole-input call runs one *detection pass* (all detectors over all text, overlap
resolution over their candidates), asks the *policy* for an action for each
finding, and *redacts*. An *incremental session* receives the same text in
pieces and does the same for closed *units* of it, releasing text as early as
it can, within fixed limits on what it retains. Above the core sit the language
bindings. Each fixes its configuration once ("one-shot activation"), and each
host language brings its own concurrency: the JavaScript event loop between
awaits, Python threads, one-shot cells per Node.js thread.

### Inventory

| part | state it keeps | operations | what is hard | what makes it correct |
|---|---|---|---|---|
| **Incremental session** `core/incremental.rs` | buffer, lead, unit boundaries, held line, scan copy, private-key tracker, open-tail cache, counters, lifecycle | append, finalize, abort | batching against limits, failures in the middle of an append, text that later text may still change | results add up to those of a whole-input call, bounded retention, first failure is the one reported, nothing survives the end |
| **Detection pass** `core/{pipeline,registry}.rs`, `core/detectors/prefilter.rs` | registry and compiled matcher; a thread-local mark of the running scan | detect, detect_units, compose a registry | units detected together must get what each would get alone; detectors skipped by a matcher indexed by position; nested scans | separability; nothing that could be found is skipped |
| **Overlap resolution** `core/pipeline.rs` | tables of a dynamic program | select_optimal_disjoint_set, solve | component split, weights that stand for a lexicographic order | disjoint, optimal, a stricter action never displaced |
| **Redaction** `core/redact.rs` | none | redact_shifted_into | numbering across calls, validation before output | no matched value reproduced |
| **Detectors with retention** `core/detectors/{aws,generic_token,private_key,heroku,twilio,confluent,keyword_gated_keys,scoped_context,curl_user}.rs` | the tracker's delimiter stack | "is a construct open at the end", a hint per layout of several lines | constructs over several lines; windows bounded in lines and in bytes, or that overlap | the open answers are sound for what detection reads |
| **JavaScript runtime** `packages/javascript/src/runtime.ts` | binding, manifest, pending attempt, active key | initialize, load | calls between the awaits of an attempt, failed attempts | one load, one owner, no cached failure, every call settles |
| **WebAssembly lifecycle** `bindings/wasm/src/lifecycle.rs` | owner cells, cached ruleset registry | initialize_with, scans | re-entrant policy callbacks | one-shot activation, a call runs as asked |
| **Binding sessions** `bindings/{wasm,python,node}/src/incremental.rs` | session, offset index | append, finalize, abort | runs joined, cut and pruned beside a session that holds units | every reported offset is exact |
| **Stream adapters** `packages/javascript/src/adapters/*` | decoder, session, the platform's queues | transform, flush, pull, cancel, abort, destroy | cancel between chunks, backpressure, a failed finalize | all text in order, no session outlives its stream |
| **Command line** `crates/secret-scan-cli` | decoder carry, session | stream() | reads, decoding, session and output fail separately | the session never outlives a failure |
| **Python binding** `bindings/python/src/lib.rs` | selection under a mutex, epoch, registry per thread | initialize, status, scan, comparisons with callbacks, sessions | selection changed between reading the epoch and building; callbacks that call again | no stale registry, no double borrow, every call returns |
| **Node.js binding** `bindings/node/src/lib.rs` | three cells per profile, one ruleset entry, per thread | initialize (two of them), activation, scans | three operations write the cells in different orders; callbacks | the cells agree, an owner never changes |
| **Normalization** `core/normalize.rs` | none | scan copy, offset mapping | ranges that end at removed characters | offsets map back |
| **Policies and comparisons** `core/{action_policy,policy_diagnostics,compare,configuration_compare}.rs` | results of the sides done | explain, analyze, compare, relate | clusters of overlapping findings, rules that hide others | exact relation, no wrong warning |
| **PII adapter** `core/pii.rs` | none | associate values with the words around them, judge, join | views clipped to what a word can reach, offsets counted in one pass over text that composes, two lookups for all distances | the association its definition gives, whatever was skipped |
| Detector catalogue, evidence, matchers of the PII packs, manifests | none | pure functions, parsing | (little order or state) | tests |

`PROJECT.json` lists the same parts with their status, and under `hazards` the
places in the code where each of these difficulties bites, with the properties
that would catch it going wrong.

## The modules

```
ScanReference ──> AbstractSanitizer          (what a session promises)
     │                  ▲ INSTANCE ... WITH
     └──> IncrementalSession ──> SessionContract ──> MCIncremental <── DetectorModel
                                        └──> IncrementalSession_proofs
                                                    └──> SessionRefinement_proofs
OverlapSelection ──> MCDetection
          │            ├── DetectorPrefilter <── LiteralAnswers  (which detectors a scan skips)
          │            │      └──> Detection_proofs
          │            ├── UnitView            (what a unit keeps beside its bytes)
          │            │      ├── ScanCopy
          │            │      ├── PemDelimiters
          │            │      └──> Detection_proofs
          │            ├── HeldUnits           (units held for layouts of lines)
          │            │      ├── LookbackHints
          │            │      └── CurlCommand
          │            ├── PiiContext          (words around values)
          │            └── PolicyComparison <── Policies
          │                   └──> Detection_proofs
          └──> OverlapSelection_proofs
RuntimeInit ──> MCRuntime
          └──> RuntimeInit_proofs
PythonRegistry ──> MCHosts  <── BindingConstants
          │            ├── AddonRegistry <── AddonCells       (Node.js and WebAssembly owners)
          │            │      └──> AddonRegistry_proofs
          │            ├── StreamHost <── StreamDelivery      (command line, Node.js, Web streams)
          │            │      └──> StreamHost_proofs
          │            └── OffsetIndex         (offsets of the bindings' sessions)
          └──> PythonBinding_proofs  <── OffsetIndex
```

`MCDetection` and `MCHosts` put components side by side that share no state: a
behaviour is one of a single component (`tested`), and the others keep their
initial state. One run then asks several questions. `Policies`, `LiteralAnswers`, `AddonCells` and
`StreamDelivery` hold the state of a component and what it promises, apart from its
steps, so that the run and the proofs speak of the same definitions;
`BindingConstants` has the parameters that the two binding registries share.

### ScanReference: what sessions and whole-input calls share

A text is a sequence of symbols; a symbol stands for one byte, or for a run of
bytes which its neighbours do not extend. The detectors (`Candidates`), overlap
resolution (`Select`), the failing of a detector (`DetectorFails`) and the
formatter's text are constants, so everything that is proved is proved of every
detector set. `DetectUnits` is `detect_units`, with its answer `None` as
`"inseparable"`; `RedactError` and `Redacted` are `redact_shifted_into`;
`WholeInput` is `scan_and_redact_in`. `ForbiddenMatchedText` is containment of a
matched value in the placeholder. A *host* is what an application installs: a
policy (an action per finding type, or a failure) and a formatter, among them
one that fails, one that answers nothing and one whose fixed text is a value
that occurs in the input.

### AbstractSanitizer: the promise

Three actions over the caller's view (lifecycle, input, output, findings).
`Accept` releases a prefix of what a whole-input call on the text so far would
return; `Finish` releases exactly the rest; `Stop` releases nothing. This is the
"partition invariance" of `incremental.rs` and of
`docs/reference/api-contract.md`: how the text was cut does not appear in it.

### IncrementalSession: `IncrementalSanitizer`

| model | code |
|---|---|
| `session.retained`, `leadLen`, `unitStart`, `unitEnds` | the buffer: `[0, leadLen)` is the released line kept to be read, `[leadLen, unitStart)` the closed units of the batch, from `unitStart` on the open unit |
| `awsHeldLine` | `aws_held_line`: where the line begins that waits for an ID below it |
| `multilineOpen`, `multilineDetected` | the private-key tracker's answers |
| `text`, `found`, `error` | the outcome the running `&mut self` call is assembling |
| `AppendCall`, `AppendPiece`, `AppendReturn` | `append`: the input limit, one turn of its loop per line, the flush it ends with |
| `TakePiece`, `JudgeClosedLine`, `JudgeLine`, `CloseUnit`, `SplitBeforeLastLine` | the loop body, `close_unit`, `split_before_last_line` |
| `AppendRetained`, `MakeRoom`, `Push`, `EnforceLimits`, `Exceeded` | `append_retained` with the order of its checks |
| `FlushBatch`, `DetectBatch`, `Detections`, `FinalizeUnits`, `KeepFrom` | `flush_batch`, `detect_unit`, `lead_after` |
| `UnitError`, `UnitFindings`, `UnitRedacted` | `finalize_unit` |
| `Finalize`, `Abort`, `Fail`, `Refuse` | `finalize`, `abort`, `fail_with`, `require_accepting` |

Rust's `&mut self` lets no other call in while an append runs, so its
per-line steps only make the invariants visible *inside* an append; the caller
may call anything between appends. Helpers map a session to a session, as the
methods do. Two fields of the struct (`scanned`, `open_tail`) cache functions
of the unit and are computed here; `UnitView` is about them. `fed`, `output`, `findings` and
`failedUnit` are history.

`DetectorModel` gives TLC a detector set with each kind of tie between texts: an
AWS secret claimed by an ID on its own or an adjacent line, an assignment whose
name, operator and value may be on three lines, nested, mismatched and unfinished
PEM blocks, and a detector that fails. Its names are those of the functions in
`aws.rs`, `generic_token.rs` and `private_key.rs`.

### SessionContract: what a session asks of its detectors

The session never looks into a detector. That it may release text before it has seen
what follows rests on what detectors, resolution and hints do together, and no
component's code says it in one place. `SessionContract` does, over a set of texts:

| clause | says | why it is asked |
|---|---|---|
| `CandidatesAreRanges` | finitely many candidates, nonempty, in the text, of known types | `validate_candidate` rejects the others |
| `SelectionIsLocal` | what is kept is disjoint; where no candidate reaches a position, the two sides are resolved by themselves | `UnitsAreSeparate` is this of `select_optimal_disjoint_set` |
| `FailuresAreLocal` | a detector fails on a text when it fails on a part of it, however cut | a failure is about something in the text |
| `IdsAreOfTheLine` | a line keeps its key ID when the `\n` of its `\r\n` is appended | `carries_aws_access_key_id` |
| `AwsCandidateIsOfItsLine` | an AWS candidate depends on its line and on whether the line above has an ID | `aws.rs:335-354` |
| `HintsReadTheLastLine` | what is open on the last line alone is open in the unit | `JudgeLine` asks both questions |
| `HintsSettle` | if the hints let a unit be closed below text that is settled (nothing that may follow changes it), the text with the unit is settled too | the retention argument of `has_open_single_line_construct` and `close_unit` |
| `PlaceholdersAreNew`, `PlaceholdersAreTexts` | no placeholder contains a detected value | see the second finding |

`Separable` is the word for "settled by this continuation": no candidate crosses, those above
are the ones of the text above alone, and those below are found under the one
`Kept` line alone. `MayClose` says in the session's own terms when `JudgeLine` closes a
unit, with the line that may be split off and wait for an ID. `HintsSettle` is an induction
step, so it speaks of one unit only; the empty text is settled.

The contract asks more than the code needs in two places. A candidate that ends
where a unit ends is "inseparable" for `detect_units`, which then falls back to one
unit at a time; under the contract there is none, so the fallback for crossings is in the model
but neither the theorems nor the model's detectors reach it. And a formatter with fixed text of its caller's choice does not
meet `PlaceholdersAreNew`; the code does not promise anything of it either.

`MCIncremental` has TLC evaluate every clause for the detectors of `DetectorModel`, on all texts of
up to five symbols over each alphabet of a run (`FailuresAreLocal` up to three, the
three texts of `HintsSettle` up to two each, followed by up to two more). In `incremental_echo`
the placeholder clause is left out, for the reason above.

### UnitView, ScanCopy, PemDelimiters: a unit at the grain of bytes

In `IncrementalSession` a delimiter or a name is one symbol, so no cut falls
inside one. `UnitView` is the same `append` and `finalize` seen one grain finer,
without limits and batches: the text is bytes, pieces end anywhere, and the state
is what a unit keeps *beside* its bytes. `scanned` is the scan copy, kept only
once a piece loses bytes (`Grown`); `tracker` is `PrivateKeyRetentionTracker`
(`Tracked`, with its bounded `Lookbehind`); `openTail` is the last answer of
`has_open_single_line_construct` and the length it was given for (`JudgeTail`).
`ScanCopy` is `normalize.rs`: the walk byte by byte, seams and every conversion through them, and
what they are to be, said of the text alone. `PemDelimiters` is the search of `private_key.rs`, with its probe, its stride and
the stack. Three symbols stand for what the code has in tables: one invisible
code point, two labels of which one is the longest, and a dash run of two in
place of five; `DashRun` and `ProbeBytes` are parameters. Of the open constructs
the model has the contextual assignment, the only one whose answer
may be kept over white space for another's sake; an open bearer authorization
is judged by the same code on the same line and adds no state. The truncation of `scanned` in
`split_before_last_line` is left out with the held line.

### HeldUnits, LookbackHints, CurlCommand: layouts of several lines

A third view of the same `append`, for the detectors that read lines they do not
match on: a session reduced to one unit, the batch behind it and what was found
(`Piece`, `FlushBatch`, `Finalize`), beside the hints of
`has_open_single_line_construct`. In `LookbackHints` a text is a sequence of lines, each of
which says what one layout may ask of it: a netrc entry, a command's output or
table (Heroku, Twilio), properties (Confluent), the two keys of a YAML item, the
provider above a key, the request above a header, and the JSON and request windows
of `scoped_context.rs`. Each has an operator for what the detector reads (`ReadsHeroku`,
`ListItemPaired`, `ScopedAlias`, ...) and one for the hint (`HasOpenHerokuContext`, ...);
`HasOpenLayout` gives all hints one tail of `MaxLookbackLines` and asks
those whose detector the registry holds. `CurlCommand` is `curl_user.rs` word by
word: quotes, escapes, continuations (`PendingContinuation` is the one that is cut), the
cap of a window, and the words earlier windows have `visited`. A symbol stands for
a byte, the four letters of `curl` for one. The lines and bytes each window
spans are constants; `MAX_PASSWORD_BYTES` and the length of a path in front of `curl` are left out.

### DetectorPrefilter: which detectors run

A registry is the sequence of its detectors with the literals they declare, and
`prefilter` the declarations the matcher was compiled from, indexed by position
(`Compile`, `Recompiled` after `WithDetection`). `Present` is the matcher's pass
over a scan copy, early exit included. Scans nest when a detector of the caller
scans; `mark` is the thread-local of `ScanScope`, which names a text by its
address and length. `memory` is therefore part of the state: `Allocate` and
`Free` put another text at an address that was marked.

### OverlapSelection: `select_optimal_disjoint_set`, `solve`

One turn of a loop is one step: `Split` and `SolveFirstComponent` walk the sorted
candidates from the right and cut off components, `Forward` fills the tables,
`Backward` reads the selection off them. The sort is by a total key, so the
initial states are the sorted arrangements; the fast path for disjoint
candidates is in `Init` too. Weights are exact integers with the code's
exponents; those of the code saturate at 2^128, which the sums of ranks up to 4
stay below for up to 2^25 candidates. `boundary` is where two units of a batch meet.

### RuntimeInit: `createRedactSecretRuntime` and `initialize_with`

A step is one run of JavaScript between two awaits. `Call` is the synchronous
part of `initialize()`; `LoaderAnswers` and `DigestChecked` are the two awaits of
`load()`, each of which may fail; `Settle` is the `finally` callback that forgets
the attempt, and `Continue` the reaction of a call that shared an attempt or
waited for one with another key (and then runs `initialize(options)` again, with
the object as it is by then: `Rewrite` is its caller changing it). `owner` is the
artifact's own one-shot cell, `initialize_with` in the WebAssembly binding, with
its errors in the order the code checks them. Requests that fail to parse
(`INVALID_OPTIONS`) change nothing and are left out. That `build_registry`
cannot fail is assumed: its inputs are built in.

### PolicyComparison: `explain`, `analyze`, `compare_configurations`

`Decide` is one call of the policy, `FailSide` and `FinishSide` end one side's
column, `Relate` is the sweep that clusters two sides' findings and names what
became of each cluster. `Policies` has the pure functions: `Explain` is what a
policy decides of a finding and on which basis, `Matches` asks a rule's `MatchKeys`,
and `Reported` and `ShadowedBy` are what `analyze` says of a policy's rules before
anything was scanned.

### PiiContext: what the words around a value say

The adapter's `detect` from the values its families read to what it emits, with
families, vocabulary and the composition of marks as parameters. `BeforeView` and
`AfterView` are the views around a value, clipped to the vocabulary's `Reach`: the cut is found by an
estimate (`CountVisible`), which is doubled while composing and collapsing leave
too little, and a run of separators that spans the cut is the dropped part's one
space. `LineOffsets` counts a line's offsets in one pass and looks again only at
what may still be composed; `Equidistant` asks two lookups which value a word is nearest to. `Found`
and `Selected` are the occurrences and the choice among those that overlap,
`Sensitivity`, `Confidence` and `Joined` what the families make of a value's
entries. Separators are one symbol, line breaks another; one symbol stands for
marks and one for invisible code points.

### PythonRegistry: selection, epoch, caches, the GIL

A call is numbered when it begins and moves through the steps between which
another thread can run: `LoadEpoch`, `Lookup`, `ReadSelection` (under the
mutex), `Compose`, `Detected`, `Return`. `scan` detaches from the interpreter,
so its steps interleave with everything; `initialize`, `status` and the
constructor of a session are attached (`gil`), and a comparison stays attached while it
looks for its registry. In `"callback"` Python code runs, which may
call the binding again on the same thread. `borrows` is the `RefCell` borrow of
the thread's cache, which `with_registry_released` avoids keeping by moving the
registry out of its slot. `seen` is history.

### AddonRegistry: the owners of the JavaScript bindings

The addon and the WebAssembly module in one module, since `lifecycle.rs` and
`bindings/node/src/lib.rs` implement one contract with different cells: the addon
links both profiles and builds defaults on first use (`Locked`), the module must
be initialized. `Initialize` judges a request in the code's order before anything is stored;
`InitializeLegacy`, `Activation`, `Scan` and `ScanWithRuleset` are the other
operations that write a cell. `running` is the stack of calls whose callbacks run.
`AddonCells` has the cells (`registry`, `piiSelection`, `detection`, the ruleset's
`entry`) and what a registry is built of (`RegistryOf`).

### StreamHost: who drives a session

One `session` with the decoder in front of it, as `AbstractSanitizer` promises it
(any prefix may be released, an append may fail), and three hosts. `CliRound`,
`CliReadFails` and `CliEnd` are `stream()`; `NodeTransform`, `NodeFlush` and
`NodeDestroy` the callbacks of the transform; the `Web...` actions the callbacks
of the wrapped `TransformStream`. Platform queues (`inflight`, `inner`,
`buffer`, `pulling`) are modelled as far as they decide when adapter code runs,
after the Streams standard: one operation of a sink at a time, an `abort()` that
waits for it, a transform that waits for demand. `StreamDelivery` has the state and
the two promises; in it `CharsOf` says of any bytes which characters they are: the
k-th begins at the k-th byte that leads one.

### OffsetIndex: offsets in the caller's unit

`Observed`, `Recorded`, `Pruned` and `ShortfallBefore` are the methods of the
same names, `Seen` the step of `observe`'s loop for one character; a character is the
number of its bytes. `observe` is a recursive function over the chunk, and the state of
its loop carries the run it is extending. The core is reduced to what
the index relies on: after an append it has settled what it reports (`open`) up to
a point no further back than its buffer limit.

## The runs

| run | question | bounds | distinct states |
|---|---|---|---|
| `incremental_texts` | Does a session lose or change anything, and release all it can? | texts up to 7 over four alphabets of 4 symbols (IDs and secrets with both line ends; assignments; two of key blocks), cut in every way | 1,302,228 |
| `incremental_limits` | Are the bounds kept, and is the failure that is reported the first? | limits 2/3/5 of 6 symbols, failing detector and policy | 517,344 |
| `detection_parts` | Is what a scan skips, selects and relates, and what a unit keeps, right? | up to 4 candidates in a text of 5; 3 built-in detectors and one of the caller's, 2 buffers, one nested scan; units of up to 7 and 13 bytes; all pairs of rules and of layouts in a text of 4; up to 6 words, marks, pipes and breaks around values of three families, two vocabularies, distances of 1 and 2 for 16 and 64; up to 5 lines of one of eight layouts, windows of 2 to 4 lines and 5 bytes; commands of up to 10 symbols and windows of 8 | 1,444,523 |
| `runtime_calls` | One load, one owner, no stale failure, every call answered | 3 calls, 5 requests, 3 artifacts | 262,669 |
| `host_calls` | Is every call of a binding served as configured, does every stream end well, is every offset exact? | 2 threads and 4 calls; 2 profiles, 5 detector selections, one nested call; 7 byte streams of up to 6 bytes in chunks of up to 4; texts of up to 5 characters of every width | 208,704 |
| `incremental_partition`, `incremental_echo`, `unit_cuts`, `runtime_manifest`, `runtime_copies`, `python_lazy`, `stream_abort` | the seven findings below | | violations |

**Why the bounds suffice.** In the session, the longest interaction the code has
spans three units: a released lead, the unit below it, and the unit after. Seven
symbols allow a CRLF cut in half, an ID, and two lines below it, or a
name, operator and value on three lines with one line to spare. The limits are
set so that each can be reached by a text within the length bound, with closed
units waiting. In overlap resolution, a component of three candidates is the
least in which two weak ones can compete with a strict one, and four allow two
components of two with a candidate that spans a gap, on either side of a
boundary between units. A registry of three built-in detectors, one of which declares nothing,
has a neighbour to be mistaken for on either side of a removed one. A unit of 13
bytes holds a block of the longest label and the start of another delimiter, so
that the lookbehind is full. Findings in a text of four nest, touch, chain and
split in every way two sides can. The texts of each layout have one line more than it spans, so that it is complete, too long,
or interrupted, and lines of up to two bytes let a window of 5 be too long in bytes before it is too long in lines; a window of 8
symbols ends inside the second of two overlapping commands. With distances of 1 and 2 a word is in reach, at its edge or
beyond it, and a text of six words is clipped, with marks and separators on both
sides of the cut. In the Python binding, four calls let a
thread fill a slot, another change the selection, and either look again, in a callback
or not. Streams have characters of every width, cut at every byte, and every kind
of error. A limit of 6 bytes for the index lets texts of five characters
outgrow it several times over. In the runtime, an attempt, a call that shares it and one
that waits for it need three calls; a fourth can only repeat one of these roles.

**Deadlock** is checked in the session runs: a session that has ended still
answers calls. It is not checked in `detection_parts` and `unit_cuts` (the
functions return), nor in the runs of the runtime and the hosts (nobody has to
make a call, and a stream ends).

**Fairness.** `RuntimeInit`: weak fairness of a call's continuation and of each
attempt's next step. The event loop runs queued jobs, and a dynamic import and a
digest settle one way or the other. `PythonRegistry`: weak fairness of each step of a call
under way; the operating system runs every thread, and the interpreter hands the
GIL on. `StreamHost`: weak fairness of the platform's reactions
(`MachineFairness`), of a source that goes on until its end, and, in
`StreamFairness`, of a consumer that keeps reading; `StalledSpec` is without the
last, which `stream_abort` uses. No call, failure, cancellation or abort is ever assumed to
happen. In `MCHosts` the parts that are not tested start where nothing of them is
enabled ("no host"), so that their fairness asks for nothing. Sessions, overlap
resolution and the other parts have only safety properties, the refinement among
them.

**Properties.** The refinement `ImplementsAbstract` is the strongest: each step of a session is a step of
`AbstractSanitizer` or none. `HoldsOnlyOpenText` and `OneLineWaitsForAnId` say
the session also *releases* what it promises to release, which the refinement
alone does not. `FailuresKeepTheirOrder` ties every reported failure to what a
whole-input call reports. In `OverlapSelection`, `TotalsAreGreatest` and
`StricterIsNeverDisplaced` compare the program with its definition (the best of
all disjoint subsets), `ComponentsDoNotInteract` with the recurrence without a
split. `JudgedAsWhole` says of every reachable unit that its scan copy, its
tracker and its cached answer are what one look at the whole unit gives.
`SessionsReadAll` compares the lines and passwords a session reads, however it was cut and
batched, with those of the whole text, and those of overlapping windows with each window by
itself; it names the two exceptions the code has (below).
`SkipsNothingFound` compares each decision to skip with a search of the text.
`RelationIsExact` defines clusters without a sweep, and demands the mirror image
when the sides are exchanged. `AssociationIsExact` associates each value over whole views and against every value of its
line; `PipesNeverSuppress` compares a text with another, as a comment in `pii.rs` does. `ServedAsConfigured` and `RunsAsAsked` tie the registry a call runs
under to what was in force when it began, `CellsAgree` three cells that are
written separately; `DeliveredInOrder` the text downstream to the bytes of the
source through decoder, session and queues. Each property has at least one mutant in `PROJECT.json`: a plausible bug
of the code under which TLC finds it violated.

## The proofs

Each module `X_proofs` holds the theorems of `X` (`Detection_proofs` those of
`DetectorPrefilter`, `PolicyComparison` and `UnitView`, `PythonBinding_proofs` those of `PythonRegistry` and
`OffsetIndex`). An invariant a run checks is
seldom inductive; what each proof adds to it is described below its table. All
theorems hold for every value of the constants that satisfies the named
assumption, and none uses fairness. TLC evaluates the assumptions in the runs:
as `ASSUME`s of the modules, or, for the instantiated components, of `MCDetection` and
`MCHosts` (`ComparisonAssumption`, `ViewAssumption`, `AddonAssumption`, `StreamAssumption`).

**The session**, for every detector set, every host, every alphabet and every set
of limits `IncrementalLimits::new` accepts (`HostsAssumption`, `LimitsAssumption`,
`TerminatorAssumption`):

| theorem (`IncrementalSession_proofs`) | says |
|---|---|
| `TypeCorrect` | the offsets into the buffer are in order |
| `NoByteIsLost` | buffer and unread input are the text fed from the lead on |
| `RetentionIsBounded` | unreleased plaintext stays within `max_buffered_bytes` |
| `BufferLimitIsNeverReported` | the construct limits always trip first |
| `NothingOutlivesTheSession` | an ended session holds no plaintext |
| `OneLineWaits` | no unit accumulates lines that each wait for an ID |
| `HoldsOpenTextOnly` | between calls, lines are held only for what is open at their end, and the lead is one line |

The first five rest on `IInv`. The bound on retention needs to know that the closed
units lie between the lead and the open unit, since making room releases exactly
that range; that no byte is lost needs the same, and that `finalizedBytes -
leadLen` is where the buffer begins in the text fed. `IInv` is their conjunction
(`InOrder`, `Bounded`, `ReadsInOrder`, `OnlyRunningReads`, `EndedIsEmpty`), proved by
one lemma for each helper of the code (`FlushBatch`, `MakeRoom`, `AppendRetained`,
`CloseUnit`, `SplitBeforeLastLine`, `TakePiece`), each of which says what the
helper does to the buffer, and one step per action.

`OneLineWaits` and `HoldsOpenTextOnly` need more of the open unit, which `HInv` says on top of `IInv`. A unit
is held for a reason (`HeldOk`): its lines have been judged up to the last
terminator in it (`JudgedUpTo`), and what was judged is held by a block or a
construct open at its end, or by an AWS candidate in its last line, whose offset
`awsHeldLine` is (`HeldFor`). In that case, what is above the waiting line is held
otherwise, or nothing is (`Alone`). `Tidy` says that the lead is one line
and that the batch ends one. `NextLine` is the lemma all of it turns on: a closed line is
judged under what was judged before, or is the `\n` of its `\r\n`. `JudgeLineHolds`
goes through the outcomes of `JudgeLine`, and `FlushBatchRests` and `AloneNext` say that
releasing a batch and adding a line keep the reason good. `OneLineWaitsForAnId` admits
a waiting line above another in that one case, held open at the `\r` of a
final `\r\n`. `HoldsOpenTextOnly` assumes `AwsCandidateIsOfItsLine`: whether a line may
be a candidate depends on the line and on whether the line above carries an ID, as
`has_open_aws_secret_candidate_line_in` reads it (`aws.rs:335-354`). The model's
detectors satisfy it (`AwsCandidateAssumption` in `MCIncremental`).

**What a session releases**, for the same hosts, alphabets and limits and every detector
set that meets `SessionContract` on all texts:

| theorem (`SessionRefinement_proofs`) | says |
|---|---|
| `PartitionInvariance` | the session implements `AbstractSanitizer`: every step is one of its steps or is not seen |
| `FailuresInOrder` | a limit is reported only where the text before its unit succeeds, a stage failure only where the whole-input call fails |
| `FinalizedIsWhole` | a finalized session has returned the text and the findings of one call on all it was fed; before, the beginning of them |
| `RefinementInvariant` | the invariant under all three |

`RInv` has three parts on top of `IInv` and `HInv`. *Released* (in `Core`): the output and the
findings so far are exactly what one whole-input call on the text above the batch
returns, with the numbers of findings and of placeholders continued from there.
*Settled*: the text up to each closed unit of the batch is settled by any text below it (`ClosedOn`), so the batch
may be flushed at any time (`Flushable`). *Open* (`GoesOn`): the open unit
begins with what settles the text above it, which is nothing, or the lines
judged so far, and if a line waits for an ID below it (`Waits`), it is the whole of what
is held for that reason.

The argument runs from one call to the batch. What is redacted
of a part of a text is that part of the redacted text, where no finding is cut (`TextOfPart`,
`ErrorOfPart`). A redaction is written symbol by
symbol (`Emission`), so parts of it are put together (`FlattenInParts`), and the
placeholder of a finding is numbered by the findings before it (`BeforePart`). A
whole-input call on a longer text marks what the call on the shorter marked, if
the cut is settled (`Grows`), and if it fails on the shorter it fails on the
longer (`ErrorGrows`): that is what keeps the order of failures, since a unit
that fails is the start of a text that fails. Then the batch: its units are found and
redacted as parts of the text above and the batch together, whether detected at once, below the lead, or
alone; the lead is enough context because `Separable` finds what is below under
the kept line alone. Last, one lemma for each helper (`FlushCore`, `PushCore`,
`CloseUnitCore`, `SplitCore`, `JudgeLineCore`, `TakePieceCore`) and one for each action
(`AppendReturnRefines`, ...), which names the step of `AbstractSanitizer` that it is.

Why `IInv` and `HInv` are needed here: the offsets must be those of the text for
any of this to speak of the text fed, and that the lead is the last line
released, or nothing, is `Tidy`.

**Overlap resolution**, for every set of ranked candidates (`CandidateAssumption`):

| theorem (`OverlapSelection_proofs`) | says |
|---|---|
| `TypeCorrect` | the loops stay inside their component and tables |
| `FindingsAreDisjoint` | no two selected candidates overlap, at any point |
| `TablesAreGreatest` | each table entry is the greatest total of its prefix |
| `SelectionIsBest` | no disjoint subset of the candidates weighs more than what is selected |
| `StricterStays` | a dropped candidate overlaps a selected one of at least its severity |
| `SplittingIsExact` | solving by components selects what solving at once selects, ties included |
| `UnitsAreSeparate` | selecting in a batch selects in each unit what a scan of the unit alone selects |

There are three invariants, each on top of the one before. `IInv` is disjointness: what
is still to be solved ends before anything selected starts (`SelectedIsAbove`), and
a component is cut off only where all that is left of the cut ends before all that
is right of it starts (`ClosesAt`), which is what the least start seen so far is
for (`MinimumSoFar`). It needs nothing of the weights.

`OInv` is optimality. `Best(s, S, P)` says that S is disjoint and that no disjoint subset of the
positions P weighs more. Every total is that of a best choice from its prefix, and
`include` says how it came about (`Tables`); what is selected is best of what is
solved, and while a selection is read off, best with any best choice of what is
left (`Optimal`). The steps are `BestWithOneMore` (the recurrence: the candidate is taken,
with a best choice of what ends before it, or not), which rests on `PredecessorsOf` (what
ends before a candidate is a prefix), and `BestOfBoth` (two sides of a cut are
chosen independently). The order on weights is lexicographic and addition keeps it
(`PlusKeepsOrder`). That a stricter action is never displaced is the argument in the comment on
`EvidenceWeight`: if a dropped candidate of severity s met only selected ones below
s, exchanging it for them would gain base^s and lose at most N * base^(s-1), which
is less (`BestDisplacesNoStricter`).

`AInv` compares with the recurrence that does not split (`Whole`): the totals of a
component are its totals less what is below the component, and what is selected
completes what it takes of the rest (`Agrees`). `PredecessorsInComponent` says why: a cut
is below every start above it. Ties are broken alike because both sides compare
the same differences.

`UnitsAreSeparate` compares two recurrences over different weights: a unit scanned alone
has fewer candidates than the batch, so a smaller base. `BaseDecidesNothing`: every base above
the number of candidates puts two sets in the same order. Take the greatest rank from
each; if the two are equal, remove both; if not, the higher one outweighs all that the other set
has (`HigherRankDecides`: n * base^r < base^(r+1)), whatever the base. The remaining
places of a weight do not use the base (`PlaceIgnoresBase`). So the recurrence over the batch takes
of a unit what the unit's own takes (`PieceFollows`): nothing of one unit overlaps another
(`UnitsMeet`, from the order of the ends), and the totals below the unit cancel.

**Recursion.** What a recursive function computes is proved by induction over a set
of numbers instead of a predicate (`StepsReachAll`), since the library's induction
theorems take operators as parameters; `RecursionExists` gives the
function that a definition by `CHOOSE` refers to. Totals, powers and the
recurrence are LET functions for this reason.

**The runtime**, for any calls, requests, artifacts and ways for a loader to answer
(`OptionsAssumption`: requests with one key are one request, a request without
PII selects nothing, and nothing is called `None`):

| theorem (`RuntimeInit_proofs`) | says |
|---|---|
| `TypeCorrect` | every variable has its type, the attempt in flight is the last one |
| `InitializeLoadsOnce` | two attempts never overlap and none follows a success |
| `ResolvedCallsAreServed` | a call that resolves finds what it asked for in force |
| `ConflictsAreReal` | a conflict is with the configuration in force |
| `FailuresAreNotCached` | no call is rejected by an attempt older than itself |
| `ManifestMatches` | the manifest kept is that of the artifact in use, if it has one |
| `ActivationIsForGood` | no step replaces the binding or changes what a core is fixed to |

What these properties leave out, and the invariant supplies, is what is known
*between* the awaits: while an attempt loads or waits for its digest no artifact
is in use and so no core is fixed (`StageKnows`, `OneOwner`), which is why a core
asked for the first time reports no conflict; once an attempt has succeeded, the
core is fixed to the attempt's request, which is that of every call that shares
it (`CallKnows`), which is why those calls may resolve without asking it; and the
manifest cannot be replaced after the artifact is bound, because no attempt is
left to do so. There is one lemma per part of an action and one per action.

**The Python binding**, for any number of threads and calls, any selections and rulesets, and
whatever the callbacks of a call ask for (`PythonAssumption`: the values that stand for
no selection, built-in rules and so on are told apart):

| theorem (`PythonBinding_proofs`) | says |
|---|---|
| `TypesAreKept` | every variable has its type, the epoch is bumped once at most |
| `CachesAreCurrent` | a cached registry tagged with the current epoch was built for the selection in force |
| `CallsAreServedAsConfigured` | a call that begins once the selection has shown runs under it, and with its own ruleset |
| `CachesAreBorrowedOnce` | no thread borrows its cache twice, however deep callbacks nest |

`initialize()` stores the selection and bumps the epoch in two steps, and a call
reads them in the other order. The invariant (`IInv`) says what a tag is worth in
between (`Knows`): a registry tagged with the later epoch was built for the
selection in force, and while the epoch is the earlier one every registry was
built for none (`EpochFollows`, `CacheKnows`, `StageKnows`). `UseKnows` carries that from the lookup to the scan
under it, and `Nested` says that of a thread's running calls only the last is
not in a callback, which is why a borrow is never met by another.

**The sessions' offsets**, for any text in any chunks, any buffer limits and any longest run
(`LimitAssumption`: the limits are natural numbers):

| theorem (`PythonBinding_proofs`) | says |
|---|---|
| `IndexStaysCurrent` | entries and runs are in order and count what the text comes to, from the floor on |
| `OffsetsStayExact` | every character a finding may still begin or end at has its exact offset |

`RecordIsExact` says that recording some characters adds, for every offset, those of them
that begin before it (`CharsBefore`), whichever of its three ways `record` takes; `SeenIsExact`
that a step of the loop changes nothing for offsets up to its character and adds that
character's shortfall for those behind it; induction over the chunk gives `ObserveIsExact`.
The offsets between, inside a character, are not claimed: a run answers them by rounding
up. `RunsPruned` says that `prune` keeps the answer for every offset from the new floor on:
the runs it drops are the first ones, and a run is cut where the first character of it lies that
begins at or behind the floor. The invariant needs `floor <= Floor`, that the floor never passes what
the buffer limit leaves, so that each pruning starts from answers that are exact where it asks.
Sums over a text are a recursive function; `SumExists` and `LoopExists` show, by
induction over the length, that the recursions have a solution.

**The JavaScript bindings**, for any profiles, selections and rulesets, any depth of
callbacks, and each of the three builds (`ConstantsAssumption`: the defaults are
selections, `None` is not):

| theorem (`AddonRegistry_proofs`) | says |
|---|---|
| `OwnersAgree` | the three cells of a profile tell the same |
| `CallsRunAsAsked` | a call runs under its profile, its ruleset and what was in force when it began |
| `OwnersAreSettled` | no step changes what an owner is fixed to |

Three operations fill the cells in different orders and leave some empty. The
invariant reads an empty cell as its default: the owner is built from the
selections in force, and before it is built none is (`CellsKnow`). An entry holds
the registry its key describes, and the module, whose lookup compares the ruleset alone,
has an entry only once its owner is fixed, to the entry's selections (`EntryKnows`).
That is why the shorter comparison is enough. `KeepsOwners` is what each operation is
shown to do to the cells; the cached entry and the stacked calls keep their meaning across it.

**The hosts of sessions**, for byte streams of any length in chunks of any size
(`ConstantsAssumption`: the inputs are bytes, a chunk may hold one):

| theorem (`StreamHost_proofs`) | says |
|---|---|
| `SessionsEnd` | a host that has finished, failed or been stopped has ended its session |
| `TextIsDelivered` | what is delivered is the text in order, and all of it if the stream ends well |
| `StalledHosts` | both, of hosts whose consumer may stop reading |

`IInv` says where a byte may be. `Decoded`: what the session was fed is the characters of
the bytes decoded so far, the decoder carries the bytes behind them, and a chunk in
flight is what follows those. `Delivered`: what is downstream and in the two queues is
what the session has released, a prefix of it once something has failed. `Queues` and
`WriteSide` bound what can be under way at once (one operation of the sink, one piece per
queue, none while a pull waits), which is what fixes the order of the pieces.
`CharsConcatenate` is the fact underneath: characters of a text that is cut
where none is open are those of its two parts. The outcomes of the session's and the
decoder's calls are lemmas (`SessionAppendOutcomes`, `FinalizeOutcomes`, ...), and
each action of each host is one more.

**Skipped detectors**, for any detectors and literals, texts of any length and scans nested
to any depth (`ConstantsAssumption`: what is declared, asked and scanned are sequences):

| theorem (`Detection_proofs`) | says |
|---|---|
| `NothingIsSkipped` | a detector is skipped, a literal ruled out, only where it does not occur; by the matcher exactly there |

`PresentIsExact` is the fact about the matcher: a pass that reads two bytes at a time, looks
at one group per pair and stops once nothing is left to find, finds exactly the detectors
with a literal in the text (by induction over the offset: what is counted as remaining is
the declaring detectors less those found, so 0 of them means all). Around it the invariant says
that the matcher's declarations are those of the detectors in their present positions
(`MatcherFits`), which `WithDetection` only keeps by compiling anew; that what a scan found
belongs to the bytes it borrows, and borrowed memory is not freed (`ScansHold`); and that the mark
is the innermost scan's and each outer scan's was saved by the one inside it, with pairs of the bytes
that are there now (`MarksAreCurrent`), so that restoring one when a scan ends is sound.

**Comparisons**, for any catalogue, policies and findings (`ComparisonConstants`: the PII
adapter has a name of its own, sides and rules are sequences):

| theorem (`Detection_proofs`) | says |
|---|---|
| `WarningsAreTrue` | a rule that decides is reported neither as shadowed nor for what it decided on |

The invariant is that every decision kept, in a finished column or the one under
way, is what its policy's rules make of the finding in that place; that the first matching
rule has none before it that covers it is `FirstIsNotShadowed`.

**What a unit keeps beside its bytes**, for texts of any length in any pieces and any set of
invisible bytes, any labels and lengths of the dash run and the probe (`ViewConstants`: pieces are
nonempty sequences, a line feed is not invisible, labels have no dashes and one is the longest):

| theorem (`Detection_proofs`) | says |
|---|---|
| `RangesAlwaysMoveBack` | a range of the scan copy stands for the bytes it was made of; what was lost within it or beside it is told; units end at one place of the copy, whether it is that of the batch or made unit by unit |
| `UnitsAreJudgedAsWhole` | the copy grown piece by piece is that of the whole unit; at a line end its tail and its blocks are judged as one look at that copy would judge them |
| `FindNextIs` | the search for a delimiter finds the first one, whatever runs of dashes the probe and the stride meet |
| `TrackedFits` | a tracker that is right about a text is right about the text with a piece |

Two facts about the algorithm carry what is said of the copy. `StripIs`: the walk over a text leaves the kept
bytes in their order and one seam per maximal run of lost ones, with what was kept
before it. From it follows `StripMovesBack`: the seams below a range are the
runs before it in the text (`RangeEndsCount`), and the last of them knows how much was lost so far
(`OffsetMovesBack`). That needs an offset that is not inside a run, and a unit's end is not, since it
ends behind a line feed, which is kept. `NormalizedPieces`: the copy of two
texts is that of the one and that of the other, so it may grow by pieces, even when a run is cut in
two. The invariant (`ViewInvariant`) adds what the answer kept by `openTail` means: it is the
answer for the copy as long as that was then, and stays right over white space because an
assignment is judged by where the solid part of the copy ends (`SameAnswer`). It holds while units
are held and across a block, during which the answer is not renewed.

The blocks take a longer way. The stride finds every run because among as many offsets as a run
is long there is a sample (`SampleWithin`), and to the left and right of a sampled dash lies the
whole run (`StridedIs`, `NextDashRunIs`); a delimiter begins where a run does, and at most one at
each offset (`OneDelimiter`). `StateAt` is the stack behind all delimiters that end up to an
offset. A scan of a part of the text gives it at the part's end if the delimiters due, those not yet accounted for,
are exactly those that start behind the scan's beginning and end behind what was processed (`ScanIs`). That is where the
lookbehind comes in: no dash stands in front of it near enough to begin a delimiter that
ends in the piece (`LookbehindFits`, `ReachesBack`), and what starts in the piece and was scanned in the
junction ends where the rest begins (`RestFits`). The argument needs delimiters that lie
apart (`DashesAreNotShared`, `DelimitersApart`); where they share dashes the statement is false, see the
fourth disagreement below.

**Only model-checked**: that the detectors of the model meet `SessionContract` (on bounded texts);
`HeldUnits`, `PiiContext` and the clusters of
`PolicyComparison` (`RelationIsExact`), which compute by folds and recursive operators;
and `EveryCallSettles`, `EveryCallReturns` and `StreamEnds`, since liveness under
fairness is outside the prover's reach.

## Where code and documentation disagree

1. **Acceptance depends on the partition** (`incremental_partition`). A line with
   a private-key BEGIN is measured by the multiline limit once the BEGIN is in
   the buffer. Cut just before it, a long line has already failed the token
   limit; in one append it is accepted. `incremental.rs:14` says acceptance does
   not depend on the partition.
2. **A placeholder may equal another unit's value** (`incremental_echo`). A
   placeholder is checked against the values matched in its own unit;
   `docs/reference/plaintext-lifetime.md:67` says any finding's. It needs a
   formatter whose text is a value that occurs in the input.
3. **A manifest outlives the artifact it belongs to** (`runtime_manifest`).
   `load()` keeps the manifest before the core accepts the request. When the
   core refuses and a retry binds an artifact without a manifest,
   `artifactManifest()` answers with the refused artifact's.
4. **A delimiter is counted that is not there** (`unit_cuts`). Two delimiters may
   share their dashes in the text; a scan gives them to the first. The tracker
   keeps one byte less than the longest delimiter, so behind a delimiter of the
   longest label it has lost that delimiter's first dash, no longer recognizes
   it, and reads the dashes it ends with as the start of the next. Cut there, a
   block closes in the session that is open in the whole text, and the findings
   differ. `incremental.rs:23` says they are identical at every partition.
5. **PII may be turned on late in Python** (`python_lazy`). `initialize()` is
   compared with an earlier `initialize()` only, not with a registry a scan has
   built; `docs/reference/detector-capability-matrix.md:127` says that is a
   conflict on every surface.
6. **A writer's abort() may never arrive** (`stream_abort`). The platform
   calls the wrapper's `abort` after the write in flight, and a write held up by
   backpressure ends when the consumer reads. If it does not, the session keeps
   its text; `web-stream-core.ts:16` says an abort discards it first.
7. **Options are read twice** (`runtime_copies`). A call that waits for an
   attempt with another key copies its options again afterwards, although they
   are said to be copied once, at call time.

Remarks without a run. A member written `"Token"` is read beside its partner, because the
reader normalizes names (`generic_token.rs:456`), but the hint asks for the exact
lower-case names, so a session closes the unit behind it and does not read it with a
partner that follows; `scoped_context.rs:30-32` says a whole-input scan and a session agree.
`UnitsReadAsWhole` admits exactly this. A window of a curl
word that stops at a word an earlier window has read "would read the rest as that window
did" (`curl_user.rs:269`), unless the earlier one was cut short by its cap: a password
behind the cap is then read by neither, in the session and in the whole text alike.
`ShortcutSkipsNothing` admits exactly this. The addon's `initialize()` answers
`DETECTION_CONFIG_CONFLICT` after `initializeDetection` with a list of all its
detectors, which the module, comparing what is enabled, takes for the same
(`is_all` looks at the form of a selection, not at its ids). A scan with a ruleset
before any `initialize` builds a registry for the defaults without fixing the
addon's owner to them. The comment on the component split says that a base
taken from the component's size "would change which subset wins". The comment on
`detect_units` and the property `UnitsDecompose` say that any base above the
number of candidates compares alike; that is what holds (`BaseDecidesNothing`).

## What is not modelled

- *Whole-input limits* and the validation of candidates: folded into one failure
  of the detection pass.
- *The bytes of a match*: in the session model a key ID, a secret, a delimiter is
  one symbol. Of the bytes, `UnitView` has those of delimiters, names and
  operators; how a provider's format is matched is nowhere.
- *The catalogue*: the larger part of the repository's lines are matchers,
  tables, checksums and their tests (`detectors/*`, the families of `pii.rs`,
  `structured_validators.rs`, `entropy.rs`), each a pure function of a line or a value,
  with neither state nor order. A model of them would be the program again.
- *Parsing and validation of documents* (`ruleset.rs`, `manifest.rs`,
  `config.rs`, argument parsing, conversion of values in the bindings): a document
  loads or does not.
- *compare_configurations in the bindings*: builds a registry per side and
  caches none of them.
- *`resolveConfig`, `describeConfig`, `artifactManifest`* of the runtime read
  state that `RuntimeInit` has.
- *Scripts, corpora, release tooling*: not part of the program.

Two branches are kept in the model although the model's
detectors do not or seldom take them: in `detect_units`, "inseparable" needs a candidate that
reaches the end of a closed unit, and the only one that reaches the end of a text, an unfinished
malformed key block, keeps its unit open;
the continuation guard of `close_unit` needs a unit that begins with an operator.

## Plan

What would come next, in this order: theorems about the algorithms that are only model-checked,
the windows of `HeldUnits` first; then the
matchers of further detectors, whose reach bounds what a session has to hold.
