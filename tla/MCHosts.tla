------------------------------- MODULE MCHosts --------------------------------
(* What lies around the core, for TLC.  A behaviour is one of the Python   *)
(* binding with two threads, of a JavaScript binding with two profiles and *)
(* calls nested in callbacks, of a host that drives a session over a       *)
(* stream, or of the index of the bindings' sessions.                      *)
EXTENDS PythonRegistry, AddonCells, StreamDelivery, OffsetIndex

CONSTANTS
  Tested,                                                   \* those considered
  Email, RulesA, Broken, Full, Common, Github, Jwt, MaxDepth,
  Inputs, MaxChunk, Hosts

VARIABLE tested

streamVars == <<host, input, taken, session, inflight, writable, inner, pulling, buffer,
                readable, out, result>>
mcVars == <<tested, vars, addonVars, streamVars, indexVars>>

(* Github is a provider detector, of the full profile only.                *)
MCIncluded == [p \in {Full, Common} |-> IF p = Full THEN {Jwt, Github} ELSE {Jwt}]
Detections ==
  {[mode |-> "all", ids |-> <<>>], [mode |-> "exclude", ids |-> <<>>],
   [mode |-> "include", ids |-> <<Jwt>>], [mode |-> "include", ids |-> <<Jwt, Github>>],
   [mode |-> "exclude", ids |-> <<Jwt>>]}

Addon == INSTANCE AddonRegistry WITH Compiled <- Common
Stream == INSTANCE StreamHost WITH Hosts <- Hosts \cup {"no host"}

ASSUME AddonAssumption == Addon!ConstantsAssumption
ASSUME StreamAssumption == Stream!ConstantsAssumption

(* Calls of the Python binding in the order they begin: one asks for a     *)
(* selection and another for a different one, scans and comparisons share  *)
(* a slot of the cache or use one each, a ruleset is rejected.             *)
MCRequests ==
  LET init == <<"initialize", Email>>
      conflicting == <<"initialize", Off>>
      scan == <<"scan", BuiltIn>>
      compare == <<"compare", BuiltIn>>
      scanA == <<"scan", RulesA>>
      compareA == <<"compare", RulesA>>
      status == <<"status", BuiltIn>>
  IN <<{init, scan, compare},
       {init, scan, scanA, compareA, status},
       {init, conflicting, scan, <<"session", BuiltIn>>},
       {scan, <<"scan", Broken>>}>>

(* Characters of every width, a stream cut inside a character, one that    *)
(* breaks off and goes on, a byte that is never valid, nothing at all.     *)
MCInputs ==
  {<<>>, <<"a", "l3", "c", "c", "a">>, <<"l4", "c", "c", "c", "l2", "c">>,
   <<"a", "l4", "c", "c">>, <<"l3", "c", "a">>, <<"a", "x">>, <<"a", "a", "a", "a">>}

(* What is not considered starts in one state and stays there; nothing of  *)
(* it is enabled that fairness would ask for.                              *)
MCInit ==
  /\ tested \in Tested
  /\ Init /\ Addon!Init /\ Stream!Init /\ IndexInit
  /\ tested # "addon" => addon = "node"
  /\ IF tested = "stream" THEN host \in Hosts ELSE host = "no host" /\ input = <<>>
  /\ tested # "offsets" => /\ units = (CHOOSE u \in UnitKinds : TRUE)
                           /\ limit = (CHOOSE l \in BufferLimits : TRUE)

MCNext ==
  \/ tested = "python" /\ Next /\ UNCHANGED <<tested, addonVars, streamVars, indexVars>>
  \/ tested = "addon" /\ Addon!Next /\ UNCHANGED <<tested, vars, streamVars, indexVars>>
  \/ tested = "stream" /\ Stream!Next /\ UNCHANGED <<tested, vars, addonVars, indexVars>>
  \/ tested = "offsets" /\ IndexNext /\ UNCHANGED <<tested, vars, addonVars, streamVars>>

MCSpec == MCInit /\ [][MCNext]_mcVars /\ Fairness /\ Stream!StreamFairness

(* A consumer that may stop reading: Stream!MachineFairness alone.         *)
MCStalledSpec ==
  /\ MCInit /\ [][MCNext]_mcVars
  /\ WF_streamVars(Stream!Round) /\ WF_streamVars(Stream!Feed)
  /\ WF_streamVars(Stream!WebTransform) /\ WF_streamVars(Stream!WebFlush)
  /\ WF_streamVars(Stream!WebPull)

------------------------------------------------------------------------------
(* The stream hosts: a stream that goes on comes to its end.               *)
StreamEnds == tested = "stream" => Stream!StreamEnds

(* The Web adapter: a writer's abort() reaches the session                 *)
(* (web-stream-core.ts:17-20).                                             *)
AbortReachesTheSession == Stream!AbortReachesTheSession
===============================================================================
