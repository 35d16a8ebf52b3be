------------------------------- MODULE MCRuntime -------------------------------
(***************************************************************************)
(* Instances of RuntimeInit: a WebAssembly package with its default        *)
(* artifact, its PII-capable one and one that reports no manifest, three   *)
(* calls of initialize() and the requests the runtime and the core tell    *)
(* apart.                                                                  *)
(***************************************************************************)
EXTENDS RuntimeInit

CONSTANTS Default, Pii, Silent, c1, c2, c3

MCLoads == [pii \in BOOLEAN |-> IF pii THEN {Pii} ELSE {Default, Silent}]

Request(key, pii, selection, detection) ==
  [key |-> key, pii |-> pii, selection |-> selection, detection |-> detection]

Plain == Request("plain", FALSE, Off, All)
Global == Request("global", TRUE, "global", All)
Malformed == Request("malformed", TRUE, Rejected, All)
Narrow == Request("narrow", FALSE, Off, "narrow")
Unknown == Request("unknown", FALSE, Off, Rejected)

MCOptions == {Plain, Global, Malformed, Narrow, Unknown}
MCRewrites == {<<Plain, Narrow>>}
==============================================================================
