-------------------------- MODULE AbstractSanitizer ---------------------------
(***************************************************************************)
(* What an incremental session promises its caller, with no word on how it *)
(* buffers, batches or splits the text: incremental.rs, "Partition         *)
(* invariance", and docs/reference/api-contract.md, "Incremental and       *)
(* streaming".                                                             *)
(*                                                                         *)
(* Whatever has been released so far is a prefix of what the whole-input   *)
(* call would return if the input ended here, and a successful finalize    *)
(* releases exactly the rest.  Since the caller may finalize after any     *)
(* append, a released prefix may never have to be taken back.              *)
(***************************************************************************)
EXTENDS ScanReference

VARIABLES
  state,      \* accepting, finalized, aborted or failed
  host,       \* the policy and formatter captured at construction
  input,      \* all the text appended
  output,     \* all the sanitized text released
  findings    \* all the findings released

absVars == <<state, host, input, output, findings>>

AbsInit ==
  /\ state = "accepting"
  /\ host \in Hosts
  /\ input = <<>>
  /\ output = <<>>
  /\ findings = {}

(* The released text and findings only grow.                               *)
Extends ==
  /\ IsPrefix(output, output')
  /\ findings \subseteq findings'

(* Text is accepted.  What is released of it is already final: the         *)
(* whole-input call on the text so far returns it too.                     *)
Accept ==
  /\ state = "accepting" /\ state' = "accepting"
  /\ host' = host
  /\ IsPrefix(input, input')
  /\ Extends
  /\ LET whole == WholeInput(host, input') IN
       whole.error = "none" =>
         /\ IsPrefix(output', whole.text)
         /\ findings' \subseteq whole.findings

(* The input ends: released in all is what one whole-input call returns.   *)
Finish ==
  /\ state = "accepting" /\ state' = "finalized"
  /\ UNCHANGED <<host, input>>
  /\ Extends
  /\ LET whole == WholeInput(host, input) IN
       /\ whole.error = "none"
       /\ output' = whole.text
       /\ findings' = whole.findings

(* A failure or an abort releases nothing; the failing chunk may be part   *)
(* of the input or not.                                                    *)
Stop ==
  /\ state = "accepting" /\ state' \in {"aborted", "failed"}
  /\ IsPrefix(input, input')
  /\ UNCHANGED <<host, output, findings>>

AbsNext == Accept \/ Finish \/ Stop

AbsSpec == AbsInit /\ [][AbsNext]_absVars
==============================================================================
