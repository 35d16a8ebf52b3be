--------------------------- MODULE BindingConstants ----------------------------
(* What the Python and the JavaScript bindings may be asked for.            *)
EXTENDS Integers

CONSTANTS
  Selections,   \* what initialize() may be asked for
  Off,          \* the selection that activates nothing
  Rulesets,     \* the rulesets a call may supply
  Malformed,    \* those load_ruleset rejects
  BuiltIn,      \* no ruleset
  None
================================================================================
