---------------------------- MODULE StreamDelivery ----------------------------
(***************************************************************************)
(* What a host that drives a session over a byte stream promises: the text *)
(* of its source, in order, and a session that ends with it.  StreamHost   *)
(* has the hosts.                                                          *)
(*                                                                         *)
(* A byte is "a" (a character of its own), "l2", "l3" or "l4" (the first   *)
(* byte of a longer one), "c" (a later byte) or "x" (never valid).  A      *)
(* character stands for itself as the position of its first byte.          *)
(***************************************************************************)
EXTENDS Integers, Sequences, SequencesExt, FiniteSetsExt

VARIABLES
  host,         \* which of them runs
  input,        \* the bytes the source holds
  taken,        \* how many have been taken from it
  session,      \* the session, and the decoder in front of it
  inflight,     \* web: the operation on the writable side that has begun
  writable,     \* web: "writable", "erroring", "errored" or "closed"
  inner,        \* web: text in the readable of the wrapped TransformStream
  pulling,      \* web: the outer readable waits for that readable
  buffer,       \* node, web: pieces of text the consumer may read
  readable,     \* node, web: "readable", "closed" or "errored"
  out,          \* what was written or read downstream
  result        \* how the host ended: "none", "ok" or "failed"

------------------------------------------------------------------------------
(* Characters.                                                             *)
Bytes == {"a", "l2", "l3", "l4", "c", "x"}

Width == [b \in {"a", "l2", "l3", "l4"} |->
            CASE b = "a" -> 1 [] b = "l2" -> 2 [] b = "l3" -> 3 [] b = "l4" -> 4]
Leads == DOMAIN Width

(* The k-th of a set of positions.                                         *)
Nth(positions, k) ==
  CHOOSE p \in positions : Cardinality({q \in positions : q <= p}) = k

(* The characters of bytes that follow the first `before` ones.            *)
Starts(bytes) == {i \in DOMAIN bytes : bytes[i] \in Leads}

CharsOf(bytes, before) ==
  [k \in 1..Cardinality(Starts(bytes)) |-> before + Nth(Starts(bytes), k)]

AllChars == CharsOf(input, 0)

------------------------------------------------------------------------------
(* Promises.                                                               *)
Accepting(s) == s.state = "accepting"
AtEnd == taken = Len(input)

(* A stream that ends well has delivered all its text, once and in order,  *)
(* and one that does not a prefix of it: no chunk boundary, queue or       *)
(* failure loses, repeats or exchanges a character.                        *)
DeliveredInOrder ==
  LET coming == out \o FlattenSeq(buffer) \o FlattenSeq(inner)
  IN /\ IsPrefix(coming, SubSeq(session.fed, 1, session.released))
     /\ IsPrefix(session.fed, AllChars)
     /\ result = "ok" => out = AllChars /\ session.state = "finalized" /\ AtEnd

(* However a host ends, by a failed read or write, bytes that do not       *)
(* decode, a destroyed, cancelled or aborted stream, the session has       *)
(* ended and holds no text.                                                *)
HostEndsTheSession ==
  result # "none" \/ writable \in {"errored", "closed"} => ~Accepting(session)
===============================================================================
