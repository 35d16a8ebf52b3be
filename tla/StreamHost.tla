----------------------------- MODULE StreamHost ------------------------------
(***************************************************************************)
(* The hosts that drive an incremental session over a byte stream: the     *)
(* command line (crates/secret-scan-cli/src/modes.rs and input.rs) and the *)
(* two JavaScript adapters (packages/javascript/src/adapters).  Each       *)
(* decodes chunks that may end inside a character, appends them, hands on  *)
(* what the session releases, and has to end the session however it ends   *)
(* itself.                                                                 *)
(*                                                                         *)
(* The session is what AbstractSanitizer promises of it: it releases some  *)
(* prefix of what it was given, and the rest on finalize.  The queues of   *)
(* Node.js and Web streams are the platform's; they are modelled as far as *)
(* they decide when the adapter's code runs.                               *)
(***************************************************************************)
EXTENDS StreamDelivery

CONSTANTS
  Inputs,       \* the byte streams considered
  MaxChunk,     \* bytes in a chunk
  Hosts         \* those of "cli", "node" and "web" that are considered

platform == <<inflight, writable, inner, pulling, buffer, readable>>
vars == <<host, input, taken, session, inflight, writable, inner, pulling, buffer, readable,
          out, result>>

(* What is asked of the constants.                                         *)
ConstantsAssumption == Inputs \subseteq Seq(Bytes) /\ MaxChunk \in Nat \ {0}

NoError == "none"
Junk == <<"junk">>  \* a chunk that is not a Uint8Array

(* What the writable side is doing.                                        *)
Writing(chunk) == [op |-> "write", chunk |-> chunk]
Idle == [op |-> "none", chunk |-> <<>>]
Closing == [op |-> "close", chunk |-> <<>>]

------------------------------------------------------------------------------
(* Decoding.                                                               *)

(* str::from_utf8: valid up to the end, or incomplete there.               *)
Decodes(bytes) ==
  /\ \A i \in DOMAIN bytes : bytes[i] # "x"
  /\ \A i \in DOMAIN bytes : bytes[i] \in Leads =>
       \A j \in (i + 1)..Min({i + Width[bytes[i]] - 1, Len(bytes)}) : bytes[j] = "c"
  /\ \A j \in DOMAIN bytes : bytes[j] = "c" =>
       \E i \in 1..(j - 1) : bytes[i] \in Leads /\ j <= i + Width[bytes[i]] - 1

(* Where its incomplete last character begins, if there is one.            *)
ValidUpTo(bytes) ==
  LET cut == {i \in DOMAIN bytes : bytes[i] \in Leads /\ i + Width[bytes[i]] - 1 > Len(bytes)}
  IN IF cut = {} THEN Len(bytes) ELSE Max(cut) - 1

(* The decoder's state: the bytes it has seen, those of an incomplete      *)
(* character that it carries.  Mutant: they are forgotten.                 *)
CarriedNot(d) == <<>>

Carried(d) == d.carry

(* Utf8Stream::push, and TextDecoder with fatal and stream: the bytes      *)
(* carried and the new ones, up to the last complete character.            *)
Push(d, chunk) ==
  LET bytes == Carried(d) \o chunk
      valid == ValidUpTo(bytes)
  IN [ok |-> Decodes(bytes),
      text |-> CharsOf(SubSeq(bytes, 1, valid), d.seen - Len(Carried(d))),
      decoder |-> [seen |-> d.seen + Len(chunk), carry |-> SubSeq(bytes, valid + 1, Len(bytes))]]

(* Utf8Stream::finish, and decode() without stream.                        *)
EndsInside(d) == d.carry # <<>>

------------------------------------------------------------------------------
(* The session, and createStreamSanitizerRuntime around it.  An operation  *)
(* has several outcomes: the session left behind, the text, the error.     *)
Outcome(s, text, error) == [session |-> s, text |-> text, error |-> error]
Ended(s, state) == [s EXCEPT !.state = state]

(* append and finalize of the session: text is released in order.          *)
SessionAppend(s, text) ==
  IF ~Accepting(s) THEN {Outcome(s, <<>>, "INVALID_STATE")}
  ELSE LET fed == s.fed \o text IN
       {Outcome(Ended(s, "failed"), <<>>, "failure")} \cup
       {Outcome([s EXCEPT !.fed = fed, !.released = k], SubSeq(fed, s.released + 1, k), NoError) :
          k \in s.released..Len(fed)}

SessionFinalize(s) ==
  IF ~Accepting(s) THEN {Outcome(s, <<>>, "INVALID_STATE")}
  ELSE {Outcome(Ended(s, "failed"), <<>>, "failure"),
        Outcome([Ended(s, "finalized") EXCEPT !.released = Len(s.fed)],
                SubSeq(s.fed, s.released + 1, Len(s.fed)), NoError)}

(* abort(): idempotent, and safe once the session has ended.               *)
Aborted(s) == IF Accepting(s) THEN Ended(s, "aborted") ELSE s

(* Input that is refused ends the session.                                 *)
Refused(s, error) == {Outcome(Aborted(s), <<>>, error)}

(* append(): a chunk is checked and decoded, its text appended.            *)
AppendChunk(s, chunk) ==
  IF chunk = Junk THEN Refused(s, "INVALID_CHUNK")
  ELSE LET pushed == Push(s.decoder, chunk) IN
       IF ~pushed.ok THEN Refused(s, "INVALID_UTF8")
       ELSE SessionAppend([s EXCEPT !.decoder = pushed.decoder], pushed.text)

(* finalize(): the decoder is flushed, and with it nothing more; then the  *)
(* session.  A stream that ends inside a character fails.                  *)
FinalizeAll(s) ==
  IF EndsInside(s.decoder) THEN Refused(s, "INVALID_UTF8")
  ELSE UNION {IF appended.error # NoError THEN Refused(appended.session, appended.error)
              ELSE {IF final.error # NoError THEN Outcome(Aborted(final.session), <<>>, final.error)
                    ELSE Outcome(final.session, appended.text \o final.text, NoError) :
                      final \in SessionFinalize(appended.session)} :
              appended \in SessionAppend(s, <<>>)}

------------------------------------------------------------------------------
Running == result = "none"

(* The next chunk of the source; its size is the reader's or the writer's. *)
Chunks == {SubSeq(input, taken + 1, taken + n) : n \in 1..Min({MaxChunk, Len(input) - taken})}

(* The command line.                                                       *)
Stops(s) == session' = s /\ result' = "failed" /\ UNCHANGED out
Writes(s, text) == session' = s /\ out' = out \o text

(* One round of the loop in stream(): a chunk is read, decoded, appended,  *)
(* and what is released is written.  What fails around the session aborts  *)
(* it; its own failure has ended it.                                       *)
CliRound(chunk) ==
  /\ host = "cli" /\ Running
  /\ taken' = taken + Len(chunk)
  /\ \E o \in AppendChunk(session, chunk) :
       IF o.error # NoError THEN Stops(o.session)
       ELSE \/ Writes(o.session, o.text) /\ UNCHANGED result
            \/ Stops(Aborted(o.session))
  /\ UNCHANGED <<host, input, platform>>

CliReadFails ==
  /\ host = "cli" /\ Running
  /\ Stops(Aborted(session))
  /\ UNCHANGED <<host, input, taken, platform>>

(* The end of the input: nothing more is appended, the session finalizes.  *)
CliEnd ==
  /\ host = "cli" /\ Running /\ AtEnd
  /\ IF EndsInside(session.decoder) THEN Stops(Aborted(session))
     ELSE \E o \in SessionFinalize(session) :
            IF o.error # NoError THEN Stops(o.session)
            ELSE \/ Writes(o.session, o.text) /\ result' = "ok"
                 \/ Stops(o.session)
  /\ UNCHANGED <<host, input, taken, platform>>

------------------------------------------------------------------------------
(* NodeStreamSanitizer.  A Transform calls _transform for one chunk at a   *)
(* time, and not while its readable side is full; an error destroys it.    *)
Pieces(text) == IF text = <<>> THEN <<>> ELSE <<text>>

(* A destroyed stream delivers nothing more.                               *)
Destroyed(s) ==
  /\ session' = s
  /\ buffer' = <<>> /\ readable' = "errored" /\ result' = "failed"

NodeTransform(chunk) ==
  /\ host = "node" /\ readable = "readable" /\ buffer = <<>>
  /\ taken' = taken + Len(chunk)
  /\ \E o \in AppendChunk(session, chunk) :
       IF o.error # NoError THEN Destroyed(Aborted(o.session))
       ELSE session' = o.session /\ buffer' = Pieces(o.text) /\ UNCHANGED <<readable, result>>
  /\ UNCHANGED <<host, input, inflight, writable, inner, pulling, out>>

NodeFlush ==
  /\ host = "node" /\ readable = "readable" /\ buffer = <<>> /\ AtEnd
  /\ \E o \in FinalizeAll(session) :
       IF o.error # NoError THEN Destroyed(Aborted(o.session))
       ELSE /\ session' = o.session
            /\ buffer' = Pieces(o.text) /\ readable' = "closed"
            /\ UNCHANGED result
  /\ UNCHANGED <<host, input, taken, inflight, writable, inner, pulling, out>>

(* destroy(), by either side, or because the peer of a pipe has failed.    *)
NodeDestroy ==
  /\ host = "node" /\ Running
  /\ Destroyed(Aborted(session))
  /\ UNCHANGED <<host, input, taken, inflight, writable, inner, pulling, out>>

(* The consumer reads what there is, and sees the end after it.            *)
NodeRead ==
  /\ host = "node" /\ Running
  /\ \/ /\ buffer # <<>>
        /\ out' = out \o Head(buffer) /\ buffer' = Tail(buffer)
        /\ UNCHANGED result
     \/ /\ buffer = <<>> /\ readable = "closed"
        /\ result' = "ok"
        /\ UNCHANGED <<out, buffer>>
  /\ UNCHANGED <<host, input, taken, session, inflight, writable, inner, pulling, readable>>

------------------------------------------------------------------------------
(* WebStreamSanitizer: a TransformStream whose two sides are wrapped.  The *)
(* outer writable passes on one operation at a time; the transform waits   *)
(* for demand, which is a pull of the outer readable that found nothing.   *)

(* Text goes to the pull that waits for it, or is queued.                  *)
Enqueue(text) ==
  IF text = <<>> THEN UNCHANGED <<buffer, inner, pulling>>
  ELSE IF pulling THEN buffer' = Append(buffer, text) /\ pulling' = FALSE /\ UNCHANGED inner
  ELSE inner' = Append(inner, text) /\ UNCHANGED <<buffer, pulling>>

(* The transform has failed, or was aborted: both sides are in error.  A   *)
(* pull that waits learns of it at once, any other when it is made.        *)
Fails(s) ==
  /\ session' = s
  /\ writable' = "errored" /\ inflight' = Idle /\ inner' = <<>>
  /\ IF pulling THEN pulling' = FALSE /\ readable' = "errored" /\ result' = "failed"
     ELSE UNCHANGED <<pulling, readable, result>>
  /\ UNCHANGED buffer

WebWrite(chunk) ==
  /\ host = "web" /\ writable = "writable" /\ inflight = Idle
  /\ inflight' = Writing(chunk)
  /\ taken' = IF chunk = Junk THEN taken ELSE taken + Len(chunk)
  /\ UNCHANGED <<host, input, session, writable, inner, pulling, buffer, readable, out, result>>

(* transform: its text answers the pull.  An abort() that had to wait for  *)
(* it is carried out now.                                                  *)
WebTransform ==
  /\ host = "web" /\ inflight.op = "write" /\ pulling
  /\ \E o \in AppendChunk(session, inflight.chunk) :
       IF o.error # NoError THEN Fails(o.session)
       ELSE IF writable = "erroring"
         THEN IF o.text = <<>> THEN Fails(Aborted(o.session))
              ELSE /\ session' = Aborted(o.session)
                   /\ writable' = "errored" /\ inflight' = Idle
                   /\ Enqueue(o.text)
                   /\ UNCHANGED <<readable, result>>
         ELSE /\ session' = o.session /\ inflight' = Idle
              /\ Enqueue(o.text)
              /\ UNCHANGED <<writable, readable, result>>
  /\ UNCHANGED <<host, input, taken, out>>

WebClose ==
  /\ host = "web" /\ writable = "writable" /\ inflight = Idle /\ AtEnd
  /\ inflight' = Closing
  /\ UNCHANGED <<host, input, taken, session, writable, inner, pulling, buffer, readable, out,
                 result>>

(* Closing does not wait for demand.  An abort() in the meantime has       *)
(* nothing left to do.                                                     *)
WebFlush ==
  /\ host = "web" /\ inflight = Closing
  /\ \E o \in FinalizeAll(session) :
       IF o.error # NoError THEN Fails(o.session)
       ELSE /\ session' = o.session /\ inflight' = Idle /\ writable' = "closed"
            /\ Enqueue(o.text)
            /\ UNCHANGED <<readable, result>>
  /\ UNCHANGED <<host, input, taken, out>>

(* writer.abort(): it waits for an operation that has begun.               *)
WebAbort ==
  /\ host = "web" /\ writable = "writable"
  /\ IF inflight = Idle THEN Fails(Aborted(session))
     ELSE /\ writable' = "erroring"
          /\ UNCHANGED <<session, inflight, inner, pulling, buffer, readable, result>>
  /\ UNCHANGED <<host, input, taken, out>>

(* reader.cancel(): a write that waits for demand fails.  Mutant: only     *)
(* the stream is told.                                                     *)
CancelledOnly(s) == s

Cancelled(s) == Aborted(s)

WebCancel ==
  /\ host = "web" /\ readable = "readable" /\ Running
  /\ session' = Cancelled(session)
  /\ readable' = "closed" /\ result' = "failed"
  /\ buffer' = <<>> /\ inner' = <<>> /\ pulling' = FALSE
  /\ inflight' = Idle
  /\ writable' = IF writable = "closed" THEN "closed" ELSE "errored"
  /\ UNCHANGED <<host, input, taken, out>>

(* abort() of the sanitizer itself leaves the stream to fail later.        *)
WebStop ==
  /\ host = "web" /\ Running /\ Accepting(session)
  /\ session' = Aborted(session)
  /\ UNCHANGED <<host, input, taken, platform, out, result>>

(* The end of the wrapped readable, which result.done tells of.            *)
(* Mutant: it is not looked at.                                            *)
DoneNever == FALSE

Done == inner = <<>> /\ writable = "closed"

(* pull of the outer readable, which holds one piece at most.              *)
WebPull ==
  /\ host = "web" /\ readable = "readable" /\ buffer = <<>>
  /\ \/ /\ inner # <<>>
        /\ buffer' = <<Head(inner)>> /\ inner' = Tail(inner)
        /\ UNCHANGED <<pulling, readable, result>>
     \/ /\ inner = <<>> /\ writable = "errored"
        /\ readable' = "errored" /\ result' = "failed"
        /\ UNCHANGED <<buffer, inner, pulling>>
     \/ /\ Done
        /\ readable' = "closed" /\ pulling' = FALSE
        /\ UNCHANGED <<buffer, inner, result>>
     \/ /\ inner = <<>> /\ writable \in {"writable", "erroring"} /\ ~pulling
        /\ pulling' = TRUE
        /\ UNCHANGED <<buffer, inner, readable, result>>
  /\ UNCHANGED <<host, input, taken, session, inflight, writable, out>>

WebRead ==
  /\ host = "web" /\ Running
  /\ \/ /\ buffer # <<>>
        /\ out' = out \o Head(buffer) /\ buffer' = Tail(buffer)
        /\ UNCHANGED result
     \/ /\ buffer = <<>> /\ readable = "closed"
        /\ result' = "ok"
        /\ UNCHANGED <<out, buffer>>
  /\ UNCHANGED <<host, input, taken, session, inflight, writable, inner, pulling, readable>>

------------------------------------------------------------------------------
Init ==
  /\ host \in Hosts /\ input \in Inputs /\ taken = 0
  /\ session = [state |-> "accepting", fed |-> <<>>, released |-> 0,
                decoder |-> [seen |-> 0, carry |-> <<>>]]
  /\ inflight = Idle /\ writable = "writable" /\ inner = <<>> /\ pulling = FALSE
  /\ buffer = <<>> /\ readable = "readable"
  /\ out = <<>> /\ result = "none"

(* What a reader or writer does to go on, and what it may do to end early. *)
Round == CliEnd \/ \E chunk \in Chunks : CliRound(chunk)
Feed == NodeFlush \/ WebClose \/ \E chunk \in Chunks : NodeTransform(chunk) \/ WebWrite(chunk)
Consume == NodeRead \/ WebRead
Early == CliReadFails \/ NodeDestroy \/ WebAbort \/ WebCancel \/ WebStop \/ WebWrite(Junk)

Next == Round \/ Feed \/ Consume \/ Early \/ WebTransform \/ WebFlush \/ WebPull

(* The event loop runs what is ready; reads return, writers write or close. *)
MachineFairness ==
  /\ WF_vars(Round) /\ WF_vars(Feed)
  /\ WF_vars(WebTransform) /\ WF_vars(WebFlush) /\ WF_vars(WebPull)

(* A consumer that keeps reading.                                          *)
StreamFairness == MachineFairness /\ WF_vars(Consume)

Spec == Init /\ [][Next]_vars /\ StreamFairness

(* A consumer that may stop reading.                                       *)
StalledSpec == Init /\ [][Next]_vars /\ MachineFairness

------------------------------------------------------------------------------
(* Properties.                                                             *)
(* A stream whose source and consumer go on comes to its end: the queues   *)
(* never wait for each other.                                              *)
StreamEnds == <>(result # "none")

(* A writer's abort() reaches the session (web-stream-core.ts:17-20: it    *)
(* aborts "the session first, discarding the plaintext it was still        *)
(* deciding about").                                                       *)
AbortReachesTheSession == (writable = "erroring") ~> ~Accepting(session)
=============================================================================
