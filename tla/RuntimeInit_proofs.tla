--------------------------- MODULE RuntimeInit_proofs ---------------------------
(***************************************************************************)
(* Proofs about RuntimeInit: its safety properties hold for any number of  *)
(* calls, whatever they ask for, whatever artifacts there are and whichever *)
(* attempts fail.  Fairness is not used.                                   *)
(***************************************************************************)
EXTENDS RuntimeInit, TLAPS

Statuses == {"unmade", "shares", "waits", "resolved", "rejected"}
Conflicts == {"PII_ACTIVATION_CONFLICT", "DETECTION_CONFIG_CONFLICT"}
CallRecord == [status : Statuses, attempt : Nat, error : Errors]

Types ==
  /\ binding \in Artifacts \cup {None} /\ manifest \in Artifacts \cup {None}
  /\ activeKey \in {o.key : o \in Options} \cup {None}
  /\ attempts \in Seq(Attempt)
  /\ calls \in [Calls -> CallRecord]
  /\ options \in [Calls -> Options \cup {None}]
  /\ request \in [Calls -> Options \cup {None}]
  /\ owner \in [Artifacts -> {Fixed(o) : o \in Options} \cup {None}]
  /\ cleared \in [Calls -> SUBSET Nat]

(* The attempt in flight is the last one made.                             *)
OnlyLastPends ==
  /\ pending \in 0..Len(attempts)
  /\ \A n \in 1..Len(attempts) : n = pending <=> attempts[n].stage # "over"

(* What is known of an attempt at each of its stages.                      *)
StageKnows(n) ==
  /\ attempts[n].stage \in {"loading", "digest"} => binding = None /\ attempts[n].error = "none"
  /\ attempts[n].stage = "digest" => attempts[n].artifact \in Artifacts
  /\ attempts[n].stage \in {"settled", "over"} /\ attempts[n].error = "none" =>
       binding # None /\ owner[binding] = Fixed(attempts[n].request)
  /\ attempts[n].error \notin Conflicts

(* Only the artifact in use is fixed, to a request with the active key.    *)
OneOwner ==
  /\ \A a \in Artifacts : owner[a] # None => binding = a
  /\ binding # None => \E o \in Options : o.key = activeKey /\ owner[binding] = Fixed(o)

(* What is known of a call that waits, and of its history.                 *)
CallKnows(c) ==
  /\ Unsettled(c) => /\ calls[c].attempt > 0
                     /\ options[c] \in Options /\ request[c] \in Options
                     /\ calls[c].error = "none"
  /\ calls[c].status = "shares" => attempts[calls[c].attempt].request = request[c]
  /\ calls[c].attempt \in 0..Len(attempts)
  /\ calls[c].attempt \notin cleared[c]
  /\ \A n \in cleared[c] : n \in 1..Len(attempts) /\ attempts[n].stage = "over"

IInv ==
  /\ Types
  /\ OnlyLastPends
  /\ LoadsOnce
  /\ \A n \in 1..Len(attempts) : StageKnows(n)
  /\ OneOwner
  /\ \A c \in Calls : CallKnows(c)
  /\ ResolvedIsOwned
  /\ ConflictIsWithTheOwner
  /\ ManifestIsTheBindings

------------------------------------------------------------------------------
(* Requests with one key are one request.                                  *)
LEMMA KeysTellApart ==
  ASSUME NEW o \in Options, NEW p \in Options, o.key = p.key
  PROVE  o = p
  BY OptionsAssumption

(* An attempt is made for one of the requests.                             *)
LEMMA AttemptsAreTyped ==
  ASSUME IInv, NEW n \in 1..Len(attempts)
  PROVE  attempts[n] \in Attempt /\ attempts[n].request \in Options
<1>1. attempts \in Seq(Attempt)
  BY DEF IInv, Types
<1>2. attempts[n] \in Attempt
  BY <1>1
<1> QED
  BY <1>2 DEF Attempt

(* A request fixes an artifact to something.                               *)
LEMMA FixedIsSomething ==
  ASSUME NEW o \in Options
  PROVE  Fixed(o) # None
  BY OptionsAssumption

(* What the core answers is one of the documented codes.                   *)
LEMMA CoreErrorType ==
  ASSUME NEW a, NEW o
  PROVE  CoreError(a, o) \in Errors
  BY DEF CoreError, Errors

(* The core of the artifact in use accepts only what it is fixed to, and   *)
(* names the part that differs when it does not.                           *)
LEMMA FixedCoreAnswers ==
  ASSUME IInv, binding # None, NEW o \in Options
  PROVE  /\ CoreError(binding, o) = "none" => owner[binding] = Fixed(o)
         /\ CoreError(binding, o) = "PII_ACTIVATION_CONFLICT" =>
              owner[binding].selection # o.selection
         /\ CoreError(binding, o) = "DETECTION_CONFIG_CONFLICT" =>
              /\ owner[binding].selection = o.selection
              /\ owner[binding].detection # o.detection
<1>1. PICK p \in Options : p.key = activeKey /\ owner[binding] = Fixed(p)
  BY DEF IInv, OneOwner
<1>2. owner[binding] # None
  BY <1>1, FixedIsSomething
<1>3. CoreError(binding, o) = "none" => owner[binding] = Fixed(o)
  BY <1>1, <1>2 DEF CoreError, Fixed
<1>4. CoreError(binding, o) = "PII_ACTIVATION_CONFLICT" => owner[binding].selection # o.selection
  BY <1>2 DEF CoreError
<1>5. CoreError(binding, o) = "DETECTION_CONFIG_CONFLICT" =>
        owner[binding].selection = o.selection /\ owner[binding].detection # o.detection
  BY <1>2 DEF CoreError
<1> QED
  BY <1>3, <1>4, <1>5

(* While no artifact is in use no core is fixed, so none reports a         *)
(* conflict.                                                               *)
LEMMA FreshCoreAnswers ==
  ASSUME IInv, binding = None, NEW a \in Artifacts, NEW o \in Options
  PROVE  owner[a] = None /\ CoreError(a, o) \notin Conflicts
<1>1. owner[a] = None
  BY OptionsAssumption DEF IInv, OneOwner
<1> QED
  BY <1>1 DEF CoreError, Conflicts

------------------------------------------------------------------------------
(* Calls.                                                                  *)

(* A call with request o may stand at a.                                   *)
Stands(a, o) ==
  /\ a \in CallRecord
  /\ a.attempt \in 0..Len(attempts)
  /\ a.status \in {"shares", "waits"} => a.attempt > 0 /\ a.error = "none"
  /\ a.status = "shares" => attempts[a.attempt].request = o
  /\ a.status = "resolved" => binding # None /\ owner[binding] = Fixed(o)
  /\ a.error = "PII_ACTIVATION_CONFLICT" =>
       binding # None /\ owner[binding].selection # o.selection
  /\ a.error = "DETECTION_CONFIG_CONFLICT" =>
       /\ binding # None /\ owner[binding].selection = o.selection
       /\ owner[binding].detection # o.detection

(* Attempts made before a step are what they were.                         *)
AttemptsKept ==
  /\ attempts' \in Seq(Attempt)
  /\ Len(attempts) <= Len(attempts')
  /\ \A n \in 1..Len(attempts) : attempts'[n] = attempts[n]

(* One call moving on keeps what is known of all of them.                  *)
LEMMA CallMoves ==
  ASSUME IInv, AttemptsKept, binding' = binding, owner' = owner,
         NEW c \in Calls, NEW a, NEW o \in Options, Stands(a, o)',
         calls' = [calls EXCEPT ![c] = a],
         request' = [request EXCEPT ![c] = o],
         options'[c] \in Options, \A d \in Calls \ {c} : options'[d] = options[d],
         \A d \in Calls \ {c} : cleared'[d] = cleared[d],
         a.attempt \notin cleared'[c],
         \A n \in cleared'[c] : n \in 1..Len(attempts) /\ attempts[n].stage = "over"
  PROVE  /\ \A d \in Calls : CallKnows(d)'
         /\ ResolvedIsOwned' /\ ConflictIsWithTheOwner'
<1>1. /\ calls'[c] = a /\ request'[c] = o
      /\ \A d \in Calls \ {c} : calls'[d] = calls[d] /\ request'[d] = request[d]
  BY DEF IInv, Types
<1>2. Len(attempts) \in Nat /\ Len(attempts') \in Nat
  BY DEF IInv, Types, AttemptsKept
<1>3. CallKnows(c)'
  BY <1>1, <1>2 DEF CallKnows, Stands, Unsettled, AttemptsKept
<1>4. ASSUME NEW d \in Calls \ {c}
      PROVE  CallKnows(d)'
  <2>1. CallKnows(d)
    BY DEF IInv
  <2>2. calls'[d] = calls[d] /\ request'[d] = request[d] /\ options'[d] = options[d]
        /\ cleared'[d] = cleared[d]
    BY <1>1
  <2>3. calls[d].attempt \in 1..Len(attempts) =>
          attempts'[calls[d].attempt] = attempts[calls[d].attempt]
    BY DEF AttemptsKept
  <2>4. calls[d].status = "shares" => calls[d].attempt \in 1..Len(attempts)
    BY <2>1, <1>2 DEF CallKnows, Unsettled
  <2> QED
    BY <1>2, <2>1, <2>2, <2>3, <2>4 DEF CallKnows, Unsettled, AttemptsKept
<1>5. ResolvedIsOwned'
  BY <1>1 DEF ResolvedIsOwned, Stands, IInv
<1>6. ConflictIsWithTheOwner'
  BY <1>1 DEF ConflictIsWithTheOwner, Stands, IInv
<1> QED
  BY <1>3, <1>4, <1>5, <1>6

(* A binding answers a call at once, from what its core is fixed to.       *)
LEMMA AskCoreAnswers ==
  ASSUME IInv, binding # None, binding' = binding, NEW c \in Calls, NEW o \in Options,
         AskCore(c, o)
  PROVE  /\ UNCHANGED <<owner, pending, attempts>>
         /\ OneOwner'
         /\ activeKey' \in {p.key : p \in Options} \cup {None}
         /\ \E a : Stands(a, o)' /\ a.attempt = 0 /\ calls' = [calls EXCEPT ![c] = a]
<1> DEFINE error == CoreError(binding, o)
<1>0. PICK a : a = IF o.key = activeKey \/ error = "none" THEN Resolved ELSE RejectedBy(error, 0)
  OBVIOUS
<1>1. /\ UNCHANGED <<owner, pending, attempts>>
      /\ calls' = [calls EXCEPT ![c] = a]
      /\ activeKey' = IF o.key # activeKey /\ error = "none" THEN o.key ELSE activeKey
  BY <1>0 DEF AskCore
<1>2. PICK p \in Options : p.key = activeKey /\ owner[binding] = Fixed(p)
  BY DEF IInv, OneOwner
<1>3. error = "none" => owner[binding] = Fixed(o)
  BY FixedCoreAnswers
<1>4. OneOwner' /\ activeKey' \in {q.key : q \in Options} \cup {None}
  <2>1. \E q \in Options : q.key = activeKey' /\ owner[binding] = Fixed(q)
    BY <1>1, <1>2, <1>3
  <2> QED
    BY <1>1, <2>1 DEF OneOwner, IInv
<1>5. Stands(a, o)'
  <2>1. error \in Errors
    BY CoreErrorType
  <2>2. CASE o.key = activeKey \/ error = "none"
    <3>1. owner[binding] = Fixed(o)
      BY <1>2, <1>3, <2>2, KeysTellApart
    <3>2. a = Resolved
      BY <1>0, <2>2
    <3>3. a \in CallRecord /\ a.status = "resolved" /\ a.attempt = 0 /\ a.error = "none"
      BY <3>2 DEF Resolved, CallRecord, Statuses, Errors
    <3>4. Len(attempts') \in Nat
      BY <1>1 DEF IInv, Types
    <3> QED
      BY <1>1, <3>1, <3>3, <3>4 DEF Stands
  <2>3. CASE ~(o.key = activeKey \/ error = "none")
    <3>1. a = RejectedBy(error, 0)
      BY <1>0, <2>3
    <3>2. a \in CallRecord /\ a.status = "rejected" /\ a.attempt = 0 /\ a.error = error
      BY <3>1, <2>1 DEF RejectedBy, CallRecord, Statuses
    <3>3. Len(attempts') \in Nat
      BY <1>1 DEF IInv, Types
    <3> QED
      BY <1>1, <3>2, <3>3, FixedCoreAnswers DEF Stands
  <2> QED
    BY <2>2, <2>3
<1>6. a.attempt = 0
  BY <1>0 DEF Resolved, RejectedBy
<1> QED
  BY <1>1, <1>4, <1>5, <1>6

(* A call made while an attempt is in flight shares it or waits for it.    *)
LEMMA JoinAnswers ==
  ASSUME IInv, pending # 0, binding' = binding, NEW c \in Calls, NEW o \in Options,
         Join(c, o)
  PROVE  /\ UNCHANGED <<owner, activeKey, pending, attempts>>
         /\ \E a : Stands(a, o)' /\ a.attempt = pending /\ calls' = [calls EXCEPT ![c] = a]
<1> DEFINE same == attempts[pending].request.key = o.key
<1>0. PICK a : a = IF same THEN Shares(pending) ELSE WaitsFor(pending)
  OBVIOUS
<1>1. UNCHANGED <<owner, activeKey, pending, attempts>> /\ calls' = [calls EXCEPT ![c] = a]
  BY <1>0 DEF Join
<1>2. pending \in 1..Len(attempts) /\ pending \in Nat /\ Len(attempts) \in Nat
  BY DEF IInv, Types, OnlyLastPends
<1>3. attempts[pending].request \in Options
  BY <1>2, AttemptsAreTyped
<1>4. same => attempts[pending].request = o
  BY <1>3, KeysTellApart
<1>5. /\ a \in CallRecord /\ a.attempt = pending /\ a.error = "none"
      /\ a.status \in {"shares", "waits"} /\ (a.status = "shares" => same)
  BY <1>0, <1>2 DEF Shares, WaitsFor, CallRecord, Statuses, Errors
<1> HIDE DEF same
<1>6. Stands(a, o)'
  BY <1>1, <1>2, <1>4, <1>5 DEF Stands
<1> QED
  BY <1>1, <1>5, <1>6

(* A new attempt is the only one that is not over.                         *)
LEMMA StartAttemptAnswers ==
  ASSUME IInv, binding = None, pending = 0, binding' = binding,
         NEW c \in Calls, NEW o \in Options, StartAttempt(c, o)
  PROVE  /\ UNCHANGED <<owner, activeKey>>
         /\ AttemptsKept
         /\ OnlyLastPends' /\ LoadsOnce'
         /\ \A n \in 1..Len(attempts') : StageKnows(n)'
         /\ \E a : /\ Stands(a, o)' /\ a.attempt = Len(attempts) + 1
                   /\ calls' = [calls EXCEPT ![c] = a]
<1> DEFINE new == [request |-> o, artifact |-> None, stage |-> "loading", error |-> "none"]
<1>0. PICK last : last = Len(attempts) + 1
  OBVIOUS
<1>1. /\ attempts' = Append(attempts, new) /\ pending' = last
      /\ calls' = [calls EXCEPT ![c] = Shares(last)]
      /\ UNCHANGED <<owner, activeKey>>
  BY <1>0 DEF StartAttempt
<1>2. new \in Attempt
  BY DEF Attempt, Errors
<1>3. attempts \in Seq(Attempt) /\ Len(attempts) \in Nat
  BY DEF IInv, Types
<1> HIDE DEF new
<1>4. /\ attempts' \in Seq(Attempt) /\ Len(attempts') = last
      /\ attempts'[last] = new
      /\ \A n \in 1..Len(attempts) : attempts'[n] = attempts[n]
  BY <1>0, <1>1, <1>2, <1>3
<1>5. AttemptsKept
  BY <1>0, <1>3, <1>4 DEF AttemptsKept
<1>6. new.stage = "loading" /\ new.error = "none" /\ new.request = o
  BY DEF new
<1>7. \A n \in 1..Len(attempts) : attempts[n].stage = "over" /\ attempts[n].error # "none"
  <2>1. ASSUME NEW n \in 1..Len(attempts)
        PROVE  attempts[n].stage = "over"
    BY <1>3 DEF IInv, OnlyLastPends
  <2>2. ASSUME NEW n \in 1..Len(attempts)
        PROVE  attempts[n].error # "none"
    BY <2>1 DEF IInv, StageKnows
  <2> QED
    BY <2>1, <2>2
<1>8. OnlyLastPends'
  <2>1. pending' \in 0..Len(attempts')
    BY <1>0, <1>1, <1>3, <1>4
  <2>2. ASSUME NEW n \in 1..Len(attempts')
        PROVE  n = pending' <=> attempts'[n].stage # "over"
    <3>1. CASE n = last
      BY <1>1, <1>4, <1>6, <3>1
    <3>2. CASE n # last
      BY <1>0, <1>1, <1>3, <1>4, <1>7, <3>2
    <3> QED
      BY <3>1, <3>2
  <2> QED
    BY <2>1, <2>2 DEF OnlyLastPends
<1>9. LoadsOnce'
  BY <1>0, <1>3, <1>4, <1>7 DEF LoadsOnce
<1>10. ASSUME NEW n \in 1..Len(attempts')
       PROVE  StageKnows(n)'
  <2>1. CASE n = last
    BY <1>4, <1>6, <2>1 DEF StageKnows, Conflicts
  <2>2. CASE n # last
    <3>1. n \in 1..Len(attempts) /\ attempts'[n] = attempts[n]
      BY <1>0, <1>3, <1>4, <2>2
    <3> QED
      BY <1>1, <3>1 DEF StageKnows, IInv
  <2> QED
    BY <2>1, <2>2
<1>11. /\ Shares(last) \in CallRecord /\ Shares(last).status = "shares"
       /\ Shares(last).attempt = last /\ Shares(last).error = "none"
  BY <1>0, <1>3 DEF Shares, CallRecord, Statuses, Errors
<1>12. Stands(Shares(last), o)'
  BY <1>0, <1>3, <1>4, <1>6, <1>11 DEF Stands
<1> QED
  BY <1>0, <1>1, <1>5, <1>8, <1>9, <1>10, <1>11, <1>12

(* One run of initialize() keeps the invariant, in a new call and in one   *)
(* that starts again.                                                      *)
LEMMA InitializeKeepsIInv ==
  ASSUME IInv, NEW c \in Calls, NEW o \in Options, Initialize(c, o),
         request' = [request EXCEPT ![c] = o],
         options' = [options EXCEPT ![c] = o],
         UNCHANGED <<binding, manifest>>,
         cleared' \in [Calls -> SUBSET Nat],
         \A d \in Calls \ {c} : cleared'[d] = cleared[d],
         \A n \in cleared'[c] : n \in 1..Len(attempts) /\ attempts[n].stage = "over"
  PROVE  IInv'
<1>1. /\ options' \in [Calls -> Options \cup {None}] /\ options'[c] \in Options
      /\ request' \in [Calls -> Options \cup {None}]
      /\ \A d \in Calls \ {c} : options'[d] = options[d]
  BY DEF IInv, Types
<1>2. ManifestIsTheBindings'
  BY DEF IInv, ManifestIsTheBindings
<1>3. Len(attempts) \in Nat /\ 0 \notin cleared'[c]
  BY DEF IInv, Types
<1>4. SUFFICES /\ AttemptsKept /\ owner' = owner
               /\ activeKey' \in {p.key : p \in Options} \cup {None}
               /\ OnlyLastPends' /\ LoadsOnce' /\ OneOwner'
               /\ \A n \in 1..Len(attempts') : StageKnows(n)'
               /\ \E a : /\ Stands(a, o)' /\ a.attempt \notin cleared'[c]
                         /\ calls' = [calls EXCEPT ![c] = a]
  <2>1. PICK a : /\ Stands(a, o)' /\ a.attempt \notin cleared'[c]
                 /\ calls' = [calls EXCEPT ![c] = a]
    BY <1>4
  <2>2. (\A d \in Calls : CallKnows(d)') /\ ResolvedIsOwned' /\ ConflictIsWithTheOwner'
    BY <1>1, <1>4, <2>1, CallMoves
  <2>3. calls' \in [Calls -> CallRecord]
    BY <2>1 DEF IInv, Types, Stands
  <2>4. Types'
    BY <1>1, <1>4, <2>3 DEF IInv, Types, AttemptsKept
  <2> QED
    BY <1>2, <1>4, <2>2, <2>4 DEF IInv
<1>5. ASSUME attempts' = attempts, pending' = pending, owner' = owner
      PROVE  /\ AttemptsKept /\ OnlyLastPends' /\ LoadsOnce'
             /\ \A n \in 1..Len(attempts') : StageKnows(n)'
  BY <1>3, <1>5 DEF IInv, Types, AttemptsKept, OnlyLastPends, LoadsOnce, StageKnows
<1>6. CASE binding # None
  <2>1. AskCore(c, o)
    BY <1>6 DEF Initialize
  <2> QED
    BY <1>3, <1>5, <1>6, <2>1, AskCoreAnswers
<1>7. CASE binding = None /\ pending # 0
  <2>1. Join(c, o)
    BY <1>7 DEF Initialize
  <2>2. pending \notin cleared'[c]
    BY <1>7 DEF IInv, OnlyLastPends
  <2>3. UNCHANGED <<owner, activeKey, pending, attempts>>
    BY <1>7, <2>1, JoinAnswers
  <2>4. OneOwner' /\ activeKey' \in {p.key : p \in Options} \cup {None}
    BY <2>3 DEF IInv, Types, OneOwner
  <2> QED
    BY <1>5, <1>7, <2>1, <2>2, <2>3, <2>4, JoinAnswers
<1>8. CASE binding = None /\ pending = 0
  <2>1. StartAttempt(c, o)
    BY <1>8 DEF Initialize
  <2>2. Len(attempts) + 1 \notin cleared'[c]
    BY <1>3
  <2>3. UNCHANGED <<owner, activeKey>>
    BY <1>8, <2>1, StartAttemptAnswers
  <2>4. OneOwner' /\ activeKey' \in {p.key : p \in Options} \cup {None}
    BY <2>3 DEF IInv, Types, OneOwner
  <2> QED
    BY <1>8, <2>1, <2>2, <2>3, <2>4, StartAttemptAnswers
<1> QED
  BY <1>6, <1>7, <1>8

------------------------------------------------------------------------------
(* Attempts.                                                               *)

(* An attempt that is not over is the last one, and all before it failed.  *)
LEMMA OthersAreOver ==
  ASSUME IInv, NEW n \in 1..Len(attempts), attempts[n].stage # "over"
  PROVE  /\ n = Len(attempts) /\ n = pending
         /\ \A m \in 1..Len(attempts) \ {n} :
              m < n /\ attempts[m].stage = "over" /\ attempts[m].error # "none"
<1>1. Len(attempts) \in Nat
  BY DEF IInv, Types
<1>2. ASSUME NEW m \in 1..Len(attempts), n < m
      PROVE  FALSE
  BY <1>2 DEF IInv, LoadsOnce
<1>3. n = Len(attempts)
  BY <1>1, <1>2
<1>4. n = pending
  BY DEF IInv, OnlyLastPends
<1> QED
  BY <1>1, <1>3, <1>4 DEF IInv, LoadsOnce

(* The attempt in flight becomes r; what an artifact is fixed to changes,  *)
(* if at all, from nothing.                                                *)
LEMMA AttemptMoves ==
  ASSUME IInv, NEW n \in 1..Len(attempts), attempts[n].stage # "over",
         NEW r \in Attempt, r.request = attempts[n].request,
         attempts' = [attempts EXCEPT ![n] = r],
         pending' = IF r.stage = "over" THEN 0 ELSE pending,
         UNCHANGED <<calls, options, request, cleared>>,
         binding' \in Artifacts \cup {None}, manifest' \in Artifacts \cup {None},
         activeKey' \in {o.key : o \in Options} \cup {None},
         owner' \in [Artifacts -> {Fixed(o) : o \in Options} \cup {None}],
         binding = None \/ (binding' = binding /\ owner' = owner),
         OneOwner', ManifestIsTheBindings', StageKnows(n)'
  PROVE  IInv'
<1>1. /\ attempts \in Seq(Attempt) /\ Len(attempts) \in Nat
      /\ attempts' \in Seq(Attempt) /\ Len(attempts') = Len(attempts)
      /\ attempts'[n] = r /\ \A m \in 1..Len(attempts) \ {n} : attempts'[m] = attempts[m]
  BY DEF IInv, Types
<1>2. /\ n = Len(attempts) /\ n = pending
      /\ \A m \in 1..Len(attempts) \ {n} :
           m < n /\ attempts[m].stage = "over" /\ attempts[m].error # "none"
  BY OthersAreOver
<1>3. Types'
  BY <1>1 DEF IInv, Types
<1>4. OnlyLastPends'
  <2>1. ASSUME NEW m \in 1..Len(attempts')
        PROVE  m = pending' <=> attempts'[m].stage # "over"
    <3>1. CASE m = n
      BY <1>1, <1>2, <3>1
    <3>2. CASE m # n
      BY <1>1, <1>2, <3>2
    <3> QED
      BY <3>1, <3>2
  <2>2. pending' \in 0..Len(attempts')
    BY <1>1, <1>2
  <2> QED
    BY <2>1, <2>2 DEF OnlyLastPends
<1>5. LoadsOnce'
  BY <1>1, <1>2 DEF LoadsOnce
<1>6. ASSUME NEW m \in 1..Len(attempts')
      PROVE  StageKnows(m)'
  <2>1. CASE m = n
    BY <2>1
  <2>2. CASE m # n
    <3>1. attempts'[m].stage = "over" /\ attempts'[m].error # "none"
          /\ attempts'[m].error \notin Conflicts
      BY <1>1, <1>2, <2>2 DEF IInv, StageKnows
    <3> QED
      BY <3>1 DEF StageKnows
  <2> QED
    BY <2>1, <2>2
<1>7. ASSUME NEW c \in Calls
      PROVE  CallKnows(c)'
  <2>1. CallKnows(c) /\ UNCHANGED <<calls, options, request, cleared>>
    BY DEF IInv
  <2>2. \A m \in 1..Len(attempts) : attempts'[m].request = attempts[m].request
    BY <1>1
  <2>3. \A m \in 1..Len(attempts) : attempts[m].stage = "over" => attempts'[m].stage = "over"
    BY <1>1
  <2>4. calls[c].status = "shares" => calls[c].attempt \in 1..Len(attempts)
    BY <1>1, <2>1 DEF CallKnows, Unsettled
  <2> QED
    BY <1>1, <2>1, <2>2, <2>3, <2>4 DEF CallKnows, Unsettled
<1>8. ResolvedIsOwned' /\ ConflictIsWithTheOwner'
  BY DEF IInv, ResolvedIsOwned, ConflictIsWithTheOwner
<1> QED
  BY <1>3, <1>4, <1>5, <1>6, <1>7, <1>8 DEF IInv

(* A failure of the loader or of the digest fixes nothing.                 *)
LEMMA FailsKeepsIInv ==
  ASSUME IInv, NEW n \in 1..Len(attempts), attempts[n].stage # "over",
         Fails(n, "INITIALIZATION_FAILED"),
         UNCHANGED <<pending, calls, options, request, cleared>>
  PROVE  IInv'
<1> DEFINE r == [attempts[n] EXCEPT !.stage = "settled", !.error = "INITIALIZATION_FAILED",
                                    !.artifact = None]
<1>1. attempts \in Seq(Attempt) /\ attempts[n] \in Attempt
  BY DEF IInv, Types
<1>2. r \in Attempt /\ r.stage = "settled" /\ r.error = "INITIALIZATION_FAILED"
      /\ r.request = attempts[n].request
  BY <1>1 DEF Attempt, Errors
<1>3. attempts' = [attempts EXCEPT ![n] = r]
  BY <1>1 DEF Fails
<1>4. UNCHANGED <<binding, manifest, activeKey, owner>>
  BY DEF Fails
<1> HIDE DEF r
<1>5. attempts'[n] = r
  BY <1>1, <1>3
<1>6. StageKnows(n)'
  BY <1>2, <1>5 DEF StageKnows, Conflicts
<1>7. OneOwner' /\ ManifestIsTheBindings'
  BY <1>4 DEF IInv, OneOwner, ManifestIsTheBindings
<1> QED
  BY <1>2, <1>3, <1>4, <1>6, <1>7, AttemptMoves DEF IInv, Types

(* The core accepts the attempt's request, or refuses it for good.         *)
LEMMA ActivateKeepsIInv ==
  ASSUME IInv, NEW n \in 1..Len(attempts), attempts[n].stage \in {"loading", "digest"},
         NEW artifact \in Artifacts, Activate(n, artifact),
         manifest' \in Artifacts \cup {None},
         artifact \in Reports => manifest' = artifact,
         UNCHANGED <<pending, calls, options, request, cleared>>
  PROVE  IInv'
<1> DEFINE o == attempts[n].request
           error == CoreError(artifact, o)
           r == [attempts[n] EXCEPT !.stage = "settled", !.error = error, !.artifact = None]
<1>1. attempts \in Seq(Attempt) /\ attempts[n] \in Attempt /\ o \in Options
  BY AttemptsAreTyped DEF IInv, Types
<1>2. binding = None
  BY DEF IInv, StageKnows
<1>3. \A a \in Artifacts : owner[a] = None
  BY <1>1, <1>2, FreshCoreAnswers
<1>4. error \in Errors /\ error \notin Conflicts
  BY <1>1, <1>2, FreshCoreAnswers, CoreErrorType
<1>5. /\ attempts' = [attempts EXCEPT ![n] = r]
      /\ binding' = IF error = "none" THEN artifact ELSE binding
      /\ activeKey' = IF error = "none" THEN o.key ELSE activeKey
      /\ owner' = IF error = "none" THEN [owner EXCEPT ![artifact] = Fixed(o)] ELSE owner
  BY <1>1, <1>3 DEF Activate, CoreInitialize
<1> HIDE DEF error
<1>6. r \in Attempt /\ r.stage = "settled" /\ r.error = error /\ r.request = o
  BY <1>1, <1>4 DEF Attempt
<1> HIDE DEF r
<1>7. attempts'[n] = r
  BY <1>1, <1>5
<1>8. owner \in [Artifacts -> {Fixed(p) : p \in Options} \cup {None}]
  BY DEF IInv, Types
<1>9. StageKnows(n)'
  <2>1. error = "none" => binding' # None /\ owner'[binding'] = Fixed(o)
    BY <1>5, <1>8, OptionsAssumption
  <2> QED
    BY <1>4, <1>6, <1>7, <2>1 DEF StageKnows
<1>10. OneOwner'
  <2>1. CASE error = "none"
    <3>1. owner'[artifact] = Fixed(o) /\ \A a \in Artifacts \ {artifact} : owner'[a] = None
      BY <1>3, <1>5, <1>8, <2>1
    <3>2. binding' = artifact /\ activeKey' = o.key
      BY <1>5, <2>1
    <3> QED
      BY <1>1, <3>1, <3>2 DEF OneOwner
  <2>2. CASE error # "none"
    BY <1>5, <2>2 DEF IInv, OneOwner
  <2> QED
    BY <2>1, <2>2
<1>11. ManifestIsTheBindings'
  BY <1>2, <1>5, OptionsAssumption DEF ManifestIsTheBindings
<1>12. /\ owner' \in [Artifacts -> {Fixed(p) : p \in Options} \cup {None}]
       /\ binding' \in Artifacts \cup {None}
       /\ activeKey' \in {p.key : p \in Options} \cup {None}
  BY <1>1, <1>2, <1>5, <1>8 DEF IInv, Types
<1> QED
  BY <1>2, <1>5, <1>6, <1>9, <1>10, <1>11, <1>12, AttemptMoves

(* The loader's answer keeps the invariant.                                *)
LEMMA LoaderAnswersKeepsIInv ==
  ASSUME IInv, NEW n \in 1..Len(attempts), LoaderAnswers(n)
  PROVE  IInv'
<1>1. attempts[n].stage = "loading" /\ UNCHANGED <<pending, calls, options, request, cleared>>
  BY DEF LoaderAnswers
<1>2. Loads[attempts[n].request.pii] \subseteq Artifacts
  <2>1. attempts[n].request.pii \in BOOLEAN
    BY AttemptsAreTyped, OptionsAssumption
  <2> QED
    BY <2>1, OptionsAssumption
<1>3. CASE Fails(n, "INITIALIZATION_FAILED")
  BY <1>1, <1>3, FailsKeepsIInv
<1>4. ASSUME NEW artifact \in Loads[attempts[n].request.pii] \cap Reports,
             attempts' = [attempts EXCEPT ![n].stage = "digest", ![n].artifact = artifact],
             UNCHANGED <<binding, manifest, activeKey, owner>>
      PROVE  IInv'
  <2> DEFINE r == [attempts[n] EXCEPT !.stage = "digest", !.artifact = artifact]
  <2>1. attempts \in Seq(Attempt) /\ attempts[n] \in Attempt /\ artifact \in Artifacts
    BY <1>2, AttemptsAreTyped DEF IInv, Types
  <2>2. r \in Attempt /\ r.stage = "digest" /\ r.error = attempts[n].error
        /\ r.request = attempts[n].request /\ r.artifact = artifact
    BY <2>1 DEF Attempt
  <2>3. attempts' = [attempts EXCEPT ![n] = r]
    BY <1>4, <2>1
  <2> HIDE DEF r
  <2>4. attempts'[n] = r
    BY <2>1, <2>3
  <2>5. binding = None /\ attempts[n].error = "none"
    BY <1>1 DEF IInv, StageKnows
  <2>6. StageKnows(n)'
    BY <1>4, <2>1, <2>2, <2>4, <2>5 DEF StageKnows, Conflicts
  <2>7. OneOwner' /\ ManifestIsTheBindings'
    BY <1>4 DEF IInv, OneOwner, ManifestIsTheBindings
  <2> QED
    BY <1>1, <1>4, <2>2, <2>3, <2>6, <2>7, AttemptMoves DEF IInv, Types
<1>5. ASSUME NEW artifact \in Loads[attempts[n].request.pii] \ Reports,
             Activate(n, artifact), UNCHANGED manifest
      PROVE  IInv'
  BY <1>1, <1>2, <1>5, ActivateKeepsIInv DEF IInv, Types
<1> QED
  BY <1>3, <1>4, <1>5 DEF LoaderAnswers

(* So does the digest.                                                     *)
LEMMA DigestCheckedKeepsIInv ==
  ASSUME IInv, NEW n \in 1..Len(attempts), DigestChecked(n)
  PROVE  IInv'
<1>1. attempts[n].stage = "digest" /\ UNCHANGED <<pending, calls, options, request, cleared>>
  BY DEF DigestChecked
<1>2. attempts[n].artifact \in Artifacts
  BY <1>1 DEF IInv, StageKnows
<1>3. CASE Fails(n, "INITIALIZATION_FAILED")
  BY <1>1, <1>3, FailsKeepsIInv
<1>4. CASE manifest' = attempts[n].artifact /\ Activate(n, attempts[n].artifact)
  BY <1>1, <1>2, <1>4, ActivateKeepsIInv
<1> QED
  BY <1>3, <1>4 DEF DigestChecked

(* Forgetting an attempt keeps the invariant.                              *)
LEMMA SettleKeepsIInv ==
  ASSUME IInv, NEW n \in 1..Len(attempts), Settle(n)
  PROVE  IInv'
<1> DEFINE r == [attempts[n] EXCEPT !.stage = "over"]
<1>1. /\ attempts[n].stage = "settled" /\ pending' = 0
      /\ attempts' = [attempts EXCEPT ![n].stage = "over"]
      /\ UNCHANGED <<binding, manifest, activeKey, calls, options, request, owner, cleared>>
  BY DEF Settle
<1>2. attempts \in Seq(Attempt) /\ attempts[n] \in Attempt
  BY AttemptsAreTyped DEF IInv, Types
<1>3. r \in Attempt /\ r.stage = "over" /\ r.error = attempts[n].error
      /\ r.request = attempts[n].request
  BY <1>2 DEF Attempt
<1>4. attempts' = [attempts EXCEPT ![n] = r]
  BY <1>1, <1>2
<1> HIDE DEF r
<1>5. attempts'[n] = r
  BY <1>2, <1>4
<1>6. StageKnows(n)'
  BY <1>1, <1>3, <1>5 DEF IInv, StageKnows
<1>7. OneOwner' /\ ManifestIsTheBindings'
  BY <1>1 DEF IInv, OneOwner, ManifestIsTheBindings
<1> QED
  BY <1>1, <1>3, <1>4, <1>6, <1>7, AttemptMoves DEF IInv, Types

------------------------------------------------------------------------------
(* The steps of a call.                                                    *)

(* A new call keeps the invariant.                                         *)
LEMMA CallKeepsIInv ==
  ASSUME IInv, NEW c \in Calls, NEW o \in Options, Call(c, o)
  PROVE  IInv'
<1> DEFINE over == {n \in 1..Len(attempts) : attempts[n].stage = "over"}
<1>1. /\ Initialize(c, o)
      /\ options' = [options EXCEPT ![c] = o] /\ request' = [request EXCEPT ![c] = o]
      /\ cleared' = [cleared EXCEPT ![c] = over]
      /\ UNCHANGED <<binding, manifest>>
  BY DEF Call
<1>2. over \in SUBSET Nat /\ \A n \in over : n \in 1..Len(attempts) /\ attempts[n].stage = "over"
  BY DEF IInv, Types
<1> HIDE DEF over
<1>3. /\ cleared' \in [Calls -> SUBSET Nat] /\ cleared'[c] = over
      /\ \A d \in Calls \ {c} : cleared'[d] = cleared[d]
  BY <1>1, <1>2 DEF IInv, Types
<1> QED
  BY <1>1, <1>2, <1>3, InitializeKeepsIInv

(* A caller changing its options object keeps the invariant.               *)
LEMMA RewriteKeepsIInv ==
  ASSUME IInv, NEW c \in Calls, Rewrite(c)
  PROVE  IInv'
<1>1. PICK o \in Options : options' = [options EXCEPT ![c] = o]
  BY DEF Rewrite
<1>2. UNCHANGED <<binding, manifest, activeKey, pending, attempts, calls, request, owner, cleared>>
  BY DEF Rewrite
<1>3. Types'
  BY <1>1, <1>2 DEF IInv, Types
<1>4. OnlyLastPends' /\ LoadsOnce' /\ OneOwner' /\ ManifestIsTheBindings'
      /\ ResolvedIsOwned' /\ ConflictIsWithTheOwner'
  BY <1>2 DEF IInv, OnlyLastPends, LoadsOnce, OneOwner, ManifestIsTheBindings,
              ResolvedIsOwned, ConflictIsWithTheOwner
<1>5. \A n \in 1..Len(attempts') : StageKnows(n)'
  BY <1>2 DEF IInv, StageKnows
<1>6. ASSUME NEW d \in Calls
      PROVE  CallKnows(d)'
  <2>1. CallKnows(d) /\ (options'[d] = options[d] \/ options'[d] \in Options)
    BY <1>1 DEF IInv, Types
  <2> QED
    BY <1>2, <2>1 DEF CallKnows, Unsettled
<1> QED
  BY <1>3, <1>4, <1>5, <1>6 DEF IInv

(* A call going on after the attempt it depends on keeps the invariant.    *)
LEMMA ContinueKeepsIInv ==
  ASSUME IInv, NEW c \in Calls, Continue(c)
  PROVE  IInv'
<1> DEFINE n == calls[c].attempt
           again == attempts[n].error = "none" /\ calls[c].status = "waits"
<1>1. /\ Unsettled(c) /\ attempts[n].stage = "over"
      /\ UNCHANGED <<binding, manifest, options, cleared>>
  BY DEF Continue
<1>2. CallKnows(c)
  BY DEF IInv
<1>3. /\ n \in 1..Len(attempts) /\ options[c] \in Options /\ request[c] \in Options
      /\ \A m \in cleared[c] : m \in 1..Len(attempts) /\ attempts[m].stage = "over"
  BY <1>1, <1>2 DEF CallKnows, IInv, Types
<1>4. CASE again
  <2>1. Initialize(c, options[c]) /\ request' = [request EXCEPT ![c] = options[c]]
    BY <1>4 DEF Continue
  <2>2. options' = [options EXCEPT ![c] = options[c]] /\ cleared' \in [Calls -> SUBSET Nat]
    BY <1>1 DEF IInv, Types
  <2>3. \A d \in Calls \ {c} : cleared'[d] = cleared[d]
    BY <1>1
  <2>4. \A m \in cleared'[c] : m \in 1..Len(attempts) /\ attempts[m].stage = "over"
    BY <1>1, <1>3
  <2>5. PICK o \in Options : o = options[c]
    BY <1>3
  <2> QED
    BY <1>1, <2>1, <2>2, <2>3, <2>4, <2>5, InitializeKeepsIInv
<1>5. CASE ~again
  <2>1. PICK a : a = IF attempts[n].error = "none" THEN Resolved
                     ELSE RejectedBy(attempts[n].error, n)
    OBVIOUS
  <2>2. /\ calls' = [calls EXCEPT ![c] = a]
        /\ UNCHANGED <<owner, activeKey, pending, attempts, request>>
    BY <1>5, <2>1 DEF Continue
  <2>3. PICK o \in Options : o = request[c]
    BY <1>3
  <2>4. attempts \in Seq(Attempt) /\ attempts[n] \in Attempt /\ n \in Nat /\ Len(attempts) \in Nat
    BY <1>3, AttemptsAreTyped DEF IInv, Types
  <2>5. attempts[n].error \in Errors
    BY <2>4 DEF Attempt
  <2>6. StageKnows(n)
    BY <1>3 DEF IInv
  <2>7. Stands(a, o)' /\ a.attempt \notin cleared'[c]
    <3>1. CASE attempts[n].error = "none"
      <4>1. calls[c].status = "shares"
        BY <1>1, <1>5, <3>1 DEF Unsettled
      <4>2. binding # None /\ owner[binding] = Fixed(o)
        BY <1>1, <1>2, <2>3, <2>6, <3>1, <4>1 DEF StageKnows, CallKnows
      <4>3. /\ a \in CallRecord /\ a.status = "resolved" /\ a.attempt = 0 /\ a.error = "none"
        BY <2>1, <3>1 DEF Resolved, CallRecord, Statuses, Errors
      <4>4. 0 \notin cleared'[c]
        BY <1>1, <1>3, <2>4
      <4> QED
        BY <1>1, <2>2, <2>4, <4>2, <4>3, <4>4 DEF Stands
    <3>2. CASE attempts[n].error # "none"
      <4>1. /\ a \in CallRecord /\ a.status = "rejected" /\ a.attempt = n
            /\ a.error = attempts[n].error
        BY <2>1, <2>4, <2>5, <3>2 DEF RejectedBy, CallRecord, Statuses
      <4>2. a.error \notin Conflicts
        BY <2>6, <4>1 DEF StageKnows
      <4>3. a.attempt \in 0..Len(attempts') /\ a.attempt \notin cleared'[c]
        BY <1>1, <1>2, <1>3, <2>2, <4>1 DEF CallKnows
      <4> QED
        BY <4>1, <4>2, <4>3 DEF Stands, Conflicts
    <3> QED
      BY <3>1, <3>2
  <2>8. /\ request' = [request EXCEPT ![c] = o] /\ AttemptsKept
        /\ options'[c] \in Options
        /\ \A d \in Calls \ {c} : options'[d] = options[d] /\ cleared'[d] = cleared[d]
        /\ \A m \in cleared'[c] : m \in 1..Len(attempts) /\ attempts[m].stage = "over"
    BY <1>1, <1>3, <2>2, <2>3, <2>4 DEF IInv, Types, AttemptsKept
  <2>9. (\A d \in Calls : CallKnows(d)') /\ ResolvedIsOwned' /\ ConflictIsWithTheOwner'
    BY <1>1, <2>2, <2>7, <2>8, CallMoves
  <2>10. Types'
    BY <1>1, <2>2, <2>7 DEF IInv, Types, Stands
  <2>11. OnlyLastPends' /\ LoadsOnce' /\ OneOwner' /\ ManifestIsTheBindings'
    BY <1>1, <2>2 DEF IInv, OnlyLastPends, LoadsOnce, OneOwner, ManifestIsTheBindings
  <2>12. \A m \in 1..Len(attempts') : StageKnows(m)'
    BY <1>1, <2>2 DEF IInv, StageKnows
  <2> QED
    BY <2>9, <2>10, <2>11, <2>12 DEF IInv
<1> QED
  BY <1>4, <1>5

------------------------------------------------------------------------------
(* Nothing has been asked for yet.                                         *)
LEMMA InitEstablishesIInv ==
  Init => IInv
<1> SUFFICES ASSUME Init
             PROVE  IInv
  OBVIOUS
<1>1. /\ attempts = <<>> /\ pending = 0 /\ binding = None
      /\ \A c \in Calls : calls[c] = Unmade /\ cleared[c] = {}
      /\ \A a \in Artifacts : owner[a] = None
  BY DEF Init
<1>2. Types
  BY DEF Init, Types, Unmade, CallRecord, Statuses, Errors
<1>3. OnlyLastPends /\ LoadsOnce /\ \A n \in 1..Len(attempts) : StageKnows(n)
  BY <1>1 DEF OnlyLastPends, LoadsOnce
<1>4. \A c \in Calls : CallKnows(c)
  BY <1>1 DEF CallKnows, Unsettled, Unmade
<1>5. ResolvedIsOwned /\ ConflictIsWithTheOwner
  BY <1>1 DEF ResolvedIsOwned, ConflictIsWithTheOwner, Unmade
<1>6. ManifestIsTheBindings
  <2>1. None \notin Reports
    BY OptionsAssumption
  <2> QED
    BY <1>1, <2>1 DEF ManifestIsTheBindings
<1>7. OneOwner
  BY <1>1 DEF OneOwner
<1> QED
  BY <1>2, <1>3, <1>4, <1>5, <1>6, <1>7 DEF IInv

(* Every step keeps the invariant.                                         *)
LEMMA NextKeepsIInv ==
  IInv /\ [Next]_vars => IInv'
<1> SUFFICES ASSUME IInv, [Next]_vars
             PROVE  IInv'
  OBVIOUS
<1>1. ASSUME NEW c \in Calls, NEW o \in Options, Call(c, o)
      PROVE  IInv'
  BY <1>1, CallKeepsIInv
<1>2. ASSUME NEW c \in Calls, Rewrite(c)
      PROVE  IInv'
  BY <1>2, RewriteKeepsIInv
<1>3. ASSUME NEW c \in Calls, Continue(c)
      PROVE  IInv'
  BY <1>3, ContinueKeepsIInv
<1>4. ASSUME NEW n \in 1..Len(attempts), AttemptStep(n)
      PROVE  IInv'
  BY <1>4, LoaderAnswersKeepsIInv, DigestCheckedKeepsIInv, SettleKeepsIInv DEF AttemptStep
<1>5. CASE UNCHANGED vars
  <2>1. Types' /\ OnlyLastPends' /\ LoadsOnce' /\ OneOwner' /\ ManifestIsTheBindings'
        /\ ResolvedIsOwned' /\ ConflictIsWithTheOwner'
    BY <1>5 DEF vars, IInv, Types, OnlyLastPends, LoadsOnce, OneOwner,
                ManifestIsTheBindings, ResolvedIsOwned, ConflictIsWithTheOwner
  <2>2. \A n \in 1..Len(attempts') : StageKnows(n)'
    BY <1>5 DEF vars, IInv, StageKnows
  <2>3. \A c \in Calls : CallKnows(c)'
    BY <1>5 DEF vars, IInv, CallKnows, Unsettled
  <2> QED
    BY <2>1, <2>2, <2>3 DEF IInv
<1> QED
  BY <1>1, <1>2, <1>3, <1>4, <1>5 DEF Next

(* However calls and attempts interleave, what is known of each call and   *)
(* attempt stays true: the inductive invariant behind the theorems below.  *)
THEOREM InductiveInvariant == Spec => []IInv
<1> QED
  BY InitEstablishesIInv, NextKeepsIInv, PTL DEF Spec

(* Every variable has its type, and the attempt in flight is the last one  *)
(* made (the finally callback of initialize()).                            *)
THEOREM TypeCorrect == Spec => []TypeOK
<1>1. IInv => TypeOK
  <2> SUFFICES ASSUME IInv
               PROVE  TypeOK
    OBVIOUS
  <2>1. ASSUME NEW c \in Calls
        PROVE  /\ calls[c].attempt \in 0..Len(attempts) /\ calls[c].error \in Errors
               /\ Unsettled(c) => calls[c].attempt > 0
               /\ {options[c], request[c]} \subseteq Options \cup {None}
    BY DEF IInv, Types, CallKnows, CallRecord
  <2>2. \A a \in Artifacts : owner[a] # None => owner[a] \in {Fixed(o) : o \in Options}
    BY DEF IInv, Types
  <2>3. /\ binding \in Artifacts \cup {None} /\ manifest \in Artifacts \cup {None}
        /\ activeKey \in {o.key : o \in Options} \cup {None} /\ attempts \in Seq(Attempt)
    BY DEF IInv, Types
  <2> QED
    BY <2>1, <2>2, <2>3 DEF IInv, OnlyLastPends, TypeOK
<1> QED
  BY <1>1, InductiveInvariant, PTL

(* Awaited any number of times from any number of call sites, initialize() *)
(* loads at most once.                                                     *)
THEOREM InitializeLoadsOnce == Spec => []LoadsOnce
<1>1. IInv => LoadsOnce
  BY DEF IInv
<1> QED
  BY <1>1, InductiveInvariant, PTL

(* A call that resolves finds the runtime fixed to what it asked for.      *)
THEOREM ResolvedCallsAreServed == Spec => []ResolvedIsOwned
<1>1. IInv => ResolvedIsOwned
  BY DEF IInv
<1> QED
  BY <1>1, InductiveInvariant, PTL

(* A conflict is reported only with what the runtime is fixed to.          *)
THEOREM ConflictsAreReal == Spec => []ConflictIsWithTheOwner
<1>1. IInv => ConflictIsWithTheOwner
  BY DEF IInv
<1> QED
  BY <1>1, InductiveInvariant, PTL

(* No call is rejected with the outcome of an attempt that was over before *)
(* it was made: a failed attempt is not cached.                            *)
THEOREM FailuresAreNotCached == Spec => []RejectionIsFresh
<1>1. IInv => RejectionIsFresh
  BY DEF IInv, CallKnows, RejectionIsFresh
<1> QED
  BY <1>1, InductiveInvariant, PTL

(* artifactManifest() answers with the manifest of the artifact in use, if *)
(* that artifact reported one.                                             *)
THEOREM ManifestMatches == Spec => []ManifestIsTheBindings
<1>1. IInv => ManifestIsTheBindings
  BY DEF IInv
<1> QED
  BY <1>1, InductiveInvariant, PTL

(* Activation is one-shot: no later call or attempt replaces the artifact  *)
(* in use or changes what its core is fixed to.  An attempt still under    *)
(* way means that no artifact is in use; the core itself accepts nothing   *)
(* after its first request.                                                *)
LEMMA ActivateIsOneShot ==
  ASSUME IInv, NEW n \in 1..Len(attempts), NEW a \in Artifacts,
         attempts[n].stage \in {"loading", "digest"}, Activate(n, a)
  PROVE  /\ binding = None
         /\ \A b \in Artifacts : owner[b] # None => owner'[b] = owner[b]
<1>1. binding = None
  BY DEF IInv, StageKnows
<1>2. owner' = owner \/ (owner[a] = None /\ owner' = [owner EXCEPT ![a] = Fixed(attempts[n].request)])
  BY DEF Activate, CoreInitialize
<1>3. owner \in [Artifacts -> {Fixed(o) : o \in Options} \cup {None}]
  BY DEF IInv, Types
<1> QED
  BY <1>1, <1>2, <1>3

THEOREM ActivationIsForGood == Spec => ActivationIsOneShot
<1> DEFINE OneShot == /\ binding # None => binding' = binding
                      /\ \A a \in Artifacts : owner[a] # None => owner'[a] = owner[a]
                      /\ \A a \in Artifacts : owner'[a] # None => binding' = a
<1>1. ASSUME IInv, [Next]_vars
      PROVE  /\ binding # None => binding' = binding
             /\ \A a \in Artifacts : owner[a] # None => owner'[a] = owner[a]
  <2>1. ASSUME NEW c \in Calls, NEW o \in Options
        PROVE  Initialize(c, o) => owner' = owner
    BY DEF Initialize, AskCore, Join, StartAttempt
  <2>2. ASSUME NEW c \in Calls, NEW o \in Options, Call(c, o)
        PROVE  binding' = binding /\ owner' = owner
    BY <2>1, <2>2 DEF Call
  <2>3. ASSUME NEW c \in Calls, Rewrite(c) \/ Continue(c)
        PROVE  binding' = binding /\ owner' = owner
    BY <2>3 DEF Rewrite, Continue, Initialize, AskCore, Join, StartAttempt
  <2>4. ASSUME NEW n \in 1..Len(attempts), AttemptStep(n)
        PROVE  \/ binding' = binding /\ owner' = owner
               \/ \E a \in Artifacts :
                    attempts[n].stage \in {"loading", "digest"} /\ Activate(n, a)
    <3>1. CASE LoaderAnswers(n)
      <4>1. attempts[n].request \in Options
        BY <1>1, AttemptsAreTyped
      <4>2. Loads[attempts[n].request.pii] \subseteq Artifacts
        BY <4>1, OptionsAssumption
      <4> QED
        BY <3>1, <4>2 DEF LoaderAnswers, Fails
    <3>2. CASE DigestChecked(n)
      <4>1. attempts[n].stage = "digest" /\ attempts[n].artifact \in Artifacts
        BY <1>1, <3>2 DEF DigestChecked, IInv, StageKnows
      <4> QED
        BY <3>2, <4>1 DEF DigestChecked, Fails
    <3>3. CASE Settle(n)
      BY <3>3 DEF Settle
    <3> QED
      BY <2>4, <3>1, <3>2, <3>3 DEF AttemptStep
  <2>5. CASE UNCHANGED vars
    BY <2>5 DEF vars
  <2> QED
    BY <1>1, <2>2, <2>3, <2>4, <2>5, ActivateIsOneShot DEF Next
<1>2. IInv' => \A a \in Artifacts : owner'[a] # None => binding' = a
  BY DEF IInv, OneOwner
<1>3. IInv /\ IInv' /\ [Next]_vars => [OneShot]_vars
  BY <1>1, <1>2
<1> QED
  BY <1>3, InductiveInvariant, PTL DEF Spec, ActivationIsOneShot
=================================================================================
