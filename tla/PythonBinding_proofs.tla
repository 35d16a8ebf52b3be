------------------------- MODULE PythonBinding_proofs -------------------------
(***************************************************************************)
(* Proofs about the parts of the Python binding.  The safety properties of *)
(* PythonRegistry hold for any number of threads and calls, any selections *)
(* and rulesets, and whatever the callbacks of a call ask for; fairness is *)
(* not used.  The offsets of OffsetIndex are exact for any text, chunking, *)
(* buffer limit and longest run.                                           *)
(***************************************************************************)
EXTENDS PythonRegistry, OffsetIndex, FiniteSetTheorems, SequenceTheorems,
        WellFoundedInduction, TLAPS

InRegistry == {"begun", "lookup", "build", "compose", "detect", "callback"}

(* The lock is held from the store of the selection to the bump of the     *)
(* epoch; outside it the epoch tells whether a selection is in force.      *)
EpochFollows ==
  /\ \A c \in Made : calls[c].at = "bump" <=> mutex = c
  /\ mutex # 0 => selection # None /\ epoch = 0
  /\ mutex = 0 => (selection = None <=> epoch = 0)
  /\ seen => epoch = 1

(* What the tag of a registry says: with the second epoch's it was built   *)
(* for the selection in force, and before that epoch it was built for none.*)
Knows(r) ==
  /\ r.epoch <= epoch
  /\ r.epoch = 1 => r.selection = selection
  /\ epoch = 0 => r.selection = Off

CacheKnows ==
  \A t \in Threads, s \in Slots : cache[t][s] # None => Knows(cache[t][s])

(* What is known of a call at each of its stages.                          *)
StageKnows(c) ==
  /\ calls[c].at = "lock" => calls[c].asked \in Selections
  /\ calls[c].at \in InRegistry => /\ calls[c].op \in {"scan", "compare"}
                                   /\ calls[c].asked \in Rulesets \cup {BuiltIn}
  /\ calls[c].at \in {"compose", "detect", "callback"} =>
       calls[c].uses \in Registries /\ Knows(calls[c].uses)
  /\ calls[c].epoch <= epoch
  /\ calls[c].borrows => calls[c].at = "detect" /\ calls[c].op = "scan"

(* What a call runs under, and what it had to see.                         *)
UseKnows(c) ==
  /\ calls[c].uses # None \/ calls[c].at \in {"compose", "detect", "callback"} =>
       /\ calls[c].uses.ruleset = calls[c].asked
       /\ calls[c].mustSee => calls[c].uses.selection = selection
  /\ calls[c].mustSee =>
       /\ epoch = 1
       /\ calls[c].at \in {"lookup", "build", "compose"} => calls[c].epoch = 1

(* The running calls of a thread nest: each but the last is in a callback, *)
(* in which the next one was made.                                         *)
Nested ==
  \A c, d \in Made :
    c < d /\ Running(c) /\ Running(d) /\ calls[c].thread = calls[d].thread =>
      /\ calls[c].at = "callback"
      /\ \E e \in Made : /\ c < e /\ e <= d /\ Running(e)
                         /\ calls[e].parent = c /\ calls[e].thread = calls[c].thread

IInv ==
  /\ TypeOK
  /\ EpochFollows
  /\ CacheKnows
  /\ \A c \in Made : StageKnows(c) /\ UseKnows(c)
  /\ Nested

------------------------------------------------------------------------------
(* What holds of every state of the inductive invariant.                   *)
LEMMA InvariantImplies ==
  IInv => CacheIsCurrent /\ ServedAsConfigured /\ NeverBorrowedTwice
<1> SUFFICES ASSUME IInv PROVE CacheIsCurrent /\ ServedAsConfigured /\ NeverBorrowedTwice
  OBVIOUS
<1> USE DEF IInv
<1>1. CacheIsCurrent
  <2> SUFFICES ASSUME mutex = 0, NEW t \in Threads, NEW s \in Slots,
                      cache[t][s] # None, cache[t][s].epoch = epoch
               PROVE  cache[t][s].selection = Active
    BY DEF CacheIsCurrent
  <2> QED BY DEF CacheKnows, Knows, EpochFollows, TypeOK, Active
<1>2. ServedAsConfigured BY DEF ServedAsConfigured, UseKnows
<1>3. NeverBorrowedTwice
  <2> SUFFICES ASSUME NEW c \in Made, NEW d \in Made, c # d,
                      calls[c].thread = calls[d].thread,
                      calls[c].at \in {"lookup", "build", "compose"}, calls[d].borrows
               PROVE  FALSE
    BY DEF NeverBorrowedTwice
  <2>1. calls[d].at = "detect" BY DEF StageKnows
  <2>2. c < d \/ d < c BY DEF Made, TypeOK
  <2> QED BY <2>1, <2>2 DEF Nested, Running
<1> QED BY <1>1, <1>2, <1>3

LEMMA Initially == Init => IInv
<1> SUFFICES ASSUME Init PROVE IInv OBVIOUS
<1> USE PythonAssumption DEF Init, Made
<1>1. TypeOK
  <2>1. \A c \in 1..0 : FALSE OBVIOUS
  <2>2. calls \in [Made -> CallType] BY <2>1
  <2>3. cache \in [Threads -> [Slots -> Registries \cup {None}]] OBVIOUS
  <2>4. selection \in Selections \cup {None} /\ epoch \in 0..1 /\ made \in 0..MaxCalls
    OBVIOUS
  <2>5. mutex \in 0..made /\ gil \in 0..made OBVIOUS
  <2>6. seen \in BOOLEAN BY Zenon
  <2> HIDE PythonAssumption DEF Init, Made
  <2> QED BY <2>2, <2>3, <2>4, <2>5, <2>6 DEF TypeOK
<1>2. EpochFollows BY DEF EpochFollows
<1>3. CacheKnows BY DEF CacheKnows
<1>4. (\A c \in Made : StageKnows(c) /\ UseKnows(c)) /\ Nested BY DEF Nested
<1> QED BY <1>1, <1>2, <1>3, <1>4 DEF IInv
------------------------------------------------------------------------------
(* A call begins: what the operations that make one have in common.        *)
Joins(n, t, p) ==
  /\ made' = n /\ n \in 1..MaxCalls
  /\ calls' \in [Made' -> CallType]
  /\ \A c \in Made : calls'[c] = calls[c]
  /\ calls'[n].thread = t /\ calls'[n].parent = p /\ calls'[n].at # "bump"

LEMMA BeginJoins ==
  ASSUME TypeOK, NEW call, call \in CallType, call.at # "bump", made < MaxCalls, Begin(call),
         NEW n, n = made + 1
  PROVE  Joins(n, call.thread, call.parent) /\ calls'[n] = call
<1> USE DEF Begin, Made, TypeOK
<1>1. calls'[n] = call BY PythonAssumption
<1>2. \A c \in Made : calls'[c] = calls[c] BY PythonAssumption
<1>3. calls' \in [Made' -> CallType]
  <2>1. \A c \in 1..(made + 1) : c # made + 1 => c \in 1..made BY PythonAssumption
  <2>2. \A c \in 1..(made + 1) : calls'[c] \in CallType BY <2>1
  <2> QED BY <2>2
<1> QED BY <1>1, <1>2, <1>3, PythonAssumption DEF Joins

LEMMA NestedJoins ==
  ASSUME TypeOK, Nested, NEW t, NEW p \in 0..made, MayBegin(t, p), NEW n, n = made + 1,
         Joins(n, t, p)
  PROVE  Nested'
<1>1. Made' = Made \cup {n} /\ n \notin Made /\ made \in Nat /\ n \in Nat
  BY PythonAssumption DEF Made, TypeOK, Joins
<1>2. p # 0 => p \in Made BY <1>1 DEF Made
<1> SUFFICES ASSUME NEW c \in Made', NEW d \in Made', c < d, Running(c)', Running(d)',
                    (calls[c].thread = calls[d].thread)'
             PROVE  /\ calls'[c].at = "callback"
                    /\ \E e \in Made' : /\ c < e /\ e <= d /\ Running(e)' /\ calls'[e].parent = c
                                        /\ calls'[e].thread = calls'[c].thread
  BY DEF Nested
<1>3. c \in Made /\ calls'[c] = calls[c] BY <1>1 DEF Made, Joins
<1>4. CASE d \in Made
  <2>1. calls'[d] = calls[d] BY <1>4 DEF Joins
  <2>2. PICK e \in Made : /\ c < e /\ e <= d /\ Running(e) /\ calls[e].parent = c
                          /\ calls[e].thread = calls[c].thread
    BY <1>3, <1>4, <2>1 DEF Nested, Running
  <2>3. calls'[e] = calls[e] BY DEF Joins
  <2> QED BY <1>1, <1>3, <1>4, <2>1, <2>2, <2>3 DEF Nested, Running
<1>5. CASE d = n
  <2>1. calls[c].thread = t /\ Running(c) BY <1>3, <1>5 DEF Joins, Running
  <2>2. p # 0 /\ calls[p].at = "callback" /\ calls[p].thread = t /\ OnTop(p)
    BY <1>3, <2>1 DEF MayBegin
  <2>3. Running(p) BY <2>2 DEF Running
  <2>4. c <= p
    <3> SUFFICES ASSUME p < c PROVE FALSE BY <1>1, <1>2, <1>3, <2>2 DEF Made
    <3>1. \E e \in Made : Running(e) /\ calls[e].parent = p
      BY <1>2, <1>3, <2>1, <2>2, <2>3 DEF Nested
    <3> QED BY <2>2, <3>1 DEF OnTop
  <2>5. CASE c = p
    BY <1>1, <1>3, <1>5, <2>2, <2>5 DEF Joins
  <2>6. CASE c < p
    <3>1. calls[c].at = "callback" BY <1>2, <1>3, <2>1, <2>2, <2>3, <2>6 DEF Nested
    <3>2. PICK e \in Made : /\ c < e /\ e <= p /\ Running(e) /\ calls[e].parent = c
                            /\ calls[e].thread = calls[c].thread
      BY <1>2, <1>3, <2>1, <2>2, <2>3, <2>6 DEF Nested
    <3>3. calls'[e] = calls[e] BY DEF Joins
    <3>4. e <= d BY <1>1, <1>2, <1>5, <2>2, <3>2 DEF Made
    <3> QED BY <1>1, <1>3, <3>1, <3>2, <3>3, <3>4 DEF Running
  <2> QED BY <1>1, <1>2, <1>3, <2>2, <2>4, <2>5, <2>6 DEF Made
<1> QED BY <1>1, <1>4, <1>5

(* A call that begins with what a new call knows preserves the invariant.  *)
LEMMA JoinPreserves ==
  ASSUME IInv, NEW t \in Threads, NEW p \in 0..made, MayBegin(t, p), NEW n, n = made + 1,
         Joins(n, t, p), UNCHANGED <<selection, epoch, mutex, cache>>,
         gil' \in 0..n, seen' \in BOOLEAN, seen' => epoch = 1,
         StageKnows(n)', UseKnows(n)'
  PROVE  IInv'
<1> USE DEF IInv
<1>1. Made' = Made \cup {n} /\ n \notin Made /\ made \in Nat /\ n \in Nat
  BY PythonAssumption DEF Made, TypeOK, Joins
<1>2. TypeOK'
  <2>1. made' \in 0..MaxCalls /\ mutex' \in 0..made' /\ gil' \in 0..made'
    BY <1>1 DEF Joins, TypeOK
  <2> QED BY <2>1 DEF Joins, TypeOK
<1>3. EpochFollows'
  <2>1. \A c \in Made' : (calls[c].at = "bump" <=> mutex = c)'
    <3> SUFFICES ASSUME NEW c \in Made' PROVE calls'[c].at = "bump" <=> mutex' = c OBVIOUS
    <3>1. CASE c \in Made BY <3>1 DEF EpochFollows, Joins
    <3>2. CASE c = n BY <1>1, <3>2 DEF TypeOK, Joins, Made
    <3> QED BY <1>1, <3>1, <3>2
  <2> QED BY <2>1 DEF EpochFollows
<1>4. CacheKnows' BY DEF CacheKnows, Knows
<1>5. ASSUME NEW c \in Made' PROVE (StageKnows(c) /\ UseKnows(c))'
  <2>1. CASE c \in Made
    <3>1. calls'[c] = calls[c] BY <2>1 DEF Joins
    <3> QED BY <2>1, <3>1 DEF StageKnows, UseKnows, Knows
  <2> QED BY <1>1, <2>1
<1>6. Nested' BY NestedJoins
<1> QED BY <1>2, <1>3, <1>4, <1>5, <1>6
------------------------------------------------------------------------------
(* A call takes a step: no other call changes, and it keeps what it was    *)
(* asked.  A call whose callbacks run waits for the calls they make.       *)
Moves(c) ==
  /\ made' = made
  /\ \A d \in Made \ {c} : calls'[d] = calls[d]
  /\ calls'[c].thread = calls[c].thread /\ calls'[c].parent = calls[c].parent
  /\ calls'[c].op = calls[c].op /\ calls'[c].asked = calls[c].asked
  /\ calls'[c].mustSee = calls[c].mustSee
  /\ Running(c) /\ (calls[c].at = "callback" => OnTop(c))

LEMMA NestedMoves ==
  ASSUME TypeOK, Nested, NEW m \in Made, Moves(m)
  PROVE  Nested'
<1>1. Made' = Made /\ \A c \in Made : c \in Nat BY DEF Moves, Made, TypeOK
<1>2. \A c \in Made : Running(c)' => Running(c) BY DEF Moves, Running
<1>3. \A c \in Made : (calls[c].thread)' = calls[c].thread /\ (calls[c].parent)' = calls[c].parent
  BY DEF Moves
<1>4. ASSUME NEW d \in Made, m < d, Running(d), calls[m].thread = calls[d].thread
      PROVE  FALSE
  BY <1>4 DEF Nested, Moves, OnTop
<1> SUFFICES ASSUME NEW c \in Made, NEW d \in Made, c < d, Running(c)', Running(d)',
                    (calls[c].thread = calls[d].thread)'
             PROVE  /\ calls'[c].at = "callback"
                    /\ \E e \in Made : /\ c < e /\ e <= d /\ Running(e)' /\ calls'[e].parent = c
                                       /\ calls'[e].thread = calls'[c].thread
  BY <1>1 DEF Nested
<1>5. Running(c) /\ Running(d) /\ calls[c].thread = calls[d].thread BY <1>2, <1>3
<1>6. calls[c].at = "callback" BY <1>5 DEF Nested
<1>7. PICK e \in Made : /\ c < e /\ e <= d /\ Running(e) /\ calls[e].parent = c
                        /\ calls[e].thread = calls[c].thread
  BY <1>5 DEF Nested
<1>8. c # m BY <1>4, <1>5
<1>9. calls'[c] = calls[c] BY <1>8 DEF Moves
<1>10. Running(e)'
  <2>1. CASE e = d BY <2>1
  <2>2. CASE e # m BY <1>7, <2>2 DEF Moves, Running
  <2>3. CASE e = m /\ e # d
    <3>1. m < d BY <1>1, <1>7, <2>3
    <3> QED BY <1>4, <1>5, <1>7, <2>3, <3>1
  <2> QED BY <2>1, <2>2, <2>3
<1> QED BY <1>3, <1>6, <1>7, <1>9, <1>10

(* A step that leaves the selection and its epoch alone, and that keeps    *)
(* what is known of the call it is of, preserves the invariant.            *)
LEMMA MovePreserves ==
  ASSUME IInv, NEW c \in Made, Moves(c), UNCHANGED <<selection, epoch, mutex>>,
         calls' \in [Made -> CallType], calls[c].at # "bump", calls'[c].at # "bump",
         gil' \in 0..made, seen' \in BOOLEAN, seen' => epoch = 1,
         cache' \in [Threads -> [Slots -> Registries \cup {None}]], CacheKnows',
         StageKnows(c)', UseKnows(c)'
  PROVE  IInv'
<1> USE DEF IInv
<1>1. Made' = Made BY DEF Moves, Made
<1>2. TypeOK' BY <1>1 DEF TypeOK, Moves
<1>3. EpochFollows'
  <2>1. \A d \in Made : calls'[d].at = "bump" <=> calls[d].at = "bump" BY DEF Moves
  <2> QED BY <1>1, <2>1 DEF EpochFollows
<1>4. ASSUME NEW d \in Made PROVE (StageKnows(d) /\ UseKnows(d))'
  <2>1. CASE d = c BY <2>1
  <2>2. CASE d # c
    <3>1. calls'[d] = calls[d] BY <2>2 DEF Moves
    <3> QED BY <3>1 DEF StageKnows, UseKnows, Knows
  <2> QED BY <2>1, <2>2
<1>5. Nested' BY NestedMoves
<1> QED BY <1>1, <1>2, <1>3, <1>4, <1>5

(* An update of a call that keeps what it was asked.                       *)
LEMMA EditMoves ==
  ASSUME TypeOK, NEW c \in Made, NEW call, call \in CallType, calls' = [calls EXCEPT ![c] = call],
         call.thread = calls[c].thread, call.parent = calls[c].parent, call.op = calls[c].op,
         call.asked = calls[c].asked, call.mustSee = calls[c].mustSee,
         made' = made, Running(c), calls[c].at = "callback" => OnTop(c)
  PROVE  Moves(c) /\ calls' \in [Made -> CallType] /\ calls'[c] = call
BY DEF TypeOK, Moves

------------------------------------------------------------------------------
(* The operations that make a call.                                        *)
LEMMA RequestTypes ==
  ASSUME NEW n \in 1..MaxCalls, NEW request \in Requests[n]
  PROVE  /\ request[1] = "initialize" => request[2] \in Selections
         /\ request[1] \in {"scan", "compare"} => request[2] \in Rulesets \cup {BuiltIn}
         /\ request[1] \in {"initialize", "scan", "compare", "status", "session"}
         /\ request[2] \in Selections \cup Rulesets \cup {BuiltIn}
<1>1. request \in ({"initialize"} \X Selections)
                  \cup ({"scan", "compare"} \X (Rulesets \cup {BuiltIn}))
                  \cup ({"status", "session"} \X {BuiltIn})
  BY PythonAssumption
<1> QED BY <1>1

LEMMA NewCallType ==
  ASSUME TypeOK, NEW t \in Threads, NEW p \in 0..made, NEW n \in 1..MaxCalls,
         NEW request \in Requests[n]
  PROVE  NewCall(t, p, request) \in CallType
<1>1. p \in Nat BY DEF TypeOK
<1>2. request[2] \in Selections \cup Rulesets \cup {BuiltIn} BY RequestTypes
<1>3. request[1] \in {"initialize", "scan", "compare", "status", "session"} BY RequestTypes
<1> QED BY <1>1, <1>2, <1>3 DEF NewCall, CallType, Ats, TypeOK

LEMMA InitializeBegins ==
  ASSUME IInv, NEW t \in Threads, NEW p \in 0..made, MayBegin(t, p),
         NEW request \in Requests[made + 1], Initialize(t, p, request)
  PROVE  IInv'
<1> DEFINE new == [NewCall(t, p, request) EXCEPT !.at = "lock"]
<1>1. PICK n \in 1..MaxCalls : n = made + 1 BY PythonAssumption DEF IInv, TypeOK, MayBegin
<1>2. NewCall(t, p, request) \in CallType BY <1>1, NewCallType DEF IInv
<1>3. new \in CallType BY <1>2 DEF CallType, Ats
<1>4. new.thread = t /\ new.parent = p /\ new.at = "lock" BY DEF NewCall
<1>5. Joins(n, t, p) /\ calls'[n] = new
  <2> HIDE DEF new
  <2>1. Begin(new) BY DEF Initialize, new
  <2> QED BY <1>1, <1>3, <1>4, <2>1, BeginJoins DEF IInv, MayBegin
<1>6. StageKnows(n)' /\ UseKnows(n)'
  <2>1. request[2] \in Selections /\ request[1] = "initialize"
    BY <1>1, RequestTypes DEF Initialize
  <2>2. new.asked = request[2] /\ new.epoch = 0 /\ new.uses = None /\ new.borrows = FALSE
        /\ new.mustSee = seen
    BY DEF NewCall
  <2>3. epoch' = epoch /\ 0 <= epoch /\ (seen => epoch = 1)
    BY DEF Initialize, IInv, TypeOK, EpochFollows
  <2> HIDE DEF new
  <2> QED BY <1>4, <1>5, <2>1, <2>2, <2>3 DEF StageKnows, UseKnows, InRegistry
<1>7. gil' \in 0..n /\ seen' \in BOOLEAN /\ (seen' => epoch = 1)
  <2>1. seen' \in BOOLEAN /\ (seen' => epoch = 1) BY Zenon DEF Initialize, IInv, TypeOK, EpochFollows
  <2> QED BY <1>1, <2>1 DEF Initialize
<1> HIDE DEF new
<1> QED BY <1>1, <1>5, <1>6, <1>7, JoinPreserves DEF Initialize

LEMMA ScanBegins ==
  ASSUME IInv, NEW t \in Threads, NEW p \in 0..made, MayBegin(t, p),
         NEW request \in Requests[made + 1], Scan(t, p, request)
  PROVE  IInv'
<1> DEFINE new == NewCall(t, p, request)
<1>1. PICK n \in 1..MaxCalls : n = made + 1 BY PythonAssumption DEF IInv, TypeOK, MayBegin
<1>2. NewCall(t, p, request) \in CallType BY <1>1, NewCallType DEF IInv
<1>3. new \in CallType BY <1>2
<1>4. new.thread = t /\ new.parent = p /\ new.at = "begun" BY DEF NewCall
<1>5. Joins(n, t, p) /\ calls'[n] = new
  <2> HIDE DEF new
  <2>1. Begin(new) BY DEF Scan, new
  <2> QED BY <1>1, <1>3, <1>4, <2>1, BeginJoins DEF IInv, MayBegin
<1>6. StageKnows(n)' /\ UseKnows(n)'
  <2>1. request[2] \in Rulesets \cup {BuiltIn} /\ request[1] = "scan"
    BY <1>1, RequestTypes DEF Scan
  <2>2. new.op = request[1] /\ new.asked = request[2] /\ new.epoch = 0 /\ new.uses = None
        /\ new.borrows = FALSE /\ new.mustSee = seen
    BY DEF NewCall
  <2>3. epoch' = epoch /\ 0 <= epoch /\ (seen => epoch = 1)
    BY DEF Scan, IInv, TypeOK, EpochFollows
  <2> HIDE DEF new
  <2> QED BY <1>4, <1>5, <2>1, <2>2, <2>3 DEF StageKnows, UseKnows, InRegistry
<1>7. gil' \in 0..n /\ seen' \in BOOLEAN /\ (seen' => epoch = 1)
  <2>1. seen' \in BOOLEAN /\ (seen' => epoch = 1) BY Zenon DEF Scan, IInv, TypeOK, EpochFollows
  <2> QED BY <1>1, <2>1 DEF Scan, IInv, TypeOK
<1> HIDE DEF new
<1> QED BY <1>1, <1>5, <1>6, <1>7, JoinPreserves DEF Scan

LEMMA CompareBegins ==
  ASSUME IInv, NEW t \in Threads, NEW p \in 0..made, MayBegin(t, p),
         NEW request \in Requests[made + 1], Compare(t, p, request)
  PROVE  IInv'
<1> DEFINE new == NewCall(t, p, request)
<1>1. PICK n \in 1..MaxCalls : n = made + 1 BY PythonAssumption DEF IInv, TypeOK, MayBegin
<1>2. NewCall(t, p, request) \in CallType BY <1>1, NewCallType DEF IInv
<1>3. new \in CallType BY <1>2
<1>4. new.thread = t /\ new.parent = p /\ new.at = "begun" BY DEF NewCall
<1>5. Joins(n, t, p) /\ calls'[n] = new
  <2> HIDE DEF new
  <2>1. Begin(new) BY DEF Compare, new
  <2> QED BY <1>1, <1>3, <1>4, <2>1, BeginJoins DEF IInv, MayBegin
<1>6. StageKnows(n)' /\ UseKnows(n)'
  <2>1. request[2] \in Rulesets \cup {BuiltIn} /\ request[1] = "compare"
    BY <1>1, RequestTypes DEF Compare
  <2>2. new.op = request[1] /\ new.asked = request[2] /\ new.epoch = 0 /\ new.uses = None
        /\ new.borrows = FALSE /\ new.mustSee = seen
    BY DEF NewCall
  <2>3. epoch' = epoch /\ 0 <= epoch /\ (seen => epoch = 1)
    BY DEF Compare, IInv, TypeOK, EpochFollows
  <2> HIDE DEF new
  <2> QED BY <1>4, <1>5, <2>1, <2>2, <2>3 DEF StageKnows, UseKnows, InRegistry
<1>7. gil' \in 0..n /\ seen' \in BOOLEAN /\ (seen' => epoch = 1)
  <2>1. seen' \in BOOLEAN /\ (seen' => epoch = 1) BY Zenon DEF Compare, IInv, TypeOK, EpochFollows
  <2> QED BY <1>1, <2>1 DEF Compare
<1> HIDE DEF new
<1> QED BY <1>1, <1>5, <1>6, <1>7, JoinPreserves DEF Compare

LEMMA StatusBegins ==
  ASSUME IInv, NEW t \in Threads, NEW p \in 0..made, MayBegin(t, p),
         NEW request \in Requests[made + 1], Status(t, p, request)
  PROVE  IInv'
<1> DEFINE new == [NewCall(t, p, request) EXCEPT !.at = "over"]
<1>1. PICK n \in 1..MaxCalls : n = made + 1 BY PythonAssumption DEF IInv, TypeOK, MayBegin
<1>2. NewCall(t, p, request) \in CallType BY <1>1, NewCallType DEF IInv
<1>3. new \in CallType BY <1>2 DEF CallType, Ats
<1>4. new.thread = t /\ new.parent = p /\ new.at = "over" BY DEF NewCall
<1>5. Joins(n, t, p) /\ calls'[n] = new
  <2> HIDE DEF new
  <2>1. Begin(new) BY DEF Status, new
  <2> QED BY <1>1, <1>3, <1>4, <2>1, BeginJoins DEF IInv, MayBegin
<1>6. StageKnows(n)' /\ UseKnows(n)'
  <2>1. new.epoch = 0 /\ new.uses = None /\ new.borrows = FALSE /\ new.mustSee = seen
    BY DEF NewCall
  <2>2. epoch' = epoch /\ 0 <= epoch /\ (seen => epoch = 1)
    BY DEF Status, IInv, TypeOK, EpochFollows
  <2> HIDE DEF new
  <2> QED BY <1>4, <1>5, <2>1, <2>2 DEF StageKnows, UseKnows, InRegistry
<1>7. seen' \in BOOLEAN BY Zenon DEF Status
<1>8. seen' => epoch = 1
  <2>1. selection # None => epoch = 1 BY DEF Status, IInv, EpochFollows, TypeOK
  <2> QED BY <2>1 DEF Status, IInv, EpochFollows
<1>9. gil' \in 0..n BY <1>1 DEF Status, IInv, TypeOK
<1> HIDE DEF new
<1> QED BY <1>1, <1>5, <1>6, <1>7, <1>8, <1>9, JoinPreserves DEF Status

LEMMA SessionBegins ==
  ASSUME IInv, NEW t \in Threads, NEW p \in 0..made, MayBegin(t, p),
         NEW request \in Requests[made + 1], Session(t, p, request)
  PROVE  IInv'
<1> DEFINE built == Registry(epoch, BuiltIn, Active)
           new == [NewCall(t, p, request) EXCEPT !.at = "over", !.uses = built]
<1>1. PICK n \in 1..MaxCalls : n = made + 1 BY PythonAssumption DEF IInv, TypeOK, MayBegin
<1>2. NewCall(t, p, request) \in CallType BY <1>1, NewCallType DEF IInv
<1>3. selection # None <=> epoch = 1 BY DEF Session, IInv, EpochFollows, TypeOK
<1>4. built \in Registries
  <2>1. Active \in Selections BY PythonAssumption DEF Active, IInv, TypeOK
  <2>2. epoch \in Nat BY DEF IInv, TypeOK
  <2> QED BY <2>1, <2>2 DEF Registries, Registry
<1>5. new \in CallType
  <2> HIDE DEF built
  <2> QED BY <1>2, <1>4 DEF CallType, Ats
<1>6. new.thread = t /\ new.parent = p /\ new.at = "over" BY DEF NewCall
<1>7. Joins(n, t, p) /\ calls'[n] = new
  <2> HIDE DEF new
  <2>1. Begin(new) BY DEF Session, new
  <2> QED BY <1>1, <1>5, <1>6, <2>1, BeginJoins DEF IInv, MayBegin
<1>8. StageKnows(n)' /\ UseKnows(n)'
  <2>1. /\ new.asked = request[2] /\ new.epoch = 0 /\ new.uses = built /\ new.borrows = FALSE
        /\ new.mustSee = seen
    BY DEF NewCall
  <2>2. /\ epoch' = epoch /\ 0 <= epoch /\ (seen => epoch = 1)
        /\ selection' = selection
    BY DEF Session, IInv, TypeOK, EpochFollows
  <2>3. request[2] = BuiltIn
    <3>1. request \in ({"initialize"} \X Selections)
                      \cup ({"scan", "compare"} \X (Rulesets \cup {BuiltIn}))
                      \cup ({"status", "session"} \X {BuiltIn})
      BY <1>1, PythonAssumption
    <3> QED BY <3>1 DEF Session
  <2>4. built.ruleset = BuiltIn /\ (epoch = 1 => built.selection = selection)
    BY <1>3 DEF Registry, Active
  <2> HIDE DEF new, built
  <2> QED BY <1>6, <1>7, <2>1, <2>2, <2>3, <2>4 DEF StageKnows, UseKnows, InRegistry
<1>9. seen' \in BOOLEAN BY Zenon DEF Session
<1>10. seen' => epoch = 1 BY <1>3 DEF Session, IInv, EpochFollows, Active
<1>11. gil' \in 0..n BY <1>1 DEF Session, IInv, TypeOK
<1> HIDE DEF new
<1> QED BY <1>1, <1>7, <1>8, <1>9, <1>10, <1>11, JoinPreserves DEF Session

------------------------------------------------------------------------------
(* The selection is fixed: before it every registry was built for none.    *)
LEMMA SelectionStores ==
  ASSUME IInv, NEW c \in Made, LockSelection(c), selection = None
  PROVE  IInv'
<1> USE DEF IInv
<1> DEFINE call == [calls[c] EXCEPT !.at = "bump"]
<1>1. calls[c] \in CallType /\ c # 0 /\ c \in 1..made /\ made \in Nat
  BY PythonAssumption DEF TypeOK, Made
<1>2. calls[c].at = "lock" /\ mutex = 0 /\ mutex' = c /\ selection' = calls[c].asked
      /\ epoch' = epoch /\ cache' = cache /\ made' = made /\ seen' = seen /\ gil' = gil
  BY DEF LockSelection
<1>3. call \in CallType BY <1>1 DEF CallType, Ats
<1>4. Moves(c) /\ calls' \in [Made -> CallType] /\ calls'[c] = call
  <2>1. calls' = [calls EXCEPT ![c] = call] BY DEF LockSelection
  <2>2. call.thread = calls[c].thread /\ call.parent = calls[c].parent
        /\ call.op = calls[c].op /\ call.asked = calls[c].asked
        /\ call.mustSee = calls[c].mustSee
    BY <1>1 DEF CallType
  <2> HIDE DEF call
  <2> QED BY <1>2, <1>3, <2>1, <2>2, EditMoves DEF Running
<1>5. epoch = 0 BY <1>2 DEF EpochFollows
<1>6. calls[c].asked \in Selections BY <1>2 DEF StageKnows
<1>7. selection' # None /\ selection' \in Selections BY <1>2, <1>6, PythonAssumption
<1>8. Made' = Made BY <1>2 DEF Made
<1>9. call.at = "bump" /\ call.uses = calls[c].uses /\ call.epoch = calls[c].epoch
      /\ call.borrows = calls[c].borrows /\ call.asked = calls[c].asked
      /\ call.mustSee = calls[c].mustSee
  BY <1>1 DEF CallType
<1> HIDE DEF call
<1>10. TypeOK'
  <2>1. made' \in 0..MaxCalls /\ mutex' \in 0..made' /\ gil' \in 0..made' /\ epoch' \in 0..1
    BY <1>1, <1>2 DEF TypeOK
  <2>2. seen' \in BOOLEAN BY <1>2 DEF TypeOK
  <2> QED BY <1>2, <1>4, <1>7, <1>8, <2>1, <2>2 DEF TypeOK
<1>11. EpochFollows'
  <2>1. \A d \in Made : calls'[d].at = "bump" <=> mutex' = d
    <3> SUFFICES ASSUME NEW d \in Made PROVE calls'[d].at = "bump" <=> mutex' = d OBVIOUS
    <3>1. CASE d = c BY <1>2, <1>4, <1>9, <3>1
    <3>2. CASE d # c
      <4>1. d # 0 BY DEF Made, TypeOK
      <4> QED BY <1>2, <1>4, <3>2, <4>1 DEF Moves, EpochFollows
    <3> QED BY <3>1, <3>2
  <2> QED BY <1>1, <1>2, <1>5, <1>7, <1>8, <2>1 DEF EpochFollows
<1>12. CacheKnows' BY <1>2, <1>5 DEF CacheKnows, Knows
<1>13. ASSUME NEW d \in Made PROVE (StageKnows(d) /\ UseKnows(d))'
  <2>1. calls[d].mustSee = FALSE
    BY <1>5 DEF UseKnows, TypeOK, CallType
  <2>2. CASE d = c
    <3>1. calls[c].borrows = FALSE BY <1>2, <1>1 DEF StageKnows, CallType
    <3> QED BY <1>2, <1>4, <1>5, <1>9, <2>1, <2>2, <3>1 DEF StageKnows, UseKnows, InRegistry
  <2>3. CASE d # c
    <3>1. calls'[d] = calls[d] BY <2>3, <1>4 DEF Moves
    <3> QED BY <1>2, <1>5, <2>1, <3>1 DEF StageKnows, UseKnows, Knows
  <2> QED BY <2>2, <2>3
<1>14. Nested' BY <1>4, NestedMoves
<1> QED BY <1>8, <1>10, <1>11, <1>12, <1>13, <1>14

(* The epoch is bumped: what was built before it is no longer current.     *)
LEMMA EpochBumps ==
  ASSUME IInv, NEW c \in Made, BumpEpoch(c)
  PROVE  IInv'
<1> USE DEF IInv
<1> DEFINE call == [calls[c] EXCEPT !.at = "over"]
<1>1. calls[c] \in CallType /\ c # 0 /\ c \in 1..made /\ made \in Nat
  BY PythonAssumption DEF TypeOK, Made
<1>2. calls[c].at = "bump" /\ mutex = c /\ mutex' = 0 /\ selection' = selection
      /\ cache' = cache /\ made' = made /\ gil' = 0 /\ seen' = TRUE
  BY DEF BumpEpoch, EpochFollows
<1>3. epoch = 0 /\ epoch' = 1 /\ selection # None BY <1>1, <1>2 DEF BumpEpoch, EpochFollows
<1>4. call \in CallType BY <1>1 DEF CallType, Ats
<1>5. Moves(c) /\ calls' \in [Made -> CallType] /\ calls'[c] = call
  <2>1. calls' = [calls EXCEPT ![c] = call] BY DEF BumpEpoch
  <2>2. call.thread = calls[c].thread /\ call.parent = calls[c].parent
        /\ call.op = calls[c].op /\ call.asked = calls[c].asked
        /\ call.mustSee = calls[c].mustSee
    BY <1>1 DEF CallType
  <2> HIDE DEF call
  <2> QED BY <1>2, <1>4, <2>1, <2>2, EditMoves DEF Running
<1>6. Made' = Made BY <1>2 DEF Made
<1>7. call.at = "over" /\ call.uses = calls[c].uses /\ call.epoch = calls[c].epoch
      /\ call.borrows = calls[c].borrows /\ call.asked = calls[c].asked
      /\ call.mustSee = calls[c].mustSee
  BY <1>1 DEF CallType
<1> HIDE DEF call
<1>8. ASSUME NEW r \in Registries, Knows(r) PROVE Knows(r)'
  BY <1>3, <1>8 DEF Knows, Registries
<1>9. TypeOK'
  <2>1. made' \in 0..MaxCalls /\ mutex' \in 0..made' /\ gil' \in 0..made' /\ epoch' \in 0..1
    BY <1>1, <1>2, <1>3 DEF TypeOK
  <2>2. seen' \in BOOLEAN BY <1>2
  <2> QED BY <1>2, <1>5, <1>6, <2>1, <2>2 DEF TypeOK
<1>10. EpochFollows'
  <2>1. \A d \in Made : calls'[d].at # "bump" /\ mutex' # d
    BY <1>1, <1>2, <1>5, <1>7 DEF Moves, EpochFollows, Made
  <2> QED BY <1>2, <1>3, <1>6, <2>1 DEF EpochFollows
<1>11. CacheKnows' BY <1>2, <1>8 DEF CacheKnows, TypeOK
<1>12. ASSUME NEW d \in Made PROVE (StageKnows(d) /\ UseKnows(d))'
  <2>1. calls[d].mustSee = FALSE BY <1>3 DEF UseKnows, TypeOK, CallType
  <2>2. calls[d].epoch \in Nat /\ calls[d].epoch <= 0 BY <1>3 DEF StageKnows, TypeOK, CallType
  <2>3. CASE d = c
    <3>1. calls[c].borrows = FALSE BY <1>1, <1>2 DEF StageKnows, CallType
    <3> QED BY <1>3, <1>5, <1>7, <2>1, <2>2, <2>3, <3>1 DEF StageKnows, UseKnows, InRegistry
  <2>4. CASE d # c
    <3>1. calls'[d] = calls[d] BY <2>4, <1>5 DEF Moves
    <3>2. StageKnows(d)' BY <1>3, <1>8, <2>2, <3>1 DEF StageKnows
    <3> QED BY <2>1, <3>1, <3>2 DEF UseKnows
  <2> QED BY <2>3, <2>4
<1>13. Nested' BY <1>5, NestedMoves
<1> QED BY <1>6, <1>9, <1>10, <1>11, <1>12, <1>13

LEMMA SelectionConflicts ==
  ASSUME IInv, NEW c \in Made, LockSelection(c), selection # None
  PROVE  IInv'
<1> USE DEF IInv
<1> DEFINE call == [calls[c] EXCEPT !.at = "over",
                      !.error = IF calls[c].asked = selection THEN "none" ELSE "conflict"]
<1>1. calls[c] \in CallType /\ c # 0 /\ c \in 1..made /\ made \in Nat
  BY PythonAssumption DEF TypeOK, Made
<1>2. calls[c].at = "lock" /\ UNCHANGED <<selection, epoch, mutex, cache, made>>
      /\ mutex = 0 /\ gil' = 0 /\ seen' = TRUE
  BY DEF LockSelection
<1>3. call \in CallType BY <1>1 DEF CallType, Ats
<1>4. Moves(c) /\ calls' \in [Made -> CallType] /\ calls'[c] = call
  <2>1. calls' = [calls EXCEPT ![c] = call] BY DEF LockSelection
  <2>2. call.thread = calls[c].thread /\ call.parent = calls[c].parent
        /\ call.op = calls[c].op /\ call.asked = calls[c].asked
        /\ call.mustSee = calls[c].mustSee
    BY <1>1 DEF CallType
  <2> HIDE DEF call
  <2> QED BY <1>2, <1>3, <2>1, <2>2, EditMoves DEF Running
<1>5. call.at = "over" /\ call.uses = calls[c].uses /\ call.epoch = calls[c].epoch
      /\ call.borrows = calls[c].borrows /\ call.asked = calls[c].asked
      /\ call.mustSee = calls[c].mustSee
  BY <1>1 DEF CallType
<1> HIDE DEF call
<1>6. epoch = 1 BY <1>2 DEF EpochFollows, TypeOK
<1>7. StageKnows(c)' /\ UseKnows(c)'
  <2>1. calls[c].borrows = FALSE BY <1>1, <1>2 DEF StageKnows, CallType
  <2> QED BY <1>2, <1>4, <1>5, <2>1 DEF StageKnows, UseKnows, InRegistry
<1>8. CacheKnows' BY <1>2 DEF CacheKnows, Knows
<1>9. gil' \in 0..made /\ seen' \in BOOLEAN BY <1>1, <1>2
<1>10. cache' \in [Threads -> [Slots -> Registries \cup {None}]] BY <1>2 DEF TypeOK
<1> QED BY <1>2, <1>4, <1>5, <1>6, <1>7, <1>8, <1>9, <1>10, MovePreserves

------------------------------------------------------------------------------
(* with_registry.                                                          *)
LEMMA EpochLoads ==
  ASSUME IInv, NEW c \in Made, LoadEpoch(c)
  PROVE  IInv'
<1> USE DEF IInv
<1> DEFINE call == [calls[c] EXCEPT !.at = "lookup", !.epoch = epoch]
<1>1. calls[c] \in CallType BY DEF TypeOK
<1>2. calls[c].at = "begun" /\ UNCHANGED <<selection, epoch, mutex, gil, cache, made, seen>>
  BY DEF LoadEpoch
<1>3. call \in CallType
  <2>1. epoch \in Nat BY DEF TypeOK
  <2> QED BY <1>1, <2>1 DEF CallType, Ats
<1>4. Moves(c) /\ calls' \in [Made -> CallType] /\ calls'[c] = call
  <2>1. calls' = [calls EXCEPT ![c] = call] BY DEF LoadEpoch
  <2>2. call.thread = calls[c].thread /\ call.parent = calls[c].parent
        /\ call.op = calls[c].op /\ call.asked = calls[c].asked
        /\ call.mustSee = calls[c].mustSee
    BY <1>1 DEF CallType
  <2> HIDE DEF call
  <2> QED BY <1>2, <1>3, <2>1, <2>2, EditMoves DEF Running
<1>5. call.at = "lookup" /\ call.uses = calls[c].uses /\ call.epoch = epoch
      /\ call.borrows = calls[c].borrows /\ call.asked = calls[c].asked
      /\ call.mustSee = calls[c].mustSee /\ call.op = calls[c].op
  BY <1>1 DEF CallType
<1> HIDE DEF call
<1>6. StageKnows(c)' /\ UseKnows(c)'
  <2>1. calls[c].borrows = FALSE /\ epoch <= epoch
    BY <1>1, <1>2 DEF StageKnows, CallType, TypeOK
  <2> QED BY <1>2, <1>4, <1>5, <2>1 DEF StageKnows, UseKnows, InRegistry
<1>7. CacheKnows' BY <1>2 DEF CacheKnows, Knows
<1>8. seen' \in BOOLEAN /\ (seen' => epoch = 1) BY <1>2 DEF TypeOK, EpochFollows
<1>9. gil' \in 0..made /\ cache' \in [Threads -> [Slots -> Registries \cup {None}]]
  BY <1>2 DEF TypeOK
<1> QED BY <1>2, <1>4, <1>5, <1>6, <1>7, <1>8, <1>9, MovePreserves

LEMMA SelectionReads ==
  ASSUME IInv, NEW c \in Made, ReadSelection(c)
  PROVE  IInv'
<1> USE DEF IInv
<1> DEFINE built == Registry(calls[c].epoch, calls[c].asked, Active)
           call == [calls[c] EXCEPT !.at = "compose", !.uses = built]
<1>1. calls[c] \in CallType BY DEF TypeOK
<1>2. calls[c].at = "build" /\ UNCHANGED <<selection, epoch, mutex, gil, cache, made, seen>>
      /\ mutex = 0
  BY DEF ReadSelection
<1>3. built \in Registries /\ Knows(built)
  <2>1. Active \in Selections BY PythonAssumption DEF Active, TypeOK
  <2>2. calls[c].epoch \in Nat /\ calls[c].epoch <= epoch /\ epoch \in 0..1
    BY <1>1 DEF StageKnows, CallType, TypeOK
  <2>3. calls[c].asked \in Rulesets \cup {BuiltIn} BY <1>2 DEF StageKnows, InRegistry
  <2>4. epoch = 1 => Active = selection BY <1>2 DEF EpochFollows, Active
  <2>5. epoch = 0 => Active = Off BY <1>2 DEF EpochFollows, Active
  <2>6. built \in Registries BY <2>1, <2>2, <2>3 DEF Registries, Registry
  <2>7. built.epoch = calls[c].epoch /\ built.selection = Active BY DEF Registry
  <2> HIDE DEF built
  <2>8. built.epoch = 1 => epoch = 1 BY <2>2, <2>7
  <2> QED BY <2>2, <2>4, <2>5, <2>6, <2>7, <2>8 DEF Knows
<1>4. built.ruleset = calls[c].asked /\ built.epoch = calls[c].epoch BY DEF Registry
<1>5. call \in CallType
  <2> HIDE DEF built
  <2> QED BY <1>1, <1>3 DEF CallType, Ats
<1>6. Moves(c) /\ calls' \in [Made -> CallType] /\ calls'[c] = call
  <2>1. calls' = [calls EXCEPT ![c] = call] BY DEF ReadSelection
  <2>2. call.thread = calls[c].thread /\ call.parent = calls[c].parent
        /\ call.op = calls[c].op /\ call.asked = calls[c].asked
        /\ call.mustSee = calls[c].mustSee
    BY <1>1 DEF CallType
  <2> HIDE DEF call
  <2> QED BY <1>2, <1>5, <2>1, <2>2, EditMoves DEF Running
<1>7. call.at = "compose" /\ call.uses = built /\ call.epoch = calls[c].epoch
      /\ call.borrows = calls[c].borrows /\ call.asked = calls[c].asked
      /\ call.mustSee = calls[c].mustSee /\ call.op = calls[c].op
  BY <1>1 DEF CallType
<1> HIDE DEF call, built
<1>8. StageKnows(c)'
  <2>1. calls[c].borrows = FALSE BY <1>1, <1>2 DEF StageKnows, CallType
  <2>2. calls[c].epoch <= epoch BY DEF StageKnows
  <2>3. calls[c].op \in {"scan", "compare"} /\ calls[c].asked \in Rulesets \cup {BuiltIn}
    BY <1>2 DEF StageKnows, InRegistry
  <2> QED BY <1>2, <1>3, <1>6, <1>7, <2>1, <2>2, <2>3 DEF StageKnows, InRegistry, Knows
<1>9. UseKnows(c)'
  <2>1. calls[c].mustSee => epoch = 1 /\ calls[c].epoch = 1 BY <1>2 DEF UseKnows
  <2>2. calls[c].mustSee => built.selection = selection BY <1>3, <1>4, <2>1 DEF Knows
  <2> QED BY <1>2, <1>4, <1>6, <1>7, <2>1, <2>2 DEF UseKnows
<1>10. CacheKnows' BY <1>2 DEF CacheKnows, Knows
<1>11. seen' \in BOOLEAN /\ (seen' => epoch = 1) BY <1>2 DEF TypeOK, EpochFollows
<1>12. gil' \in 0..made /\ cache' \in [Threads -> [Slots -> Registries \cup {None}]]
  BY <1>2 DEF TypeOK
<1> QED BY <1>2, <1>6, <1>7, <1>8, <1>9, <1>10, <1>11, <1>12, MovePreserves

(* A slot of the cache gets a registry whose tag is right, or is emptied.  *)
LEMMA StoreKeeps ==
  ASSUME IInv, NEW c \in Made, NEW r \in Registries \cup {None}, r # None => Knows(r),
         Store(c, r), UNCHANGED <<selection, epoch>>
  PROVE  /\ cache' \in [Threads -> [Slots -> Registries \cup {None}]]
         /\ CacheKnows'
<1> DEFINE th == calls[c].thread
           slot == SlotOf(calls[c].asked)
<1>1. th \in Threads /\ slot \in Slots
      /\ cache \in [Threads -> [Slots -> Registries \cup {None}]]
  BY DEF IInv, TypeOK, CallType, SlotOf, Slots
<1>2. cache' = [cache EXCEPT ![th][slot] = r] BY DEF Store
<1> HIDE DEF th, slot
<1>3. cache' \in [Threads -> [Slots -> Registries \cup {None}]] BY <1>1, <1>2
<1>4. ASSUME NEW t \in Threads, NEW s \in Slots PROVE cache'[t][s] \in {r, cache[t][s]}
  BY <1>1, <1>2
<1>5. CacheKnows' BY <1>4 DEF IInv, CacheKnows, Knows
<1> QED BY <1>3, <1>5

LEMMA UseKeeps ==
  ASSUME IInv, NEW c \in Made, NEW r \in Registries, Knows(r), Use(c, r),
         calls[c].at \in {"lookup", "compose"}, r.ruleset = calls[c].asked,
         calls[c].mustSee => r.selection = selection,
         UNCHANGED <<selection, epoch, mutex, gil, made, seen>>
  PROVE  IInv'
<1> USE DEF IInv
<1> DEFINE call == [calls[c] EXCEPT !.at = "detect", !.uses = r,
                                    !.borrows = (calls[c].op = "scan")]
<1>1. calls[c] \in CallType BY DEF TypeOK
<1>2. call \in CallType BY <1>1 DEF CallType, Ats
<1>3. Moves(c) /\ calls' \in [Made -> CallType] /\ calls'[c] = call
  <2>1. calls' = [calls EXCEPT ![c] = call] BY DEF Use
  <2>2. call.thread = calls[c].thread /\ call.parent = calls[c].parent
        /\ call.op = calls[c].op /\ call.asked = calls[c].asked
        /\ call.mustSee = calls[c].mustSee
    BY <1>1 DEF CallType
  <2> HIDE DEF call
  <2> QED BY <1>2, <2>1, <2>2, EditMoves DEF Running
<1>4. call.at = "detect" /\ call.uses = r /\ call.epoch = calls[c].epoch
      /\ call.asked = calls[c].asked /\ call.mustSee = calls[c].mustSee /\ call.op = calls[c].op
      /\ (call.borrows => calls[c].op = "scan")
  BY <1>1 DEF CallType
<1> HIDE DEF call
<1>5. calls[c].op \in {"scan", "compare"} /\ calls[c].asked \in Rulesets \cup {BuiltIn}
      /\ calls[c].epoch <= epoch
  BY DEF StageKnows, InRegistry
<1>6. StageKnows(c)' BY <1>3, <1>4, <1>5 DEF StageKnows, InRegistry, Knows
<1>7. UseKnows(c)' BY <1>3, <1>4 DEF UseKnows
<1>8. cache' \in [Threads -> [Slots -> Registries \cup {None}]] /\ CacheKnows'
  <2>1. PICK kept \in Registries \cup {None} :
          (kept # None => Knows(kept)) /\ Store(c, kept)
    BY DEF Use
  <2> QED BY <2>1, StoreKeeps
<1>9. seen' \in BOOLEAN /\ (seen' => epoch = 1) BY DEF TypeOK, EpochFollows
<1>10. gil' \in 0..made BY DEF TypeOK
<1> QED BY <1>3, <1>4, <1>6, <1>7, <1>8, <1>9, <1>10, MovePreserves

LEMMA RegistryComposes ==
  ASSUME IInv, NEW c \in Made, Compose(c)
  PROVE  IInv'
<1>1. calls[c].at = "compose" BY DEF Compose
<1>2. PICK r \in Registries : r = calls[c].uses BY <1>1 DEF IInv, StageKnows
<1>3. Knows(r) BY <1>1, <1>2 DEF IInv, StageKnows
<1>4. r.ruleset = calls[c].asked /\ (calls[c].mustSee => r.selection = selection)
  BY <1>1, <1>2 DEF IInv, UseKnows
<1>5. Use(c, r) BY <1>2 DEF Compose
<1> QED BY <1>1, <1>3, <1>4, <1>5, UseKeeps DEF Compose

LEMMA CacheLooksUp ==
  ASSUME IInv, NEW c \in Made, Lookup(c)
  PROVE  IInv'
<1> USE DEF IInv
<1>1. calls[c].at = "lookup" /\ calls[c] \in CallType
      /\ UNCHANGED <<selection, epoch, mutex, made, seen>>
  BY DEF Lookup, TypeOK
<1>2. CASE Hit(c)
  <2>1. Cached(c) \in Registries \cup {None}
    BY DEF Cached, TypeOK, CallType, SlotOf, Slots
  <2>2. PICK r \in Registries : r = Cached(c) BY <1>2, <2>1 DEF Hit
  <2>3. Knows(r) BY <1>2, <2>2 DEF Hit, Cached, CacheKnows, TypeOK, CallType, SlotOf, Slots
  <2>4. r.ruleset = calls[c].asked BY <1>2, <2>2 DEF Hit
  <2>5. calls[c].mustSee => r.selection = selection
    BY <1>1, <1>2, <2>2, <2>3 DEF Hit, UseKnows, Knows
  <2>6. Use(c, r) /\ gil' = gil BY <1>2, <2>2 DEF Lookup
  <2> QED BY <1>1, <2>3, <2>4, <2>5, <2>6, UseKeeps
<1>3. CASE ~Hit(c)
  <2> DEFINE call == IF calls[c].asked \in Malformed
                       THEN [calls[c] EXCEPT !.at = "over", !.error = "invalid_ruleset"]
                       ELSE [calls[c] EXCEPT !.at = "build"]
  <2>1. call \in CallType BY <1>1 DEF CallType, Ats
  <2>2. call.thread = calls[c].thread /\ call.parent = calls[c].parent
        /\ call.op = calls[c].op /\ call.asked = calls[c].asked
        /\ call.mustSee = calls[c].mustSee /\ call.uses = calls[c].uses
        /\ call.borrows = calls[c].borrows /\ call.epoch = calls[c].epoch
        /\ call.at \in {"over", "build"}
    BY <1>1 DEF CallType
  <2>3. calls' = [calls EXCEPT ![c] = call] /\ cache' = cache BY <1>3 DEF Lookup
  <2>4. gil' \in 0..made BY <1>3 DEF Lookup, TypeOK
  <2> HIDE DEF call
  <2>5. Moves(c) /\ calls' \in [Made -> CallType] /\ calls'[c] = call
    BY <1>1, <2>1, <2>2, <2>3, EditMoves DEF Running
  <2>6. StageKnows(c)' /\ UseKnows(c)'
    <3>1. calls[c].borrows = FALSE BY <1>1 DEF StageKnows, CallType
    <3>2. StageKnows(c)' BY <1>1, <2>2, <2>5, <3>1 DEF StageKnows, InRegistry
    <3>3. UseKnows(c)' BY <1>1, <2>2, <2>5 DEF UseKnows
    <3> QED BY <3>2, <3>3
  <2>7. CacheKnows' /\ cache' \in [Threads -> [Slots -> Registries \cup {None}]]
    BY <1>1, <2>3 DEF CacheKnows, Knows, TypeOK
  <2>8. seen' \in BOOLEAN /\ (seen' => epoch = 1) BY <1>1 DEF TypeOK, EpochFollows
  <2> QED BY <1>1, <2>2, <2>4, <2>5, <2>6, <2>7, <2>8, MovePreserves
<1> QED BY <1>2, <1>3

LEMMA DetectionEnds ==
  ASSUME IInv, NEW c \in Made, Detected(c)
  PROVE  IInv'
<1> USE DEF IInv
<1> DEFINE call == [calls[c] EXCEPT !.at = "callback",
                      !.borrows = (calls[c].borrows /\ calls[c].op # "scan")]
<1>1. calls[c] \in CallType BY DEF TypeOK
<1>2. calls[c].at = "detect" /\ UNCHANGED <<selection, epoch, mutex, cache, made>> /\ gil' = 0
  BY DEF Detected
<1>3. call \in CallType BY <1>1 DEF CallType, Ats
<1>4. Moves(c) /\ calls' \in [Made -> CallType] /\ calls'[c] = call
  <2>1. calls' = [calls EXCEPT ![c] = call] BY DEF Detected
  <2>2. call.thread = calls[c].thread /\ call.parent = calls[c].parent
        /\ call.op = calls[c].op /\ call.asked = calls[c].asked
        /\ call.mustSee = calls[c].mustSee
    BY <1>1 DEF CallType
  <2> HIDE DEF call
  <2> QED BY <1>2, <1>3, <2>1, <2>2, EditMoves DEF Running
<1>5. call.at = "callback" /\ call.uses = calls[c].uses /\ call.epoch = calls[c].epoch
      /\ call.asked = calls[c].asked /\ call.mustSee = calls[c].mustSee /\ call.op = calls[c].op
  BY <1>1 DEF CallType
<1>6. call.borrows = FALSE
  <2>1. calls[c].borrows => calls[c].op = "scan" BY DEF StageKnows
  <2> QED BY <1>1, <2>1 DEF CallType
<1> HIDE DEF call
<1>7. StageKnows(c)' BY <1>2, <1>4, <1>5, <1>6 DEF StageKnows, InRegistry, Knows
<1>8. UseKnows(c)' BY <1>2, <1>4, <1>5 DEF UseKnows
<1>9. CacheKnows' /\ cache' \in [Threads -> [Slots -> Registries \cup {None}]]
  BY <1>2 DEF CacheKnows, Knows, TypeOK
<1>10. seen' \in BOOLEAN BY Zenon DEF Detected
<1>11. seen' => epoch = 1
  <2>1. calls[c].uses.selection # Off => epoch = 1 BY <1>2 DEF StageKnows, Knows, TypeOK
  <2>2. seen => epoch = 1 BY DEF EpochFollows
  <2> QED BY <2>1, <2>2 DEF Detected
<1>12. gil' \in 0..made BY <1>2 DEF TypeOK
<1> QED BY <1>2, <1>4, <1>5, <1>7, <1>8, <1>9, <1>10, <1>11, <1>12, MovePreserves

LEMMA CallReturns ==
  ASSUME IInv, NEW c \in Made, Return(c)
  PROVE  IInv'
<1> USE DEF IInv
<1> DEFINE call == [calls[c] EXCEPT !.at = "over", !.borrows = FALSE]
<1>1. calls[c] \in CallType BY DEF TypeOK
<1>2. calls[c].at = "callback" /\ OnTop(c)
      /\ UNCHANGED <<selection, epoch, mutex, gil, made, seen>>
  BY DEF Return
<1>3. call \in CallType BY <1>1 DEF CallType, Ats
<1>4. Moves(c) /\ calls' \in [Made -> CallType] /\ calls'[c] = call
  <2>1. calls' = [calls EXCEPT ![c] = call] BY DEF Return
  <2>2. call.thread = calls[c].thread /\ call.parent = calls[c].parent
        /\ call.op = calls[c].op /\ call.asked = calls[c].asked
        /\ call.mustSee = calls[c].mustSee
    BY <1>1 DEF CallType
  <2> HIDE DEF call
  <2> QED BY <1>2, <1>3, <2>1, <2>2, EditMoves DEF Running
<1>5. call.at = "over" /\ call.uses = calls[c].uses /\ call.epoch = calls[c].epoch
      /\ call.asked = calls[c].asked /\ call.mustSee = calls[c].mustSee /\ call.borrows = FALSE
  BY <1>1 DEF CallType
<1> HIDE DEF call
<1>6. StageKnows(c)' BY <1>2, <1>4, <1>5 DEF StageKnows, InRegistry
<1>7. UseKnows(c)' BY <1>2, <1>4, <1>5 DEF UseKnows
<1>8. CacheKnows' /\ cache' \in [Threads -> [Slots -> Registries \cup {None}]]
  <2>1. CASE calls[c].op = "compare" /\ Cached(c) = None
    <3>1. calls[c].uses \in Registries /\ Knows(calls[c].uses) BY <1>2 DEF StageKnows
    <3>2. PICK r \in Registries : r = calls[c].uses BY <3>1
    <3>3. Store(c, r) BY <2>1, <3>2 DEF Return
    <3> QED BY <1>2, <3>1, <3>2, <3>3, StoreKeeps
  <2>2. CASE ~(calls[c].op = "compare" /\ Cached(c) = None)
    <3>1. cache' = cache BY <2>2 DEF Return
    <3> QED BY <1>2, <3>1 DEF CacheKnows, Knows, TypeOK
  <2> QED BY <2>1, <2>2
<1>9. seen' \in BOOLEAN /\ (seen' => epoch = 1) BY <1>2 DEF TypeOK, EpochFollows
<1>10. gil' \in 0..made BY <1>2 DEF TypeOK
<1> QED BY <1>2, <1>4, <1>5, <1>6, <1>7, <1>8, <1>9, <1>10, MovePreserves

------------------------------------------------------------------------------
(* Every step preserves the invariant.                                     *)
LEMMA Steps == IInv /\ [Next]_vars => IInv'
<1> SUFFICES ASSUME IInv, [Next]_vars PROVE IInv' OBVIOUS
<1>1. ASSUME NEW t \in Threads, NEW p \in 0..made, Call(t, p) PROVE IInv'
  <2>1. MayBegin(t, p) BY <1>1 DEF Call
  <2>2. PICK request \in Requests[made + 1] : Ask(t, p, request) BY <1>1 DEF Call
  <2> QED BY <2>1, <2>2, InitializeBegins, ScanBegins, CompareBegins, StatusBegins, SessionBegins
          DEF Ask
<1>2. ASSUME NEW c \in Made, Step(c) PROVE IInv'
  <2>1. CASE LockSelection(c) BY <2>1, SelectionStores, SelectionConflicts
  <2>2. CASE BumpEpoch(c) BY <2>2, EpochBumps
  <2>3. CASE LoadEpoch(c) BY <2>3, EpochLoads
  <2>4. CASE Lookup(c) BY <2>4, CacheLooksUp
  <2>5. CASE ReadSelection(c) BY <2>5, SelectionReads
  <2>6. CASE Compose(c) BY <2>6, RegistryComposes
  <2>7. CASE Detected(c) BY <2>7, DetectionEnds
  <2>8. CASE Return(c) BY <2>8, CallReturns
  <2> QED BY <1>2, <2>1, <2>2, <2>3, <2>4, <2>5, <2>6, <2>7, <2>8 DEF Step
<1>3. CASE UNCHANGED vars
  BY <1>3 DEF vars, IInv, TypeOK, EpochFollows, CacheKnows, Knows, StageKnows, UseKnows, Nested,
              Made, Running
<1> QED BY <1>1, <1>2, <1>3 DEF Next

THEOREM Invariant == Spec => []IInv
<1> QED BY Initially, Steps, PTL DEF Spec

(* Every variable keeps its type; the epoch of the selection is bumped     *)
(* once at most (bump_pii_epoch), however many calls of initialize() race. *)
THEOREM TypesAreKept == Spec => []TypeOK
<1>1. IInv => TypeOK BY DEF IInv
<1> QED BY <1>1, Invariant, PTL

(* A cached registry whose tag is the current epoch was built for the      *)
(* selection in force, in every thread and at every point of an            *)
(* initialize(): with_registry need compare nothing but the tag.           *)
THEOREM CachesAreCurrent == Spec => []CacheIsCurrent
<1>1. IInv => CacheIsCurrent BY InvariantImplies
<1> QED BY <1>1, Invariant, PTL

(* A call that begins once the selection in force has shown runs under it, *)
(* and always with the ruleset it was given (with_registry,                *)
(* with_registry_released).                                                *)
THEOREM CallsAreServedAsConfigured == Spec => []ServedAsConfigured
<1>1. IInv => ServedAsConfigured BY InvariantImplies
<1> QED BY <1>1, Invariant, PTL

(* A call never borrows its thread's cache while a call around it keeps    *)
(* the cache borrowed: borrow_mut does not panic, however deep the         *)
(* callbacks of a comparison nest.                                         *)
THEOREM CachesAreBorrowedOnce == Spec => []NeverBorrowedTwice
<1>1. IInv => NeverBorrowedTwice BY InvariantImplies
<1> QED BY <1>1, Invariant, PTL

------------------------------------------------------------------------------
(* OffsetIndex.  First what its helpers compute: counts of the first of an *)
(* ordered list, widths and shortfalls, sums.                              *)

(* A set of numbers that is not empty has a least one.                     *)
LEMMA LeastElement ==
  ASSUME NEW S \in SUBSET Nat, S # {}
  PROVE  \E x \in S : \A y \in S : x <= y
<1>1. PICK x \in S : \A y \in S : <<y, x>> \notin OpToRel(<, Nat)
  BY NatLessThanWellFounded, WFMin, Zenon
<1>2. \A y \in S : ~(y < x)
  <2> TAKE y \in S
  <2>1. x \in Nat /\ y \in Nat
    OBVIOUS
  <2> QED
    BY <1>1, <2>1, Zenon DEF OpToRel
<1>3. \A y \in S : x <= y
  BY <1>2
<1> QED
  BY <1>3

(* A set with 0, and with each number the next, has them all.              *)
LEMMA StepsReachAll ==
  ASSUME NEW P, P \subseteq Nat, 0 \in P, \A n \in P : n + 1 \in P
  PROVE  P = Nat
<1> SUFFICES ASSUME Nat \ P # {} PROVE FALSE OBVIOUS
<1>1. PICK x \in Nat \ P : \A y \in Nat \ P : <<y, x>> \notin OpToRel(<, Nat)
  BY NatLessThanWellFounded, WFMin, Zenon
<1>2. x \in Nat /\ x # 0 /\ x - 1 \in Nat /\ (x - 1) + 1 = x OBVIOUS
<1>3. x - 1 \notin P
  <2> SUFFICES ASSUME x - 1 \in P PROVE FALSE OBVIOUS
  <2>1. (x - 1) + 1 \in P OBVIOUS
  <2> QED BY <1>2, <2>1
<1>4. x - 1 \in Nat \ P /\ <<x - 1, x>> \in OpToRel(<, Nat)
  <2>1. x - 1 < x BY <1>2
  <2> QED BY <1>2, <1>3, <2>1, Zenon DEF OpToRel
<1> QED BY <1>1, <1>4

------------------------------------------------------------------------------
(* Counting.                                                               *)

(* What is at the beginning of an ordered list ends at its number.         *)
LEMMA BeginningIs ==
  ASSUME NEW n \in Nat, NEW S \in SUBSET (1..n),
         \A j, k \in 1..n : j < k /\ k \in S => j \in S
  PROVE  Cardinality(S) \in 0..n /\ S = 1..Cardinality(S)
<1> DEFINE Out == {x \in Nat : x # 0 /\ x \notin S}
<1>1. n + 1 \in Out OBVIOUS
<1>2. PICK x \in Out : \A y \in Out : x <= y
  <2>1. Out \in SUBSET Nat /\ Out # {} BY <1>1
  <2> HIDE DEF Out
  <2> QED BY <2>1, LeastElement
<1>3. x \in 1..(n + 1) /\ x \notin S BY <1>1, <1>2
<1>4. \A y \in 1..(x - 1) : y \in S BY <1>2, <1>3
<1>5. \A y \in S : y < x
  <2> TAKE y \in S
  <2>1. CASE x \in 1..n BY <2>1, <1>3
  <2>2. CASE x = n + 1 BY <2>2
  <2> QED BY <1>3, <2>1, <2>2
<1>6. S = 1..(x - 1)
  <2>1. S \subseteq 1..(x - 1) BY <1>3, <1>5
  <2> QED BY <1>4, <2>1
<1>7. Cardinality(S) = x - 1 BY <1>3, <1>6, FS_Interval
<1> QED BY <1>3, <1>6, <1>7

(* How many of a list are its first m.                                     *)
LEMMA CountIs ==
  ASSUME NEW n \in Nat, NEW S \in SUBSET (1..n), NEW m \in 0..n,
         \A i \in 1..n : i \in S <=> i <= m
  PROVE  Cardinality(S) = m
<1>1. \A i : i \in S <=> i \in 1..m
  <2> TAKE i
  <2>1. i \in S => i \in 1..n OBVIOUS
  <2>2. i \in 1..m => i \in 1..n OBVIOUS
  <2>3. i \in 1..n => (i \in 1..m <=> i <= m) OBVIOUS
  <2> QED BY <2>1, <2>2, <2>3
<1>2. S = 1..m BY <1>1
<1> QED BY <1>2, FS_Interval

------------------------------------------------------------------------------
(* Widths, shortfalls and rounding up.                                     *)
LEMMA ShortfallType ==
  ASSUME NEW w \in 1..4
  PROVE  /\ ShortfallOfWidth(w) \in 0..3
         /\ w # 1 => ShortfallOfWidth(w) \in 1..3
         /\ w = 1 => ShortfallOfWidth(w) = 0
BY DEF ShortfallOfWidth

(* Rounding up: the least number of characters that reach a width.         *)
LEMMA CeilIs ==
  ASSUME NEW a \in Int, NEW w \in 2..4
  PROVE  /\ DivCeil(a, w) \in Int
         /\ \A q \in Int : DivCeil(a, w) <= q <=> a <= q * w
         /\ a > 0 => DivCeil(a, w) > 0
<1>1. CASE w = 2 BY <1>1 DEF DivCeil
<1>2. CASE w = 3 BY <1>2 DEF DivCeil
<1>3. CASE w = 4 BY <1>3 DEF DivCeil
<1> QED BY <1>1, <1>2, <1>3

(* Products of a number of characters and their width, or their shortfall. *)
LEMMA TimesSmall ==
  ASSUME NEW w \in 0..4, NEW a \in Int, NEW b \in Int
  PROVE  /\ a * w \in Int
         /\ (a + b) * w = a * w + b * w
         /\ (a - b) * w = a * w - b * w
         /\ a <= b => a * w <= b * w
         /\ a < b /\ w # 0 => a * w + w <= b * w
         /\ 1 * w = w /\ 0 * w = 0
         /\ a \in Nat => a * w \in Nat
<1>1. CASE w = 0 BY <1>1
<1>2. CASE w = 1 BY <1>2
<1>3. CASE w = 2 BY <1>3
<1>4. CASE w = 3 BY <1>4
<1>5. CASE w = 4 BY <1>5
<1> QED BY <1>1, <1>2, <1>3, <1>4, <1>5

------------------------------------------------------------------------------
(* Sums.                                                                   *)
IsSum(f, numbers, n) == f = [k \in 0..n |-> IF k = 0 THEN 0 ELSE f[k - 1] + numbers[k]]

(* The recursion of SumBefore has a solution.                              *)
LEMMA SumExists ==
  ASSUME NEW numbers \in Seq(Nat)
  PROVE  \E f : IsSum(f, numbers, Len(numbers))
<1> DEFINE n == Len(numbers)
           P == {m \in Nat : m <= n => \E f : IsSum(f, numbers, m)}
<1>0. n \in Nat OBVIOUS
<1>1. 0 \in P
  <2> DEFINE f == [k \in 0..0 |-> 0]
  <2>1. IsSum(f, numbers, 0) BY DEF IsSum
  <2> HIDE DEF f
  <2> QED BY <2>1, <1>0
<1>2. ASSUME NEW m \in P PROVE m + 1 \in P
  <2> SUFFICES ASSUME m + 1 <= n PROVE \E f : IsSum(f, numbers, m + 1) BY <1>0
  <2>1. PICK f : IsSum(f, numbers, m) BY <1>0
  <2> DEFINE g == [k \in 0..(m + 1) |-> IF k <= m THEN f[k] ELSE f[m] + numbers[m + 1]]
  <2>2. \A k \in 0..m : f[k] = IF k = 0 THEN 0 ELSE f[k - 1] + numbers[k]
    BY <2>1 DEF IsSum
  <2>3. \A k \in 0..(m + 1) : g[k] = IF k = 0 THEN 0 ELSE g[k - 1] + numbers[k]
    <3> TAKE k \in 0..(m + 1)
    <3>1. CASE k = 0 BY <3>1, <2>2
    <3>2. CASE k \in 1..m
      <4>1. g[k] = f[k] /\ g[k - 1] = f[k - 1] BY <3>2
      <4>2. f[k] = f[k - 1] + numbers[k] BY <2>2, <3>2
      <4> QED BY <3>2, <4>1, <4>2
    <3>3. CASE k = m + 1
      <4>1. g[k] = f[m] + numbers[m + 1] /\ g[k - 1] = f[m] BY <3>3
      <4> QED BY <3>3, <4>1
    <3> QED BY <3>1, <3>2, <3>3
  <2>4. IsSum(g, numbers, m + 1)
    <3>1. g = [k \in 0..(m + 1) |-> g[k]] OBVIOUS
    <3> HIDE DEF g
    <3> QED BY <2>3, <3>1 DEF IsSum
  <2> HIDE DEF g
  <2> QED BY <2>4
<1>3. P = Nat
  <2>1. P \subseteq Nat OBVIOUS
  <2> HIDE DEF P
  <2> QED BY <1>1, <1>2, <2>1, StepsReachAll
<1>4. n \in P /\ n <= n BY <1>0, <1>3
<1> QED BY <1>4

(* A sum goes on by one number at a time.                                  *)
LEMMA SumGoesOn ==
  ASSUME NEW numbers \in Seq(Nat)
  PROVE  /\ SumBefore(numbers, 1) = 0
         /\ \A i \in 1..Len(numbers) :
              SumBefore(numbers, i + 1) = SumBefore(numbers, i) + numbers[i]
<1> DEFINE n == Len(numbers)
           sum == CHOOSE f : IsSum(f, numbers, n)
<1>1. IsSum(sum, numbers, n) BY SumExists, Zenon
<1>2. \A i : SumBefore(numbers, i) = sum[i - 1]
  BY Zenon DEF SumBefore, IsSum
<1>3. n \in Nat OBVIOUS
<1> HIDE DEF sum, n
<1>4. \A k \in 0..n : sum[k] = IF k = 0 THEN 0 ELSE sum[k - 1] + numbers[k]
  BY <1>1 DEF IsSum
<1>5. SumBefore(numbers, 1) = 0 BY <1>2, <1>3, <1>4
<1>6. ASSUME NEW i \in 1..n
      PROVE  SumBefore(numbers, i + 1) = SumBefore(numbers, i) + numbers[i]
  <2>1. i \in 0..n /\ i # 0 /\ (i + 1) - 1 = i BY <1>3
  <2>2. sum[i] = sum[i - 1] + numbers[i] BY <1>4, <2>1
  <2> QED BY <1>2, <2>1, <2>2
<1> QED BY <1>5, <1>6 DEF n

LEMMA SumType ==
  ASSUME NEW numbers \in Seq(Nat)
  PROVE  \A i \in 1..(Len(numbers) + 1) : SumBefore(numbers, i) \in Nat
<1> DEFINE n == Len(numbers)
           P == {m \in Nat : m <= n => SumBefore(numbers, m + 1) \in Nat}
<1>0. n \in Nat OBVIOUS
<1>1. 0 \in P BY SumGoesOn
<1>2. ASSUME NEW m \in P PROVE m + 1 \in P
  <2> SUFFICES ASSUME m + 1 <= n PROVE SumBefore(numbers, (m + 1) + 1) \in Nat BY <1>0
  <2>1. m + 1 \in 1..n /\ m <= n BY <1>0
  <2>2. SumBefore(numbers, m + 1) \in Nat BY <2>1
  <2>3. SumBefore(numbers, (m + 1) + 1) = SumBefore(numbers, m + 1) + numbers[m + 1]
    BY <2>1, SumGoesOn
  <2>4. numbers[m + 1] \in Nat BY <2>1
  <2> QED BY <2>2, <2>3, <2>4
<1>3. P = Nat
  <2>1. P \subseteq Nat OBVIOUS
  <2> HIDE DEF P
  <2> QED BY <1>1, <1>2, <2>1, StepsReachAll
<1>4. ASSUME NEW i \in 1..(n + 1) PROVE SumBefore(numbers, i) \in Nat
  <2>1. i - 1 \in Nat /\ i - 1 <= n /\ (i - 1) + 1 = i BY <1>0
  <2>2. i - 1 \in P BY <1>3, <2>1
  <2> QED BY <2>1, <2>2
<1> QED BY <1>4

(* The numbers of two sequences come to what they come to by themselves.   *)
LEMMA SumOfBoth ==
  ASSUME NEW s \in Seq(Nat), NEW t \in Seq(Nat)
  PROVE  /\ \A i \in 1..(Len(s) + 1) : SumBefore(s \o t, i) = SumBefore(s, i)
         /\ \A j \in 1..(Len(t) + 1) :
              SumBefore(s \o t, Len(s) + j) = SumBefore(s, Len(s) + 1) + SumBefore(t, j)
<1> DEFINE n == Len(s)
           u == s \o t
           P == {m \in Nat : m <= n => SumBefore(u, m + 1) = SumBefore(s, m + 1)}
           Q == {m \in Nat : m <= Len(t) =>
                   SumBefore(u, n + (m + 1)) = SumBefore(s, n + 1) + SumBefore(t, m + 1)}
<1>0. n \in Nat /\ Len(t) \in Nat OBVIOUS
<1>1. /\ u \in Seq(Nat) /\ Len(u) = n + Len(t)
      /\ \A i \in 1..n : u[i] = s[i]
      /\ \A j \in 1..Len(t) : u[n + j] = t[j]
  OBVIOUS
<1> HIDE DEF u, n
<1>2. 0 \in P BY <1>1, SumGoesOn
<1>3. ASSUME NEW m \in P PROVE m + 1 \in P
  <2> SUFFICES ASSUME m + 1 <= n PROVE SumBefore(u, (m + 1) + 1) = SumBefore(s, (m + 1) + 1)
    BY <1>0
  <2>1. m + 1 \in 1..n /\ m + 1 \in 1..Len(u) /\ m <= n BY <1>0, <1>1
  <2>2. SumBefore(u, m + 1) = SumBefore(s, m + 1) BY <2>1
  <2>3. SumBefore(u, (m + 1) + 1) = SumBefore(u, m + 1) + u[m + 1] BY <1>1, <2>1, SumGoesOn
  <2>4. SumBefore(s, (m + 1) + 1) = SumBefore(s, m + 1) + s[m + 1]
    BY <2>1, SumGoesOn DEF n
  <2> QED BY <1>1, <2>1, <2>2, <2>3, <2>4
<1>4. P = Nat
  <2>1. P \subseteq Nat OBVIOUS
  <2> HIDE DEF P
  <2> QED BY <1>2, <1>3, <2>1, StepsReachAll
<1>5. ASSUME NEW i \in 1..(n + 1) PROVE SumBefore(u, i) = SumBefore(s, i)
  <2>1. i - 1 \in Nat /\ i - 1 <= n /\ (i - 1) + 1 = i BY <1>0
  <2>2. i - 1 \in P BY <1>4, <2>1
  <2> QED BY <2>1, <2>2
<1>6. 0 \in Q
  <2>1. n + 1 \in 1..(n + 1) /\ n + (0 + 1) = n + 1 BY <1>0
  <2>2. SumBefore(u, n + 1) = SumBefore(s, n + 1) BY <1>5, <2>1
  <2>3. SumBefore(t, 0 + 1) = 0 BY SumGoesOn
  <2>4. SumBefore(s, n + 1) \in Nat BY <2>1, SumType DEF n
  <2> QED BY <2>1, <2>2, <2>3, <2>4
<1>7. ASSUME NEW m \in Q PROVE m + 1 \in Q
  <2> SUFFICES ASSUME m + 1 <= Len(t)
               PROVE  SumBefore(u, n + ((m + 1) + 1)) = SumBefore(s, n + 1) + SumBefore(t, (m + 1) + 1)
    BY <1>0
  <2>1. /\ m + 1 \in 1..Len(t) /\ m <= Len(t) /\ n + (m + 1) \in 1..Len(u)
        /\ n + ((m + 1) + 1) = (n + (m + 1)) + 1
    BY <1>0, <1>1
  <2>2. SumBefore(u, n + (m + 1)) = SumBefore(s, n + 1) + SumBefore(t, m + 1) BY <2>1
  <2>3. SumBefore(u, (n + (m + 1)) + 1) = SumBefore(u, n + (m + 1)) + u[n + (m + 1)]
    BY <1>1, <2>1, SumGoesOn
  <2>4. SumBefore(t, (m + 1) + 1) = SumBefore(t, m + 1) + t[m + 1] BY <2>1, SumGoesOn
  <2>5. u[n + (m + 1)] = t[m + 1] /\ t[m + 1] \in Nat BY <1>1, <2>1
  <2>6. m + 1 \in 1..(Len(t) + 1) /\ n + 1 \in 1..(n + 1) BY <1>0, <2>1
  <2>7. SumBefore(t, m + 1) \in Nat BY <2>6, SumType
  <2>8. SumBefore(s, n + 1) \in Nat BY <2>6, SumType DEF n
  <2> QED BY <2>1, <2>2, <2>3, <2>4, <2>5, <2>7, <2>8
<1>8. Q = Nat
  <2>1. Q \subseteq Nat OBVIOUS
  <2> HIDE DEF Q
  <2> QED BY <1>6, <1>7, <2>1, StepsReachAll
<1>9. ASSUME NEW j \in 1..(Len(t) + 1)
      PROVE  SumBefore(u, n + j) = SumBefore(s, n + 1) + SumBefore(t, j)
  <2>1. j - 1 \in Nat /\ j - 1 <= Len(t) /\ (j - 1) + 1 = j BY <1>0
  <2>2. j - 1 \in Q BY <1>8, <2>1
  <2> QED BY <2>1, <2>2
<1> QED BY <1>5, <1>9 DEF u, n

(* No part comes to more than the whole.                                   *)
LEMMA SumIsOrdered ==
  ASSUME NEW numbers \in Seq(Nat), NEW i \in 1..(Len(numbers) + 1)
  PROVE  SumBefore(numbers, i) <= SumBefore(numbers, Len(numbers) + 1)
<1> DEFINE n == Len(numbers)
           P == {m \in Nat : i + m <= n + 1 => SumBefore(numbers, i) <= SumBefore(numbers, i + m)}
<1>0. n \in Nat /\ i \in Nat OBVIOUS
<1>1. \A k \in 1..(n + 1) : SumBefore(numbers, k) \in Nat BY SumType
<1>2. 0 \in P BY <1>0, <1>1
<1>3. ASSUME NEW m \in P PROVE m + 1 \in P
  <2> SUFFICES ASSUME i + (m + 1) <= n + 1
               PROVE  SumBefore(numbers, i) <= SumBefore(numbers, i + (m + 1))
    BY <1>0
  <2>1. i + m \in 1..n /\ i + m \in 1..(n + 1) /\ i + (m + 1) = (i + m) + 1 /\ i + m <= n + 1
    BY <1>0
  <2>2. SumBefore(numbers, i) <= SumBefore(numbers, i + m) BY <2>1
  <2>3. SumBefore(numbers, (i + m) + 1) = SumBefore(numbers, i + m) + numbers[i + m]
    BY <2>1, SumGoesOn
  <2>4. numbers[i + m] \in Nat BY <2>1
  <2> QED BY <1>1, <2>1, <2>2, <2>3, <2>4
<1>4. P = Nat
  <2>1. P \subseteq Nat OBVIOUS
  <2> HIDE DEF P
  <2> QED BY <1>2, <1>3, <2>1, StepsReachAll
<1>5. (n + 1) - i \in Nat /\ i + ((n + 1) - i) = n + 1 /\ n + 1 <= n + 1 BY <1>0
<1>6. (n + 1) - i \in P BY <1>4, <1>5
<1> QED BY <1>5, <1>6

------------------------------------------------------------------------------
LEMMA SequenceDomain ==
  ASSUME NEW S, NEW s \in Seq(S)
  PROVE  DOMAIN s = 1..Len(s) /\ Len(s) \in Nat
OBVIOUS

(* What the index keeps, in order.                                         *)
Runs == [start : Nat, width : 2..4, count : Nat \ {0}, cumulative : Nat]

RunsInOrder(rs, below, end) ==
  /\ rs \in Seq(Runs)
  /\ \A i \in 1..Len(rs) :
       /\ RunEnd(rs[i]) <= end
       /\ \A j \in 1..Len(rs) : i < j => RunEnd(rs[i]) <= rs[j].start
       /\ rs[i].cumulative = BeforeRun(rs, below, i) + rs[i].count * ShortfallOfWidth(rs[i].width)

DiscountsInOrder(ds, end) ==
  /\ ds \in Seq(Nat)
  /\ \A i \in 1..Len(ds) : ds[i] < end /\ \A j \in 1..Len(ds) : i < j => ds[i] <= ds[j]

(* How many of the characters from `start` on begin before an offset.      *)
CharsBefore(offset, start, width, count) ==
  IF offset <= start THEN 0 ELSE Smaller(DivCeil(offset - start, width), count)

(* Characters before an offset: none before the first, one more at each,   *)
(* all behind the last.                                                    *)
LEMMA CharsBeforeType ==
  ASSUME NEW offset \in Int, NEW start \in Nat, NEW width \in 2..4, NEW count \in Nat
  PROVE  /\ CharsBefore(offset, start, width, count) \in 0..count
         /\ offset <= start => CharsBefore(offset, start, width, count) = 0
         /\ \A q \in 0..count : start + q * width = offset
              => CharsBefore(offset, start, width, count) = q
         /\ offset >= start + count * width => CharsBefore(offset, start, width, count) = count
<1> DEFINE c == DivCeil(offset - start, width)
<1>1. /\ c \in Int
      /\ \A q \in Int : c <= q <=> offset - start <= q * width
      /\ offset - start > 0 => c > 0
  <2> DEFINE a == offset - start
  <2>1. a \in Int OBVIOUS
  <2> HIDE DEF a
  <2>2. /\ DivCeil(a, width) \in Int
        /\ \A q \in Int : DivCeil(a, width) <= q <=> a <= q * width
        /\ a > 0 => DivCeil(a, width) > 0
    BY <2>1, CeilIs
  <2> QED BY <2>2 DEF a
<1>2. \A q \in Int : q * width \in Int /\ (q - 1) * width = q * width - width
  BY TimesSmall
<1>3. count * width \in Nat BY TimesSmall
<1>4. CharsBefore(offset, start, width, count) =
        IF offset <= start THEN 0 ELSE IF c <= count THEN c ELSE count
  BY DEF CharsBefore, Smaller
<1> HIDE DEF c
<1>6. CharsBefore(offset, start, width, count) \in 0..count BY <1>1, <1>4
<1>7. ASSUME NEW q \in 0..count, start + q * width = offset
      PROVE  CharsBefore(offset, start, width, count) = q
  <2>1. q \in Int /\ q * width \in Int /\ (q - 1) * width = q * width - width BY <1>2
  <2>2. offset - start = q * width BY <1>7, <2>1
  <2>3. c <= q BY <1>1, <2>1, <2>2
  <2>4. ~(c <= q - 1)
    <3>1. q - 1 \in Int BY <2>1
    <3>2. ~(offset - start <= (q - 1) * width) BY <2>1, <2>2
    <3> QED BY <1>1, <3>1, <3>2
  <2>5. c = q BY <1>1, <2>1, <2>3, <2>4
  <2>6. CASE offset <= start
    <3>1. q * width <= 0 BY <1>7, <2>1, <2>6
    <3>2. q >= 0 => q = 0 \/ q * width >= 1
      BY TimesSmall
    <3> QED BY <1>4, <2>6, <3>1, <3>2, <2>1
  <2>7. CASE ~(offset <= start) BY <1>4, <2>5, <2>7
  <2> QED BY <2>6, <2>7
<1>8. ASSUME offset >= start + count * width
      PROVE  CharsBefore(offset, start, width, count) = count
  <2>1. (count - 1) * width = count * width - width /\ count - 1 \in Int BY <1>2
  <2>2. count # 0 => count * width > 0 BY <2>1, TimesSmall
  <2>3. CASE count = 0 BY <1>6, <2>3
  <2>4. CASE count # 0
    <3>1. offset > start BY <1>3, <1>8, <2>2, <2>4
    <3>2. ~(offset - start <= (count - 1) * width) BY <1>3, <1>8, <2>1
    <3>3. c > count - 1 BY <1>1, <2>1, <3>2
    <3> QED BY <1>1, <1>4, <3>1, <3>3
  <2> QED BY <2>3, <2>4
<1> QED BY <1>4, <1>6, <1>7, <1>8

LEMMA CharsAreCounted ==
  ASSUME NEW offset \in Int, NEW start \in Nat, NEW width \in 2..4, NEW count \in Nat
  PROVE  CharsBefore(offset, start, width, count) \in Nat
<1>1. CharsBefore(offset, start, width, count) \in 0..count BY CharsBeforeType, Zenon
<1> QED BY <1>1

LEMMA AllChars ==
  ASSUME NEW offset \in Int, NEW start \in Nat, NEW width \in 2..4, NEW count \in Nat,
         offset >= start + count * width
  PROVE  CharsBefore(offset, start, width, count) = count
BY CharsBeforeType, Zenon

(* Characters behind an offset do not matter to it.                        *)
LEMMA FurtherChars ==
  ASSUME NEW offset \in Int, NEW start \in Nat, NEW width \in 2..4, NEW count \in Nat,
         offset <= start + count * width, NEW more \in Nat, more >= count
  PROVE  CharsBefore(offset, start, width, more) = CharsBefore(offset, start, width, count)
<1> DEFINE a == offset - start
           c == DivCeil(a, width)
<1>1. count * width \in Nat BY TimesSmall
<1>2. a \in Int /\ a <= count * width BY <1>1
<1> HIDE DEF a
<1>3. c \in Int /\ c <= count
  <2>1. c \in Int /\ \A q \in Int : c <= q <=> a <= q * width BY <1>2, CeilIs
  <2>2. count \in Int OBVIOUS
  <2> HIDE DEF c
  <2> QED BY <1>2, <2>1, <2>2
<1> HIDE DEF c
<1>4. Smaller(c, more) = c /\ Smaller(c, count) = c BY <1>3 DEF Smaller
<1> QED BY <1>4 DEF CharsBefore, c, a

(* What is known of any run.                                               *)
LEMMA RunFacts ==
  ASSUME NEW r \in Runs
  PROVE  /\ r.start \in Nat /\ r.width \in 2..4 /\ r.count \in Nat \ {0} /\ r.cumulative \in Nat
         /\ r.count * r.width \in Nat /\ r.width <= r.count * r.width
         /\ RunEnd(r) \in Nat /\ RunEnd(r) > r.start
         /\ ShortfallOfWidth(r.width) \in 1..3
         /\ r.count * ShortfallOfWidth(r.width) \in Nat
<1>1. r.start \in Nat /\ r.width \in 2..4 /\ r.count \in Nat \ {0} /\ r.cumulative \in Nat
  BY DEF Runs
<1>2. r.count * r.width \in Nat /\ r.width <= r.count * r.width
  <2>1. r.width \in 0..4 /\ 1 <= r.count /\ r.count \in Int BY <1>1
  <2>2. 1 * r.width <= r.count * r.width /\ 1 * r.width = r.width BY <2>1, TimesSmall
  <2>3. r.count * r.width \in Nat BY <1>1, <2>1, TimesSmall
  <2> QED BY <2>2, <2>3
<1>3. RunEnd(r) \in Nat /\ RunEnd(r) > r.start BY <1>1, <1>2 DEF RunEnd
<1>4. r.width \in 1..4 /\ r.width # 1 BY <1>1
<1>5. ShortfallOfWidth(r.width) \in 1..3 BY <1>4, ShortfallType
<1>6. r.count * ShortfallOfWidth(r.width) \in Nat
  <2> DEFINE s == ShortfallOfWidth(r.width)
  <2>1. s \in 0..4 /\ r.count \in Int /\ r.count \in Nat BY <1>1, <1>5
  <2> HIDE DEF s
  <2>2. r.count * s \in Nat BY <2>1, TimesSmall
  <2> QED BY <2>2 DEF s
<1> QED BY <1>1, <1>2, <1>3, <1>5, <1>6

(* The runs that start before an offset are the first ones.                *)
LEMMA StartedIs ==
  ASSUME NEW rs, NEW below, NEW end, RunsInOrder(rs, below, end), NEW offset \in Int
  PROVE  /\ Started(rs, offset) \in 0..Len(rs)
         /\ \A i \in 1..Len(rs) : rs[i].start < offset <=> i <= Started(rs, offset)
<1> DEFINE S == {i \in DOMAIN rs : rs[i].start < offset}
<1>1. rs \in Seq(Runs) /\ Len(rs) \in Nat /\ DOMAIN rs = 1..Len(rs)
  <2>1. rs \in Seq(Runs) BY DEF RunsInOrder
  <2> QED BY <2>1
<1>2. \A i \in 1..Len(rs) : rs[i] \in Runs BY <1>1
<1>3. S \in SUBSET (1..Len(rs)) BY <1>1
<1>4. ASSUME NEW j \in 1..Len(rs), NEW k \in 1..Len(rs), j < k /\ k \in S PROVE j \in S
  <2>1. RunEnd(rs[j]) <= rs[k].start BY <1>4 DEF RunsInOrder
  <2>2. rs[j].start \in Nat /\ RunEnd(rs[j]) \in Nat /\ RunEnd(rs[j]) > rs[j].start
    BY <1>2, RunFacts
  <2>3. rs[k].start \in Nat BY <1>2, RunFacts
  <2> QED BY <1>1, <1>4, <2>1, <2>2, <2>3
<1>5. Started(rs, offset) = Cardinality(S) BY DEF Started
<1> HIDE DEF S
<1>6. Cardinality(S) \in 0..Len(rs) /\ S = 1..Cardinality(S)
  BY <1>1, <1>3, <1>4, BeginningIs
<1>7. \A i \in 1..Len(rs) : i \in S <=> i <= Cardinality(S) BY <1>6
<1>8. \A i \in 1..Len(rs) : rs[i].start < offset <=> i \in S BY <1>1 DEF S
<1> QED BY <1>5, <1>6, <1>7, <1>8

LEMMA StartedCounts ==
  ASSUME NEW rs, NEW n \in Nat, DOMAIN rs = 1..n, NEW offset, NEW m \in 0..n,
         \A i \in 1..n : rs[i].start < offset <=> i <= m
  PROVE  Started(rs, offset) = m
<1> DEFINE S == {i \in DOMAIN rs : rs[i].start < offset}
<1>1. S \in SUBSET (1..n) /\ \A i \in 1..n : i \in S <=> i <= m OBVIOUS
<1>2. Started(rs, offset) = Cardinality(S) BY DEF Started
<1> HIDE DEF S
<1> QED BY <1>1, <1>2, CountIs

(* Likewise the entries below it.                                          *)
Below(ds, offset) == Cardinality({i \in DOMAIN ds : ds[i] < offset})

(* The entries below an offset are the first ones.                         *)
LEMMA BelowIs ==
  ASSUME NEW ds, NEW end, DiscountsInOrder(ds, end), NEW offset \in Int
  PROVE  /\ Below(ds, offset) \in 0..Len(ds)
         /\ \A i \in 1..Len(ds) : ds[i] < offset <=> i <= Below(ds, offset)
<1> DEFINE S == {i \in DOMAIN ds : ds[i] < offset}
<1>1. ds \in Seq(Nat) /\ Len(ds) \in Nat /\ DOMAIN ds = 1..Len(ds)
  <2>1. ds \in Seq(Nat) BY DEF DiscountsInOrder
  <2> QED BY <2>1
<1>2. \A i \in 1..Len(ds) : ds[i] \in Nat BY <1>1
<1>3. S \in SUBSET (1..Len(ds)) BY <1>1
<1>4. ASSUME NEW j \in 1..Len(ds), NEW k \in 1..Len(ds), j < k /\ k \in S PROVE j \in S
  <2>1. ds[j] <= ds[k] BY <1>4 DEF DiscountsInOrder
  <2> QED BY <1>1, <1>2, <1>4, <2>1
<1>5. Below(ds, offset) = Cardinality(S) BY DEF Below
<1> HIDE DEF S
<1>6. Cardinality(S) \in 0..Len(ds) /\ S = 1..Cardinality(S)
  BY <1>1, <1>3, <1>4, BeginningIs
<1>7. \A i \in 1..Len(ds) : i \in S <=> i <= Cardinality(S) BY <1>6
<1>8. \A i \in 1..Len(ds) : ds[i] < offset <=> i \in S BY <1>1 DEF S
<1> QED BY <1>5, <1>6, <1>7, <1>8

LEMMA BelowCounts ==
  ASSUME NEW ds, NEW n \in Nat, DOMAIN ds = 1..n, NEW offset, NEW m \in 0..n,
         \A i \in 1..n : ds[i] < offset <=> i <= m
  PROVE  Below(ds, offset) = m
<1> DEFINE S == {i \in DOMAIN ds : ds[i] < offset}
<1>1. S \in SUBSET (1..n) /\ \A i \in 1..n : i \in S <=> i <= m OBVIOUS
<1>2. Below(ds, offset) = Cardinality(S) BY DEF Below
<1> HIDE DEF S
<1> QED BY <1>1, <1>2, CountIs

(* The shortfall of the runs before an offset.                             *)
LEMMA InRunsIs ==
  ASSUME NEW rs, NEW below, NEW end, RunsInOrder(rs, below, end), NEW offset \in Int
  PROVE  LET m == Started(rs, offset) IN
         InRuns(rs, below, offset) =
           IF m = 0 THEN below
           ELSE BeforeRun(rs, below, m)
                  + CharsBefore(offset, rs[m].start, rs[m].width, rs[m].count)
                      * ShortfallOfWidth(rs[m].width)
<1> DEFINE m == Started(rs, offset)
<1>1. m \in 0..Len(rs) /\ \A i \in 1..Len(rs) : rs[i].start < offset <=> i <= m
  BY StartedIs
<1>2. CASE m = 0 BY <1>2 DEF InRuns
<1>3. CASE m # 0
  <2>1. rs \in Seq(Runs) BY DEF RunsInOrder
  <2>2. m \in 1..Len(rs) /\ rs[m] \in Runs BY <1>1, <1>3, <2>1
  <2>3. rs[m].start < offset /\ rs[m].start \in Nat
    <3>1. rs[m].start \in Nat BY <2>2, RunFacts
    <3>2. m <= m BY <2>2
    <3> QED BY <1>1, <2>2, <3>1, <3>2
  <2>4. CharsBefore(offset, rs[m].start, rs[m].width, rs[m].count) =
          Smaller(DivCeil(offset - rs[m].start, rs[m].width), rs[m].count)
    BY <2>3 DEF CharsBefore
  <2> HIDE DEF m
  <2>5. Started(rs, offset) = m BY DEF m
  <2>6. InRuns(rs, below, offset) =
          BeforeRun(rs, below, m)
            + Smaller(DivCeil(offset - rs[m].start, rs[m].width), rs[m].count)
                * ShortfallOfWidth(rs[m].width)
    BY <1>3, <2>5, Zenon DEF InRuns
  <2> QED BY <1>3, <2>4, <2>5, <2>6
<1> QED BY <1>2, <1>3

(* Behind all of them it is what the last one says.                        *)
AllRuns(rs, below) == IF rs = <<>> THEN below ELSE rs[Len(rs)].cumulative

LEMMA BehindAllRuns ==
  ASSUME NEW rs, NEW below \in Nat, NEW end \in Nat, RunsInOrder(rs, below, end),
         NEW offset \in Int, offset >= end
  PROVE  InRuns(rs, below, offset) = AllRuns(rs, below)
<1> DEFINE n == Len(rs)
<1>1. rs \in Seq(Runs) /\ n \in Nat /\ DOMAIN rs = 1..n
  <2>1. rs \in Seq(Runs) BY DEF RunsInOrder
  <2> QED BY <2>1
<1>2. \A i \in 1..n : rs[i] \in Runs BY <1>1
<1>3. ASSUME NEW i \in 1..n PROVE rs[i].start < offset /\ RunEnd(rs[i]) <= offset
  <2>1. RunEnd(rs[i]) <= end BY DEF RunsInOrder
  <2>2. rs[i].start \in Nat /\ RunEnd(rs[i]) \in Nat /\ RunEnd(rs[i]) > rs[i].start
    BY <1>2, RunFacts
  <2> QED BY <2>1, <2>2
<1>4. Started(rs, offset) = n
  <2>1. n \in 0..n /\ \A i \in 1..n : rs[i].start < offset <=> i <= n BY <1>1, <1>3
  <2> QED BY <1>1, <2>1, StartedCounts
<1>5. CASE n = 0
  <2>1. rs = <<>> BY <1>1, <1>5
  <2>2. InRuns(rs, below, offset) = below BY <1>4, <1>5, InRunsIs
  <2> QED BY <2>1, <2>2 DEF AllRuns
<1>6. CASE n # 0
  <2>1. n \in 1..n /\ rs # <<>> BY <1>1, <1>6
  <2>2. /\ rs[n].start \in Nat /\ rs[n].width \in 2..4 /\ rs[n].count \in Nat
        /\ RunEnd(rs[n]) = rs[n].start + rs[n].count * rs[n].width
    BY <1>2, <2>1, RunFacts DEF RunEnd
  <2>3. offset >= rs[n].start + rs[n].count * rs[n].width
    <3>1. RunEnd(rs[n]) <= offset BY <1>3, <2>1
    <3>2. RunEnd(rs[n]) \in Nat BY <1>2, <2>1, RunFacts
    <3> QED BY <2>2, <3>1, <3>2
  <2>4. CharsBefore(offset, rs[n].start, rs[n].width, rs[n].count) = rs[n].count
    <3> DEFINE s == rs[n].start
               w == rs[n].width
               c == rs[n].count
    <3>1. s \in Nat /\ w \in 2..4 /\ c \in Nat /\ offset >= s + c * w BY <2>2, <2>3
    <3> HIDE DEF s, w, c
    <3>2. CharsBefore(offset, s, w, c) = c BY <3>1, CharsBeforeType
    <3> QED BY <3>2 DEF s, w, c
  <2>5. InRuns(rs, below, offset) =
          BeforeRun(rs, below, n) + rs[n].count * ShortfallOfWidth(rs[n].width)
    BY <1>4, <1>6, <2>4, InRunsIs
  <2>6. rs[n].cumulative = BeforeRun(rs, below, n) + rs[n].count * ShortfallOfWidth(rs[n].width)
    BY <2>1 DEF RunsInOrder
  <2> QED BY <2>1, <2>5, <2>6 DEF AllRuns
<1> QED BY <1>5, <1>6

------------------------------------------------------------------------------
(* record.                                                                 *)

(* Characters behind `count` others of their width.                        *)
LEMMA CharsGoOn ==
  ASSUME NEW offset \in Int, NEW start \in Nat, NEW width \in 2..4, NEW count \in Nat,
         NEW more \in Nat
  PROVE  CharsBefore(offset, start, width, count + more) =
           CharsBefore(offset, start, width, count)
             + CharsBefore(offset, start + count * width, width, more)
<1> DEFINE middle == start + count * width
<1>1. count * width \in Nat /\ middle \in Nat BY TimesSmall
<1>2. CASE offset <= middle
  <2>1. CharsBefore(offset, middle, width, more) = 0 BY <1>2 DEF CharsBefore
  <2>2. CharsBefore(offset, start, width, count + more) = CharsBefore(offset, start, width, count)
    <3>1. count + more \in Nat /\ count + more >= count OBVIOUS
    <3> QED BY <1>2, <3>1, FurtherChars, Zenon
  <2>3. CharsBefore(offset, start, width, count) \in Nat BY CharsAreCounted, Zenon
  <2> QED BY <2>1, <2>2, <2>3
<1>3. CASE ~(offset <= middle)
  <2> DEFINE a == offset - middle
  <2>1. a \in Int /\ offset - start = a + count * width /\ offset > start BY <1>1, <1>3
  <2>2. DivCeil(a + count * width, width) = DivCeil(a, width) + count /\ DivCeil(a, width) \in Int
    <3> HIDE DEF a, middle
    <3>1. CASE width = 2 BY <2>1, <3>1 DEF DivCeil
    <3>2. CASE width = 3 BY <2>1, <3>2 DEF DivCeil
    <3>3. CASE width = 4 BY <2>1, <3>3 DEF DivCeil
    <3> QED BY <3>1, <3>2, <3>3
  <2>3. CharsBefore(offset, start, width, count) = count
    <3>1. offset >= start + count * width BY <1>1, <1>3
    <3> QED BY <3>1, AllChars, Zenon
  <2>4. CharsBefore(offset, start, width, count + more) =
          Smaller(DivCeil(a + count * width, width), count + more)
    BY <2>1 DEF CharsBefore
  <2>5. CharsBefore(offset, middle, width, more) = Smaller(DivCeil(a, width), more)
    BY <1>3 DEF CharsBefore
  <2> HIDE DEF a, middle
  <2>6. Smaller(DivCeil(a, width) + count, count + more) = count + Smaller(DivCeil(a, width), more)
    BY <2>2 DEF Smaller
  <2> QED BY <2>2, <2>3, <2>4, <2>5, <2>6 DEF middle
<1> QED BY <1>2, <1>3

(* Entries of one character each.                                          *)
LEMMA EntriesOf ==
  ASSUME NEW k \in Nat \ {0}, NEW short \in 1..3
  PROVE  /\ (k - 1) \div short \in Nat
         /\ \A c \in Int : (k - 1) \div short < c <=> k <= c * short
         /\ \A j \in Nat : j >= k => (k - 1) \div short <= (j - 1) \div short
<1>1. CASE short = 1 BY <1>1
<1>2. CASE short = 2 BY <1>2
<1>3. CASE short = 3 BY <1>3
<1> QED BY <1>1, <1>2, <1>3

RecordedRuns(rs, new, below, start, width, count) ==
  /\ RunsInOrder(new, below, start + count * width)
  /\ \A offset \in Int :
       InRuns(new, below, offset) =
         InRuns(rs, below, offset)
           + CharsBefore(offset, start, width, count) * ShortfallOfWidth(width)

(* What the runs say is a number.                                          *)
LEMMA InRunsType ==
  ASSUME NEW rs, NEW below \in Nat, NEW end, RunsInOrder(rs, below, end), NEW offset \in Int
  PROVE  /\ InRuns(rs, below, offset) \in Nat
         /\ \A i \in 1..Len(rs) : BeforeRun(rs, below, i) \in Nat
<1>1. rs \in Seq(Runs) BY DEF RunsInOrder
<1>2. ASSUME NEW i \in 1..Len(rs) PROVE BeforeRun(rs, below, i) \in Nat
  <2>1. CASE i = 1 BY <2>1 DEF BeforeRun
  <2>2. CASE i # 1
    <3>1. i - 1 \in 1..Len(rs) BY <1>1, <2>2
    <3>2. rs[i - 1] \in Runs BY <1>1, <3>1
    <3>3. rs[i - 1].cumulative \in Nat BY <3>2, RunFacts
    <3> QED BY <2>2, <3>3 DEF BeforeRun
  <2> QED BY <2>1, <2>2
<1> DEFINE m == Started(rs, offset)
<1>3. m \in 0..Len(rs) BY StartedIs
<1>4. ASSUME m = 0 PROVE InRuns(rs, below, offset) \in Nat BY <1>4, InRunsIs
<1>5. ASSUME m # 0 PROVE InRuns(rs, below, offset) \in Nat
  <2>1. m \in 1..Len(rs) /\ rs[m] \in Runs BY <1>1, <1>3, <1>5
  <2> DEFINE c == CharsBefore(offset, rs[m].start, rs[m].width, rs[m].count)
             s == ShortfallOfWidth(rs[m].width)
  <2>2. c \in Nat /\ s \in 0..4
    <3>1. s \in 1..3 /\ rs[m].start \in Nat /\ rs[m].width \in 2..4 /\ rs[m].count \in Nat
      BY <2>1, RunFacts
    <3>2. c \in 0..rs[m].count
      <4> DEFINE x == rs[m].start
                 w == rs[m].width
                 n == rs[m].count
      <4>1. x \in Nat /\ w \in 2..4 /\ n \in Nat BY <3>1
      <4> HIDE DEF x, w, n
      <4>2. CharsBefore(offset, x, w, n) \in 0..n BY <4>1, CharsBeforeType
      <4> QED BY <4>2 DEF x, w, n
    <3> QED BY <3>1, <3>2
  <2>3. InRuns(rs, below, offset) = BeforeRun(rs, below, m) + c * s
    BY <1>5, InRunsIs
  <2> HIDE DEF c, s, m
  <2>4. c * s \in Nat
    <3>1. c \in Int BY <2>2
    <3> QED BY <2>2, <3>1, TimesSmall
  <2>5. BeforeRun(rs, below, m) \in Nat BY <1>2, <2>1
  <2> QED BY <2>3, <2>4, <2>5
<1> QED BY <1>2, <1>4, <1>5

(* Onto the last run.                                                      *)
LEMMA RunExtended ==
  ASSUME NEW rs, NEW below \in Nat, NEW start \in Nat, RunsInOrder(rs, below, start), rs # <<>>,
         NEW width \in 2..4, NEW count \in Nat \ {0},
         rs[Len(rs)].width = width, RunEnd(rs[Len(rs)]) = start,
         NEW new,
         new = [rs EXCEPT ![Len(rs)].count = @ + count,
                          ![Len(rs)].cumulative = @ + count * ShortfallOfWidth(width)]
  PROVE  RecordedRuns(rs, new, below, start, width, count)
<1> DEFINE n == Len(rs)
           short == ShortfallOfWidth(width)
           last == [start |-> rs[n].start, width |-> width, count |-> rs[n].count + count,
                    cumulative |-> rs[n].cumulative + count * short]
<1>1. rs \in Seq(Runs) /\ n \in Nat /\ n # 0 /\ DOMAIN rs = 1..n
  <2>1. rs \in Seq(Runs) BY DEF RunsInOrder
  <2> QED BY <2>1
<1>2. \A i \in 1..n : rs[i] \in Runs BY <1>1
<1>3. n \in 1..n /\ rs[n] \in Runs BY <1>1, <1>2
<1>4. /\ short \in 1..3 /\ count * short \in Nat /\ count * width \in Nat
      /\ (rs[n].count + count) * width = rs[n].count * width + count * width
      /\ (rs[n].count + count) * short = rs[n].count * short + count * short
  <2>1. short \in 1..3
    <3>1. width \in 1..4 /\ width # 1 OBVIOUS
    <3> QED BY <3>1, ShortfallType
  <2>2. short \in 0..4 /\ width \in 0..4 /\ count \in Nat /\ count \in Int BY <2>1
  <2> HIDE DEF short
  <2>3. rs[n].count \in Int BY <1>3, RunFacts
  <2> DEFINE c == rs[n].count
  <2> HIDE DEF c
  <2>4. c \in Int BY <2>3 DEF c
  <2>5. /\ count * short \in Nat /\ count * width \in Nat
        /\ (c + count) * width = c * width + count * width
        /\ (c + count) * short = c * short + count * short
    BY <2>2, <2>4, TimesSmall
  <2> QED BY <2>1, <2>5 DEF c
<1>5. /\ rs[n].start \in Nat /\ rs[n].count \in Nat \ {0} /\ rs[n].cumulative \in Nat
      /\ rs[n].width = width /\ rs[n].count * width \in Nat
      /\ start = rs[n].start + rs[n].count * width
  BY <1>3, RunFacts DEF RunEnd
<1>6. last \in Runs
  <2> HIDE DEF short
  <2>1. rs[n].count + count \in Nat \ {0} /\ rs[n].cumulative + count * short \in Nat
    <3> DEFINE added == count * short
    <3>1. added \in Nat BY <1>4
    <3> HIDE DEF added
    <3>2. rs[n].count \in Nat \ {0} /\ rs[n].cumulative \in Nat BY <1>5
    <3>3. rs[n].count + count \in Nat \ {0} /\ rs[n].cumulative + added \in Nat BY <3>1, <3>2
    <3> QED BY <3>3 DEF added
  <2>2. last = [start |-> rs[n].start, width |-> width, count |-> rs[n].count + count,
                cumulative |-> rs[n].cumulative + count * short]
    OBVIOUS
  <2> HIDE DEF last
  <2> QED BY <1>5, <2>1, <2>2 DEF Runs
<1>7. new = [rs EXCEPT ![n] = last]
  <2>1. rs[n] = [start |-> rs[n].start, width |-> rs[n].width, count |-> rs[n].count,
                 cumulative |-> rs[n].cumulative]
    BY <1>3 DEF Runs
  <2> HIDE DEF short
  <2>2. [[rs[n] EXCEPT !.count = @ + count] EXCEPT !.cumulative = @ + count * short] = last
    <3> DEFINE s == rs[n].start
               w == rs[n].width
               c == rs[n].count
               all == rs[n].cumulative
               added == count * short
    <3>1. rs[n] = [start |-> s, width |-> w, count |-> c, cumulative |-> all] BY <2>1
    <3>2. last = [start |-> s, width |-> width, count |-> c + count, cumulative |-> all + added]
      OBVIOUS
    <3>3. w = width BY <1>5
    <3> HIDE DEF s, w, c, all, added, last
    <3>4. [rs[n] EXCEPT !.count = @ + count]
            = [start |-> s, width |-> w, count |-> c + count, cumulative |-> all]
      BY <3>1
    <3>5. [[rs[n] EXCEPT !.count = @ + count] EXCEPT !.cumulative = @ + added]
            = [start |-> s, width |-> w, count |-> c + count, cumulative |-> all + added]
      <4> DEFINE middle == [rs[n] EXCEPT !.count = @ + count]
      <4>1. middle = [start |-> s, width |-> w, count |-> c + count, cumulative |-> all]
        BY <3>4
      <4> HIDE DEF middle
      <4>2. [middle EXCEPT !.cumulative = @ + added]
              = [start |-> s, width |-> w, count |-> c + count, cumulative |-> all + added]
        BY <4>1
      <4> QED BY <4>2 DEF middle
    <3>6. [[rs[n] EXCEPT !.count = @ + count] EXCEPT !.cumulative = @ + added] = last
      BY <3>2, <3>3, <3>5
    <3> QED BY <3>6 DEF added
  <2>3. new = [rs EXCEPT ![n] = [[rs[n] EXCEPT !.count = @ + count]
                                   EXCEPT !.cumulative = @ + count * short]]
    BY <1>1 DEF short
  <2> QED BY <2>2, <2>3
<1>8. /\ new \in Seq(Runs) /\ Len(new) = n /\ DOMAIN new = 1..n
      /\ new[n] = last /\ \A i \in 1..n : i # n => new[i] = rs[i]
      /\ new # <<>>
  <2> HIDE DEF last, n
  <2>1. new \in Seq(Runs) BY <1>1, <1>6, <1>7
  <2>2. DOMAIN new = 1..n BY <1>1, <1>7
  <2>3. Len(new) = n BY <1>1, <2>1, <2>2
  <2>4. new[n] = last /\ \A i \in 1..n : i # n => new[i] = rs[i] BY <1>1, <1>3, <1>7
  <2> QED BY <1>1, <2>1, <2>2, <2>3, <2>4
<1>9. \A i \in 1..n : new[i].start = rs[i].start BY <1>8
<1>10. \A i \in 1..n : BeforeRun(new, below, i) = BeforeRun(rs, below, i)
  <2> TAKE i \in 1..n
  <2>1. i # 1 => i - 1 \in 1..n /\ i - 1 # n BY <1>1
  <2>2. i # 1 => new[i - 1] = rs[i - 1] BY <1>8, <2>1
  <2> QED BY <2>2 DEF BeforeRun
<1>11. RunEnd(last) = start + count * width BY <1>4, <1>5 DEF RunEnd
<1> HIDE DEF last, short
<1>12. RunsInOrder(new, below, start + count * width)
  <2> SUFFICES ASSUME NEW i \in 1..n
               PROVE  /\ RunEnd(new[i]) <= start + count * width
                      /\ \A j \in 1..n : i < j => RunEnd(new[i]) <= new[j].start
                      /\ new[i].cumulative =
                           BeforeRun(new, below, i) + new[i].count * ShortfallOfWidth(new[i].width)
    BY <1>8 DEF RunsInOrder
  <2>1. /\ RunEnd(rs[i]) <= start
        /\ \A j \in 1..n : i < j => RunEnd(rs[i]) <= rs[j].start
        /\ rs[i].cumulative = BeforeRun(rs, below, i) + rs[i].count * ShortfallOfWidth(rs[i].width)
    BY DEF RunsInOrder
  <2>2. RunEnd(rs[i]) \in Nat BY <1>2, RunFacts
  <2>3. CASE i # n
    <3>1. new[i] = rs[i] BY <1>8, <2>3
    <3>2. RunEnd(rs[i]) <= start + count * width BY <1>4, <2>1, <2>2
    <3> QED BY <1>9, <1>10, <2>1, <3>1, <3>2
  <2>4. CASE i = n
    <3>1. \A j \in 1..n : ~(n < j) BY <1>1
    <3>2. new[n].cumulative =
            BeforeRun(new, below, n) + new[n].count * ShortfallOfWidth(new[n].width)
      <4>1. rs[n].cumulative = BeforeRun(rs, below, n) + rs[n].count * short
        BY <1>5, <2>1, <2>4 DEF short
      <4>2. BeforeRun(rs, below, n) \in Nat BY <1>3, InRunsType, 0 \in Int
      <4>3. rs[n].count * short \in Nat
        <5>1. rs[n].count * ShortfallOfWidth(rs[n].width) \in Nat BY <1>3, RunFacts
        <5> QED BY <1>5, <5>1 DEF short
      <4>4. /\ new[n].cumulative = rs[n].cumulative + count * short
            /\ new[n].count = rs[n].count + count /\ new[n].width = width
        <5>1. new[n] = last BY <1>8
        <5>2. /\ last.cumulative = rs[n].cumulative + count * short
              /\ last.count = rs[n].count + count /\ last.width = width
          BY DEF last
        <5> QED BY <5>1, <5>2, Zenon
      <4>5. new[n].cumulative = BeforeRun(rs, below, n) + (rs[n].count + count) * short
        BY <1>4, <4>1, <4>2, <4>3, <4>4
      <4>6. BeforeRun(new, below, n) = BeforeRun(rs, below, n) BY <1>3, <1>10
      <4> QED BY <4>4, <4>5, <4>6 DEF short
    <3>3. RunEnd(new[n]) = start + count * width BY <1>8, <1>11
    <3>4. start + count * width <= start + count * width BY <1>4
    <3> QED BY <2>4, <3>1, <3>2, <3>3, <3>4
  <2> QED BY <2>3, <2>4
<1>13. ASSUME NEW offset \in Int
       PROVE  InRuns(new, below, offset) =
                InRuns(rs, below, offset) + CharsBefore(offset, start, width, count) * short
  <2> DEFINE m == Started(rs, offset)
  <2>1. m \in 0..n /\ \A i \in 1..n : rs[i].start < offset <=> i <= m BY StartedIs
  <2> HIDE DEF m
  <2>2. Started(new, offset) = m
    <3>1. \A i \in 1..n : new[i].start < offset <=> i <= m BY <1>9, <2>1
    <3> QED BY <1>1, <1>8, <2>1, <3>1, StartedCounts
  <2>3. CASE m < n
    <3>1. ~(rs[n].start < offset) BY <1>3, <2>1, <2>3
    <3>2. offset <= start BY <1>5, <3>1
    <3>3. CharsBefore(offset, start, width, count) = 0 BY <3>2 DEF CharsBefore
    <3>4. 0 * short = 0 BY <1>4
    <3>5. m # 0 => new[m] = rs[m] /\ m \in 1..n BY <1>8, <2>1, <2>3
    <3>6. InRuns(new, below, offset) = InRuns(rs, below, offset)
      <4>1. CASE m = 0
        <5>1. InRuns(new, below, offset) = below BY <1>12, <2>2, <4>1, InRunsIs
        <5>2. InRuns(rs, below, offset) = below BY <4>1, InRunsIs DEF m
        <5> QED BY <5>1, <5>2
      <4>2. CASE m # 0
        <5> DEFINE tail(r) == CharsBefore(offset, r.start, r.width, r.count) * ShortfallOfWidth(r.width)
        <5>1. InRuns(new, below, offset) = BeforeRun(new, below, m) + tail(new[m])
          BY <1>12, <2>2, <4>2, InRunsIs
        <5>2. InRuns(rs, below, offset) = BeforeRun(rs, below, m) + tail(rs[m])
          BY <4>2, InRunsIs DEF m
        <5> HIDE DEF tail
        <5> QED BY <1>10, <3>5, <4>2, <5>1, <5>2
      <4> QED BY <4>1, <4>2
    <3>7. InRuns(rs, below, offset) \in Nat BY InRunsType
    <3> QED BY <3>3, <3>4, <3>6, <3>7
  <2>4. CASE m = n
    <3> DEFINE s == rs[n].start
               c == rs[n].count
               b == BeforeRun(rs, below, n)
               x == CharsBefore(offset, s, width, c)
               y == CharsBefore(offset, start, width, count)
    <3>0. /\ s \in Nat /\ c \in Nat /\ start = s + c * width
          /\ b \in Nat
      BY <1>3, <1>5, InRunsType
    <3>1. InRuns(rs, below, offset) = b + x * short
      <4>1. InRuns(rs, below, offset) = b + CharsBefore(offset, s, rs[n].width, c)
                                             * ShortfallOfWidth(rs[n].width)
        BY <1>1, <2>4, InRunsIs DEF m
      <4> QED BY <1>5, <4>1 DEF short
    <3>2. InRuns(new, below, offset) = b + CharsBefore(offset, s, width, c + count) * short
      <4>1. InRuns(new, below, offset) =
              BeforeRun(new, below, n)
                + CharsBefore(offset, new[n].start, new[n].width, new[n].count)
                    * ShortfallOfWidth(new[n].width)
        BY <1>1, <1>12, <2>2, <2>4, InRunsIs
      <4>2. new[n].start = s /\ new[n].width = width /\ new[n].count = c + count
        BY <1>8 DEF last
      <4>3. BeforeRun(new, below, n) = b BY <1>3, <1>10
      <4> QED BY <4>1, <4>2, <4>3 DEF short
    <3> HIDE DEF s, c, b
    <3>3. CharsBefore(offset, s, width, c + count) = x + y
      <4>1. count \in Nat OBVIOUS
      <4>2. CharsBefore(offset, s, width, c + count) =
              CharsBefore(offset, s, width, c) + CharsBefore(offset, s + c * width, width, count)
        <5>1. \A p, k, l \in Nat :
                CharsBefore(offset, p, width, k + l) =
                  CharsBefore(offset, p, width, k) + CharsBefore(offset, p + k * width, width, l)
          BY CharsGoOn
        <5>2. s \in Nat /\ c \in Nat BY <3>0
        <5> QED BY <4>1, <5>1, <5>2
      <4> QED BY <3>0, <4>2
    <3>4. x \in Int /\ y \in Int
      <4>1. count \in Nat OBVIOUS
      <4> QED BY <3>0, <4>1, CharsBeforeType
    <3> HIDE DEF x, y
    <3>5. short \in 0..4 BY <1>4
    <3>6. (x + y) * short = x * short + y * short /\ x * short \in Int /\ y * short \in Int
      BY <3>4, <3>5, TimesSmall
    <3> QED BY <3>0, <3>1, <3>2, <3>3, <3>6 DEF y
  <2> QED BY <1>1, <2>1, <2>3, <2>4
<1> QED BY <1>12, <1>13 DEF RecordedRuns, short

(* As a new run.                                                           *)
LEMMA RunAppended ==
  ASSUME NEW rs, NEW below \in Nat, NEW start \in Nat, RunsInOrder(rs, below, start),
         NEW width \in 2..4, NEW count \in Nat \ {0},
         NEW new,
         new = Append(rs, Run(start, width, count,
                              AllRuns(rs, below) + count * ShortfallOfWidth(width)))
  PROVE  RecordedRuns(rs, new, below, start, width, count)
<1> DEFINE n == Len(rs)
           short == ShortfallOfWidth(width)
           all == AllRuns(rs, below)
           last == Run(start, width, count, all + count * short)
<1>1. rs \in Seq(Runs) /\ n \in Nat /\ DOMAIN rs = 1..n
  <2>1. rs \in Seq(Runs) BY DEF RunsInOrder
  <2> QED BY <2>1
<1>2. \A i \in 1..n : rs[i] \in Runs BY <1>1
<1>3. short \in 1..3
  <2>1. width \in 1..4 /\ width # 1 OBVIOUS
  <2> QED BY <2>1, ShortfallType
<1>4. count * short \in Nat /\ count * width \in Nat
  <2> HIDE DEF short
  <2>1. short \in 0..4 /\ width \in 0..4 /\ count \in Nat /\ count \in Int BY <1>3
  <2> QED BY <2>1, TimesSmall
<1>5. all \in Nat
  <2>1. CASE rs = <<>> BY <2>1 DEF AllRuns
  <2>2. CASE rs # <<>>
    <3>1. n \in 1..n BY <1>1, <2>2
    <3>2. rs[n].cumulative \in Nat BY <1>2, <3>1, RunFacts
    <3> QED BY <2>2, <3>2 DEF AllRuns
  <2> QED BY <2>1, <2>2
<1>6. /\ last.start = start /\ last.width = width /\ last.count = count
      /\ last.cumulative = all + count * short /\ last \in Runs
      /\ RunEnd(last) = start + count * width
  <2> DEFINE sum == all + count * short
  <2>1. sum \in Nat BY <1>4, <1>5
  <2>2. last = [start |-> start, width |-> width, count |-> count, cumulative |-> sum]
    BY DEF Run
  <2> HIDE DEF sum, last
  <2> QED BY <2>1, <2>2 DEF sum, Runs, RunEnd
<1>7. new = Append(rs, last) OBVIOUS
<1> HIDE DEF last, all, short
<1>8. /\ new \in Seq(Runs) /\ Len(new) = n + 1 /\ DOMAIN new = 1..(n + 1)
      /\ new[n + 1] = last /\ \A i \in 1..n : new[i] = rs[i]
  BY <1>1, <1>6, <1>7
<1>9. \A i \in 1..n : BeforeRun(new, below, i) = BeforeRun(rs, below, i)
  <2> TAKE i \in 1..n
  <2>1. i # 1 => i - 1 \in 1..n BY <1>1
  <2>2. i # 1 => new[i - 1] = rs[i - 1] BY <1>8, <2>1
  <2> QED BY <2>2 DEF BeforeRun
<1>10. BeforeRun(new, below, n + 1) = all
  <2>1. CASE rs = <<>>
    <3>1. n + 1 = 1 BY <2>1
    <3> QED BY <2>1, <3>1 DEF BeforeRun, AllRuns, all
  <2>2. CASE rs # <<>>
    <3>1. n + 1 # 1 /\ (n + 1) - 1 = n /\ n \in 1..n BY <1>1, <2>2
    <3>2. new[n] = rs[n] BY <1>8, <3>1
    <3> QED BY <2>2, <3>1, <3>2 DEF BeforeRun, AllRuns, all
  <2> QED BY <2>1, <2>2
<1>11. RunsInOrder(new, below, start + count * width)
  <2> SUFFICES ASSUME NEW i \in 1..(n + 1)
               PROVE  /\ RunEnd(new[i]) <= start + count * width
                      /\ \A j \in 1..(n + 1) : i < j => RunEnd(new[i]) <= new[j].start
                      /\ new[i].cumulative =
                           BeforeRun(new, below, i) + new[i].count * ShortfallOfWidth(new[i].width)
    BY <1>8 DEF RunsInOrder
  <2>1. CASE i \in 1..n
    <3>1. /\ RunEnd(rs[i]) <= start
          /\ \A j \in 1..n : i < j => RunEnd(rs[i]) <= rs[j].start
          /\ rs[i].cumulative = BeforeRun(rs, below, i) + rs[i].count * ShortfallOfWidth(rs[i].width)
      BY <2>1 DEF RunsInOrder
    <3>2. RunEnd(rs[i]) \in Nat BY <1>2, <2>1, RunFacts
    <3>3. new[i] = rs[i] BY <1>8, <2>1
    <3>4. RunEnd(new[i]) <= start + count * width BY <1>4, <3>1, <3>2, <3>3
    <3>5. ASSUME NEW j \in 1..(n + 1), i < j PROVE RunEnd(new[i]) <= new[j].start
      <4>1. CASE j \in 1..n BY <1>8, <3>1, <3>3, <3>5, <4>1
      <4>2. CASE j = n + 1 BY <1>6, <1>8, <3>1, <3>3, <4>2
      <4> QED BY <1>1, <4>1, <4>2
    <3>6. BeforeRun(new, below, i) = BeforeRun(rs, below, i) BY <1>9, <2>1
    <3> QED BY <3>1, <3>3, <3>4, <3>5, <3>6
  <2>2. CASE i = n + 1
    <3>1. \A j \in 1..(n + 1) : ~(n + 1 < j) BY <1>1
    <3>2. new[n + 1].cumulative = BeforeRun(new, below, n + 1)
                                    + new[n + 1].count * ShortfallOfWidth(new[n + 1].width)
      BY <1>6, <1>8, <1>10 DEF short
    <3>3. RunEnd(new[n + 1]) = start + count * width BY <1>6, <1>8
    <3>4. start + count * width <= start + count * width BY <1>4
    <3> QED BY <2>2, <3>1, <3>2, <3>3, <3>4
  <2> QED BY <1>1, <2>1, <2>2
<1>12. ASSUME NEW offset \in Int
       PROVE  InRuns(new, below, offset) =
                InRuns(rs, below, offset) + CharsBefore(offset, start, width, count) * short
  <2> DEFINE m == Started(rs, offset)
  <2>1. m \in 0..n /\ \A i \in 1..n : rs[i].start < offset <=> i <= m BY StartedIs
  <2>2. CASE offset <= start
    <3> HIDE DEF m
    <3>1. Started(new, offset) = m
      <4>1. \A i \in 1..(n + 1) : new[i].start < offset <=> i <= m
        <5> TAKE i \in 1..(n + 1)
        <5>1. CASE i \in 1..n BY <1>8, <2>1, <5>1
        <5>2. CASE i = n + 1 BY <1>1, <1>6, <1>8, <2>1, <2>2, <5>2
        <5> QED BY <1>1, <5>1, <5>2
      <4>2. n + 1 \in Nat /\ m \in 0..(n + 1) BY <1>1, <2>1
      <4> QED BY <1>8, <4>1, <4>2, StartedCounts
    <3>2. CharsBefore(offset, start, width, count) = 0 BY <2>2 DEF CharsBefore
    <3>3. 0 * short = 0 BY <1>3
    <3>4. InRuns(new, below, offset) = InRuns(rs, below, offset)
      <4>1. CASE m = 0
        <5>1. InRuns(new, below, offset) = below BY <1>11, <3>1, <4>1, InRunsIs
        <5>2. InRuns(rs, below, offset) = below BY <4>1, InRunsIs DEF m
        <5> QED BY <5>1, <5>2
      <4>2. CASE m # 0
        <5> DEFINE tail(r) == CharsBefore(offset, r.start, r.width, r.count) * ShortfallOfWidth(r.width)
        <5>1. InRuns(new, below, offset) = BeforeRun(new, below, m) + tail(new[m])
          BY <1>11, <3>1, <4>2, InRunsIs
        <5>2. InRuns(rs, below, offset) = BeforeRun(rs, below, m) + tail(rs[m])
          BY <4>2, InRunsIs DEF m
        <5> HIDE DEF tail
        <5>3. m \in 1..n BY <2>1, <4>2
        <5> QED BY <1>8, <1>9, <5>1, <5>2, <5>3
      <4> QED BY <4>1, <4>2
    <3>5. InRuns(rs, below, offset) \in Nat BY InRunsType
    <3> QED BY <3>2, <3>3, <3>4, <3>5
  <2>3. CASE offset > start
    <3>1. InRuns(rs, below, offset) = all
      <4>1. offset >= start BY <2>3
      <4> QED BY <4>1, BehindAllRuns DEF all
    <3>2. Started(new, offset) = n + 1
      <4>1. ASSUME NEW i \in 1..(n + 1) PROVE new[i].start < offset
        <5>1. CASE i \in 1..n
          <6>1. RunEnd(rs[i]) <= start BY <5>1 DEF RunsInOrder
          <6>2. rs[i].start \in Nat /\ RunEnd(rs[i]) \in Nat /\ RunEnd(rs[i]) > rs[i].start
            BY <1>2, <5>1, RunFacts
          <6>3. new[i] = rs[i] BY <1>8, <5>1
          <6> QED BY <2>3, <6>1, <6>2, <6>3
        <5>2. CASE i = n + 1 BY <1>6, <1>8, <2>3, <5>2
        <5> QED BY <1>1, <5>1, <5>2
      <4>2. n + 1 \in Nat /\ n + 1 \in 0..(n + 1) /\ \A i \in 1..(n + 1) : i <= n + 1 BY <1>1
      <4>3. \A i \in 1..(n + 1) : new[i].start < offset <=> i <= n + 1 BY <4>1, <4>2
      <4> QED BY <1>8, <4>2, <4>3, StartedCounts
    <3>3. n + 1 # 0 BY <1>1
    <3>4. InRuns(new, below, offset) =
            BeforeRun(new, below, n + 1)
              + CharsBefore(offset, new[n + 1].start, new[n + 1].width, new[n + 1].count)
                  * ShortfallOfWidth(new[n + 1].width)
      BY <1>11, <3>2, <3>3, InRunsIs
    <3> QED BY <1>6, <1>8, <1>10, <3>1, <3>4 DEF short
  <2> QED BY <2>2, <2>3
<1> QED BY <1>11, <1>12 DEF RecordedRuns, short

(* As one entry per unit.                                                  *)
Entries(start, width, count, short) ==
  [k \in 1..(count * short) |-> start + ((k - 1) \div short) * width]

RecordedDiscounts(ds, new, start, width, count) ==
  /\ DiscountsInOrder(new, start + count * width)
  /\ \A offset \in Int :
       Below(new, offset) =
         Below(ds, offset)
           + CharsBefore(offset, start, width, count) * ShortfallOfWidth(width)

(* The entries of characters behind all others count them and keep the     *)
(* order.                                                                  *)
LEMMA DiscountsAppended ==
  ASSUME NEW ds, NEW start \in Nat, DiscountsInOrder(ds, start),
         NEW width \in 2..4, NEW count \in Nat \ {0},
         NEW short, short = ShortfallOfWidth(width),
         NEW new,
         new = ds \o Entries(start, width, count, short)
  PROVE  RecordedDiscounts(ds, new, start, width, count)
<1> DEFINE n == Len(ds)
           added == count * short
           at(k) == start + ((k - 1) \div short) * width
           more == [k \in 1..added |-> at(k)]
<1>1. ds \in Seq(Nat) /\ n \in Nat /\ DOMAIN ds = 1..n
  <2>1. ds \in Seq(Nat) BY DEF DiscountsInOrder
  <2> QED BY <2>1
<1>2. short \in 1..3
  <2>1. width \in 1..4 /\ width # 1 OBVIOUS
  <2> QED BY <2>1, ShortfallType
<1>3. added \in Nat /\ count * width \in Nat
  <2>1. short \in 0..4 /\ width \in 0..4 /\ count \in Nat /\ count \in Int BY <1>2
  <2> QED BY <2>1, TimesSmall
<1> HIDE DEF added, n
<1>4. ASSUME NEW k \in 1..added
      PROVE  /\ at(k) \in Nat /\ at(k) >= start /\ at(k) < start + count * width
             /\ \A j \in 1..added : k < j => at(k) <= at(j)
             /\ \A offset \in Int :
                  at(k) < offset <=> k <= CharsBefore(offset, start, width, count) * short
  <2> DEFINE q(j) == (j - 1) \div short
  <2>1. \A j \in 1..added :
          /\ q(j) \in Nat
          /\ \A c \in Int : q(j) < c <=> j <= c * short
          /\ \A i \in Nat : i >= j => q(j) <= q(i)
    <3> TAKE j \in 1..added
    <3>1. j \in Nat \ {0} BY <1>3
    <3> QED BY <1>2, <3>1, EntriesOf
  <2> HIDE DEF q
  <2>2. \A j \in 1..added : q(j) < count
    <3> TAKE j \in 1..added
    <3>1. j <= count * short BY <1>3 DEF added
    <3>2. count \in Int OBVIOUS
    <3> QED BY <2>1, <3>1, <3>2
  <2>3. q(k) * width \in Nat /\ q(k) * width + width <= count * width
    <3>1. q(k) \in Nat /\ q(k) \in Int /\ count \in Int /\ q(k) < count /\ width \in 0..4 /\ width # 0
      BY <2>1, <2>2
    <3> QED BY <3>1, TimesSmall
  <2>4. at(k) = start + q(k) * width BY DEF q
  <2>5. at(k) \in Nat /\ at(k) >= start /\ at(k) < start + count * width
    BY <1>3, <2>3, <2>4
  <2>6. ASSUME NEW j \in 1..added, k < j PROVE at(k) <= at(j)
    <3>1. q(k) <= q(j) /\ q(j) \in Nat /\ q(k) \in Nat BY <1>3, <2>1, <2>6
    <3>2. q(k) * width <= q(j) * width /\ q(j) * width \in Nat
      <4>1. q(k) \in Int /\ q(j) \in Int /\ width \in 0..4 BY <3>1
      <4> QED BY <3>1, <4>1, TimesSmall
    <3>3. at(j) = start + q(j) * width BY DEF q
    <3> QED BY <2>3, <2>4, <3>2, <3>3
  <2>7. ASSUME NEW offset \in Int
        PROVE  at(k) < offset <=> k <= CharsBefore(offset, start, width, count) * short
    <3> DEFINE c == CharsBefore(offset, start, width, count)
               a == offset - start
               d == DivCeil(a, width)
    <3>1. c \in Nat
      <4>1. count \in Nat OBVIOUS
      <4> QED BY <4>1, CharsAreCounted
    <3>2. a \in Int OBVIOUS
    <3>3. /\ d \in Int /\ \A x \in Int : d <= x <=> a <= x * width
          /\ a > 0 => d > 0
      <4> HIDE DEF a
      <4> QED BY <3>2, CeilIs
    <3>4. c = IF a <= 0 THEN 0 ELSE IF d <= count THEN d ELSE count
      BY DEF CharsBefore, Smaller
    <3>5. q(k) < d <=> q(k) * width < a
      <4>1. q(k) \in Int BY <2>1
      <4>2. d <= q(k) <=> a <= q(k) * width BY <3>3, <4>1
      <4> HIDE DEF d, a
      <4> QED BY <2>3, <3>2, <3>3, <4>1, <4>2
    <3>6. at(k) < offset <=> q(k) * width < a BY <2>3, <2>4
    <3> HIDE DEF a, d, c
    <3>7. q(k) < c <=> q(k) * width < a
      <4>1. q(k) \in Nat /\ q(k) < count BY <2>1, <2>2
      <4> QED BY <2>3, <3>2, <3>3, <3>4, <3>5, <4>1
    <3>8. q(k) < c <=> k <= c * short
      <4>1. c \in Int BY <3>1
      <4> QED BY <2>1, <4>1
    <3> QED BY <3>6, <3>7, <3>8 DEF c
  <2> QED BY <2>5, <2>6, <2>7
<1>5. more \in Seq(Nat) /\ Len(more) = added /\ \A k \in 1..added : more[k] = at(k)
  <2>1. \A k \in 1..added : at(k) \in Nat BY <1>4
  <2> HIDE DEF at
  <2> QED BY <1>3, <2>1
<1>6. new = ds \o more BY DEF added, Entries
<1> HIDE DEF at, more
<1>7. /\ new \in Seq(Nat) /\ Len(new) = n + added /\ DOMAIN new = 1..(n + added)
      /\ \A i \in 1..n : new[i] = ds[i]
      /\ \A k \in 1..added : new[n + k] = at(k)
  <2>1. \A t \in Seq(Nat) :
          /\ ds \o t \in Seq(Nat) /\ Len(ds \o t) = Len(ds) + Len(t)
          /\ \A i \in 1..Len(ds) : (ds \o t)[i] = ds[i]
          /\ \A k \in 1..Len(t) : (ds \o t)[Len(ds) + k] = t[k]
    BY <1>1
  <2>2. /\ new \in Seq(Nat) /\ Len(new) = n + added
        /\ \A i \in 1..n : new[i] = ds[i]
        /\ \A k \in 1..added : new[n + k] = more[k]
    <3>1. /\ ds \o more \in Seq(Nat) /\ Len(ds \o more) = Len(ds) + Len(more)
          /\ \A i \in 1..Len(ds) : (ds \o more)[i] = ds[i]
          /\ \A k \in 1..Len(more) : (ds \o more)[Len(ds) + k] = more[k]
      BY <1>5, <2>1
    <3>2. Len(more) = added /\ Len(ds) = n /\ ds \o more = new BY <1>5, <1>6 DEF n
    <3> QED BY <3>1, <3>2
  <2>3. DOMAIN new = 1..(n + added)
    <3>1. DOMAIN new = 1..Len(new) BY <2>2, SequenceDomain, Zenon
    <3> QED BY <2>2, <3>1
  <2> QED BY <1>5, <2>2, <2>3
<1>8. \A i \in 1..(n + added) : i \in 1..n \/ (i - n \in 1..added /\ new[i] = at(i - n))
  <2> TAKE i \in 1..(n + added)
  <2>1. i \in 1..n \/ (i - n \in 1..added /\ n + (i - n) = i) BY <1>1, <1>3
  <2> QED BY <1>7, <2>1
<1>9. \A i \in 1..n : /\ ds[i] \in Nat /\ ds[i] < start
                      /\ \A j \in 1..n : i < j => ds[i] <= ds[j]
  BY <1>1 DEF DiscountsInOrder, n
<1>10. DiscountsInOrder(new, start + count * width)
  <2> SUFFICES ASSUME NEW i \in 1..(n + added)
               PROVE  /\ new[i] < start + count * width
                      /\ \A j \in 1..(n + added) : i < j => new[i] <= new[j]
    BY <1>7 DEF DiscountsInOrder
  <2>1. CASE i \in 1..n
    <3>1. new[i] = ds[i] BY <1>7, <2>1
    <3>2. new[i] < start + count * width
      <4> DEFINE w == count * width
      <4>1. w \in Nat BY <1>3
      <4> HIDE DEF w
      <4>2. ds[i] \in Nat /\ ds[i] < start BY <1>9, <2>1
      <4>3. ds[i] < start + w BY <4>1, <4>2
      <4> QED BY <3>1, <4>3 DEF w
    <3>3. ASSUME NEW j \in 1..(n + added), i < j PROVE new[i] <= new[j]
      <4>1. CASE j \in 1..n BY <1>7, <1>9, <2>1, <3>1, <3>3, <4>1
      <4>2. CASE j \notin 1..n
        <5>1. j - n \in 1..added /\ new[j] = at(j - n) BY <1>8, <4>2
        <5>2. at(j - n) \in Nat /\ at(j - n) >= start BY <1>4, <5>1
        <5>3. ds[i] \in Nat /\ ds[i] < start BY <1>9, <2>1
        <5>4. ds[i] <= at(j - n) BY <5>2, <5>3
        <5> QED BY <3>1, <5>1, <5>4
      <4> QED BY <4>1, <4>2
    <3> QED BY <3>2, <3>3
  <2>2. CASE i \notin 1..n
    <3>1. i - n \in 1..added /\ new[i] = at(i - n) BY <1>8, <2>2
    <3>2. new[i] < start + count * width BY <1>4, <3>1
    <3>3. ASSUME NEW j \in 1..(n + added), i < j PROVE new[i] <= new[j]
      <4>1. j \notin 1..n BY <1>1, <2>2, <3>3
      <4>2. j - n \in 1..added /\ new[j] = at(j - n) BY <1>8, <4>1
      <4>3. i - n < j - n BY <1>1, <3>3
      <4> QED BY <1>4, <3>1, <4>2, <4>3
    <3> QED BY <3>2, <3>3
  <2> QED BY <2>1, <2>2
<1>11. ASSUME NEW offset \in Int
       PROVE  Below(new, offset) = Below(ds, offset) + CharsBefore(offset, start, width, count) * short
  <2> DEFINE c == CharsBefore(offset, start, width, count)
             m == Below(ds, offset)
  <2>1. m \in 0..n /\ \A i \in 1..n : ds[i] < offset <=> i <= m BY BelowIs DEF n
  <2>2. c \in 0..count
    <3>1. count \in Nat OBVIOUS
    <3> QED BY <3>1, CharsBeforeType
  <2>3. offset <= start => c = 0 BY DEF CharsBefore
  <2> HIDE DEF c
  <2>4. c * short \in 0..added
    <3>1. c \in Nat /\ c \in Int /\ count \in Int /\ short \in 0..4 /\ c <= count BY <1>2, <2>2
    <3>2. c * short \in Nat /\ c * short <= count * short BY <3>1, TimesSmall
    <3> QED BY <1>3, <3>2 DEF added
  <2>5. offset > start => m = n
    <3> SUFFICES ASSUME offset > start PROVE m = n OBVIOUS
    <3>1. n = 0 \/ n \in 1..n BY <1>1
    <3>2. n \in 1..n => ds[n] < offset BY <1>9
    <3> HIDE DEF m
    <3>3. n \in 1..n => n <= m BY <2>1, <3>2
    <3> QED BY <1>1, <2>1, <3>1, <3>3
  <2> HIDE DEF m
  <2> DEFINE further == c * short
  <2>6. further \in 0..added /\ (offset <= start => further = 0)
    <3>1. 0 * short = 0 BY <1>2
    <3> QED BY <2>3, <2>4, <3>1
  <2> HIDE DEF further
  <2>9. ASSUME NEW i \in 1..(n + added) PROVE new[i] < offset <=> i <= m + further
    <3>1. CASE i \in 1..n
      <4>1. new[i] < offset <=> i <= m BY <1>7, <2>1, <3>1
      <4>2. i <= m <=> i <= m + further
        <5>1. CASE offset <= start BY <2>1, <2>6, <5>1
        <5>2. CASE ~(offset <= start)
          <6>1. m = n BY <2>5, <5>2
          <6> QED BY <1>1, <2>6, <3>1, <6>1
        <5> QED BY <5>1, <5>2
      <4> QED BY <4>1, <4>2
    <3>2. CASE i \notin 1..n
      <4>1. i - n \in 1..added /\ new[i] = at(i - n) BY <1>8, <3>2
      <4>2. new[i] < offset <=> i - n <= further BY <1>4, <4>1 DEF c, further
      <4>3. i - n <= further <=> i <= m + further
        <5>1. CASE offset <= start
          <6>1. further = 0 BY <2>6, <5>1
          <6>2. ~(i <= m) /\ ~(i - n <= 0) BY <1>1, <2>1, <4>1
          <6> QED BY <2>1, <6>1, <6>2
        <5>2. CASE ~(offset <= start)
          <6>1. m = n BY <2>5, <5>2
          <6> QED BY <1>1, <2>6, <6>1
        <5> QED BY <5>1, <5>2
      <4> QED BY <4>2, <4>3
    <3> QED BY <3>1, <3>2
  <2>7. n + added \in Nat /\ m + further \in 0..(n + added) BY <1>1, <1>3, <2>1, <2>6
  <2>8. Below(new, offset) = m + further
    BY <1>7, <2>7, <2>9, BelowCounts
  <2> QED BY <2>8 DEF m, c, further
<1> QED BY <1>10, <1>11 DEF RecordedDiscounts

LEMMA DiscountsRecorded ==
  ASSUME NEW ds, NEW start \in Nat, DiscountsInOrder(ds, start),
         NEW width \in 2..4, NEW count \in Nat \ {0}
  PROVE  RecordedDiscounts(ds, ds \o Entries(start, width, count, ShortfallOfWidth(width)),
                           start, width, count)
<1> DEFINE less == ShortfallOfWidth(width)
           list == ds \o Entries(start, width, count, less)
<1>1. less = ShortfallOfWidth(width) /\ list = ds \o Entries(start, width, count, less) OBVIOUS
<1> HIDE DEF less, list
<1>2. RecordedDiscounts(ds, list, start, width, count) BY <1>1, DiscountsAppended
<1> QED BY <1>2 DEF list, less

(* What is recorded is counted from its start on, and nothing else changes. *)
InOrder(ix, end) ==
  DiscountsInOrder(ix.discounts, end) /\ RunsInOrder(ix.runs, runsBelowFloor, end)

Before(ix, offset) == Below(ix.discounts, offset) + InRuns(ix.runs, runsBelowFloor, offset)

Pieces == [discounts : Seq(Nat), runs : Seq(Runs), start : Nat, width : 0..4, count : Nat]

LEMMA BeforeType ==
  ASSUME NEW ix, NEW end, InOrder(ix, end), runsBelowFloor \in Nat, NEW offset \in Int
  PROVE  Before(ix, offset) \in Nat
<1>1. Below(ix.discounts, offset) \in Nat
  <2>1. DiscountsInOrder(ix.discounts, end) BY DEF InOrder
  <2>2. Below(ix.discounts, offset) \in 0..Len(ix.discounts) BY <2>1, BelowIs
  <2>3. ix.discounts \in Seq(Nat) BY <2>1 DEF DiscountsInOrder
  <2>4. Len(ix.discounts) \in Nat BY <2>3
  <2> QED BY <2>2, <2>4
<1>2. InRuns(ix.runs, runsBelowFloor, offset) \in Nat
  <2>1. RunsInOrder(ix.runs, runsBelowFloor, end) BY DEF InOrder
  <2> QED BY <2>1, InRunsType
<1> QED BY <1>1, <1>2 DEF Before

(* What is in order before one end is so before any further one.           *)
LEMMA OrderGoesOn ==
  ASSUME NEW ix, NEW end \in Nat, InOrder(ix, end), NEW further \in Nat, end <= further
  PROVE  InOrder(ix, further)
<1>1. DiscountsInOrder(ix.discounts, end) /\ RunsInOrder(ix.runs, runsBelowFloor, end)
  BY DEF InOrder
<1>2. DiscountsInOrder(ix.discounts, further)
  <2>1. ix.discounts \in Seq(Nat) BY <1>1 DEF DiscountsInOrder
  <2>2. \A i \in 1..Len(ix.discounts) : ix.discounts[i] \in Nat BY <2>1
  <2>3. \A i \in 1..Len(ix.discounts) :
          /\ ix.discounts[i] < end
          /\ \A j \in 1..Len(ix.discounts) : i < j => ix.discounts[i] <= ix.discounts[j]
    BY <1>1 DEF DiscountsInOrder
  <2> QED BY <2>1, <2>2, <2>3 DEF DiscountsInOrder
<1>3. RunsInOrder(ix.runs, runsBelowFloor, further)
  <2>1. ix.runs \in Seq(Runs) BY <1>1 DEF RunsInOrder
  <2>2. \A i \in 1..Len(ix.runs) : RunEnd(ix.runs[i]) \in Nat
    <3> TAKE i \in 1..Len(ix.runs)
    <3>1. ix.runs[i] \in Runs BY <2>1
    <3> QED BY <3>1, RunFacts
  <2>3. \A i \in 1..Len(ix.runs) : RunEnd(ix.runs[i]) <= end BY <1>1 DEF RunsInOrder
  <2>4. \A i \in 1..Len(ix.runs) : RunEnd(ix.runs[i]) <= further BY <2>2, <2>3
  <2> QED BY <1>1, <2>1, <2>4 DEF RunsInOrder
<1> QED BY <1>2, <1>3 DEF InOrder

(* Behind all entries every offset is told the same.                       *)
LEMMA BehindAll ==
  ASSUME NEW ix, NEW end \in Nat, InOrder(ix, end), runsBelowFloor \in Nat,
         NEW offset \in Int, offset >= end
  PROVE  Before(ix, offset) = Before(ix, end)
<1>1. DiscountsInOrder(ix.discounts, end) /\ RunsInOrder(ix.runs, runsBelowFloor, end)
  BY DEF InOrder
<1>2. InRuns(ix.runs, runsBelowFloor, offset) = AllRuns(ix.runs, runsBelowFloor)
  BY <1>1, BehindAllRuns
<1>3. InRuns(ix.runs, runsBelowFloor, end) = AllRuns(ix.runs, runsBelowFloor)
  BY <1>1, BehindAllRuns, end \in Int, end >= end
<1>4. ASSUME NEW at \in Int, at >= end PROVE Below(ix.discounts, at) = Len(ix.discounts)
  <2> DEFINE n == Len(ix.discounts)
  <2>1. ix.discounts \in Seq(Nat) BY <1>1 DEF DiscountsInOrder
  <2>2. n \in Nat /\ DOMAIN ix.discounts = 1..n BY <2>1
  <2>3. \A i \in 1..n : ix.discounts[i] \in Nat BY <2>1
  <2>4. \A i \in 1..n : ix.discounts[i] < end BY <1>1 DEF DiscountsInOrder
  <2> HIDE DEF n
  <2>5. n \in 0..n /\ \A i \in 1..n : ix.discounts[i] < at <=> i <= n
    BY <1>4, <2>2, <2>3, <2>4
  <2> QED BY <2>2, <2>5, BelowCounts DEF n
<1>5. Below(ix.discounts, offset) = Below(ix.discounts, end) BY <1>4, end \in Int, end >= end
<1> QED BY <1>2, <1>3, <1>5 DEF Before

(* record() counts its characters from their start on, and nothing else.   *)
LEMMA RecordIsExact ==
  ASSUME runsBelowFloor \in Nat, NEW ix \in Pieces, NEW start \in Nat, InOrder(ix, start),
         NEW width \in 2..4, NEW count \in Nat \ {0}
  PROVE  LET new == Recorded(ix, start, width, count) IN
         /\ new \in Pieces
         /\ new.start = ix.start /\ new.width = ix.width /\ new.count = ix.count
         /\ InOrder(new, start + count * width)
         /\ \A offset \in Int :
              Before(new, offset) =
                Before(ix, offset)
                  + CharsBefore(offset, start, width, count) * ShortfallOfWidth(width)
<1> DEFINE rs == ix.runs
           ds == ix.discounts
           n == Len(rs)
           short == ShortfallOfWidth(width)
           added == count * short
           last == rs[n]
           extends == rs # <<>> /\ last.width = width /\ RunEnd(last) = start
                        /\ last.count + count <= CountMax
           longer == [rs EXCEPT ![n].count = @ + count, ![n].cumulative = @ + added]
           appended == Append(rs, Run(start, width, count, Counted(rs) + added))
           entries == ds \o [k \in 1..added |-> start + ((k - 1) \div short) * width]
           new == Recorded(ix, start, width, count)
           Exact(x) ==
             /\ x \in Pieces
             /\ x.start = ix.start /\ x.width = ix.width /\ x.count = ix.count
             /\ InOrder(x, start + count * width)
             /\ \A offset \in Int :
                  Before(x, offset) =
                    Before(ix, offset) + CharsBefore(offset, start, width, count) * short
<1>1. /\ DiscountsInOrder(ds, start) /\ RunsInOrder(rs, runsBelowFloor, start)
      /\ rs \in Seq(Runs) /\ ds \in Seq(Nat)
      /\ ix = [discounts |-> ds, runs |-> rs, start |-> ix.start, width |-> ix.width,
               count |-> ix.count]
      /\ ix.start \in Nat /\ ix.width \in 0..4 /\ ix.count \in Nat
  BY DEF InOrder, Pieces
<1>2. count * width \in Nat
  <2>1. count \in Nat /\ count \in Int /\ width \in 0..4 OBVIOUS
  <2> QED BY <2>1, TimesSmall
<1>4. new = IF extends THEN [ix EXCEPT !.runs = longer]
            ELSE IF added >= MIN_RUN_SHORTFALL THEN [ix EXCEPT !.runs = appended]
            ELSE [ix EXCEPT !.discounts = entries]
  BY <1>1 DEF Recorded, Last
<1>5. ASSUME NEW rs2, RecordedRuns(rs, rs2, runsBelowFloor, start, width, count),
             new = [ix EXCEPT !.runs = rs2]
      PROVE  Exact(new)
  <2> HIDE DEF new, longer, appended, entries, extends, short
  <2>1. /\ RunsInOrder(rs2, runsBelowFloor, start + count * width)
        /\ \A offset \in Int :
             InRuns(rs2, runsBelowFloor, offset) =
               InRuns(rs, runsBelowFloor, offset) + CharsBefore(offset, start, width, count) * short
    BY <1>5 DEF RecordedRuns, short
  <2>2. rs2 \in Seq(Runs) BY <2>1 DEF RunsInOrder
  <2>3. new = [discounts |-> ds, runs |-> rs2, start |-> ix.start, width |-> ix.width,
               count |-> ix.count]
    BY <1>1, <1>5
  <2>4. new \in Pieces /\ new.runs = rs2 /\ new.discounts = ds
        /\ new.start = ix.start /\ new.width = ix.width /\ new.count = ix.count
    BY <1>1, <2>2, <2>3 DEF Pieces
  <2>5. DiscountsInOrder(ds, start + count * width)
    <3>1. start + count * width \in Nat /\ start <= start + count * width BY <1>2
    <3>2. InOrder(ix, start + count * width) BY <3>1, OrderGoesOn
    <3> QED BY <3>2 DEF InOrder
  <2>6. ASSUME NEW offset \in Int
        PROVE  Before(new, offset) =
                 Before(ix, offset) + CharsBefore(offset, start, width, count) * short
    <3> DEFINE b == Below(ds, offset)
               i == InRuns(rs, runsBelowFloor, offset)
               x == CharsBefore(offset, start, width, count) * short
    <3>1. b \in Nat
      <4>1. b \in 0..Len(ds) BY <1>1, BelowIs
      <4>2. Len(ds) \in Nat BY <1>1
      <4> QED BY <4>1, <4>2
    <3>2. i \in Nat BY <1>1, InRunsType
    <3>3. x \in Int
      <4>1. InRuns(rs2, runsBelowFloor, offset) \in Nat
        BY <2>1, InRunsType
      <4>2. count \in Nat OBVIOUS
      <4>3. CharsBefore(offset, start, width, count) \in Nat BY <4>2, CharsAreCounted
      <4>4. short \in 0..4
        <5>1. width \in 1..4 OBVIOUS
        <5>2. short \in 0..3 BY <5>1, ShortfallType DEF short
        <5> QED BY <5>2
      <4> QED BY <4>3, <4>4, TimesSmall
    <3>4. Before(ix, offset) = b + i BY DEF Before
    <3>5. Before(new, offset) = b + (i + x) BY <2>1, <2>4 DEF Before
    <3> HIDE DEF b, i, x
    <3>6. b + (i + x) = (b + i) + x BY <3>1, <3>2, <3>3
    <3> QED BY <3>4, <3>5, <3>6 DEF x
  <2> QED BY <2>1, <2>4, <2>5, <2>6 DEF InOrder
<1>6. ASSUME extends PROVE Exact(new)
  <2>1. RecordedRuns(rs, longer, runsBelowFloor, start, width, count)
    BY <1>1, <1>6, RunExtended
  <2>2. new = [ix EXCEPT !.runs = longer] BY <1>4, <1>6
  <2> HIDE DEF longer, new, Exact
  <2> QED BY <1>5, <2>1, <2>2
<1>7. ASSUME ~extends, added >= MIN_RUN_SHORTFALL PROVE Exact(new)
  <2>1. Counted(rs) = AllRuns(rs, runsBelowFloor) BY DEF Counted, AllRuns, Last
  <2>2. RecordedRuns(rs, appended, runsBelowFloor, start, width, count)
    BY <1>1, <2>1, RunAppended
  <2>3. new = [ix EXCEPT !.runs = appended] BY <1>4, <1>7
  <2> HIDE DEF appended, new, Exact
  <2> QED BY <1>5, <2>2, <2>3
<1>8. ASSUME ~extends, ~(added >= MIN_RUN_SHORTFALL) PROVE Exact(new)
  <2>1. /\ DiscountsInOrder(entries, start + count * width)
        /\ \A offset \in Int :
             Below(entries, offset) =
               Below(ds, offset) + CharsBefore(offset, start, width, count) * short
    <3>1. entries = ds \o Entries(start, width, count, ShortfallOfWidth(width)) BY DEF Entries
    <3>2. DiscountsInOrder(ds, start) BY <1>1
    <3> HIDE DEF entries, ds
    <3>3. RecordedDiscounts(ds, ds \o Entries(start, width, count, ShortfallOfWidth(width)),
                            start, width, count)
      BY <3>2, DiscountsRecorded
    <3> QED BY <3>1, <3>3 DEF RecordedDiscounts, short
  <2>2. new = [ix EXCEPT !.discounts = entries] BY <1>4, <1>8
  <2> HIDE DEF new, longer, appended, entries, extends, short
  <2>3. entries \in Seq(Nat) BY <2>1 DEF DiscountsInOrder
  <2>4. new = [discounts |-> entries, runs |-> rs, start |-> ix.start, width |-> ix.width,
               count |-> ix.count]
    BY <1>1, <2>2
  <2>5. new \in Pieces /\ new.runs = rs /\ new.discounts = entries
        /\ new.start = ix.start /\ new.width = ix.width /\ new.count = ix.count
    BY <1>1, <2>3, <2>4 DEF Pieces
  <2>6. RunsInOrder(rs, runsBelowFloor, start + count * width)
    <3>1. start + count * width \in Nat /\ start <= start + count * width BY <1>2
    <3>2. InOrder(ix, start + count * width) BY <3>1, OrderGoesOn
    <3> QED BY <3>2 DEF InOrder
  <2>7. ASSUME NEW offset \in Int
        PROVE  Before(new, offset) =
                 Before(ix, offset) + CharsBefore(offset, start, width, count) * short
    <3> DEFINE b == Below(ds, offset)
               i == InRuns(rs, runsBelowFloor, offset)
               x == CharsBefore(offset, start, width, count) * short
    <3>1. b \in Nat
      <4>1. b \in 0..Len(ds) BY <1>1, BelowIs
      <4>2. Len(ds) \in Nat BY <1>1
      <4> QED BY <4>1, <4>2
    <3>2. i \in Nat BY <1>1, InRunsType
    <3>3. x \in Int
      <4>2. count \in Nat OBVIOUS
      <4>3. CharsBefore(offset, start, width, count) \in Nat BY <4>2, CharsAreCounted
      <4>4. short \in 0..4
        <5>1. width \in 1..4 OBVIOUS
        <5>2. short \in 0..3 BY <5>1, ShortfallType DEF short
        <5> QED BY <5>2
      <4> QED BY <4>3, <4>4, TimesSmall
    <3>4. Before(ix, offset) = b + i BY DEF Before
    <3>5. Before(new, offset) = (b + x) + i BY <2>1, <2>5 DEF Before
    <3> HIDE DEF b, i, x
    <3>6. (b + x) + i = (b + i) + x BY <3>1, <3>2, <3>3
    <3> QED BY <3>4, <3>5, <3>6 DEF x
  <2>8. InOrder(new, start + count * width) BY <2>1, <2>5, <2>6 DEF InOrder
  <2> QED BY <2>5, <2>7, <2>8
<1>9. Exact(new)
  <2> HIDE DEF Exact, extends, added, new
  <2> QED BY <1>6, <1>7, <1>8
<1> QED BY <1>9

------------------------------------------------------------------------------
(* The loop over a chunk.                                                  *)

(* The index of the loop over a chunk, which has come to `p`: the entries, *)
(* in order, and behind them the pending characters.                       *)
LoopIndex(ix, p) ==
  /\ ix \in Pieces
  /\ ix.count = 0 => InOrder(ix, p)
  /\ ix.count # 0 => /\ ix.width \in 2..4
                     /\ InOrder(ix, ix.start)
                     /\ ix.start + ix.count * ix.width <= p

Pending(ix, offset) ==
  IF ix.count = 0 THEN 0
  ELSE CharsBefore(offset, ix.start, ix.width, ix.count) * ShortfallOfWidth(ix.width)

LEMMA CharsTimesShort ==
  ASSUME NEW offset \in Int, NEW start \in Nat, NEW width \in 2..4, NEW count \in Nat
  PROVE  CharsBefore(offset, start, width, count) * ShortfallOfWidth(width) \in Nat
<1> DEFINE c == CharsBefore(offset, start, width, count)
           s == ShortfallOfWidth(width)
<1>1. c \in Nat BY CharsAreCounted, Zenon
<1>2. s \in 0..4
  <2>1. width \in 1..4 OBVIOUS
  <2>2. s \in 0..3 BY <2>1, ShortfallType
  <2> QED BY <2>2
<1> HIDE DEF c, s
<1>3. c * s \in Nat
  <2>1. c \in Int BY <1>1
  <2> QED BY <1>1, <1>2, <2>1, TimesSmall
<1> QED BY <1>3 DEF c, s

(* Recording the pending characters.                                       *)
LEMMA FlushIsExact ==
  ASSUME runsBelowFloor \in Nat, NEW ix, NEW p \in Nat, LoopIndex(ix, p)
  PROVE  /\ Flushed(ix) \in Pieces
         /\ Flushed(ix).start = ix.start /\ Flushed(ix).width = ix.width
         /\ Flushed(ix).count = ix.count
         /\ InOrder(Flushed(ix), p)
         /\ \A offset \in Int : Before(Flushed(ix), offset) = Before(ix, offset) + Pending(ix, offset)
<1>0. ix \in Pieces /\ ix.start \in Nat /\ ix.count \in Nat BY DEF LoopIndex, Pieces
<1>1. CASE ix.count = 0
  <2>1. Flushed(ix) = ix BY <1>1 DEF Flushed
  <2>2. InOrder(ix, p) BY <1>1 DEF LoopIndex
  <2>3. \A offset \in Int : Before(ix, offset) \in Nat BY <2>2, BeforeType
  <2>4. \A offset \in Int : Pending(ix, offset) = 0 BY <1>1 DEF Pending
  <2>5. \A offset \in Int : Before(ix, offset) = Before(ix, offset) + Pending(ix, offset)
    BY <2>3, <2>4
  <2> QED BY <1>0, <2>1, <2>2, <2>5
<1>2. CASE ix.count # 0
  <2> DEFINE new == Recorded(ix, ix.start, ix.width, ix.count)
             end == ix.start + ix.count * ix.width
  <2>1. ix.width \in 2..4 /\ InOrder(ix, ix.start) /\ end <= p /\ ix.count \in Nat \ {0}
    BY <1>0, <1>2 DEF LoopIndex
  <2>2. Flushed(ix) = new BY <1>2 DEF Flushed
  <2>3. /\ new \in Pieces
        /\ new.start = ix.start /\ new.width = ix.width /\ new.count = ix.count
        /\ InOrder(new, end)
        /\ \A offset \in Int :
             Before(new, offset) =
               Before(ix, offset)
                 + CharsBefore(offset, ix.start, ix.width, ix.count) * ShortfallOfWidth(ix.width)
    <3> DEFINE s == ix.start
               w == ix.width
               c == ix.count
    <3>1. s \in Nat /\ w \in 2..4 /\ c \in Nat \ {0} /\ InOrder(ix, s) BY <1>0, <2>1
    <3> HIDE DEF s, w, c
    <3>2. LET n == Recorded(ix, s, w, c) IN
         /\ n \in Pieces
         /\ n.start = ix.start /\ n.width = ix.width /\ n.count = ix.count
         /\ InOrder(n, s + c * w)
         /\ \A offset \in Int :
              Before(n, offset) =
                Before(ix, offset) + CharsBefore(offset, s, w, c) * ShortfallOfWidth(w)
      BY <1>0, <3>1, RecordIsExact, Zenon
    <3> QED BY <3>2 DEF s, w, c
  <2>4. InOrder(new, p)
    <3>1. end \in Nat
      <4> DEFINE w == ix.width
                 c == ix.count
      <4>1. w \in 0..4 /\ c \in Nat /\ c \in Int BY <2>1
      <4> HIDE DEF w, c
      <4>2. c * w \in Nat BY <4>1, TimesSmall
      <4> QED BY <1>0, <4>2 DEF w, c
    <3> HIDE DEF new, end
    <3> QED BY <2>1, <2>3, <3>1, OrderGoesOn
  <2>5. \A offset \in Int :
          Pending(ix, offset) =
            CharsBefore(offset, ix.start, ix.width, ix.count) * ShortfallOfWidth(ix.width)
    BY <1>2 DEF Pending
  <2> HIDE DEF new
  <2> QED BY <2>2, <2>3, <2>4, <2>5
<1> QED BY <1>1, <1>2

(* A character counts from where it begins on.                             *)
SeenExactly(ix, new, p, width) ==
  /\ LoopIndex(new, p + width)
  /\ \A offset \in Int :
       /\ offset <= p => Before(Flushed(new), offset) = Before(Flushed(ix), offset)
       /\ offset >= p + width =>
            Before(Flushed(new), offset) = Before(Flushed(ix), p) + ShortfallOfWidth(width)

(* A character of one byte counts for one unit, and is not recorded.       *)
LEMMA NarrowIsExact ==
  ASSUME runsBelowFloor \in Nat, NEW ix, NEW p \in Nat, LoopIndex(ix, p)
  PROVE  SeenExactly(ix, ix, p, 1)
<1>1. InOrder(Flushed(ix), p) BY FlushIsExact
<1>2. \A offset \in Int : offset >= p => Before(Flushed(ix), offset) = Before(Flushed(ix), p)
  BY <1>1, BehindAll
<1>3. Before(Flushed(ix), p) \in Nat BY <1>1, BeforeType, p \in Int
<1>4. ShortfallOfWidth(1) = 0
  <2>1. 1 \in 1..4 OBVIOUS
  <2> QED BY <2>1, ShortfallType
<1>5. LoopIndex(ix, p + 1)
  <2>1. p + 1 \in Nat /\ p <= p + 1 OBVIOUS
  <2>2. ix.count = 0 => InOrder(ix, p + 1) BY <2>1, OrderGoesOn DEF LoopIndex
  <2>3. ix.count # 0 => ix.start + ix.count * ix.width <= p + 1
    <3> SUFFICES ASSUME ix.count # 0 PROVE ix.start + ix.count * ix.width <= p + 1 OBVIOUS
    <3> DEFINE s == ix.start
               w == ix.width
               c == ix.count
    <3>1. s \in Nat /\ w \in 0..4 /\ c \in Nat /\ c \in Int /\ s + c * w <= p
      BY DEF LoopIndex, Pieces
    <3> HIDE DEF s, w, c
    <3>2. c * w \in Nat BY <3>1, TimesSmall
    <3>3. s + c * w <= p + 1 BY <3>1, <3>2
    <3> QED BY <3>3 DEF s, w, c
  <2> QED BY <2>2, <2>3 DEF LoopIndex
<1>6. \A offset \in Int : offset >= p + 1 => offset >= p OBVIOUS
<1>7. \A offset \in Int : offset >= p + 1 =>
        Before(Flushed(ix), offset) = Before(Flushed(ix), p) + ShortfallOfWidth(1)
  BY <1>2, <1>3, <1>4, <1>6
<1> QED BY <1>5, <1>7 DEF SeenExactly

(* One more character of the width of those pending.                       *)
LEMMA PendingGoesOn ==
  ASSUME runsBelowFloor \in Nat, NEW ix, NEW p \in Nat, LoopIndex(ix, p), ix.count # 0,
         ix.start + ix.count * ix.width = p
  PROVE  SeenExactly(ix, [ix EXCEPT !.count = @ + 1], p, ix.width)
<1> DEFINE s == ix.start
           w == ix.width
           c == ix.count
           new == [ix EXCEPT !.count = @ + 1]
           short == ShortfallOfWidth(w)
<1>1. s \in Nat /\ w \in 2..4 /\ c \in Nat \ {0} /\ s + c * w = p /\ InOrder(ix, s)
  BY DEF LoopIndex, Pieces
<1>2. new = [discounts |-> ix.discounts, runs |-> ix.runs, start |-> s, width |-> w,
             count |-> c + 1]
  <2>1. ix = [discounts |-> ix.discounts, runs |-> ix.runs, start |-> s, width |-> w, count |-> c]
    BY DEF LoopIndex, Pieces
  <2>2. DOMAIN ix = {"discounts", "runs", "start", "width", "count"} BY DEF LoopIndex, Pieces
  <2> QED BY <2>1, <2>2
<1>3. new \in Pieces
  <2>1. ix.discounts \in Seq(Nat) /\ ix.runs \in Seq(Runs) BY DEF LoopIndex, Pieces
  <2>2. w \in 0..4 /\ c + 1 \in Nat BY <1>1
  <2> HIDE DEF new, s, w, c
  <2> QED BY <1>1, <1>2, <2>1, <2>2 DEF Pieces
<1>4. new.start = s /\ new.width = w /\ new.count = c + 1 /\ new.runs = ix.runs
      /\ new.discounts = ix.discounts
  BY <1>2
<1>5. (c + 1) * w = c * w + w /\ c * w \in Nat /\ c + 1 \in Nat /\ c + 1 # 0
  <2> HIDE DEF c, w
  <2>1. c \in Int /\ 1 \in Int /\ w \in 0..4 BY <1>1
  <2> QED BY <1>1, <2>1, TimesSmall
<1>6. LoopIndex(new, p + w)
  <2>1. InOrder(new, new.start) BY <1>1, <1>4 DEF InOrder
  <2> HIDE DEF s, w, c, new
  <2>2. s + (c + 1) * w <= p + w BY <1>1, <1>5
  <2>3. new.width \in 2..4 /\ new.count # 0 BY <1>1, <1>4, <1>5
  <2> QED BY <1>3, <1>4, <2>1, <2>2, <2>3 DEF LoopIndex
<1>7. p + w \in Nat BY <1>1
<1>8. \A offset \in Int :
        /\ Before(Flushed(ix), offset) = Before(ix, offset) + CharsBefore(offset, s, w, c) * short
        /\ Before(Flushed(new), offset) =
             Before(ix, offset) + CharsBefore(offset, s, w, c + 1) * short
  <2> TAKE offset \in Int
  <2>1. Before(Flushed(ix), offset) = Before(ix, offset) + Pending(ix, offset) BY FlushIsExact
  <2>2. Before(Flushed(new), offset) = Before(new, offset) + Pending(new, offset)
    <3> HIDE DEF new, w
    <3> QED BY <1>6, <1>7, FlushIsExact
  <2>3. Before(new, offset) = Before(ix, offset) BY <1>4 DEF Before
  <2>4. Pending(new, offset) = CharsBefore(offset, s, w, c + 1) * short
    <3> HIDE DEF new, s, w, c
    <3> QED BY <1>4, <1>5 DEF Pending, short
  <2>5. Pending(ix, offset) = CharsBefore(offset, s, w, c) * short BY DEF Pending
  <2> QED BY <2>1, <2>2, <2>3, <2>4, <2>5
<1>9. \A offset \in Int : offset >= s => Before(ix, offset) = Before(ix, s)
  BY <1>1, BehindAll
<1>10. Before(ix, s) \in Nat /\ s \in Int BY <1>1, BeforeType
<1>11. short \in 1..3
  <2>1. w \in 1..4 /\ w # 1 BY <1>1
  <2> QED BY <2>1, ShortfallType
<1> HIDE DEF s, w, c, new, short
<1>12. ASSUME NEW offset \in Int, offset <= p
       PROVE  Before(Flushed(new), offset) = Before(Flushed(ix), offset)
  <2>1. CharsBefore(offset, s, w, c + 1) = CharsBefore(offset, s, w, c)
    <3>1. offset <= s + c * w /\ c + 1 >= c /\ c \in Nat BY <1>1, <1>12
    <3> QED BY <1>1, <1>5, <3>1, FurtherChars
  <2> QED BY <1>8, <2>1
<1>13. ASSUME NEW offset \in Int, offset >= p + w
       PROVE  Before(Flushed(new), offset) = Before(Flushed(ix), p) + short
  <2>1. CharsBefore(offset, s, w, c + 1) = c + 1
    <3>1. offset >= s + (c + 1) * w BY <1>1, <1>5, <1>13
    <3> QED BY <1>1, <1>5, <3>1, AllChars
  <2>2. CharsBefore(p, s, w, c) = c
    <3>1. p >= s + c * w /\ p \in Int /\ c \in Nat BY <1>1
    <3> QED BY <1>1, <3>1, AllChars
  <2>3. Before(ix, offset) = Before(ix, s) /\ Before(ix, p) = Before(ix, s)
    <3>1. offset >= s /\ p >= s /\ p \in Int BY <1>1, <1>5, <1>13
    <3> QED BY <1>9, <3>1
  <2>4. Before(Flushed(new), offset) = Before(ix, s) + (c + 1) * short
    BY <1>8, <2>1, <2>3
  <2>5. Before(Flushed(ix), p) = Before(ix, s) + c * short
    BY <1>8, <2>2, <2>3, p \in Int
  <2>6. (c + 1) * short = c * short + short /\ c * short \in Int
    <3>1. c \in Int /\ 1 \in Int /\ short \in 0..4 BY <1>1, <1>11
    <3> QED BY <3>1, TimesSmall
  <2> QED BY <1>10, <1>11, <2>4, <2>5, <2>6
<1> QED BY <1>6, <1>12, <1>13 DEF SeenExactly, new, w, short

Restarted(ix, p, width) == [Flushed(ix) EXCEPT !.start = p, !.width = width, !.count = 1]

(* A character of another width, or one too many for a run.                *)
LEMMA PendingStarts ==
  ASSUME runsBelowFloor \in Nat, NEW ix, NEW p \in Nat, LoopIndex(ix, p), NEW width \in 2..4
  PROVE  SeenExactly(ix, Restarted(ix, p, width), p, width)
<1> DEFINE f == Flushed(ix)
           new == [f EXCEPT !.start = p, !.width = width, !.count = 1]
           short == ShortfallOfWidth(width)
<1>1. f \in Pieces /\ InOrder(f, p) BY FlushIsExact
<1> HIDE DEF f
<1>2. new = [discounts |-> f.discounts, runs |-> f.runs, start |-> p, width |-> width, count |-> 1]
  <2>1. f = [discounts |-> f.discounts, runs |-> f.runs, start |-> f.start, width |-> f.width,
             count |-> f.count]
    BY <1>1 DEF Pieces
  <2> DEFINE d == f.discounts
             rs == f.runs
             a == [f EXCEPT !.start = p]
             b == [a EXCEPT !.width = width]
  <2>2. a = [discounts |-> d, runs |-> rs, start |-> p, width |-> f.width, count |-> f.count]
    BY <2>1
  <2> HIDE DEF a
  <2>3. b = [discounts |-> d, runs |-> rs, start |-> p, width |-> width, count |-> f.count]
    BY <2>2
  <2> HIDE DEF b
  <2>4. [b EXCEPT !.count = 1] =
          [discounts |-> d, runs |-> rs, start |-> p, width |-> width, count |-> 1]
    BY <2>3
  <2>5. new = [b EXCEPT !.count = 1] BY DEF a, b
  <2> QED BY <2>4, <2>5
<1> HIDE DEF new
<1>3. new \in Pieces /\ new.start = p /\ new.width = width /\ new.count = 1
      /\ new.runs = f.runs /\ new.discounts = f.discounts
  <2>1. f.discounts \in Seq(Nat) /\ f.runs \in Seq(Runs) BY <1>1 DEF Pieces
  <2>2. width \in 0..4 OBVIOUS
  <2> QED BY <1>2, <2>1, <2>2 DEF Pieces
<1>4. LoopIndex(new, p + width)
  <2>1. InOrder(new, p) BY <1>1, <1>3 DEF InOrder
  <2>2. p + 1 * width <= p + width OBVIOUS
  <2> QED BY <1>3, <2>1, <2>2 DEF LoopIndex
<1>5. \A offset \in Int :
        Before(Flushed(new), offset) = Before(f, offset) + CharsBefore(offset, p, width, 1) * short
  <2> TAKE offset \in Int
  <2>1. p + width \in Nat OBVIOUS
  <2>2. Before(Flushed(new), offset) = Before(new, offset) + Pending(new, offset)
    BY <1>4, <2>1, FlushIsExact
  <2>3. Before(new, offset) = Before(f, offset) BY <1>3 DEF Before
  <2>4. Pending(new, offset) = CharsBefore(offset, p, width, 1) * short BY <1>3 DEF Pending
  <2> QED BY <2>2, <2>3, <2>4
<1>6. short \in 1..3
  <2>1. width \in 1..4 /\ width # 1 OBVIOUS
  <2> QED BY <2>1, ShortfallType
<1> HIDE DEF short
<1>7. \A offset \in Int : offset >= p => Before(f, offset) = Before(f, p)
  BY <1>1, BehindAll
<1>8. \A offset \in Int : Before(f, offset) \in Nat BY <1>1, BeforeType
<1>9. ASSUME NEW offset \in Int, offset <= p PROVE Before(Flushed(new), offset) = Before(f, offset)
  <2>1. CharsBefore(offset, p, width, 1) = 0 BY <1>9 DEF CharsBefore
  <2> QED BY <1>5, <1>6, <1>8, <2>1
<1>10. ASSUME NEW offset \in Int, offset >= p + width
       PROVE  Before(Flushed(new), offset) = Before(f, p) + short
  <2>1. CharsBefore(offset, p, width, 1) = 1
    <3>1. offset >= p + 1 * width /\ 1 \in Nat BY <1>10
    <3> QED BY <3>1, AllChars
  <2>2. Before(f, offset) = Before(f, p) BY <1>7, <1>10
  <2>3. 1 * short = short BY <1>6
  <2> QED BY <1>5, <2>1, <2>2, <2>3
<1>11. SeenExactly(ix, new, p, width) BY <1>4, <1>9, <1>10 DEF SeenExactly, f, short
<1> QED BY <1>11 DEF new, f, Restarted

(* One step of the loop.                                                   *)
LEMMA SeenIsExact ==
  ASSUME runsBelowFloor \in Nat, NEW ix, NEW p \in Nat, LoopIndex(ix, p), NEW width \in 1..4
  PROVE  SeenExactly(ix, Seen(ix, p, width), p, width)
<1>1. CASE width = 1
  <2>1. Seen(ix, p, width) = ix BY <1>1 DEF Seen
  <2> QED BY <1>1, <2>1, NarrowIsExact
<1>2. CASE width # 1 /\ /\ ix.count # 0 /\ ix.width = width /\ ix.count < CountMax
                       /\ ix.start + ix.count * ix.width = p
  <2>1. Seen(ix, p, width) = [ix EXCEPT !.count = @ + 1] BY <1>2 DEF Seen
  <2>2. SeenExactly(ix, [ix EXCEPT !.count = @ + 1], p, ix.width) BY <1>2, PendingGoesOn
  <2> QED BY <1>2, <2>1, <2>2
<1>3. CASE width # 1 /\ ~(/\ ix.count # 0 /\ ix.width = width /\ ix.count < CountMax
                         /\ ix.start + ix.count * ix.width = p)
  <2>1. Seen(ix, p, width) = Restarted(ix, p, width) BY <1>3 DEF Seen, Restarted
  <2>2. width \in 2..4 BY <1>3
  <2> QED BY <2>1, <2>2, PendingStarts
<1> QED BY <1>1, <1>2, <1>3

(* The characters of a chunk are numbers, and so are their shortfalls.     *)
LEMMA CharsAreNumbers ==
  ASSUME NEW chars \in Seq(1..4)
  PROVE  /\ chars \in Seq(Nat) /\ Len(chars) \in Nat /\ DOMAIN chars = 1..Len(chars)
         /\ Shortfalls(chars) \in Seq(Nat) /\ Len(Shortfalls(chars)) = Len(chars)
         /\ \A i \in 1..Len(chars) :
              chars[i] \in 1..4 /\ Shortfalls(chars)[i] = ShortfallOfWidth(chars[i])
<1>1. Len(chars) \in Nat /\ DOMAIN chars = 1..Len(chars) BY SequenceDomain
<1>2. \A i \in 1..Len(chars) : chars[i] \in 1..4 OBVIOUS
<1>3. chars \in Seq(Nat)
  <2>1. chars \in [1..Len(chars) -> Nat]
    <3>1. chars = [i \in 1..Len(chars) |-> chars[i]] BY <1>1
    <3> QED BY <1>2, <3>1
  <2> QED BY <1>1, <2>1
<1> DEFINE s == [k \in 1..Len(chars) |-> ShortfallOfWidth(chars[k])]
<1>4. Shortfalls(chars) = s BY <1>1 DEF Shortfalls
<1>5. \A i \in 1..Len(chars) : s[i] = ShortfallOfWidth(chars[i]) /\ s[i] \in Nat
  <2> TAKE i \in 1..Len(chars)
  <2>1. ShortfallOfWidth(chars[i]) \in 0..3 BY <1>2, ShortfallType
  <2> QED BY <2>1
<1>6. s \in Seq(Nat) /\ Len(s) = Len(chars)
  <2>1. s \in [1..Len(chars) -> Nat]
    <3>1. \A i \in 1..Len(chars) : ShortfallOfWidth(chars[i]) \in Nat BY <1>5
    <3> QED BY <3>1
  <2>2. DOMAIN s = 1..Len(chars) OBVIOUS
  <2> HIDE DEF s
  <2>3. s \in Seq(Nat) BY <1>1, <2>1
  <2>4. DOMAIN s = 1..Len(s) /\ Len(s) \in Nat BY <2>3, SequenceDomain
  <2> QED BY <1>1, <2>2, <2>3, <2>4
<1> HIDE DEF s
<1> QED BY <1>1, <1>2, <1>3, <1>4, <1>5, <1>6

(* The loop over a chunk.                                                  *)
Begun == [discounts |-> discounts, runs |-> runs, start |-> 0, width |-> 0, count |-> 0]

IsLoop(f, chunk, n) ==
  f = [i \in 0..n |->
         IF i = 0 THEN [discounts |-> discounts, runs |-> runs,
                        start |-> 0, width |-> 0, count |-> 0]
         ELSE Seen(f[i - 1], totalBytes + StartOf(chunk, i), chunk[i])]

(* The recursion of Observed has a solution.                               *)
LEMMA LoopExists ==
  ASSUME NEW chunk \in Seq(1..4)
  PROVE  \E f : IsLoop(f, chunk, Len(chunk))
<1> DEFINE n == Len(chunk)
           P == {m \in Nat : m <= n => \E f : IsLoop(f, chunk, m)}
           next(x, i) == Seen(x, totalBytes + StartOf(chunk, i), chunk[i])
<1>0. n \in Nat OBVIOUS
<1> HIDE DEF n
<1>a. \A f, m : IsLoop(f, chunk, m) <=> f = [i \in 0..m |-> IF i = 0 THEN Begun ELSE next(f[i - 1], i)]
  BY DEF IsLoop, Begun
<1> HIDE DEF next
<1>1. 0 \in P
  <2> DEFINE f == [k \in 0..0 |-> Begun]
  <2>1. f = [i \in 0..0 |-> IF i = 0 THEN Begun ELSE next(f[i - 1], i)] OBVIOUS
  <2> HIDE DEF f
  <2> QED BY <2>1, <1>0, <1>a
<1>2. ASSUME NEW m \in P PROVE m + 1 \in P
  <2> SUFFICES ASSUME m + 1 <= n PROVE \E f : IsLoop(f, chunk, m + 1) BY <1>0
  <2>1. PICK f : IsLoop(f, chunk, m) BY <1>0
  <2> DEFINE g == [k \in 0..(m + 1) |-> IF k <= m THEN f[k] ELSE next(f[m], m + 1)]
  <2>2. \A k \in 0..m : f[k] = IF k = 0 THEN Begun ELSE next(f[k - 1], k)
    <3>1. f = [i \in 0..m |-> IF i = 0 THEN Begun ELSE next(f[i - 1], i)] BY <2>1, <1>a
    <3> QED BY <3>1
  <2>3. \A k \in 0..(m + 1) : g[k] = IF k = 0 THEN Begun ELSE next(g[k - 1], k)
    <3> TAKE k \in 0..(m + 1)
    <3>1. CASE k = 0 BY <3>1, <2>2
    <3>2. CASE k \in 1..m
      <4>1. g[k] = f[k] /\ g[k - 1] = f[k - 1] BY <3>2
      <4>2. f[k] = next(f[k - 1], k) BY <2>2, <3>2
      <4> QED BY <3>2, <4>1, <4>2
    <3>3. CASE k = m + 1
      <4>1. g[k] = next(f[m], m + 1) /\ g[k - 1] = f[m] BY <3>3
      <4> QED BY <3>3, <4>1
    <3> QED BY <3>1, <3>2, <3>3
  <2>4. g = [i \in 0..(m + 1) |-> IF i = 0 THEN Begun ELSE next(g[i - 1], i)]
    <3>1. g = [k \in 0..(m + 1) |-> g[k]] OBVIOUS
    <3> HIDE DEF g
    <3> QED BY <2>3, <3>1
  <2> HIDE DEF g
  <2> QED BY <2>4, <1>a
<1>3. P = Nat
  <2>1. P \subseteq Nat OBVIOUS
  <2> HIDE DEF P
  <2> QED BY <1>1, <1>2, <2>1, StepsReachAll
<1>4. n \in P /\ n <= n
  <2> HIDE DEF P
  <2> QED BY <1>0, <1>3
<1>5. \E f : IsLoop(f, chunk, n) BY <1>4
<1> QED BY <1>5 DEF n

(* The i characters before the loop's index are counted.                   *)
LoopExact(ix, chunk, i) ==
  /\ LoopIndex(ix, totalBytes + StartOf(chunk, i + 1))
  /\ \A offset \in Int : offset <= totalBytes => Before(Flushed(ix), offset) = Before(Begun, offset)
  /\ \A k \in 1..(i + 1) :
       Before(Flushed(ix), totalBytes + StartOf(chunk, k)) =
         Before(Begun, totalBytes) + SumBefore(Shortfalls(chunk), k)

LEMMA LoopBegins ==
  ASSUME runsBelowFloor \in Nat, totalBytes \in Nat,
         DiscountsInOrder(discounts, totalBytes), RunsInOrder(runs, runsBelowFloor, totalBytes),
         NEW chunk \in Seq(1..4)
  PROVE  LoopExact(Begun, chunk, 0)
<1>1. Begun \in Pieces /\ Begun.count = 0 /\ Begun.discounts = discounts /\ Begun.runs = runs
  BY DEF Begun, Pieces, DiscountsInOrder, RunsInOrder
<1>2. InOrder(Begun, totalBytes) BY <1>1 DEF InOrder
<1>3. Flushed(Begun) = Begun BY <1>1 DEF Flushed
<1>4. StartOf(chunk, 0 + 1) = 0 /\ SumBefore(Shortfalls(chunk), 1) = 0 /\ StartOf(chunk, 1) = 0
  BY CharsAreNumbers, SumGoesOn DEF StartOf
<1>5. LoopIndex(Begun, totalBytes + StartOf(chunk, 0 + 1))
  BY <1>1, <1>2, <1>4 DEF LoopIndex
<1>6. Before(Begun, totalBytes) \in Nat BY <1>2, BeforeType, totalBytes \in Int
<1>7. ASSUME NEW k \in 1..(0 + 1)
      PROVE  Before(Flushed(Begun), totalBytes + StartOf(chunk, k)) =
               Before(Begun, totalBytes) + SumBefore(Shortfalls(chunk), k)
  <2>1. k = 1 /\ totalBytes + 0 = totalBytes OBVIOUS
  <2> QED BY <1>3, <1>4, <1>6, <2>1
<1> QED BY <1>3, <1>5, <1>7 DEF LoopExact

(* A step of the loop counts one more character of the chunk.              *)
LEMMA LoopGoesOn ==
  ASSUME runsBelowFloor \in Nat, totalBytes \in Nat, NEW chunk \in Seq(1..4),
         NEW i \in 1..Len(chunk), NEW ix, LoopExact(ix, chunk, i - 1)
  PROVE  LoopExact(Seen(ix, totalBytes + StartOf(chunk, i), chunk[i]), chunk, i)
<1> DEFINE p == totalBytes + StartOf(chunk, i)
           w == chunk[i]
           new == Seen(ix, p, w)
           sum(k) == SumBefore(Shortfalls(chunk), k)
<1>1. /\ Len(chunk) \in Nat /\ w \in 1..4 /\ i \in 1..(Len(chunk) + 1)
      /\ i + 1 \in 1..(Len(chunk) + 1) /\ (i - 1) + 1 = i
  BY CharsAreNumbers
<1>2. \A k \in 1..(Len(chunk) + 1) : StartOf(chunk, k) \in Nat /\ sum(k) \in Nat
  BY CharsAreNumbers, SumType DEF StartOf
<1>3. p \in Nat BY <1>1, <1>2
<1>4. totalBytes + StartOf(chunk, i + 1) = p + w
  <2>1. StartOf(chunk, i + 1) = StartOf(chunk, i) + w
    BY CharsAreNumbers, SumGoesOn DEF StartOf
  <2> QED BY <1>1, <1>2, <2>1
<1>5. sum(i + 1) = sum(i) + ShortfallOfWidth(w) BY CharsAreNumbers, SumGoesOn
<1>6. ShortfallOfWidth(w) \in Nat
  <2>1. ShortfallOfWidth(w) \in 0..3 BY <1>1, ShortfallType
  <2> QED BY <2>1
<1>7. /\ LoopIndex(ix, p)
      /\ \A offset \in Int :
           offset <= totalBytes => Before(Flushed(ix), offset) = Before(Begun, offset)
      /\ \A k \in 1..i : Before(Flushed(ix), totalBytes + StartOf(chunk, k)) =
                           Before(Begun, totalBytes) + sum(k)
  BY <1>1 DEF LoopExact
<1>8. \A k \in 1..i : totalBytes + StartOf(chunk, k) <= p
  <2> TAKE k \in 1..i
  <2> DEFINE P == {m \in Nat : k + m <= i => StartOf(chunk, k) <= StartOf(chunk, k + m)}
  <2>1. k \in 1..(Len(chunk) + 1) /\ k \in Nat /\ i \in Nat BY <1>1
  <2>2. 0 \in P BY <1>2, <2>1
  <2>3. ASSUME NEW m \in P PROVE m + 1 \in P
    <3> SUFFICES ASSUME k + (m + 1) <= i PROVE StartOf(chunk, k) <= StartOf(chunk, k + (m + 1))
      BY <2>1
    <3>1. k + m \in 1..Len(chunk) /\ k + m \in 1..(Len(chunk) + 1) /\ k + m <= i
          /\ k + (m + 1) = (k + m) + 1
      BY <1>1, <2>1
    <3>2. StartOf(chunk, (k + m) + 1) = StartOf(chunk, k + m) + chunk[k + m]
      BY <3>1, CharsAreNumbers, SumGoesOn DEF StartOf
    <3>3. chunk[k + m] \in 1..4 BY <3>1, CharsAreNumbers
    <3> QED BY <1>2, <2>1, <3>1, <3>2, <3>3
  <2>4. P = Nat
    <3>1. P \subseteq Nat OBVIOUS
    <3> HIDE DEF P
    <3> QED BY <2>2, <2>3, <3>1, StepsReachAll
  <2>5. i - k \in P /\ k + (i - k) = i /\ i <= i
    <3>1. i - k \in Nat /\ k + (i - k) = i /\ i <= i BY <2>1
    <3> HIDE DEF P
    <3> QED BY <2>4, <3>1
  <2>6. StartOf(chunk, k) <= StartOf(chunk, i) BY <2>5
  <2> QED BY <1>1, <1>2, <2>1, <2>6
<1> HIDE DEF p, w, sum
<1>9. SeenExactly(ix, new, p, w) BY <1>1, <1>3, <1>7, SeenIsExact
<1> HIDE DEF new
<1>10. LoopIndex(new, totalBytes + StartOf(chunk, i + 1)) BY <1>4, <1>9 DEF SeenExactly
<1>11. ASSUME NEW offset \in Int, offset <= totalBytes
       PROVE  Before(Flushed(new), offset) = Before(Begun, offset)
  <2>1. totalBytes <= p BY <1>1, <1>2 DEF p
  <2>2. offset <= p BY <1>3, <1>11, <2>1
  <2> QED BY <1>7, <1>9, <1>11, <2>2 DEF SeenExactly
<1>12. ASSUME NEW k \in 1..(i + 1)
       PROVE  Before(Flushed(new), totalBytes + StartOf(chunk, k)) = Before(Begun, totalBytes) + sum(k)
  <2> DEFINE at == totalBytes + StartOf(chunk, k)
  <2>1. at \in Int BY <1>1, <1>2
  <2>2. CASE k # i + 1
    <3>1. k \in 1..i BY <1>1, <2>2
    <3>2. at <= p BY <1>8, <3>1
    <3> HIDE DEF at
    <3>3. Before(Flushed(new), at) = Before(Flushed(ix), at) BY <1>9, <2>1, <3>2 DEF SeenExactly
    <3> QED BY <1>7, <3>1, <3>3 DEF at
  <2>3. CASE k = i + 1
    <3>1. at = p + w BY <1>4, <2>3
    <3>2. at >= p + w BY <2>1, <3>1
    <3> HIDE DEF at
    <3>3. Before(Flushed(new), at) = Before(Flushed(ix), p) + ShortfallOfWidth(w)
      BY <1>9, <2>1, <3>2 DEF SeenExactly
    <3>4. Before(Flushed(ix), p) = Before(Begun, totalBytes) + sum(i)
      <4>1. i \in 1..i BY <1>1
      <4> QED BY <1>7, <4>1 DEF p
    <3>5. Before(Begun, totalBytes) \in Int
      <4>1. Before(Flushed(ix), totalBytes) \in Nat
        <5>1. InOrder(Flushed(ix), p) BY <1>3, <1>7, FlushIsExact
        <5>2. totalBytes \in Int OBVIOUS
        <5> QED BY <5>1, <5>2, BeforeType
      <4>2. Before(Flushed(ix), totalBytes) = Before(Begun, totalBytes)
        BY <1>7, totalBytes \in Int, totalBytes <= totalBytes
      <4> QED BY <4>1, <4>2
    <3>6. sum(i) \in Nat BY <1>1, <1>2
    <3> QED BY <1>5, <1>6, <2>3, <3>3, <3>4, <3>5, <3>6 DEF at
  <2> QED BY <2>2, <2>3
<1> QED BY <1>10, <1>11, <1>12 DEF LoopExact, new, p, w, sum

(* observe() counts every character of the chunk and changes nothing else. *)
LEMMA ObserveIsExact ==
  ASSUME runsBelowFloor \in Nat, totalBytes \in Nat,
         DiscountsInOrder(discounts, totalBytes), RunsInOrder(runs, runsBelowFloor, totalBytes),
         NEW chunk \in Seq(1..4)
  PROVE  /\ InOrder(Observed(chunk), totalBytes + Widths(chunk))
         /\ \A offset \in Int :
              offset <= totalBytes => Before(Observed(chunk), offset) = Before(Begun, offset)
         /\ \A k \in 1..(Len(chunk) + 1) :
              Before(Observed(chunk), totalBytes + StartOf(chunk, k)) =
                Before(Begun, totalBytes) + SumBefore(Shortfalls(chunk), k)
<1> DEFINE n == Len(chunk)
           upto == CHOOSE f : IsLoop(f, chunk, n)
           P == {m \in Nat : m <= n => LoopExact(upto[m], chunk, m)}
<1>1. IsLoop(upto, chunk, n) BY LoopExists, Zenon
<1>2. Observed(chunk) = Flushed(upto[n]) BY Zenon DEF Observed, IsLoop
<1>3. n \in Nat OBVIOUS
<1> HIDE DEF upto, n
<1>4. \A i \in 0..n : upto[i] = IF i = 0 THEN Begun
                                ELSE Seen(upto[i - 1], totalBytes + StartOf(chunk, i), chunk[i])
  BY <1>1 DEF IsLoop, Begun
<1>5. 0 \in P
  <2>1. upto[0] = Begun BY <1>3, <1>4
  <2>2. LoopExact(Begun, chunk, 0) BY LoopBegins
  <2> QED BY <2>1, <2>2
<1>6. ASSUME NEW m \in P PROVE m + 1 \in P
  <2> SUFFICES ASSUME m + 1 <= n PROVE LoopExact(upto[m + 1], chunk, m + 1) BY <1>3
  <2> DEFINE i == m + 1
  <2>1. i \in 1..n /\ i \in 0..n /\ i # 0 /\ i - 1 = m /\ m <= n BY <1>3
  <2>2. LoopExact(upto[m], chunk, m) BY <2>1
  <2> HIDE DEF i
  <2>3. upto[i] = Seen(upto[i - 1], totalBytes + StartOf(chunk, i), chunk[i]) BY <1>4, <2>1
  <2>4. LoopExact(upto[i - 1], chunk, i - 1) BY <2>1, <2>2
  <2>5. i \in 1..Len(chunk) BY <2>1 DEF n
  <2>6. LoopExact(Seen(upto[i - 1], totalBytes + StartOf(chunk, i), chunk[i]), chunk, i)
    BY <2>4, <2>5, LoopGoesOn
  <2> QED BY <2>3, <2>6 DEF i
<1>7. P = Nat
  <2>1. P \subseteq Nat OBVIOUS
  <2> HIDE DEF P
  <2> QED BY <1>5, <1>6, <2>1, StepsReachAll
<1>8. LoopExact(upto[n], chunk, n)
  <2>1. n \in P /\ n <= n BY <1>3, <1>7
  <2> QED BY <2>1
<1> DEFINE p == totalBytes + StartOf(chunk, n + 1)
<1>9. p \in Nat
  <2>1. n + 1 \in 1..(n + 1) BY <1>3
  <2>2. StartOf(chunk, n + 1) \in Nat BY <2>1, CharsAreNumbers, SumType DEF StartOf, n
  <2> QED BY <2>2
<1>10. LoopIndex(upto[n], p) BY <1>8 DEF LoopExact
<1>11. p = totalBytes + Widths(chunk) BY DEF Widths, n
<1> HIDE DEF p
<1>12. InOrder(Observed(chunk), totalBytes + Widths(chunk))
  BY <1>2, <1>9, <1>10, <1>11, FlushIsExact
<1> QED BY <1>2, <1>8, <1>12 DEF LoopExact, n

------------------------------------------------------------------------------
(* prune.                                                                  *)

(* What is left of a sequence without its first g elements.                *)
LEMMA TailIs ==
  ASSUME NEW S, NEW s \in Seq(S), NEW g \in 0..Len(s)
  PROVE  LET t == SubSeq(s, g + 1, Len(s)) IN
         /\ t \in Seq(S) /\ Len(t) = Len(s) - g /\ DOMAIN t = 1..(Len(s) - g)
         /\ \A i \in 1..(Len(s) - g) : t[i] = s[g + i]
<1> DEFINE t == SubSeq(s, g + 1, Len(s))
<1>1. Len(s) \in Nat OBVIOUS
<1>2. t \in Seq(S) /\ Len(t) = Len(s) - g
  BY <1>1
<1>3. \A i \in 1..(Len(s) - g) : t[i] = s[g + i]
  BY <1>1
<1> HIDE DEF t
<1>4. DOMAIN t = 1..Len(t) BY <1>2, SequenceDomain
<1> QED BY <1>2, <1>3, <1>4 DEF t

(* Entries dropped are counted for whatever lies behind them.              *)
LEMMA DiscountsDropped ==
  ASSUME NEW ds, NEW below \in Nat, NEW end, DiscountsInOrder(ds, end), NEW at \in Int
  PROVE  LET g == Below(ds, at)
             kept == SubSeq(ds, g + 1, Len(ds)) IN
         /\ g \in Nat
         /\ DiscountsInOrder(kept, end)
         /\ \A offset \in Int : offset >= at =>
              InDiscounts(kept, below + g, offset) = InDiscounts(ds, below, offset)
<1> DEFINE g == Below(ds, at)
           n == Len(ds)
           kept == SubSeq(ds, g + 1, n)
<1>1. ds \in Seq(Nat) /\ n \in Nat BY DEF DiscountsInOrder
<1>2. g \in 0..n /\ \A i \in 1..n : ds[i] < at <=> i <= g BY BelowIs
<1> HIDE DEF g
<1>3. /\ kept \in Seq(Nat) /\ Len(kept) = n - g /\ DOMAIN kept = 1..(n - g)
      /\ \A i \in 1..(n - g) : kept[i] = ds[g + i]
  BY <1>1, <1>2, TailIs
<1> HIDE DEF kept
<1>4. DiscountsInOrder(kept, end)
  <2>1. \A i \in 1..n : ds[i] < end /\ \A j \in 1..n : i < j => ds[i] <= ds[j]
    BY DEF DiscountsInOrder
  <2> HIDE DEF n
  <2>2. \A i \in 1..(n - g) : g + i \in 1..n BY <1>1, <1>2
  <2>3. \A i \in 1..(n - g), j \in 1..(n - g) : i < j => g + i < g + j BY <1>1, <1>2
  <2>4. \A i \in 1..(n - g) : kept[i] < end /\ \A j \in 1..(n - g) : i < j => kept[i] <= kept[j]
    BY <1>3, <2>1, <2>2, <2>3
  <2> QED BY <1>3, <2>4 DEF DiscountsInOrder
<1>5. ASSUME NEW offset \in Int, offset >= at
      PROVE  InDiscounts(kept, below + g, offset) = InDiscounts(ds, below, offset)
  <2> DEFINE m == Below(ds, offset)
  <2>1. m \in 0..n /\ \A i \in 1..n : ds[i] < offset <=> i <= m BY BelowIs
  <2> HIDE DEF m
  <2>2. \A i \in 1..n : ds[i] \in Nat BY <1>1
  <2> HIDE DEF n
  <2>3. g <= m
    <3>1. CASE g = 0 BY <2>1, <3>1
    <3>2. CASE g # 0
      <4>1. g \in 1..n /\ g <= g BY <1>1, <1>2, <3>2
      <4>2. ds[g] < at BY <1>2, <4>1
      <4>3. ds[g] < offset BY <1>5, <2>2, <4>1, <4>2
      <4> QED BY <2>1, <4>1, <4>3
    <3> QED BY <3>1, <3>2
  <2>4. m - g \in 0..(n - g) /\ n - g \in Nat BY <1>1, <1>2, <2>1, <2>3
  <2>5. \A i \in 1..(n - g) : kept[i] < offset <=> i <= m - g
    <3> TAKE i \in 1..(n - g)
    <3>1. g + i \in 1..n /\ (g + i <= m <=> i <= m - g) BY <1>1, <1>2, <2>1
    <3> QED BY <1>3, <2>1, <3>1
  <2>6. Below(kept, offset) = m - g BY <1>3, <2>4, <2>5, BelowCounts
  <2>7. InDiscounts(kept, below + g, offset) = (below + g) + (m - g)
    BY <2>6 DEF InDiscounts, Below
  <2>8. InDiscounts(ds, below, offset) = below + m BY DEF InDiscounts, Below, m
  <2> QED BY <1>1, <1>2, <2>1, <2>7, <2>8
<1>6. g \in Nat BY <1>1, <1>2
<1> QED BY <1>4, <1>5, <1>6 DEF g, kept

(* Runs dropped are counted for whatever lies behind their last character. *)
LEMMA RunsDropped ==
  ASSUME NEW rs, NEW below \in Nat, NEW end, RunsInOrder(rs, below, end), NEW g \in 0..Len(rs)
  PROVE  LET kept == SubSeq(rs, g + 1, Len(rs))
             dropped == BeforeRun(rs, below, g + 1) IN
         /\ dropped \in Nat
         /\ RunsInOrder(kept, dropped, end)
         /\ \A offset \in Int :
              (g # 0 => CharsBefore(offset, rs[g].start, rs[g].width, rs[g].count) = rs[g].count
                          /\ rs[g].start < offset)
              => InRuns(kept, dropped, offset) = InRuns(rs, below, offset)
<1> DEFINE n == Len(rs)
           kept == SubSeq(rs, g + 1, n)
           dropped == BeforeRun(rs, below, g + 1)
<1>1. rs \in Seq(Runs) /\ n \in Nat BY DEF RunsInOrder
<1>2. \A i \in 1..n : rs[i] \in Runs BY <1>1
<1>3. /\ kept \in Seq(Runs) /\ Len(kept) = n - g /\ DOMAIN kept = 1..(n - g)
      /\ \A i \in 1..(n - g) : kept[i] = rs[g + i]
  BY <1>1, TailIs
<1>4. dropped = IF g = 0 THEN below ELSE rs[g].cumulative
  <2>1. g \in Nat /\ (g + 1 = 1 <=> g = 0) /\ (g + 1) - 1 = g BY <1>1
  <2> QED BY <2>1 DEF BeforeRun
<1>5. dropped \in Nat
  <2>1. g # 0 => g \in 1..n BY <1>1
  <2>2. g # 0 => rs[g].cumulative \in Nat BY <1>2, <2>1, RunFacts
  <2> QED BY <1>4, <2>2
<1>6. \A i \in 1..(n - g) : BeforeRun(kept, dropped, i) = BeforeRun(rs, below, g + i)
  <2> TAKE i \in 1..(n - g)
  <2>1. CASE i = 1 BY <2>1 DEF BeforeRun
  <2>2. CASE i # 1
    <3>1. i - 1 \in 1..(n - g) /\ g + i # 1 /\ g + (i - 1) = (g + i) - 1 BY <1>1, <2>2
    <3>2. kept[i - 1] = rs[(g + i) - 1] BY <1>3, <3>1
    <3> QED BY <2>2, <3>1, <3>2 DEF BeforeRun
  <2> QED BY <2>1, <2>2
<1>a. \A i \in 1..n :
        /\ RunEnd(rs[i]) <= end
        /\ \A j \in 1..n : i < j => RunEnd(rs[i]) <= rs[j].start
        /\ rs[i].cumulative = BeforeRun(rs, below, i) + rs[i].count * ShortfallOfWidth(rs[i].width)
  BY DEF RunsInOrder
<1>b. g \in 0..n OBVIOUS
<1> HIDE DEF kept, dropped, n
<1>7. RunsInOrder(kept, dropped, end)
  <2>1. \A i \in 1..(n - g) : g + i \in 1..n BY <1>1, <1>b
  <2>2. \A i \in 1..(n - g), j \in 1..(n - g) : i < j => g + i < g + j BY <1>1, <1>b
  <2>3. \A i \in 1..(n - g) :
          /\ RunEnd(kept[i]) <= end
          /\ \A j \in 1..(n - g) : i < j => RunEnd(kept[i]) <= kept[j].start
          /\ kept[i].cumulative =
               BeforeRun(kept, dropped, i) + kept[i].count * ShortfallOfWidth(kept[i].width)
    <3> TAKE i \in 1..(n - g)
    <3>1. kept[i] = rs[g + i] /\ g + i \in 1..n BY <1>3, <2>1
    <3>2. RunEnd(kept[i]) <= end BY <1>a, <3>1
    <3>3. kept[i].cumulative =
            BeforeRun(kept, dropped, i) + kept[i].count * ShortfallOfWidth(kept[i].width)
      BY <1>6, <1>a, <3>1
    <3>4. \A j \in 1..(n - g) : i < j => RunEnd(kept[i]) <= kept[j].start
      BY <1>3, <1>a, <2>1, <2>2, <3>1
    <3> QED BY <3>2, <3>3, <3>4
  <2> QED BY <1>3, <2>3 DEF RunsInOrder
<1>8. ASSUME NEW offset \in Int,
             g # 0 => CharsBefore(offset, rs[g].start, rs[g].width, rs[g].count) = rs[g].count
                        /\ rs[g].start < offset
      PROVE  InRuns(kept, dropped, offset) = InRuns(rs, below, offset)
  <2> DEFINE m == Started(rs, offset)
  <2>1. m \in 0..n /\ \A i \in 1..n : rs[i].start < offset <=> i <= m BY StartedIs DEF n
  <2>2. InRuns(rs, below, offset) =
          IF m = 0 THEN below
          ELSE BeforeRun(rs, below, m)
                 + CharsBefore(offset, rs[m].start, rs[m].width, rs[m].count)
                     * ShortfallOfWidth(rs[m].width)
    BY InRunsIs
  <2> HIDE DEF m
  <2>3. g <= m
    <3>1. CASE g = 0 BY <2>1, <3>1
    <3>2. CASE g # 0
      <4>1. g \in 1..n BY <1>1, <1>b, <3>2
      <4> QED BY <1>8, <2>1, <3>2, <4>1
    <3> QED BY <3>1, <3>2
  <2>4. m - g \in 0..(n - g) /\ n - g \in Nat BY <1>1, <1>b, <2>1, <2>3
  <2>5. Started(kept, offset) = m - g
    <3>1. \A i \in 1..(n - g) : kept[i].start < offset <=> i <= m - g
      <4> TAKE i \in 1..(n - g)
      <4>1. g + i \in 1..n /\ (g + i <= m <=> i <= m - g) BY <1>1, <1>b, <2>1
      <4> QED BY <1>3, <2>1, <4>1
    <3> QED BY <1>3, <2>4, <3>1, StartedCounts
  <2>6. CASE m = g
    <3>1. m - g = 0 BY <2>6, <1>1, <1>b
    <3>2. InRuns(kept, dropped, offset) = dropped BY <1>7, <2>5, <3>1, InRunsIs
    <3>3. CASE g = 0 BY <1>4, <2>2, <2>6, <3>2, <3>3
    <3>4. CASE g # 0
      <4>1. g \in 1..n BY <1>1, <1>b, <3>4
      <4>2. rs[g].cumulative = BeforeRun(rs, below, g) + rs[g].count * ShortfallOfWidth(rs[g].width)
        BY <1>a, <4>1
      <4> QED BY <1>4, <1>8, <2>2, <2>6, <3>2, <3>4, <4>2
    <3> QED BY <3>3, <3>4
  <2>7. CASE m # g
    <3> DEFINE k == m - g
    <3>1. k \in 1..(n - g) /\ k # 0 /\ g + k = m /\ m # 0 BY <1>1, <1>b, <2>1, <2>3, <2>7
    <3>2. kept[k] = rs[m] /\ BeforeRun(kept, dropped, k) = BeforeRun(rs, below, m)
      BY <1>3, <1>6, <3>1
    <3>3. Started(kept, offset) = k BY <2>5
    <3> HIDE DEF k
    <3>4. InRuns(kept, dropped, offset) =
            BeforeRun(kept, dropped, k)
              + CharsBefore(offset, kept[k].start, kept[k].width, kept[k].count)
                  * ShortfallOfWidth(kept[k].width)
      BY <1>7, <3>1, <3>3, InRunsIs
    <3> QED BY <2>2, <3>1, <3>2, <3>4
  <2> QED BY <2>6, <2>7
<1> QED BY <1>5, <1>7, <1>8 DEF kept, dropped, n

(* The run that is cut keeps its end and its count of everything so far.   *)
LEMMA CutRunIs ==
  ASSUME NEW r \in Runs, NEW b \in 1..(r.count - 1)
  PROVE  LET cut == [start |-> r.start + b * r.width, width |-> r.width, count |-> r.count - b,
                     cumulative |-> r.cumulative]
             short == ShortfallOfWidth(r.width) IN
         /\ cut \in Runs /\ RunEnd(cut) = RunEnd(r)
         /\ b * r.width \in Nat /\ b * short \in Nat
         /\ r.count * short = b * short + (r.count - b) * short
         /\ cut.start <= RunEnd(r)
         /\ \A offset \in Int : CharsBefore(offset, r.start, r.width, b) = b =>
              CharsBefore(offset, r.start, r.width, r.count) * short =
                b * short + CharsBefore(offset, r.start + b * r.width, r.width, r.count - b) * short
<1> DEFINE s == r.start
           w == r.width
           c == r.count
           short == ShortfallOfWidth(w)
           cut == [start |-> s + b * w, width |-> w, count |-> c - b, cumulative |-> r.cumulative]
<1>1. /\ s \in Nat /\ w \in 2..4 /\ c \in Nat \ {0} /\ r.cumulative \in Nat
      /\ short \in 1..3 /\ RunEnd(r) = s + c * w /\ b \in 1..(c - 1)
  BY RunFacts DEF RunEnd
<1> DEFINE all == r.cumulative
           end == RunEnd(r)
<1>2. cut.start = s + b * w /\ cut.width = w /\ cut.count = c - b /\ cut.cumulative = all
      /\ cut = [start |-> s + b * w, width |-> w, count |-> c - b, cumulative |-> all]
  OBVIOUS
<1> HIDE DEF s, w, c, short, all, cut, end
<1>3. /\ all \in Nat /\ end = s + c * w /\ b \in Nat /\ b \in Int /\ c \in Int /\ c - b \in Nat \ {0}
      /\ c - b \in Int /\ w \in 0..4 /\ short \in 0..4 /\ b + (c - b) = c /\ 0 \in Int
  BY <1>1 DEF all, end
<1>4. /\ b * w \in Nat /\ (c - b) * w \in Nat /\ c * w = b * w + (c - b) * w
  <2>1. b * w \in Nat BY <1>3, TimesSmall
  <2>2. (c - b) * w \in Nat
    <3> DEFINE d == c - b
    <3>1. d \in Int /\ d \in Nat BY <1>3
    <3> HIDE DEF d
    <3>2. d * w \in Nat BY <1>3, <3>1, TimesSmall
    <3> QED BY <3>2 DEF d
  <2>3. (b + (c - b)) * w = b * w + (c - b) * w BY <1>3, TimesSmall
  <2> QED BY <1>3, <2>1, <2>2, <2>3
<1>5. b * short \in Nat /\ c * short = b * short + (c - b) * short
  <2>1. b * short \in Nat BY <1>3, TimesSmall
  <2>2. (b + (c - b)) * short = b * short + (c - b) * short BY <1>3, TimesSmall
  <2> QED BY <1>3, <2>1, <2>2
<1>6. cut \in Runs /\ RunEnd(cut) = end /\ cut.start <= end
  <2>1. s + b * w \in Nat BY <1>1, <1>4
  <2>2. cut \in Runs BY <1>1, <1>2, <1>3, <2>1 DEF Runs
  <2>3. RunEnd(cut) = (s + b * w) + (c - b) * w BY <1>2 DEF RunEnd
  <2> QED BY <1>1, <1>2, <1>3, <1>4, <2>2, <2>3
<1>7. ASSUME NEW offset \in Int, CharsBefore(offset, s, w, b) = b
      PROVE  CharsBefore(offset, s, w, c) * short =
               b * short + CharsBefore(offset, s + b * w, w, c - b) * short
  <2> DEFINE x == CharsBefore(offset, s + b * w, w, c - b)
  <2>1. CharsBefore(offset, s, w, b + (c - b)) = CharsBefore(offset, s, w, b) + x
    <3> DEFINE d == c - b
    <3>1. d \in Nat /\ b \in Nat /\ s \in Nat /\ w \in 2..4 BY <1>1, <1>3
    <3> HIDE DEF d
    <3>2. CharsBefore(offset, s, w, b + d) =
            CharsBefore(offset, s, w, b) + CharsBefore(offset, s + b * w, w, d)
      BY <3>1, CharsGoOn, Zenon
    <3> QED BY <3>2 DEF d
  <2>2. x \in Int
    <3>1. s + b * w \in Nat /\ c - b \in Nat BY <1>1, <1>3, <1>4
    <3>2. x \in Nat BY <1>1, <3>1, CharsAreCounted
    <3> QED BY <3>2
  <2> HIDE DEF x
  <2>3. (b + x) * short = b * short + x * short BY <1>3, <2>2, TimesSmall
  <2> QED BY <1>3, <1>7, <2>1, <2>3 DEF x
<1> QED BY <1>4, <1>5, <1>6, <1>7 DEF cut, s, w, c, short, all, end

CutAt(rs, b) == [rs EXCEPT ![1].start = @ + b * rs[1].width, ![1].count = @ - b]

CutExactly(rs, new, below, counted, end, b) ==
  /\ counted \in Nat
  /\ RunsInOrder(new, counted, end)
  /\ \A offset \in Int :
       /\ rs[1].start < offset
       /\ CharsBefore(offset, rs[1].start, rs[1].width, b) = b
       => InRuns(new, counted, offset) = InRuns(rs, below, offset)

(* A run cut at a character says the same of every offset behind the cut.  *)
LEMMA RunCut ==
  ASSUME NEW rs, NEW below \in Nat, NEW end, RunsInOrder(rs, below, end), rs # <<>>,
         NEW b \in 1..(rs[1].count - 1)
  PROVE  CutExactly(rs, CutAt(rs, b), below, below + b * ShortfallOfWidth(rs[1].width), end, b)
<1> DEFINE n == Len(rs)
           r == rs[1]
           short == ShortfallOfWidth(r.width)
           cut == [start |-> r.start + b * r.width, width |-> r.width, count |-> r.count - b,
                   cumulative |-> r.cumulative]
           counted == below + b * short
           new == CutAt(rs, b)
<1>1. rs \in Seq(Runs) /\ n \in Nat /\ n # 0 /\ DOMAIN rs = 1..n
  <2>1. rs \in Seq(Runs) BY DEF RunsInOrder
  <2> QED BY <2>1
<1>2. (\A i \in 1..n : rs[i] \in Runs) /\ 1 \in 1..n /\ r \in Runs BY <1>1
<1>3. /\ cut \in Runs /\ RunEnd(cut) = RunEnd(r)
      /\ b * r.width \in Nat /\ b * short \in Nat
      /\ r.count * short = b * short + (r.count - b) * short
      /\ cut.start <= RunEnd(r)
      /\ \A offset \in Int : CharsBefore(offset, r.start, r.width, b) = b =>
           CharsBefore(offset, r.start, r.width, r.count) * short =
             b * short + CharsBefore(offset, r.start + b * r.width, r.width, r.count - b) * short
  <2> HIDE DEF r
  <2>1. r \in Runs /\ b \in 1..(r.count - 1) BY <1>2 DEF r
  <2> QED BY <2>1, CutRunIs
<1>4. new = [rs EXCEPT ![1] = cut]
  <2> DEFINE by == b * r.width
  <2>1. r = [start |-> r.start, width |-> r.width, count |-> r.count, cumulative |-> r.cumulative]
    BY <1>2 DEF Runs
  <2>2. new = [rs EXCEPT ![1] = [[r EXCEPT !.start = @ + by] EXCEPT !.count = @ - b]]
    BY <1>1 DEF CutAt
  <2> HIDE DEF by, r
  <2> DEFINE s == r.start
             w == r.width
             c == r.count
             all == r.cumulative
             moved == [r EXCEPT !.start = @ + by]
             list == [start |-> s + by, width |-> w, count |-> c - b, cumulative |-> all]
  <2>3. r = [start |-> s, width |-> w, count |-> c, cumulative |-> all] BY <2>1
  <2> HIDE DEF s, w, c, all
  <2>4. moved = [start |-> s + by, width |-> w, count |-> c, cumulative |-> all] BY <2>3
  <2> HIDE DEF moved
  <2>5. [moved EXCEPT !.count = @ - b] = list BY <2>4
  <2>6. list = cut BY DEF s, w, c, all, by
  <2> QED BY <2>2, <2>5, <2>6 DEF moved
<1>5. /\ cut.start = r.start + b * r.width /\ cut.width = r.width /\ cut.count = r.count - b
      /\ cut.cumulative = r.cumulative
  OBVIOUS
<1>6. r.start \in Nat /\ r.cumulative \in Nat /\ short \in 1..3 BY <1>2, RunFacts
<1>a. \A i \in 1..n :
        /\ RunEnd(rs[i]) <= end
        /\ \A j \in 1..n : i < j => RunEnd(rs[i]) <= rs[j].start
        /\ rs[i].cumulative = BeforeRun(rs, below, i) + rs[i].count * ShortfallOfWidth(rs[i].width)
  BY DEF RunsInOrder
<1> HIDE DEF cut, n, new
<1>7. /\ new \in Seq(Runs) /\ Len(new) = n /\ DOMAIN new = 1..n
      /\ new[1] = cut /\ \A i \in 2..n : new[i] = rs[i]
  <2>1. new \in Seq(Runs) BY <1>1, <1>3, <1>4
  <2>2. DOMAIN new = 1..n BY <1>1, <1>4
  <2>3. new[1] = cut BY <1>1, <1>2, <1>4
  <2>4. \A i \in 2..n : new[i] = rs[i] BY <1>1, <1>4
  <2>5. Len(new) = n BY <1>1, <2>1, <2>2, SequenceDomain
  <2> QED BY <2>1, <2>2, <2>3, <2>4, <2>5
<1>8. counted \in Nat BY <1>3
<1>9. \A i \in 2..n : BeforeRun(new, counted, i) = BeforeRun(rs, below, i)
  <2> TAKE i \in 2..n
  <2>1. i # 1 BY <1>1
  <2>2. new[i - 1].cumulative = rs[i - 1].cumulative
    <3>1. CASE i = 2
      <4>1. i - 1 = 1 BY <3>1
      <4> QED BY <1>5, <1>7, <4>1
    <3>2. CASE i # 2
      <4>1. i - 1 \in 2..n BY <1>1, <3>2
      <4> QED BY <1>7, <4>1
    <3> QED BY <3>1, <3>2
  <2> QED BY <2>1, <2>2 DEF BeforeRun
<1>10. BeforeRun(new, counted, 1) = counted /\ BeforeRun(rs, below, 1) = below BY DEF BeforeRun
<1>11. cut.cumulative = counted + cut.count * short
  <2>1. r.cumulative = below + r.count * short BY <1>2, <1>10, <1>a
  <2> DEFINE x == r.count * short
             y == b * short
             z == (r.count - b) * short
  <2>2. x = y + z /\ y \in Nat /\ cut.count * short = z BY <1>3, <1>5
  <2>3. z \in Nat
    <3> DEFINE d == r.count - b
    <3>1. d \in Nat /\ d \in Int /\ short \in 0..4
      <4>1. r.count \in Nat BY <1>2, RunFacts
      <4> QED BY <4>1, <1>6
    <3> HIDE DEF d, short
    <3>2. d * short \in Nat BY <3>1, TimesSmall
    <3> QED BY <3>2 DEF d
  <2>4. counted = below + y OBVIOUS
  <2> HIDE DEF x, y, z, counted
  <2>5. below + x = (below + y) + z BY <2>2, <2>3
  <2> QED BY <1>5, <2>1, <2>2, <2>4, <2>5 DEF x
<1>12. RunsInOrder(new, counted, end)
  <2>1. ASSUME NEW i \in 1..n
        PROVE  /\ RunEnd(new[i]) = RunEnd(rs[i])
               /\ new[i].cumulative = rs[i].cumulative
               /\ i # 1 => new[i].start = rs[i].start
               /\ new[i].cumulative =
                    BeforeRun(new, counted, i) + new[i].count * ShortfallOfWidth(new[i].width)
    <3>1. CASE i = 1 BY <1>3, <1>5, <1>7, <1>10, <1>11, <3>1
    <3>2. CASE i # 1
      <4>1. i \in 2..n BY <1>1, <3>2
      <4> QED BY <1>7, <1>9, <1>a, <4>1
    <3> QED BY <3>1, <3>2
  <2>2. \A i \in 1..n :
          /\ RunEnd(new[i]) <= end
          /\ \A j \in 1..n : i < j => RunEnd(new[i]) <= new[j].start
    <3> TAKE i \in 1..n
    <3>1. RunEnd(new[i]) <= end BY <1>a, <2>1
    <3>2. \A j \in 1..n : i < j => RunEnd(new[i]) <= new[j].start
      <4> TAKE j \in 1..n
      <4>1. i < j => j # 1 BY <1>1
      <4> QED BY <1>a, <2>1, <4>1
    <3> QED BY <3>1, <3>2
  <2> HIDE DEF counted
  <2> QED BY <1>7, <2>1, <2>2 DEF RunsInOrder
<1> HIDE DEF counted, r
<1>13. ASSUME NEW offset \in Int, r.start < offset, CharsBefore(offset, r.start, r.width, b) = b
       PROVE  InRuns(new, counted, offset) = InRuns(rs, below, offset)
  <2> DEFINE m == Started(rs, offset)
  <2>1. m \in 0..n /\ \A i \in 1..n : rs[i].start < offset <=> i <= m BY StartedIs DEF n
  <2>2. InRuns(rs, below, offset) =
          IF m = 0 THEN below
          ELSE BeforeRun(rs, below, m)
                 + CharsBefore(offset, rs[m].start, rs[m].width, rs[m].count)
                     * ShortfallOfWidth(rs[m].width)
    BY InRunsIs
  <2>3. m # 0
    <3>1. 1 <= m BY <1>2, <1>13, <2>1 DEF r
    <3> QED BY <3>1
  <2> HIDE DEF m
  <2>4. r.start \in Nat /\ cut.start \in Nat /\ cut.start >= r.start
    <3> DEFINE by == b * r.width
    <3>1. by \in Nat /\ r.start \in Nat /\ cut.start = r.start + by BY <1>3, <1>5, <1>6
    <3> HIDE DEF by
    <3> QED BY <3>1
  <2>5. CASE m # 1
    <3>1. m \in 2..n /\ 2 \in 2..n /\ 2 <= m /\ 2 \in 1..n /\ m \in 1..n BY <1>1, <2>1, <2>3, <2>5
    <3>2. cut.start < offset
      <4>1. rs[2].start < offset BY <2>1, <3>1
      <4>2. RunEnd(r) <= rs[2].start BY <1>2, <1>a, <3>1 DEF r
      <4>3. RunEnd(r) \in Nat /\ rs[2].start \in Nat
        <5>1. r \in Runs /\ rs[2] \in Runs BY <1>2, <3>1
        <5> QED BY <5>1, RunFacts
      <4> QED BY <1>3, <2>4, <4>1, <4>2, <4>3
    <3>3. Started(new, offset) = m
      <4>1. \A i \in 1..n : new[i].start < offset <=> i <= m
        <5> TAKE i \in 1..n
        <5>1. CASE i = 1
          <6>1. new[i] = cut BY <1>7, <5>1
          <6>2. i <= m BY <1>1, <3>1, <5>1
          <6> QED BY <3>2, <6>1, <6>2
        <5>2. CASE i # 1
          <6>1. i \in 2..n BY <1>1, <5>2
          <6> QED BY <1>7, <2>1, <6>1
        <5> QED BY <5>1, <5>2
      <4> QED BY <1>1, <1>7, <2>1, <4>1, StartedCounts
    <3>4. InRuns(new, counted, offset) =
            BeforeRun(new, counted, m)
              + CharsBefore(offset, new[m].start, new[m].width, new[m].count)
                  * ShortfallOfWidth(new[m].width)
      BY <1>12, <2>3, <3>3, InRunsIs
    <3>5. new[m] = rs[m] /\ BeforeRun(new, counted, m) = BeforeRun(rs, below, m)
      BY <1>7, <1>9, <3>1
    <3> QED BY <2>2, <2>3, <3>4, <3>5
  <2>6. CASE m = 1
    <3> DEFINE x == CharsBefore(offset, cut.start, cut.width, cut.count) * short
               y == b * short
               all == CharsBefore(offset, r.start, r.width, r.count) * short
    <3>1. all = y + x BY <1>3, <1>5, <1>13
    <3>2. InRuns(rs, below, offset) = below + all
      BY <1>10, <2>2, <2>6 DEF r
    <3>3. counted = below + y /\ y \in Nat BY <1>3 DEF counted
    <3>4. cut.width = r.width /\ r.width \in 2..4 /\ cut.count \in Nat /\ cut.start \in Nat
      BY <1>2, <1>3, <1>5, RunFacts
    <3>5. x \in Nat
      <4> DEFINE cs == cut.start
                 cw == cut.width
                 cc == cut.count
      <4>1. cs \in Nat /\ cw \in 2..4 /\ cc \in Nat BY <3>4
      <4>2. x = CharsBefore(offset, cs, cw, cc) * ShortfallOfWidth(cw) BY <3>4
      <4> HIDE DEF cs, cw, cc, x
      <4>3. CharsBefore(offset, cs, cw, cc) * ShortfallOfWidth(cw) \in Nat
        BY <4>1, CharsTimesShort
      <4> QED BY <4>2, <4>3
    <3>6. CASE cut.start < offset
      <4>1. Started(new, offset) = m
        <5>1. \A i \in 1..n : new[i].start < offset <=> i <= m
          <6> TAKE i \in 1..n
          <6>1. CASE i = 1
            <7>1. new[i] = cut BY <1>7, <6>1
            <7>2. i <= m BY <2>6, <6>1
            <7> QED BY <3>6, <7>1, <7>2
          <6>2. CASE i # 1
            <7>1. i \in 2..n BY <1>1, <6>2
            <7> QED BY <1>7, <2>1, <2>6, <7>1
          <6> QED BY <6>1, <6>2
        <5> QED BY <1>1, <1>7, <2>1, <5>1, StartedCounts
      <4>2. InRuns(new, counted, offset) =
              BeforeRun(new, counted, m)
                + CharsBefore(offset, new[m].start, new[m].width, new[m].count)
                    * ShortfallOfWidth(new[m].width)
        BY <1>12, <2>3, <4>1, InRunsIs
      <4>3. InRuns(new, counted, offset) = counted + x BY <1>7, <1>10, <2>6, <3>4, <4>2
      <4> HIDE DEF x, y, all
      <4> QED BY <3>1, <3>2, <3>3, <3>5, <4>3
    <3>7. CASE ~(cut.start < offset)
      <4>1. Started(new, offset) = 0
        <5>1. \A i \in 1..n : new[i].start < offset <=> i <= 0
          <6> TAKE i \in 1..n
          <6>1. CASE i = 1
            <7>1. new[i] = cut BY <1>7, <6>1
            <7>2. ~(i <= 0) BY <6>1
            <7> QED BY <3>7, <7>1, <7>2
          <6>2. CASE i # 1
            <7>1. i \in 2..n BY <1>1, <6>2
            <7>2. ~(i <= m) /\ ~(i <= 0) BY <1>1, <2>6, <7>1
            <7> QED BY <1>7, <2>1, <7>1, <7>2
          <6> QED BY <6>1, <6>2
        <5>2. 0 \in 0..n BY <1>1
        <5> QED BY <1>1, <1>7, <5>1, <5>2, StartedCounts
      <4>2. InRuns(new, counted, offset) = counted BY <1>12, <4>1, InRunsIs
      <4>3. x = 0
        <5>1. offset <= cut.start BY <2>4, <3>7
        <5>2. CharsBefore(offset, cut.start, cut.width, cut.count) = 0 BY <5>1 DEF CharsBefore
        <5> QED BY <1>6, <5>2
      <4> HIDE DEF x, y, all
      <4> QED BY <3>1, <3>2, <3>3, <3>5, <4>2, <4>3
    <3> QED BY <3>6, <3>7
  <2> QED BY <2>5, <2>6
<1> QED BY <1>8, <1>12, <1>13 DEF CutExactly, counted, r, new

(* How far a run lies below the floor.                                     *)
LEMMA RunBelow ==
  ASSUME NEW r \in Runs, NEW at \in Int
  PROVE  LET b == DivCeil(at - r.start, r.width) IN
         /\ b \in Int
         /\ r.start < at => b > 0 /\ \A offset \in Int : offset >= at =>
              \A q \in Nat : q <= b => CharsBefore(offset, r.start, r.width, q) = q
         /\ RunEnd(r) <= at => r.start < at /\ b >= r.count
<1> DEFINE s == r.start
           w == r.width
           c == r.count
           a == at - s
           b == DivCeil(a, w)
<1>1. s \in Nat /\ w \in 2..4 /\ c \in Nat \ {0} /\ RunEnd(r) = s + c * w
      /\ RunEnd(r) \in Nat /\ RunEnd(r) > s
  BY RunFacts DEF RunEnd
<1>2. a \in Int /\ a = at - s BY <1>1
<1> HIDE DEF s, w, c, a
<1>3. b \in Int /\ (\A q \in Int : b <= q <=> a <= q * w) /\ (a > 0 => b > 0)
  BY <1>1, <1>2, CeilIs
<1> HIDE DEF b
<1>4. ASSUME s < at, NEW offset \in Int, offset >= at, NEW q \in Nat, q <= b
      PROVE  CharsBefore(offset, s, w, q) = q
  <2> DEFINE further == offset - s
             d == DivCeil(further, w)
  <2>1. further \in Int /\ a <= further /\ ~(offset <= s) BY <1>1, <1>2, <1>4
  <2>2. CharsBefore(offset, s, w, q) = Smaller(d, q) BY <2>1 DEF CharsBefore
  <2> HIDE DEF further
  <2>3. d \in Int /\ \A k \in Int : d <= k <=> further <= k * w BY <1>1, <2>1, CeilIs
  <2> HIDE DEF d
  <2>4. d * w \in Int
    <3>1. w \in 0..4 BY <1>1
    <3> QED BY <2>3, <3>1, TimesSmall
  <2>5. further <= d * w BY <2>3
  <2>6. a <= d * w BY <1>2, <2>1, <2>4, <2>5
  <2>7. b <= d BY <1>3, <2>3, <2>6
  <2>8. q <= d BY <1>3, <1>4, <2>3, <2>7
  <2>9. Smaller(d, q) = q BY <2>3, <2>8 DEF Smaller
  <2> QED BY <2>2, <2>9
<1>5. s < at => b > 0 BY <1>1, <1>2, <1>3
<1>6. ASSUME RunEnd(r) <= at PROVE s < at /\ b >= c
  <2>1. s < at BY <1>1, <1>6
  <2>2. c * w - w = (c - 1) * w /\ c * w \in Int /\ c - 1 \in Int
    <3>1. w \in 0..4 /\ c \in Int /\ 1 \in Int BY <1>1
    <3> QED BY <3>1, TimesSmall
  <2>3. ~(a <= (c - 1) * w) BY <1>1, <1>2, <1>6, <2>2
  <2>4. ~(b <= c - 1) BY <1>3, <2>2, <2>3
  <2>5. b >= c BY <1>1, <1>3, <2>4
  <2> QED BY <2>1, <2>5
<1>7. b \in Int BY <1>3
<1> QED BY <1>4, <1>5, <1>6, <1>7 DEF b, a, s, w, c

(* Whole runs dropped and one cut: the others say what they said, and so   *)
(* for every offset from the floor on does the count.                      *)
LEMMA RunsPruned ==
  ASSUME runsBelowFloor \in Nat, NEW end, RunsInOrder(runs, runsBelowFloor, end), Floor \in Int
  PROVE  /\ Pruned.runsBelowFloor \in Nat
         /\ RunsInOrder(Pruned.runs, Pruned.runsBelowFloor, end)
         /\ \A offset \in Int : offset >= Floor =>
              InRuns(Pruned.runs, Pruned.runsBelowFloor, offset) = InRuns(runs, runsBelowFloor, offset)
<1> DEFINE n == Len(runs)
           below(r) == DivCeil(Floor - r.start, r.width)
           whole == {i \in DOMAIN runs : runs[i].start < Floor /\ below(runs[i]) >= runs[i].count}
           g == Cardinality(whole)
           kept == SubSeq(runs, g + 1, n)
           dropped == IF whole = {} THEN runsBelowFloor ELSE runs[g].cumulative
           cut == kept # <<>> /\ kept[1].start < Floor
           by == below(kept[1])
           shorter == [kept EXCEPT ![1].start = @ + by * kept[1].width, ![1].count = @ - by]
           counted == dropped + by * ShortfallOfWidth(kept[1].width)
<1>1. /\ Pruned.runs = IF cut THEN shorter ELSE kept
      /\ Pruned.runsBelowFloor = IF cut THEN counted ELSE dropped
  BY DEF Pruned
<1>2. runs \in Seq(Runs) /\ n \in Nat /\ DOMAIN runs = 1..n /\ \A i \in 1..n : runs[i] \in Runs
  <2>1. runs \in Seq(Runs) BY DEF RunsInOrder
  <2>2. n \in Nat /\ DOMAIN runs = 1..n BY <2>1, SequenceDomain
  <2>3. \A i \in 1..n : runs[i] \in Runs BY <2>1
  <2> QED BY <2>1, <2>2, <2>3
<1>3. \A r \in Runs :
        /\ below(r) \in Int
        /\ r.start < Floor => below(r) > 0 /\ \A offset \in Int : offset >= Floor =>
             \A q \in Nat : q <= below(r) => CharsBefore(offset, r.start, r.width, q) = q
        /\ RunEnd(r) <= Floor => r.start < Floor /\ below(r) >= r.count
  BY RunBelow
<1>4. \A i \in 1..n : i \in whole <=> runs[i].start < Floor /\ below(runs[i]) >= runs[i].count
  BY <1>2
<1>5. whole \in SUBSET (1..n) BY <1>2
<1> HIDE DEF below, whole, n, shorter, counted
<1>6. ASSUME NEW j \in 1..n, NEW k \in 1..n, j < k /\ k \in whole PROVE j \in whole
  <2>1. RunEnd(runs[j]) <= runs[k].start BY <1>6 DEF RunsInOrder, n
  <2>2. runs[k].start < Floor BY <1>4, <1>6
  <2>3. RunEnd(runs[j]) \in Nat /\ runs[k].start \in Nat /\ runs[j] \in Runs BY <1>2, RunFacts
  <2>4. RunEnd(runs[j]) <= Floor BY <2>1, <2>2, <2>3
  <2> QED BY <1>3, <1>4, <2>3, <2>4
<1>7. g \in 0..n /\ whole = 1..g BY <1>2, <1>5, <1>6, BeginningIs
<1>8. dropped = BeforeRun(runs, runsBelowFloor, g + 1)
  <2>1. g \in Nat /\ (g + 1 = 1 <=> g = 0) /\ (g + 1) - 1 = g BY <1>2, <1>7
  <2>2. whole = {} <=> g = 0 BY <1>7, <2>1
  <2> HIDE DEF g
  <2> QED BY <2>1, <2>2 DEF BeforeRun
<1> HIDE DEF g, dropped
<1>9. /\ dropped \in Nat
      /\ RunsInOrder(kept, dropped, end)
      /\ \A offset \in Int :
           (g # 0 => CharsBefore(offset, runs[g].start, runs[g].width, runs[g].count) = runs[g].count
                       /\ runs[g].start < offset)
           => InRuns(kept, dropped, offset) = InRuns(runs, runsBelowFloor, offset)
  BY <1>7, <1>8, RunsDropped DEF n
<1>10. \A offset \in Int : offset >= Floor =>
         InRuns(kept, dropped, offset) = InRuns(runs, runsBelowFloor, offset)
  <2> SUFFICES ASSUME NEW offset \in Int, offset >= Floor, g # 0
               PROVE  CharsBefore(offset, runs[g].start, runs[g].width, runs[g].count) = runs[g].count
                      /\ runs[g].start < offset
    BY <1>9
  <2>1. g \in 1..n /\ g \in whole BY <1>2, <1>7
  <2> DEFINE r == runs[g]
  <2>2. r \in Runs /\ r.start < Floor /\ below(r) >= r.count BY <1>2, <1>4, <2>1
  <2> HIDE DEF r
  <2>3. r.count \in Nat /\ r.start \in Nat BY <2>2, RunFacts
  <2>4. below(r) \in Int BY <1>3, <2>2
  <2>5. r.count <= below(r) BY <2>2, <2>3, <2>4
  <2>6. CharsBefore(offset, r.start, r.width, r.count) = r.count BY <1>3, <2>2, <2>3, <2>5
  <2>7. r.start < offset BY <2>2, <2>3
  <2> QED BY <2>6, <2>7 DEF r
<1>11. /\ kept \in Seq(Runs) /\ Len(kept) = n - g
       /\ \A i \in 1..(n - g) : kept[i] = runs[g + i]
  BY <1>2, <1>7, TailIs DEF n
<1>12. CASE ~cut
  <2>1. Pruned.runs = kept /\ Pruned.runsBelowFloor = dropped BY <1>1, <1>12
  <2> HIDE DEF kept, cut
  <2> QED BY <1>9, <1>10, <2>1
<1>13. CASE cut
  <2>1. Pruned.runs = shorter /\ Pruned.runsBelowFloor = counted BY <1>1, <1>13
  <2> DEFINE r == kept[1]
  <2>2. kept # <<>> /\ r.start < Floor BY <1>13
  <2> HIDE DEF kept
  <2>3. r \in Runs /\ n - g \in Nat /\ n - g # 0 /\ r = runs[g + 1] /\ g + 1 \in 1..n
    <3>1. Len(kept) \in Nat /\ Len(kept) # 0 BY <1>11, <2>2
    <3>2. 1 \in 1..(n - g) /\ g + 1 \in 1..n BY <1>2, <1>7, <1>11, <3>1
    <3>3. r = runs[g + 1] BY <1>11, <3>2
    <3> QED BY <1>2, <1>11, <3>1, <3>2, <3>3
  <2>4. ~(below(r) >= r.count)
    <3>1. g + 1 \notin whole BY <1>2, <1>7
    <3> QED BY <1>4, <2>2, <2>3, <3>1
  <2> HIDE DEF r
  <2>5. by = below(r) BY DEF r
  <2>6. by \in 1..(r.count - 1)
    <3>1. below(r) \in Int /\ below(r) > 0 BY <1>3, <2>2, <2>3
    <3>2. r.count \in Nat BY <2>3, RunFacts
    <3> QED BY <2>4, <2>5, <3>1, <3>2
  <2>7. \A offset \in Int : offset >= Floor =>
          r.start < offset /\ CharsBefore(offset, r.start, r.width, by) = by
    <3> TAKE offset \in Int
    <3> HAVE offset >= Floor
    <3>1. by \in Nat /\ by <= below(r) BY <2>5, <2>6
    <3>2. CharsBefore(offset, r.start, r.width, by) = by BY <1>3, <2>2, <2>3, <3>1
    <3>3. r.start \in Nat BY <2>3, RunFacts
    <3>4. r.start < offset BY <2>2, <3>3
    <3> QED BY <3>2, <3>4
  <2> HIDE DEF by
  <2>8. shorter = CutAt(kept, by) BY DEF shorter, by, r, CutAt
  <2>9. counted = dropped + by * ShortfallOfWidth(kept[1].width) BY DEF counted, by, r
  <2>10. /\ counted \in Nat
         /\ RunsInOrder(shorter, counted, end)
         /\ \A offset \in Int :
              /\ kept[1].start < offset
              /\ CharsBefore(offset, kept[1].start, kept[1].width, by) = by
              => InRuns(shorter, counted, offset) = InRuns(kept, dropped, offset)
    <3>1. by \in 1..(kept[1].count - 1) BY <2>6 DEF r
    <3>2. CutExactly(kept, CutAt(kept, by), dropped,
                     dropped + by * ShortfallOfWidth(kept[1].width), end, by)
      BY <1>9, <2>2, <3>1, RunCut
    <3>3. CutExactly(kept, shorter, dropped, counted, end, by) BY <2>8, <2>9, <3>2
    <3> QED BY <3>3 DEF CutExactly
  <2>11. \A offset \in Int : offset >= Floor =>
           InRuns(shorter, counted, offset) = InRuns(kept, dropped, offset)
    BY <2>7, <2>10 DEF r
  <2> HIDE DEF cut
  <2> QED BY <1>10, <2>1, <2>10, <2>11
<1> QED BY <1>12, <1>13

------------------------------------------------------------------------------
(* The invariant of the index.                                             *)

(* The entries count, for every character from `from` on, what the text    *)
(* before it comes to.                                                     *)
CountsFrom(ds, dsBelow, rs, rsBelow, chars, from) ==
  \A i \in 1..(Len(chars) + 1) : StartOf(chars, i) >= from =>
    InDiscounts(ds, dsBelow, StartOf(chars, i)) + InRuns(rs, rsBelow, StartOf(chars, i)) =
      SumBefore(Shortfalls(chars), i)

IndexTypes ==
  /\ limit \in Nat /\ text \in Seq(1..4) /\ totalBytes = Widths(text)
  /\ open \in Nat /\ floor \in Nat /\ discountsBelowFloor \in Nat /\ runsBelowFloor \in Nat
  /\ ended => ~busy

IndexIsCurrent ==
  /\ DiscountsInOrder(discounts, totalBytes)
  /\ RunsInOrder(runs, runsBelowFloor, totalBytes)
  /\ floor <= open /\ floor <= Floor
  /\ CountsFrom(discounts, discountsBelowFloor, runs, runsBelowFloor, text, floor)

IndexInvariant == IndexTypes /\ (~ended => IndexIsCurrent)

LEMMA WidthsType ==
  ASSUME NEW chars \in Seq(1..4)
  PROVE  /\ Widths(chars) \in Nat
         /\ \A i \in 1..(Len(chars) + 1) :
              StartOf(chars, i) \in Nat /\ StartOf(chars, i) <= Widths(chars)
<1>1. chars \in Seq(Nat) /\ Len(chars) \in Nat BY CharsAreNumbers
<1>2. \A i \in 1..(Len(chars) + 1) : StartOf(chars, i) \in Nat BY <1>1, SumType DEF StartOf
<1>3. \A i \in 1..(Len(chars) + 1) : StartOf(chars, i) <= Widths(chars)
  BY <1>1, SumIsOrdered DEF StartOf, Widths
<1>4. Len(chars) + 1 \in 1..(Len(chars) + 1) BY <1>1
<1> QED BY <1>2, <1>3, <1>4 DEF Widths

(* The floor lies in the text, no more than the limit before its end.      *)
LEMMA FloorType ==
  ASSUME totalBytes \in Nat, limit \in Nat
  PROVE  Floor \in Nat /\ Floor <= totalBytes /\ (Floor # 0 => Floor = totalBytes - limit)
BY DEF Floor, SaturatingSub

(* Of two texts, one behind the other.                                     *)
LEMMA TextsTogether ==
  ASSUME NEW s \in Seq(1..4), NEW t \in Seq(1..4)
  PROVE  /\ s \o t \in Seq(1..4) /\ Len(s \o t) = Len(s) + Len(t)
         /\ \A i \in 1..(Len(s) + 1) :
              /\ StartOf(s \o t, i) = StartOf(s, i)
              /\ SumBefore(Shortfalls(s \o t), i) = SumBefore(Shortfalls(s), i)
         /\ \A k \in 1..(Len(t) + 1) :
              /\ StartOf(s \o t, Len(s) + k) = Widths(s) + StartOf(t, k)
              /\ SumBefore(Shortfalls(s \o t), Len(s) + k) =
                   SumBefore(Shortfalls(s), Len(s) + 1) + SumBefore(Shortfalls(t), k)
         /\ Widths(s \o t) = Widths(s) + Widths(t)
<1> DEFINE u == s \o t
<1>1. /\ u \in Seq(1..4) /\ Len(u) = Len(s) + Len(t) /\ Len(s) \in Nat /\ Len(t) \in Nat
      /\ \A i \in 1..Len(s) : u[i] = s[i]
      /\ \A i \in 1..Len(t) : u[Len(s) + i] = t[i]
  OBVIOUS
<1>2. Shortfalls(u) = Shortfalls(s) \o Shortfalls(t)
  <2> DEFINE a == Shortfalls(u)
             b == Shortfalls(s)
             c == Shortfalls(t)
  <2>1. /\ a \in Seq(Nat) /\ b \in Seq(Nat) /\ c \in Seq(Nat)
        /\ Len(a) = Len(u) /\ Len(b) = Len(s) /\ Len(c) = Len(t)
        /\ \A i \in 1..Len(u) : a[i] = ShortfallOfWidth(u[i])
        /\ \A i \in 1..Len(s) : b[i] = ShortfallOfWidth(s[i])
        /\ \A i \in 1..Len(t) : c[i] = ShortfallOfWidth(t[i])
    <3> HIDE DEF u
    <3>1. s \in Seq(1..4) /\ t \in Seq(1..4) OBVIOUS
    <3> QED BY <1>1, <3>1, CharsAreNumbers
  <2> HIDE DEF a, b, c, u
  <2>2. /\ b \o c \in Seq(Nat) /\ Len(b \o c) = Len(s) + Len(t)
        /\ \A i \in 1..Len(s) : (b \o c)[i] = b[i]
        /\ \A i \in 1..Len(t) : (b \o c)[Len(s) + i] = c[i]
    <3>1. b \in Seq(Nat) /\ c \in Seq(Nat) BY <2>1
    <3>2. /\ b \o c \in Seq(Nat) /\ Len(b \o c) = Len(b) + Len(c)
          /\ \A i \in 1..Len(b) : (b \o c)[i] = b[i]
          /\ \A i \in 1..Len(c) : (b \o c)[Len(b) + i] = c[i]
      BY <3>1
    <3>3. Len(b) = Len(s) /\ Len(c) = Len(t) BY <2>1
    <3> QED BY <3>2, <3>3
  <2> DEFINE d == b \o c
  <2> HIDE DEF d
  <2>3. d \in Seq(Nat) /\ Len(d) = Len(a) BY <1>1, <2>1, <2>2 DEF d
  <2>4. \A i \in 1..Len(a) : a[i] = d[i]
    <3> TAKE i \in 1..Len(a)
    <3>1. CASE i \in 1..Len(s)
      <4>1. a[i] = ShortfallOfWidth(u[i]) /\ u[i] = s[i] BY <1>1, <2>1, <3>1
      <4>2. d[i] = ShortfallOfWidth(s[i]) BY <2>1, <2>2, <3>1 DEF d
      <4> QED BY <4>1, <4>2
    <3>2. CASE i \notin 1..Len(s)
      <4> DEFINE k == i - Len(s)
      <4>1. k \in 1..Len(t) /\ i = Len(s) + k BY <1>1, <2>1, <3>2
      <4> HIDE DEF k
      <4>2. a[i] = ShortfallOfWidth(u[i]) /\ u[i] = t[k] BY <1>1, <2>1, <4>1
      <4>3. d[i] = ShortfallOfWidth(t[k]) BY <2>1, <2>2, <4>1 DEF d
      <4> QED BY <4>2, <4>3
    <3> QED BY <3>1, <3>2
  <2>5. a = d
    <3>1. DOMAIN a = 1..Len(a) /\ DOMAIN d = 1..Len(a) BY <2>1, <2>3, SequenceDomain
    <3>2. a = [i \in 1..Len(a) |-> a[i]] /\ d = [i \in 1..Len(a) |-> d[i]] BY <2>1, <2>3, <3>1
    <3> QED BY <2>4, <3>2
  <2> QED BY <2>5 DEF a, b, c, d, u
<1>3. /\ s \in Seq(Nat) /\ t \in Seq(Nat)
      /\ Shortfalls(s) \in Seq(Nat) /\ Shortfalls(t) \in Seq(Nat)
      /\ Len(Shortfalls(s)) = Len(s) /\ Len(Shortfalls(t)) = Len(t)
  BY CharsAreNumbers
<1>4. \A i \in 1..(Len(s) + 1) :
        /\ StartOf(u, i) = StartOf(s, i)
        /\ SumBefore(Shortfalls(u), i) = SumBefore(Shortfalls(s), i)
  <2>1. \A i \in 1..(Len(s) + 1) : StartOf(u, i) = StartOf(s, i)
    BY <1>3, SumOfBoth DEF StartOf
  <2> DEFINE b == Shortfalls(s)
             c == Shortfalls(t)
  <2>2. b \in Seq(Nat) /\ c \in Seq(Nat) /\ Len(b) = Len(s) BY <1>3
  <2>3. Shortfalls(u) = b \o c BY <1>2
  <2> HIDE DEF b, c, u
  <2>4. \A i \in 1..(Len(b) + 1) : SumBefore(b \o c, i) = SumBefore(b, i) BY <2>2, SumOfBoth
  <2> QED BY <2>1, <2>2, <2>3, <2>4 DEF b
<1>5. \A k \in 1..(Len(t) + 1) :
        /\ StartOf(u, Len(s) + k) = Widths(s) + StartOf(t, k)
        /\ SumBefore(Shortfalls(u), Len(s) + k) =
             SumBefore(Shortfalls(s), Len(s) + 1) + SumBefore(Shortfalls(t), k)
  <2>1. \A k \in 1..(Len(t) + 1) : StartOf(u, Len(s) + k) = Widths(s) + StartOf(t, k)
    BY <1>3, SumOfBoth DEF StartOf, Widths
  <2> DEFINE b == Shortfalls(s)
             c == Shortfalls(t)
  <2>2. b \in Seq(Nat) /\ c \in Seq(Nat) /\ Len(b) = Len(s) /\ Len(c) = Len(t) BY <1>3
  <2>3. Shortfalls(u) = b \o c BY <1>2
  <2> HIDE DEF b, c, u
  <2>4. \A k \in 1..(Len(c) + 1) :
          SumBefore(b \o c, Len(b) + k) = SumBefore(b, Len(b) + 1) + SumBefore(c, k)
    BY <2>2, SumOfBoth
  <2> QED BY <2>1, <2>2, <2>3, <2>4 DEF b, c
<1>6. Widths(u) = Widths(s) + Widths(t)
  <2>1. Len(t) + 1 \in 1..(Len(t) + 1) /\ Len(u) + 1 = Len(s) + (Len(t) + 1) BY <1>1
  <2>2. StartOf(u, Len(s) + (Len(t) + 1)) = Widths(s) + StartOf(t, Len(t) + 1)
    BY <1>5, <2>1
  <2> HIDE DEF u
  <2> QED BY <2>1, <2>2 DEF Widths
<1> QED BY <1>1, <1>4, <1>5, <1>6 DEF u

(* A session counts the same units throughout.                             *)
LEMMA UnitsStay ==
  ASSUME units' = units
  PROVE  /\ \A rs, below, end : RunsInOrder(rs, below, end)' <=> RunsInOrder(rs, below, end)
         /\ \A ds, dsBelow, rs, rsBelow, chars, from :
              CountsFrom(ds, dsBelow, rs, rsBelow, chars, from)'
                <=> CountsFrom(ds, dsBelow, rs, rsBelow, chars, from)
<1>1. \A w : ShortfallOfWidth(w)' = ShortfallOfWidth(w) BY DEF ShortfallOfWidth
<1>2. \A rs, below, end : RunsInOrder(rs, below, end)' <=> RunsInOrder(rs, below, end)
  BY <1>1 DEF RunsInOrder
<1>3. \A chars : Shortfalls(chars)' = Shortfalls(chars) BY <1>1 DEF Shortfalls
<1>4. \A rs, below, offset : InRuns(rs, below, offset)' = InRuns(rs, below, offset)
  BY <1>1 DEF InRuns
<1>5. \A ds, dsBelow, rs, rsBelow, chars, from :
        CountsFrom(ds, dsBelow, rs, rsBelow, chars, from)'
          <=> CountsFrom(ds, dsBelow, rs, rsBelow, chars, from)
  BY <1>3, <1>4 DEF CountsFrom
<1> QED BY <1>2, <1>5

LEMMA IndexBegins ==
  ASSUME IndexInit
  PROVE  IndexInvariant
<1>1. limit \in Nat BY LimitAssumption DEF IndexInit
<1>2. text = <<>> /\ text \in Seq(1..4) /\ Len(text) = 0 BY DEF IndexInit
<1>3. Widths(text) = 0
  <2>1. SumBefore(text, 1) = 0
    <3>1. text \in Seq(Nat) BY <1>2
    <3> QED BY <3>1, SumGoesOn
  <2> QED BY <1>2, <2>1 DEF Widths, StartOf
<1>4. IndexTypes BY <1>1, <1>2, <1>3 DEF IndexTypes, IndexInit
<1>5. DiscountsInOrder(discounts, totalBytes)
  <2>1. discounts = <<>> BY DEF IndexInit
  <2> QED BY <2>1 DEF DiscountsInOrder
<1>6. RunsInOrder(runs, runsBelowFloor, totalBytes)
  <2>1. runs = <<>> BY DEF IndexInit
  <2> QED BY <2>1 DEF RunsInOrder
<1>7. floor <= open /\ floor <= Floor
  <2>1. Floor \in Nat
    <3>1. totalBytes \in Nat BY DEF IndexInit
    <3> QED BY <1>1, <3>1, FloorType
  <2> QED BY <2>1 DEF IndexInit
<1>8. CountsFrom(discounts, discountsBelowFloor, runs, runsBelowFloor, text, floor)
  <2> SUFFICES ASSUME NEW i \in 1..(Len(text) + 1)
               PROVE  InDiscounts(discounts, discountsBelowFloor, StartOf(text, i))
                        + InRuns(runs, runsBelowFloor, StartOf(text, i))
                        = SumBefore(Shortfalls(text), i)
    BY DEF CountsFrom
  <2>1. i = 1 BY <1>2
  <2>2. SumBefore(Shortfalls(text), 1) = 0
    <3>1. Shortfalls(text) \in Seq(Nat) BY <1>2, CharsAreNumbers
    <3> QED BY <3>1, SumGoesOn
  <2> DEFINE at == StartOf(text, i)
  <2> HIDE DEF at
  <2>3. InDiscounts(discounts, discountsBelowFloor, at) = 0
    <3>1. discounts = <<>> /\ discountsBelowFloor = 0 BY DEF IndexInit
    <3>2. Below(discounts, at) = 0
      <4>1. {j \in DOMAIN discounts : discounts[j] < at} = {} BY <3>1
      <4> QED BY <4>1, FS_EmptySet DEF Below
    <3> QED BY <3>1, <3>2 DEF InDiscounts, Below
  <2>4. InRuns(runs, runsBelowFloor, at) = 0
    <3>1. runs = <<>> /\ runsBelowFloor = 0 BY DEF IndexInit
    <3>2. Started(runs, at) = 0
      <4>1. {j \in DOMAIN runs : runs[j].start < at} = {} BY <3>1
      <4> QED BY <4>1, FS_EmptySet DEF Started
    <3> QED BY <3>1, <3>2 DEF InRuns
  <2> QED BY <2>1, <2>2, <2>3, <2>4 DEF at
<1> QED BY <1>4, <1>5, <1>6, <1>7, <1>8 DEF IndexInvariant, IndexIsCurrent

(* An append counts the characters of its chunk behind those so far.       *)
LEMMA AppendsCount ==
  ASSUME IndexTypes, IndexIsCurrent, NEW chunk \in Seq(1..4)
  PROVE  LET new == Observed(chunk)
             end == totalBytes + Widths(chunk) IN
         /\ end = Widths(text \o chunk)
         /\ DiscountsInOrder(new.discounts, end)
         /\ RunsInOrder(new.runs, runsBelowFloor, end)
         /\ CountsFrom(new.discounts, discountsBelowFloor, new.runs, runsBelowFloor,
                       text \o chunk, floor)
<1> DEFINE new == Observed(chunk)
           end == totalBytes + Widths(chunk)
           n == Len(text)
           all == text \o chunk
           was(offset) == InDiscounts(discounts, discountsBelowFloor, offset)
                            + InRuns(runs, runsBelowFloor, offset)
           is(offset) == InDiscounts(new.discounts, discountsBelowFloor, offset)
                           + InRuns(new.runs, runsBelowFloor, offset)
<1>1. /\ text \in Seq(1..4) /\ totalBytes = Widths(text) /\ totalBytes \in Nat /\ limit \in Nat
      /\ floor \in Nat /\ discountsBelowFloor \in Nat /\ runsBelowFloor \in Nat /\ n \in Nat
  <2>1. text \in Seq(1..4) BY DEF IndexTypes
  <2>2. Widths(text) \in Nat BY <2>1, WidthsType
  <2> QED BY <2>1, <2>2 DEF IndexTypes
<1>2. /\ DiscountsInOrder(discounts, totalBytes) /\ RunsInOrder(runs, runsBelowFloor, totalBytes)
      /\ floor <= Floor
      /\ CountsFrom(discounts, discountsBelowFloor, runs, runsBelowFloor, text, floor)
  BY DEF IndexIsCurrent
<1>3. /\ InOrder(new, end)
      /\ \A offset \in Int : offset <= totalBytes => Before(new, offset) = Before(Begun, offset)
      /\ \A k \in 1..(Len(chunk) + 1) :
           Before(new, totalBytes + StartOf(chunk, k)) =
             Before(Begun, totalBytes) + SumBefore(Shortfalls(chunk), k)
  BY <1>1, <1>2, ObserveIsExact
<1> HIDE DEF new
<1>4. end = Widths(all) BY <1>1, TextsTogether
<1>5. DiscountsInOrder(new.discounts, end) /\ RunsInOrder(new.runs, runsBelowFloor, end)
  BY <1>3 DEF InOrder
<1>6. floor <= totalBytes
  <2>1. Floor \in Nat /\ Floor <= totalBytes BY <1>1, FloorType
  <2> QED BY <1>1, <1>2, <2>1
<1>7. end \in Nat
  <2>1. Widths(chunk) \in Nat BY WidthsType
  <2> QED BY <1>1, <2>1
<1>8. ASSUME NEW offset \in Int
      PROVE  /\ Before(Begun, offset) \in Nat /\ Before(new, offset) \in Nat
             /\ was(offset) = discountsBelowFloor + Before(Begun, offset)
             /\ is(offset) = discountsBelowFloor + Before(new, offset)
  <2>1. Begun.discounts = discounts /\ Begun.runs = runs BY DEF Begun
  <2>2. InOrder(Begun, totalBytes) BY <1>2, <2>1 DEF InOrder
  <2>3. Before(Begun, offset) \in Nat /\ Before(new, offset) \in Nat
    BY <1>1, <1>3, <2>2, BeforeType
  <2>4. Below(discounts, offset) \in Nat /\ Below(new.discounts, offset) \in Nat
    <3>1. Below(discounts, offset) \in 0..Len(discounts) BY <1>2, BelowIs
    <3>2. Below(new.discounts, offset) \in 0..Len(new.discounts) BY <1>5, BelowIs
    <3>3. discounts \in Seq(Nat) /\ new.discounts \in Seq(Nat) BY <1>2, <1>5 DEF DiscountsInOrder
    <3>4. Len(discounts) \in Nat /\ Len(new.discounts) \in Nat BY <3>3, SequenceDomain
    <3> QED BY <3>1, <3>2, <3>4
  <2>5. InRuns(runs, runsBelowFloor, offset) \in Nat /\ InRuns(new.runs, runsBelowFloor, offset) \in Nat
    BY <1>1, <1>2, <1>5, InRunsType
  <2>6. was(offset) = (discountsBelowFloor + Below(discounts, offset))
                        + InRuns(runs, runsBelowFloor, offset)
    BY DEF InDiscounts, Below
  <2>7. is(offset) = (discountsBelowFloor + Below(new.discounts, offset))
                       + InRuns(new.runs, runsBelowFloor, offset)
    BY DEF InDiscounts, Below
  <2>8. Before(Begun, offset) = Below(discounts, offset) + InRuns(runs, runsBelowFloor, offset)
    BY <2>1 DEF Before
  <2>9. Before(new, offset) = Below(new.discounts, offset) + InRuns(new.runs, runsBelowFloor, offset)
    BY DEF Before
  <2> HIDE DEF was, is
  <2> QED BY <1>1, <2>3, <2>4, <2>5, <2>6, <2>7, <2>8, <2>9
<1>9. /\ Len(all) = n + Len(chunk) /\ Len(chunk) \in Nat
      /\ \A i \in 1..(n + 1) :
           /\ StartOf(all, i) = StartOf(text, i)
           /\ SumBefore(Shortfalls(all), i) = SumBefore(Shortfalls(text), i)
      /\ \A k \in 1..(Len(chunk) + 1) :
           /\ StartOf(all, n + k) = totalBytes + StartOf(chunk, k)
           /\ SumBefore(Shortfalls(all), n + k) =
                SumBefore(Shortfalls(text), n + 1) + SumBefore(Shortfalls(chunk), k)
  <2>1. Len(chunk) \in Nat OBVIOUS
  <2> QED BY <1>1, <2>1, TextsTogether
<1>10. \A i \in 1..(n + 1) : StartOf(text, i) \in Nat /\ StartOf(text, i) <= totalBytes
  BY <1>1, WidthsType
<1>11. \A i \in 1..(n + 1) : StartOf(text, i) >= floor =>
         was(StartOf(text, i)) = SumBefore(Shortfalls(text), i)
  BY <1>2 DEF CountsFrom
<1> HIDE DEF was, is, all
<1>12. ASSUME NEW i \in 1..(Len(all) + 1), StartOf(all, i) >= floor
       PROVE  is(StartOf(all, i)) = SumBefore(Shortfalls(all), i)
  <2>1. CASE i \in 1..(n + 1)
    <3> DEFINE at == StartOf(text, i)
    <3>1. at \in Int /\ at <= totalBytes /\ at >= floor /\ StartOf(all, i) = at
      BY <1>9, <1>10, <1>12, <2>1
    <3>2. was(at) = SumBefore(Shortfalls(text), i) BY <1>11, <2>1, <3>1
    <3> HIDE DEF at
    <3>3. is(at) = was(at) BY <1>3, <1>8, <3>1
    <3> QED BY <1>9, <2>1, <3>1, <3>2, <3>3
  <2>2. CASE i \notin 1..(n + 1)
    <3> DEFINE k == i - n
    <3>1. k \in 1..(Len(chunk) + 1) /\ i = n + k BY <1>1, <1>9, <2>2
    <3> HIDE DEF k
    <3> DEFINE at == totalBytes + StartOf(chunk, k)
    <3>2. at \in Int
      <4>1. StartOf(chunk, k) \in Nat BY <3>1, WidthsType
      <4> QED BY <1>1, <4>1
    <3>3. StartOf(all, i) = at BY <1>9, <3>1
    <3>4. Before(new, at) = Before(Begun, totalBytes) + SumBefore(Shortfalls(chunk), k)
      BY <1>3, <3>1
    <3>5. was(totalBytes) = SumBefore(Shortfalls(text), n + 1)
      <4>1. n + 1 \in 1..(n + 1) /\ StartOf(text, n + 1) = totalBytes BY <1>1 DEF Widths
      <4> QED BY <1>6, <1>11, <4>1
    <3>6. was(totalBytes) = discountsBelowFloor + Before(Begun, totalBytes)
          /\ Before(Begun, totalBytes) \in Nat
      <4>1. totalBytes \in Int BY <1>1
      <4> QED BY <1>8, <4>1
    <3> HIDE DEF at
    <3>7. is(at) = discountsBelowFloor + Before(new, at) BY <1>8, <3>2
    <3>8. SumBefore(Shortfalls(all), i) =
            SumBefore(Shortfalls(text), n + 1) + SumBefore(Shortfalls(chunk), k)
      BY <1>9, <3>1
    <3>9. SumBefore(Shortfalls(chunk), k) \in Nat
      <4>1. Shortfalls(chunk) \in Seq(Nat) /\ Len(Shortfalls(chunk)) = Len(chunk)
        BY CharsAreNumbers
      <4> QED BY <3>1, <4>1, SumType
    <3> QED BY <1>1, <3>3, <3>4, <3>5, <3>6, <3>7, <3>8, <3>9
  <2> QED BY <2>1, <2>2
<1>13. CountsFrom(new.discounts, discountsBelowFloor, new.runs, runsBelowFloor, all, floor)
  BY <1>12 DEF CountsFrom, is
<1> QED BY <1>4, <1>5, <1>13 DEF new, all

(* What is pruned is counted for every character from the floor on.        *)
LEMMA PruneCounts ==
  ASSUME IndexTypes, IndexIsCurrent
  PROVE  /\ Floor \in Nat
         /\ Pruned.discountsBelowFloor \in Nat /\ Pruned.runsBelowFloor \in Nat
         /\ DiscountsInOrder(Pruned.discounts, totalBytes)
         /\ RunsInOrder(Pruned.runs, Pruned.runsBelowFloor, totalBytes)
         /\ CountsFrom(Pruned.discounts, Pruned.discountsBelowFloor,
                       Pruned.runs, Pruned.runsBelowFloor, text, Floor)
<1>1. /\ text \in Seq(1..4) /\ totalBytes \in Nat /\ limit \in Nat /\ floor \in Nat
      /\ discountsBelowFloor \in Nat /\ runsBelowFloor \in Nat
  <2>1. text \in Seq(1..4) BY DEF IndexTypes
  <2>2. Widths(text) \in Nat BY <2>1, WidthsType
  <2> QED BY <2>1, <2>2 DEF IndexTypes
<1>2. /\ DiscountsInOrder(discounts, totalBytes) /\ RunsInOrder(runs, runsBelowFloor, totalBytes)
      /\ floor <= Floor
      /\ CountsFrom(discounts, discountsBelowFloor, runs, runsBelowFloor, text, floor)
  BY DEF IndexIsCurrent
<1>3. Floor \in Nat /\ Floor \in Int
  <2>1. Floor \in Nat BY <1>1, FloorType
  <2> QED BY <2>1
<1> DEFINE g == Below(discounts, Floor)
           kept == SubSeq(discounts, g + 1, Len(discounts))
<1>4. Gone = g BY DEF Gone, Below
<1>5. Pruned.discounts = kept /\ Pruned.discountsBelowFloor = discountsBelowFloor + g
  BY <1>4 DEF Pruned
<1>6. /\ g \in Nat
      /\ DiscountsInOrder(kept, totalBytes)
      /\ \A offset \in Int : offset >= Floor =>
           InDiscounts(kept, discountsBelowFloor + g, offset) =
             InDiscounts(discounts, discountsBelowFloor, offset)
  BY <1>1, <1>2, <1>3, DiscountsDropped
<1> HIDE DEF g, kept
<1>7. /\ Pruned.runsBelowFloor \in Nat
      /\ RunsInOrder(Pruned.runs, Pruned.runsBelowFloor, totalBytes)
      /\ \A offset \in Int : offset >= Floor =>
           InRuns(Pruned.runs, Pruned.runsBelowFloor, offset) = InRuns(runs, runsBelowFloor, offset)
  BY <1>1, <1>2, <1>3, RunsPruned
<1>8. ASSUME NEW i \in 1..(Len(text) + 1), StartOf(text, i) >= Floor
      PROVE  InDiscounts(Pruned.discounts, Pruned.discountsBelowFloor, StartOf(text, i))
               + InRuns(Pruned.runs, Pruned.runsBelowFloor, StartOf(text, i))
               = SumBefore(Shortfalls(text), i)
  <2> DEFINE at == StartOf(text, i)
  <2>1. at \in Nat BY <1>1, WidthsType
  <2>2. at \in Int /\ at >= Floor /\ at >= floor BY <1>1, <1>2, <1>3, <1>8, <2>1
  <2>3. InDiscounts(discounts, discountsBelowFloor, at) + InRuns(runs, runsBelowFloor, at) =
          SumBefore(Shortfalls(text), i)
    BY <1>2, <2>2 DEF CountsFrom
  <2> HIDE DEF at
  <2>4. InDiscounts(Pruned.discounts, Pruned.discountsBelowFloor, at) =
          InDiscounts(discounts, discountsBelowFloor, at)
    BY <1>5, <1>6, <2>2
  <2>5. InRuns(Pruned.runs, Pruned.runsBelowFloor, at) = InRuns(runs, runsBelowFloor, at)
    BY <1>7, <2>2
  <2> QED BY <2>3, <2>4, <2>5 DEF at
<1>9. Pruned.discountsBelowFloor \in Nat BY <1>1, <1>5, <1>6
<1> QED BY <1>3, <1>5, <1>6, <1>7, <1>8, <1>9 DEF CountsFrom

(* Every action of a session keeps the invariant of its index.             *)
LEMMA IndexSteps ==
  ASSUME IndexInvariant, [IndexNext]_indexVars
  PROVE  IndexInvariant'
<1>1. IndexTypes /\ (~ended => IndexIsCurrent) BY DEF IndexInvariant
<1>2. text \in Seq(1..4) /\ totalBytes = Widths(text) /\ totalBytes \in Nat /\ limit \in Nat
  <2>1. text \in Seq(1..4) BY <1>1 DEF IndexTypes
  <2>2. Widths(text) \in Nat BY <2>1, WidthsType
  <2> QED BY <1>1, <2>1, <2>2 DEF IndexTypes
<1>3. Floor \in Nat /\ Floor <= totalBytes /\ (Floor # 0 => Floor = totalBytes - limit)
  BY <1>2, FloorType
<1>4. CASE Finish
  <2>1. IndexIsCurrent /\ ~ended' BY <1>1, <1>4 DEF Finish, IndexTypes
  <2>2. /\ units' = units /\ limit' = limit /\ text' = text /\ totalBytes' = totalBytes
        /\ floor' = Floor /\ busy' = FALSE
        /\ discounts' = Pruned.discounts /\ discountsBelowFloor' = Pruned.discountsBelowFloor
        /\ runs' = Pruned.runs /\ runsBelowFloor' = Pruned.runsBelowFloor
    BY <1>4 DEF Finish
  <2>3. /\ Pruned.discountsBelowFloor \in Nat /\ Pruned.runsBelowFloor \in Nat
        /\ DiscountsInOrder(Pruned.discounts, totalBytes)
        /\ RunsInOrder(Pruned.runs, Pruned.runsBelowFloor, totalBytes)
        /\ CountsFrom(Pruned.discounts, Pruned.discountsBelowFloor,
                      Pruned.runs, Pruned.runsBelowFloor, text, Floor)
    BY <1>1, <2>1, PruneCounts
  <2>4. open' \in Nat /\ Floor <= open'
    <3>1. PICK i \in 1..(Len(text) + 1) : totalBytes - StartOf(text, i) <= limit
                                          /\ open' = StartOf(text, i)
      BY <1>4 DEF Finish
    <3>2. StartOf(text, i) \in Nat BY <1>2, WidthsType
    <3> QED BY <1>2, <1>3, <3>1, <3>2
  <2>5. IndexTypes'
    <3>1. (Widths(text))' = Widths(text) BY <2>2 DEF Widths, StartOf, SumBefore
    <3> QED BY <1>2, <1>3, <2>2, <2>3, <2>4, <3>1 DEF IndexTypes
  <2>6. Floor' = Floor BY <2>2 DEF Floor
  <2>7. DiscountsInOrder(discounts, totalBytes)' BY <2>2, <2>3
  <2>8. RunsInOrder(runs, runsBelowFloor, totalBytes)' BY <2>2, <2>3, UnitsStay
  <2>9. CountsFrom(discounts, discountsBelowFloor, runs, runsBelowFloor, text, floor)'
    BY <2>2, <2>3, UnitsStay
  <2>10. (floor <= open /\ floor <= Floor)' BY <1>3, <2>2, <2>4, <2>6
  <2>11. IndexIsCurrent' BY <2>7, <2>8, <2>9, <2>10 DEF IndexIsCurrent
  <2> QED BY <2>5, <2>11 DEF IndexInvariant
<1>5. CASE End
  <2>1. ended' /\ IndexTypes'
    <3>1. (Widths(text))' = Widths(text) BY <1>5 DEF End, Widths, StartOf, SumBefore
    <3> QED BY <1>1, <1>2, <1>5, <3>1 DEF End, IndexTypes
  <2> QED BY <2>1 DEF IndexInvariant
<1>6. ASSUME NEW n \in 0..MaxAppend, NEW chunk \in [1..n -> 1..4], Appends(chunk)
      PROVE  IndexInvariant'
  <2>1. chunk \in Seq(1..4)
    <3>1. n \in Nat OBVIOUS
    <3> QED BY <3>1
  <2>2. IndexIsCurrent /\ ~ended /\ ended' = ended BY <1>1, <1>6 DEF Appends
  <2> DEFINE new == Observed(chunk)
             end == totalBytes + Widths(chunk)
  <2>3. /\ units' = units /\ limit' = limit /\ text' = text \o chunk /\ totalBytes' = end
        /\ open' = open /\ floor' = floor
        /\ discounts' = new.discounts /\ discountsBelowFloor' = discountsBelowFloor
        /\ runs' = new.runs /\ runsBelowFloor' = runsBelowFloor
    BY <1>6 DEF Appends
  <2>4. /\ end = Widths(text \o chunk)
        /\ DiscountsInOrder(new.discounts, end)
        /\ RunsInOrder(new.runs, runsBelowFloor, end)
        /\ CountsFrom(new.discounts, discountsBelowFloor, new.runs, runsBelowFloor,
                      text \o chunk, floor)
    BY <1>1, <2>1, <2>2, AppendsCount
  <2> HIDE DEF new
  <2>5. Widths(chunk) \in Nat BY <2>1, WidthsType
  <2>6. IndexTypes'
    <3>1. (Widths(text))' = Widths(text \o chunk) BY <2>3 DEF Widths, StartOf, SumBefore
    <3>2. text \o chunk \in Seq(1..4) BY <1>2, <2>1
    <3> QED BY <1>1, <2>2, <2>3, <2>4, <3>1, <3>2 DEF IndexTypes
  <2>7. (floor <= open /\ floor <= Floor)'
    <3>1. floor \in Nat /\ floor <= open /\ floor <= Floor
      BY <1>1, <2>2 DEF IndexTypes, IndexIsCurrent
    <3>2. Floor' = SaturatingSub(end, limit) BY <2>3 DEF Floor
    <3>3. Floor <= SaturatingSub(end, limit) BY <1>2, <2>5 DEF Floor, SaturatingSub
    <3>4. SaturatingSub(end, limit) \in Nat BY <1>2, <2>5 DEF SaturatingSub
    <3>5. floor <= SaturatingSub(end, limit) BY <1>3, <3>1, <3>3, <3>4
    <3> QED BY <2>3, <3>1, <3>2, <3>5
  <2> HIDE DEF end
  <2>8. DiscountsInOrder(discounts, totalBytes)' BY <2>3, <2>4
  <2>9. RunsInOrder(runs, runsBelowFloor, totalBytes)' BY <2>3, <2>4, UnitsStay
  <2>10. CountsFrom(discounts, discountsBelowFloor, runs, runsBelowFloor, text, floor)'
    BY <2>3, <2>4, UnitsStay
  <2>11. IndexIsCurrent' BY <2>7, <2>8, <2>9, <2>10 DEF IndexIsCurrent
  <2> QED BY <2>6, <2>11 DEF IndexInvariant
<1>7. CASE UNCHANGED indexVars
  <2>1. /\ units' = units /\ limit' = limit /\ text' = text /\ totalBytes' = totalBytes
        /\ open' = open /\ floor' = floor /\ ended' = ended /\ busy' = busy
        /\ discounts' = discounts /\ discountsBelowFloor' = discountsBelowFloor
        /\ runs' = runs /\ runsBelowFloor' = runsBelowFloor
    BY <1>7 DEF indexVars, index
  <2>2. IndexTypes'
    <3>1. (Widths(text))' = Widths(text) BY <2>1 DEF Widths, StartOf, SumBefore
    <3> QED BY <1>1, <2>1, <3>1 DEF IndexTypes
  <2>3. ASSUME ~ended PROVE IndexIsCurrent'
    <3>1. /\ DiscountsInOrder(discounts, totalBytes) /\ RunsInOrder(runs, runsBelowFloor, totalBytes)
          /\ floor <= open /\ floor <= Floor
          /\ CountsFrom(discounts, discountsBelowFloor, runs, runsBelowFloor, text, floor)
      BY <1>1, <2>3 DEF IndexIsCurrent
    <3>2. Floor' = Floor BY <2>1 DEF Floor
    <3>3. DiscountsInOrder(discounts, totalBytes)' BY <2>1, <3>1
    <3>4. RunsInOrder(runs, runsBelowFloor, totalBytes)' BY <2>1, <3>1, UnitsStay
    <3>5. CountsFrom(discounts, discountsBelowFloor, runs, runsBelowFloor, text, floor)'
      BY <2>1, <3>1, UnitsStay
    <3>6. (floor <= open /\ floor <= Floor)' BY <2>1, <3>1, <3>2
    <3> QED BY <3>3, <3>4, <3>5, <3>6 DEF IndexIsCurrent
  <2> QED BY <2>1, <2>2, <2>3 DEF IndexInvariant
<1> QED BY <1>4, <1>5, <1>6, <1>7 DEF IndexNext

(* What the invariant says of the offsets a finding may have.              *)
LEMMA IndexIsExact ==
  ASSUME IndexInvariant
  PROVE  OffsetsAreExact
<1> SUFFICES ASSUME ~ended, NEW i \in 1..(Len(text) + 1), StartOf(text, i) >= open
             PROVE  Offset(StartOf(text, i)) = StartOf(text, i) - SumBefore(Shortfalls(text), i)
  BY DEF OffsetsAreExact
<1> DEFINE at == StartOf(text, i)
<1>1. IndexTypes /\ IndexIsCurrent BY DEF IndexInvariant
<1>2. at \in Nat /\ open \in Nat /\ floor \in Nat /\ floor <= open
  <2>1. text \in Seq(1..4) BY <1>1 DEF IndexTypes
  <2>2. at \in Nat BY <2>1, WidthsType
  <2> QED BY <1>1, <2>2 DEF IndexTypes, IndexIsCurrent
<1>3. at >= floor /\ ~(at < floor) BY <1>2
<1>4. ShortfallBefore(at) = SumBefore(Shortfalls(text), i)
  BY <1>1, <1>3 DEF IndexIsCurrent, CountsFrom, ShortfallBefore
<1> QED BY <1>3, <1>4 DEF Offset

(* What a session's index keeps while it accepts text: its entries and its *)
(* runs are in order and count, from the floor on, what the text comes to. *)
THEOREM IndexStaysCurrent == IndexSpec => []IndexInvariant
<1>1. IndexInit => IndexInvariant BY IndexBegins
<1>2. IndexInvariant /\ [IndexNext]_indexVars => IndexInvariant' BY IndexSteps
<1> QED BY <1>1, <1>2, PTL DEF IndexSpec

(* A finding reported while a session accepts text gets, for its start and *)
(* its end, the offsets into the whole text: for every text, chunking,     *)
(* buffer limit and longest run.                                           *)
THEOREM OffsetsStayExact == IndexSpec => []OffsetsAreExact
<1>1. IndexInvariant => OffsetsAreExact BY IndexIsExact
<1> QED BY <1>1, IndexStaysCurrent, PTL
==============================================================================
