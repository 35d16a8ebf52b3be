--------------------------- MODULE StreamHost_proofs ---------------------------
(***************************************************************************)
(* Proofs about StreamHost: for any byte streams, cut into chunks of any   *)
(* size, every host delivers the decoded text in order and ends its        *)
(* session.  Fairness is not used.                                         *)
(***************************************************************************)
EXTENDS StreamHost, FiniteSetTheorems, SequenceTheorems, WellFoundedInduction, TLAPS

------------------------------------------------------------------------------
(* The greatest and the least of a set of positions.                       *)

(* A nonempty set of numbers has a least element.                          *)
LEMMA LeastElement ==
  ASSUME NEW S \in SUBSET Nat, S # {}
  PROVE  \E x \in S : \A y \in S : x <= y
<1>1. PICK x \in S : \A y \in S : <<y, x>> \notin OpToRel(<, Nat)
  BY NatLessThanWellFounded, WFMin, Zenon
<1>2. \A y \in S : ~(y < x)
  <2> TAKE y \in S
  <2>1. x \in Nat /\ y \in Nat
    OBVIOUS
  <2> QED
    BY <1>1, <2>1, Zenon DEF OpToRel
<1>3. \A y \in S : x <= y
  BY <1>2
<1> QED
  BY <1>3

(* The greatest of a bounded set of numbers is one of them, and bounds     *)
(* them.                                                                   *)
LEMMA MaxOfBounded ==
  ASSUME NEW n \in Nat, NEW S \in SUBSET (0..n), S # {}
  PROVE  Max(S) \in S /\ \A y \in S : Max(S) >= y
<1> DEFINE T == {n - x : x \in S}
<1>1. T \subseteq Nat /\ T # {}
  <2>1. \A x \in S : x \in 0..n /\ n - x \in Nat
    OBVIOUS
  <2> QED
    BY <2>1, Zenon
<1>2. PICK x \in T : \A y \in T : x <= y
  BY <1>1, LeastElement
<1>3. PICK m \in S : x = n - m
  BY <1>2
<1>4. \A y \in S : m >= y
  BY <1>2, <1>3
<1> QED
  BY <1>4 DEF Max

------------------------------------------------------------------------------
(* What holds in every state.                                              *)

Text == Seq(Nat)

Decoders == {d \in [seen : Nat, carry : Seq(Bytes)] : Len(d.carry) <= d.seen}

Sessions ==
  {s \in [state : {"accepting", "failed", "finalized", "aborted"}, fed : Text,
           released : Nat, decoder : Decoders] : s.released <= Len(s.fed)}

TypeOK ==
  /\ input \in Seq(Bytes) /\ taken \in 0..Len(input)
  /\ session \in Sessions
  /\ inflight \in [op : {"none", "write", "close"}, chunk : Seq(Bytes) \cup {Junk}]
  /\ writable \in {"writable", "erroring", "errored", "closed"}
  /\ readable \in {"readable", "closed", "errored"}
  /\ pulling \in BOOLEAN /\ result \in {"none", "ok", "failed"}
  /\ buffer \in Seq(Text) /\ inner \in Seq(Text) /\ out \in Text

(* What the platform of a host has not is as it was at first.              *)
HostsDiffer ==
  /\ host # "web" => /\ inflight = Idle /\ writable = "writable"
                     /\ inner = <<>> /\ pulling = FALSE
  /\ host \notin {"node", "web"} => buffer = <<>> /\ readable = "readable"

(* The writable side of the Web adapter: an operation in flight is waited  *)
(* for, and nothing is written once a close has begun.                     *)
WriteSide ==
  /\ inflight # Idle => writable \in {"writable", "erroring"}
  /\ inflight.op = "none" => inflight = Idle
  /\ inflight.op = "close" => inflight = Closing /\ AtEnd

(* The queues hold a piece each at most, and none while a pull waits; the  *)
(* inner one holds what the flush released, after which nothing comes.     *)
Queues ==
  /\ Len(buffer) <= 1 /\ Len(inner) <= 1
  /\ pulling => buffer = <<>> /\ inner = <<>>
  /\ inner # <<>> => writable = "closed"
  /\ readable = "closed" => inner = <<>>

(* A side that has ended has ended the session.                            *)
Ends == readable # "readable" => ~Accepting(session)

(* The bytes the session's text comes from, and those its decoder carries. *)
Before(d) == d.seen - Len(d.carry)

(* A chunk that was taken waits to be transformed.                         *)
ChunkWaits == inflight.op = "write" /\ inflight.chunk # Junk

Decoded ==
  /\ \E m \in 0..Len(input) : session.fed = CharsOf(SubSeq(input, 1, m), 0)
  /\ Accepting(session) =>
       LET d == session.decoder
       IN /\ d.seen <= taken
          /\ d.carry = SubSeq(input, Before(d) + 1, d.seen)
          /\ session.fed = CharsOf(SubSeq(input, 1, Before(d)), 0)
          /\ ChunkWaits => inflight.chunk = SubSeq(input, d.seen + 1, taken)
          /\ ~ChunkWaits => d.seen = taken
  /\ session.state = "finalized" =>
       session.fed = AllChars /\ session.released = Len(session.fed) /\ AtEnd

(* What has been delivered or is on its way.                               *)
Coming == out \o FlattenSeq(buffer) \o FlattenSeq(inner)

Whole ==
  \/ result = "ok"
  \/ result = "none" /\ (readable = "closed" \/ writable = "closed")

Delivered ==
  /\ IsPrefix(Coming, SubSeq(session.fed, 1, session.released))
  /\ Accepting(session) => Coming = SubSeq(session.fed, 1, session.released)
  /\ Whole => session.state = "finalized" /\ Coming = session.fed
  /\ result = "ok" => buffer = <<>> /\ inner = <<>>

IInv ==
  /\ TypeOK /\ HostsDiffer /\ WriteSide /\ Queues
  /\ HostEndsTheSession /\ Ends
  /\ Decoded /\ Delivered

------------------------------------------------------------------------------
(* The k-th of a set of positions.                                         *)
UpTo(S, p) == {q \in S : q <= p}

LEMMA FiniteUpTo ==
  ASSUME NEW n \in Nat, NEW S \in SUBSET (1..n)
  PROVE  /\ IsFiniteSet(S) /\ Cardinality(S) \in Nat
         /\ \A p : IsFiniteSet(UpTo(S, p)) /\ Cardinality(UpTo(S, p)) \in Nat
                   /\ Cardinality(UpTo(S, p)) <= Cardinality(S)
<1>1. IsFiniteSet(1..n) BY FS_Interval
<1>2. IsFiniteSet(S) BY <1>1, FS_Subset
<1>3. \A p : UpTo(S, p) \in SUBSET S BY DEF UpTo
<1> QED BY <1>2, <1>3, FS_Subset, FS_CardinalityType

(* A later position has more before it.                                    *)
LEMMA UpToGrows ==
  ASSUME NEW n \in Nat, NEW S \in SUBSET (1..n), NEW p \in S, NEW q \in S, p < q
  PROVE  Cardinality(UpTo(S, p)) < Cardinality(UpTo(S, q))
<1>1. UpTo(S, p) \in SUBSET UpTo(S, q) /\ q \in UpTo(S, q) /\ q \notin UpTo(S, p)
  <2>1. \A x \in S : x \in Int OBVIOUS
  <2>2. q <= q /\ ~(q <= p) /\ \A x \in S : x <= p => x <= q BY <2>1
  <2> QED BY <2>2 DEF UpTo
<1>2. /\ Cardinality(UpTo(S, p)) <= Cardinality(UpTo(S, q))
      /\ Cardinality(UpTo(S, q)) = Cardinality(UpTo(S, p)) => UpTo(S, q) = UpTo(S, p)
  BY <1>1, FiniteUpTo, FS_Subset
<1>3. UpTo(S, q) # UpTo(S, p) BY <1>1
<1>4. Cardinality(UpTo(S, p)) \in Nat /\ Cardinality(UpTo(S, q)) \in Nat BY FiniteUpTo
<1> QED BY <1>2, <1>3, <1>4

(* There is one position with k up to it, which Nth finds.                 *)
LEMMA NthExists ==
  ASSUME NEW n \in Nat, NEW S \in SUBSET (1..n), NEW k \in 1..Cardinality(S)
  PROVE  Nth(S, k) \in S /\ Cardinality(UpTo(S, Nth(S, k))) = k
<1> DEFINE c == Cardinality(S)
           f == [p \in S |-> Cardinality(UpTo(S, p))]
<1>1. IsFiniteSet(S) /\ c \in Nat BY FiniteUpTo
<1>2. \A p \in S : f[p] \in 1..c
  <2> SUFFICES ASSUME NEW p \in S PROVE Cardinality(UpTo(S, p)) \in 1..c OBVIOUS
  <2>1. p \in UpTo(S, p)
    <3>1. p \in Int OBVIOUS
    <3> QED BY <3>1 DEF UpTo
  <2>2. Cardinality(UpTo(S, p)) # 0 BY <2>1, FiniteUpTo, FS_EmptySet
  <2>3. Cardinality(UpTo(S, p)) \in Nat /\ Cardinality(UpTo(S, p)) <= c BY FiniteUpTo
  <2> QED BY <1>1, <2>2, <2>3
<1>3. \A p, q \in S : f[p] = f[q] => p = q
  <2> SUFFICES ASSUME NEW p \in S, NEW q \in S, p # q PROVE f[p] # f[q] OBVIOUS
  <2>1. p \in Int /\ q \in Int OBVIOUS
  <2>2. p < q \/ q < p BY <2>1
  <2>3. Cardinality(UpTo(S, p)) \in Nat /\ Cardinality(UpTo(S, q)) \in Nat BY FiniteUpTo
  <2>4. /\ p < q => Cardinality(UpTo(S, p)) < Cardinality(UpTo(S, q))
        /\ q < p => Cardinality(UpTo(S, q)) < Cardinality(UpTo(S, p))
    BY UpToGrows
  <2>5. Cardinality(UpTo(S, p)) # Cardinality(UpTo(S, q)) BY <2>2, <2>3, <2>4
  <2> QED BY <2>5
<1>4. f \in Injection(S, 1..c) BY <1>2, <1>3 DEF Injection, IsInjective
<1>5. IsFiniteSet(1..c) /\ Cardinality(1..c) = c BY <1>1, FS_Interval
<1>6. f \in Surjection(S, 1..c) BY <1>1, <1>4, <1>5, FS_Injection
<1>7. \E p \in S : f[p] = k BY <1>6 DEF Surjection
<1>8. \E p \in S : Cardinality(UpTo(S, p)) = k BY <1>7
<1>9. Nth(S, k) = (CHOOSE p \in S : Cardinality(UpTo(S, p)) = k) BY DEF Nth, UpTo
<1> QED BY <1>8, <1>9

LEMMA NthIsUnique ==
  ASSUME NEW n \in Nat, NEW S \in SUBSET (1..n), NEW p \in S
  PROVE  Nth(S, Cardinality(UpTo(S, p))) = p
<1> DEFINE k == Cardinality(UpTo(S, p))
<1>1. k \in 1..Cardinality(S)
  <2>1. p \in UpTo(S, p)
    <3>1. p \in Int OBVIOUS
    <3> QED BY <3>1 DEF UpTo
  <2>2. k # 0 BY <2>1, FiniteUpTo, FS_EmptySet
  <2>3. k \in Nat /\ k <= Cardinality(S) /\ Cardinality(S) \in Nat BY FiniteUpTo
  <2> QED BY <2>2, <2>3
<1>2. Nth(S, k) \in S /\ Cardinality(UpTo(S, Nth(S, k))) = k BY <1>1, NthExists
<1> DEFINE q == Nth(S, k)
<1>3. q \in Int /\ p \in Int
  <2>1. \A x \in S : x \in Int OBVIOUS
  <2> QED BY <1>2, <2>1
<1>4. ~(p < q) /\ ~(q < p)
  <2>1. k \in Nat BY <1>1
  <2>2. p < q => k < Cardinality(UpTo(S, q)) BY <1>2, UpToGrows
  <2>3. q < p => Cardinality(UpTo(S, q)) < k BY <1>2, UpToGrows
  <2> QED BY <1>2, <2>1, <2>2, <2>3
<1> QED BY <1>3, <1>4

(* Moving every position moves the k-th of them.                           *)
LEMMA MovedCardinality ==
  ASSUME NEW n \in Nat, NEW T \in SUBSET (1..n), NEW m \in Nat
  PROVE  /\ IsFiniteSet({m + t : t \in T})
         /\ Cardinality({m + t : t \in T}) = Cardinality(T)
<1> DEFINE M == {m + t : t \in T}
           f == [t \in T |-> m + t]
<1>1. \A t \in T : t \in Int OBVIOUS
<1>2. f \in Bijection(T, M)
  <2>1. f \in [T -> M] OBVIOUS
  <2>2. \A a, b \in T : f[a] = f[b] => a = b BY <1>1
  <2>3. \A y \in M : \E t \in T : f[t] = y OBVIOUS
  <2> QED BY <2>1, <2>2, <2>3 DEF Bijection, Injection, Surjection, IsInjective
<1>3. ExistsBijection(T, M) BY <1>2 DEF ExistsBijection
<1>4. IsFiniteSet(T) BY FiniteUpTo
<1> QED BY <1>3, <1>4, FS_Bijection

------------------------------------------------------------------------------
(* Stretches of a sequence.                                                *)
LEMMA StretchHasType ==
  ASSUME NEW S, NEW s \in Seq(S), NEW i \in 0..Len(s), NEW j \in i..Len(s)
  PROVE  /\ SubSeq(s, i + 1, j) \in Seq(S) /\ Len(SubSeq(s, i + 1, j)) = j - i
         /\ \A k \in 1..(j - i) : SubSeq(s, i + 1, j)[k] = s[i + k]
  OBVIOUS

LEMMA StretchesJoin ==
  ASSUME NEW S, NEW s \in Seq(S), NEW i \in 0..Len(s), NEW j \in i..Len(s),
         NEW k \in j..Len(s)
  PROVE  SubSeq(s, i + 1, j) \o SubSeq(s, j + 1, k) = SubSeq(s, i + 1, k)
<1> DEFINE a == SubSeq(s, i + 1, j)
           b == SubSeq(s, j + 1, k)
           c == SubSeq(s, i + 1, k)
<1>1. /\ a \in Seq(S) /\ Len(a) = j - i /\ \A n \in 1..(j - i) : a[n] = s[i + n]
      /\ b \in Seq(S) /\ Len(b) = k - j /\ \A n \in 1..(k - j) : b[n] = s[j + n]
      /\ c \in Seq(S) /\ Len(c) = k - i /\ \A n \in 1..(k - i) : c[n] = s[i + n]
  OBVIOUS
<1> HIDE DEF a, b, c
<1>2. /\ a \o b \in Seq(S) /\ Len(a \o b) = k - i
      /\ \A n \in 1..(k - i) : (a \o b)[n] = IF n <= j - i THEN a[n] ELSE b[n - (j - i)]
  <2>1. /\ a \o b \in Seq(S) /\ Len(a \o b) = Len(a) + Len(b)
        /\ \A n \in 1..(Len(a) + Len(b)) :
             (a \o b)[n] = IF n <= Len(a) THEN a[n] ELSE b[n - Len(a)]
    BY <1>1, ConcatProperties, Zenon
  <2>2. (j - i) + (k - j) = k - i OBVIOUS
  <2>3. Len(a) = j - i /\ Len(a) + Len(b) = k - i BY <1>1, <2>2
  <2> QED BY <2>1, <2>3
<1>3. \A n \in 1..(k - i) : (a \o b)[n] = c[n]
  <2> SUFFICES ASSUME NEW n \in 1..(k - i) PROVE (a \o b)[n] = c[n] OBVIOUS
  <2>1. CASE n <= j - i
    <3>1. n \in 1..(j - i) BY <2>1
    <3>2. (a \o b)[n] = a[n] BY <1>2, <2>1
    <3> QED BY <1>1, <3>1, <3>2
  <2>2. CASE ~(n <= j - i)
    <3>1. n - (j - i) \in 1..(k - j) /\ j + (n - (j - i)) = i + n BY <2>2
    <3> QED BY <1>1, <1>2, <2>2, <3>1
  <2> QED BY <2>1, <2>2
<1>4. a \o b = c BY <1>1, <1>2, <1>3, SeqEqual, Zenon
<1> QED BY <1>4 DEF a, b, c

LEMMA StretchOfStretch ==
  ASSUME NEW S, NEW s \in Seq(S), NEW i \in 0..Len(s), NEW k \in i..Len(s),
         NEW a \in 0..(k - i), NEW b \in a..(k - i)
  PROVE  SubSeq(SubSeq(s, i + 1, k), a + 1, b) = SubSeq(s, i + a + 1, i + b)
<1> DEFINE c == SubSeq(s, i + 1, k)
           x == SubSeq(c, a + 1, b)
           y == SubSeq(s, i + a + 1, i + b)
<1>1. c \in Seq(S) /\ Len(c) = k - i /\ \A n \in 1..(k - i) : c[n] = s[i + n] OBVIOUS
<1> HIDE DEF c
<1>2. x \in Seq(S) /\ Len(x) = b - a /\ \A n \in 1..(b - a) : x[n] = c[a + n] BY <1>1
<1>3. y \in Seq(S) /\ Len(y) = b - a /\ \A n \in 1..(b - a) : y[n] = s[(i + a) + n]
  OBVIOUS
<1> HIDE DEF x, y
<1>4. \A n \in 1..(b - a) : x[n] = y[n]
  <2> TAKE n \in 1..(b - a)
  <2>1. a + n \in 1..(k - i) /\ i + (a + n) = (i + a) + n OBVIOUS
  <2> QED BY <1>1, <1>2, <1>3, <2>1
<1>5. x = y BY <1>2, <1>3, <1>4, SeqEqual, Zenon
<1> QED BY <1>5 DEF c, x, y

------------------------------------------------------------------------------
(* Decoding: the characters of a text are those of its first bytes, and    *)
(* then those of the rest.                                                 *)
LEMMA CharsAreText ==
  ASSUME NEW bytes \in Seq(Bytes), NEW before \in Nat
  PROVE  /\ CharsOf(bytes, before) \in Text
         /\ Len(CharsOf(bytes, before)) = Cardinality(Starts(bytes))
         /\ Starts(bytes) \in SUBSET (1..Len(bytes))
         /\ Cardinality(Starts(bytes)) \in Nat
         /\ \A k \in 1..Cardinality(Starts(bytes)) :
              CharsOf(bytes, before)[k] = before + Nth(Starts(bytes), k)
<1>1. Starts(bytes) \in SUBSET (1..Len(bytes)) /\ Len(bytes) \in Nat BY DEF Starts
<1>2. Cardinality(Starts(bytes)) \in Nat BY <1>1, FiniteUpTo
<1> DEFINE c == Cardinality(Starts(bytes))
<1>3. \A k \in 1..c : Nth(Starts(bytes), k) \in Nat
  <2> TAKE k \in 1..c
  <2>1. Nth(Starts(bytes), k) \in Starts(bytes) BY <1>1, NthExists
  <2> QED BY <1>1, <2>1
<1>4. CharsOf(bytes, before) = [k \in 1..c |-> before + Nth(Starts(bytes), k)] BY DEF CharsOf
<1> HIDE DEF c
<1>5. CharsOf(bytes, before) \in Text BY <1>2, <1>3, <1>4 DEF Text, c
<1>6. Len(CharsOf(bytes, before)) = c BY <1>2, <1>4 DEF c
<1> QED BY <1>1, <1>2, <1>4, <1>5, <1>6 DEF c

LEMMA CharsConcatenate ==
  ASSUME NEW bytes \in Seq(Bytes), NEW m \in 0..Len(bytes), NEW n \in m..Len(bytes)
  PROVE  CharsOf(SubSeq(bytes, 1, n), 0)
           = CharsOf(SubSeq(bytes, 1, m), 0) \o CharsOf(SubSeq(bytes, m + 1, n), m)
<1> DEFINE head == SubSeq(bytes, 1, m)
           more == SubSeq(bytes, m + 1, n)
           all == SubSeq(bytes, 1, n)
           A == Starts(all)
           H == Starts(head)
           T == Starts(more)
           M == {m + t : t \in T}
<1>1. /\ m \in Nat /\ n \in Nat /\ n - m \in Nat
      /\ head \in Seq(Bytes) /\ Len(head) = m /\ \A i \in 1..m : head[i] = bytes[i]
      /\ more \in Seq(Bytes) /\ Len(more) = n - m
      /\ \A i \in 1..(n - m) : more[i] = bytes[m + i]
      /\ all \in Seq(Bytes) /\ Len(all) = n /\ \A i \in 1..n : all[i] = bytes[i]
  OBVIOUS
<1> HIDE DEF head, more, all
<1>2. H = {i \in 1..m : bytes[i] \in Leads} BY <1>1 DEF Starts
<1>3. T = {i \in 1..(n - m) : bytes[m + i] \in Leads} BY <1>1 DEF Starts
<1>4. A = {i \in 1..n : bytes[i] \in Leads} BY <1>1 DEF Starts
<1> HIDE DEF A, H, T
<1>5. H \in SUBSET (1..m) /\ T \in SUBSET (1..(n - m)) /\ A \in SUBSET (1..n)
  BY <1>2, <1>3, <1>4
<1>6. A = H \cup M
  <2>1. \A i \in 1..n : i \in 1..m \/ (i - m \in 1..(n - m) /\ m + (i - m) = i) BY <1>1
  <2>2. A \subseteq H \cup M
    <3> SUFFICES ASSUME NEW i \in A PROVE i \in H \cup M OBVIOUS
    <3>1. i \in 1..n /\ bytes[i] \in Leads BY <1>4
    <3>2. CASE i \in 1..m BY <3>1, <3>2, <1>2
    <3>3. CASE i - m \in 1..(n - m) /\ m + (i - m) = i
      <4>1. i - m \in T BY <3>1, <3>3, <1>3
      <4> QED BY <4>1, <3>3
    <3> QED BY <2>1, <3>1, <3>2, <3>3
  <2>3. H \subseteq A BY <1>1, <1>2, <1>4
  <2>4. M \subseteq A
    <3> SUFFICES ASSUME NEW t \in T PROVE m + t \in A OBVIOUS
    <3>1. t \in 1..(n - m) /\ bytes[m + t] \in Leads BY <1>3
    <3>2. m + t \in 1..n BY <1>1, <3>1
    <3> QED BY <3>1, <3>2, <1>4
  <2> QED BY <2>2, <2>3, <2>4
<1>7. \A h \in H, x \in M : h \in Nat /\ x \in Nat /\ h <= m /\ m < x
  BY <1>1, <1>5
<1> HIDE DEF M
<1>8. H \cap M = {} BY <1>1, <1>7
<1> DEFINE a == Cardinality(A)
           h == Cardinality(H)
           t == Cardinality(T)
<1>9. /\ IsFiniteSet(H) /\ h \in Nat /\ IsFiniteSet(T) /\ t \in Nat
      /\ IsFiniteSet(A) /\ a \in Nat
  BY <1>1, <1>5, FiniteUpTo
<1>10. IsFiniteSet(M) /\ Cardinality(M) = t BY <1>1, <1>5, MovedCardinality DEF M
<1>11. a = h + t
  <2>1. Cardinality(H \cup M) = h + Cardinality(M) - Cardinality(H \cap M)
    BY <1>9, <1>10, FS_Union
  <2>2. Cardinality(H \cap M) = 0 BY <1>8, FS_EmptySet
  <2> QED BY <1>6, <1>9, <1>10, <2>1, <2>2
<1>12. \A k \in 1..h : Nth(A, k) = Nth(H, k)
  <2> TAKE k \in 1..h
  <2> DEFINE p == Nth(H, k)
  <2>1. p \in H /\ Cardinality(UpTo(H, p)) = k BY <1>1, <1>5, NthExists
  <2> HIDE DEF p
  <2>2. p \in A BY <1>6, <2>1
  <2>3. UpTo(A, p) = UpTo(H, p)
    <3>1. \A x \in M : ~(x <= p) BY <1>1, <1>7, <2>1
    <3> QED BY <1>6, <3>1 DEF UpTo
  <2>4. Nth(A, Cardinality(UpTo(A, p))) = p BY <1>1, <1>5, <2>2, NthIsUnique
  <2> QED BY <2>1, <2>3, <2>4 DEF p
<1>13. \A j \in 1..t : Nth(A, h + j) = m + Nth(T, j)
  <2> TAKE j \in 1..t
  <2> DEFINE p == Nth(T, j)
             before == UpTo(T, p)
             moved == {m + x : x \in before}
  <2>1. p \in T /\ Cardinality(before) = j BY <1>1, <1>5, NthExists
  <2> HIDE DEF p
  <2>2. m + p \in A BY <1>6, <2>1 DEF M
  <2>3. p \in Nat /\ \A x \in T : x \in Nat BY <1>5, <2>1
  <2>4. UpTo(A, m + p) = H \cup moved
    <3>1. \A x \in H : x <= m + p
      <4>1. \A x \in H : x \in Nat /\ x <= m BY <1>5, <1>1
      <4> QED BY <4>1, <1>1, <2>3
    <3>2. \A x \in T : (m + x <= m + p) <=> (x <= p) BY <1>1, <2>3
    <3>3. UpTo(M, m + p) = moved BY <3>2 DEF UpTo, M
    <3>4. UpTo(A, m + p) = UpTo(H, m + p) \cup UpTo(M, m + p) BY <1>6 DEF UpTo
    <3>5. UpTo(H, m + p) = H BY <3>1 DEF UpTo
    <3> QED BY <3>3, <3>4, <3>5
  <2>5. before \in SUBSET (1..(n - m)) /\ moved \subseteq M BY <1>5 DEF UpTo, M
  <2>6. IsFiniteSet(moved) /\ Cardinality(moved) = j
    BY <1>1, <2>1, <2>5, MovedCardinality
  <2>7. H \cap moved = {} BY <1>8, <2>5
  <2>8. Cardinality(H \cup moved) = h + j
    <3>1. Cardinality(H \cup moved) = h + Cardinality(moved) - Cardinality(H \cap moved)
      BY <1>9, <2>6, FS_Union
    <3>2. Cardinality(H \cap moved) = 0 BY <2>7, FS_EmptySet
    <3> QED BY <1>9, <2>6, <3>1, <3>2
  <2>9. Nth(A, Cardinality(UpTo(A, m + p))) = m + p BY <1>1, <1>5, <2>2, NthIsUnique
  <2> QED BY <2>4, <2>8, <2>9 DEF p
<1> DEFINE x == CharsOf(all, 0)
           y == CharsOf(head, 0)
           z == CharsOf(more, m)
<1>14. /\ x \in Text /\ Len(x) = a /\ \A k \in 1..a : x[k] = 0 + Nth(A, k)
       /\ y \in Text /\ Len(y) = h /\ \A k \in 1..h : y[k] = 0 + Nth(H, k)
       /\ z \in Text /\ Len(z) = t /\ \A k \in 1..t : z[k] = m + Nth(T, k)
  <2>3. x \in Text /\ Len(x) = a /\ \A k \in 1..a : x[k] = 0 + Nth(A, k)
    BY <1>1, CharsAreText DEF A
  <2>4. y \in Text /\ Len(y) = h /\ \A k \in 1..h : y[k] = 0 + Nth(H, k)
    BY <1>1, CharsAreText DEF H
  <2>5. z \in Text /\ Len(z) = t /\ \A k \in 1..t : z[k] = m + Nth(T, k)
    BY <1>1, CharsAreText DEF T
  <2> QED BY <2>3, <2>4, <2>5
<1> HIDE DEF x, y, z, a, h, t
<1>15. /\ y \o z \in Text /\ Len(y \o z) = a
       /\ \A k \in 1..h : (y \o z)[k] = y[k]
       /\ \A j \in 1..t : (y \o z)[h + j] = z[j]
  <2>1. y \in Seq(Nat) /\ z \in Seq(Nat) /\ Len(y) = h /\ Len(z) = t BY <1>14 DEF Text
  <2>2. y \o z \in Seq(Nat) /\ Len(y \o z) = h + t BY <2>1, ConcatProperties, Zenon
  <2>3. \A k \in 1..(h + t) : (y \o z)[k] = IF k <= h THEN y[k] ELSE z[k - h]
    BY <2>1, ConcatProperties, Zenon
  <2>4. \A k \in 1..h : k \in 1..(h + t) /\ k <= h BY <1>9
  <2>5. \A j \in 1..t : h + j \in 1..(h + t) /\ ~(h + j <= h) /\ (h + j) - h = j BY <1>9
  <2> QED BY <1>11, <2>2, <2>3, <2>4, <2>5 DEF Text
<1>16. \A k \in 1..a : x[k] = (y \o z)[k]
  <2> SUFFICES ASSUME NEW k \in 1..a PROVE x[k] = (y \o z)[k] OBVIOUS
  <2>1. CASE k \in 1..h BY <1>12, <1>14, <1>15, <2>1
  <2>2. CASE k \notin 1..h
    <3>1. k - h \in 1..t /\ h + (k - h) = k BY <1>9, <1>11, <2>2
    <3> DEFINE j == k - h
    <3>2. x[k] = 0 + (m + Nth(T, j)) BY <1>13, <1>14, <3>1
    <3>3. (y \o z)[k] = m + Nth(T, j) BY <1>14, <1>15, <3>1
    <3>4. Nth(T, j) \in T
      <4>1. Nth(T, j) \in T BY <1>1, <1>5, <3>1, NthExists DEF t
      <4> QED BY <4>1
    <3>5. Nth(T, j) \in 1..(n - m) BY <1>5, <3>4
    <3>6. m + Nth(T, j) \in Int BY <1>1, <3>5
    <3> QED BY <3>2, <3>3, <3>6
  <2> QED BY <2>1, <2>2
<1>17. x = y \o z
  <2>1. x \in Seq(Nat) /\ y \o z \in Seq(Nat) /\ Len(x) = Len(y \o z) BY <1>14, <1>15 DEF Text
  <2>2. \A k \in 1..Len(x) : x[k] = (y \o z)[k] BY <1>14, <1>16
  <2> QED BY <2>1, <2>2, SeqEqual, Zenon
<1> QED BY <1>17 DEF x, y, z, all, head, more

LEMMA ValidIsWithin ==
  ASSUME NEW bytes \in Seq(Bytes)
  PROVE  ValidUpTo(bytes) \in 0..Len(bytes)
<1> DEFINE cut == {i \in DOMAIN bytes :
                     bytes[i] \in Leads /\ i + Width[bytes[i]] - 1 > Len(bytes)}
<1>1. Len(bytes) \in Nat /\ cut \in SUBSET (1..Len(bytes)) OBVIOUS
<1>2. ValidUpTo(bytes) = IF cut = {} THEN Len(bytes) ELSE Max(cut) - 1 BY DEF ValidUpTo
<1> HIDE DEF cut
<1>3. CASE cut = {} BY <1>1, <1>2, <1>3
<1>4. CASE cut # {}
  <2>1. cut \in SUBSET (0..Len(bytes)) BY <1>1
  <2>2. Max(cut) \in cut BY <1>1, <1>4, <2>1, MaxOfBounded
  <2>3. Max(cut) \in 1..Len(bytes) BY <1>1, <2>2
  <2> QED BY <1>1, <1>2, <1>4, <2>3
<1> QED BY <1>3, <1>4

(* push of a chunk keeps the decoder's type, whatever is in the chunk.     *)
LEMMA PushHasType ==
  ASSUME NEW d \in Decoders, NEW chunk \in Seq(Bytes)
  PROVE  LET bytes == d.carry \o chunk
             valid == ValidUpTo(bytes)
             pushed == Push(d, chunk)
         IN /\ Before(d) \in Nat /\ bytes \in Seq(Bytes) /\ valid \in 0..Len(bytes)
            /\ Len(bytes) = Len(d.carry) + Len(chunk)
            /\ pushed.text = CharsOf(SubSeq(bytes, 1, valid), Before(d))
            /\ pushed.decoder = [seen |-> d.seen + Len(chunk),
                                 carry |-> SubSeq(bytes, valid + 1, Len(bytes))]
            /\ pushed.text \in Text /\ pushed.decoder \in Decoders
            /\ Before(pushed.decoder) = Before(d) + valid
<1> DEFINE bytes == d.carry \o chunk
           valid == ValidUpTo(bytes)
           pushed == Push(d, chunk)
<1>1. d.seen \in Nat /\ d.carry \in Seq(Bytes) /\ Len(d.carry) <= d.seen BY DEF Decoders
<1>2. Before(d) \in Nat BY <1>1 DEF Before
<1>3. bytes \in Seq(Bytes) /\ Len(bytes) = Len(d.carry) + Len(chunk) BY <1>1
<1>4. /\ pushed.text = CharsOf(SubSeq(bytes, 1, valid), Before(d))
      /\ pushed.decoder = [seen |-> d.seen + Len(chunk),
                           carry |-> SubSeq(bytes, valid + 1, Len(bytes))]
  BY DEF Push, Carried, Before
<1> HIDE DEF bytes, pushed
<1>5. valid \in 0..Len(bytes) BY <1>3, ValidIsWithin
<1> HIDE DEF valid
<1>6. SubSeq(bytes, 1, valid) \in Seq(Bytes) BY <1>3, <1>5
<1>7. pushed.text \in Text BY <1>2, <1>4, <1>6, CharsAreText
<1>8. /\ SubSeq(bytes, valid + 1, Len(bytes)) \in Seq(Bytes)
      /\ Len(SubSeq(bytes, valid + 1, Len(bytes))) = Len(bytes) - valid
  BY <1>3, <1>5
<1>9. pushed.decoder \in Decoders /\ Before(pushed.decoder) = Before(d) + valid
  BY <1>1, <1>3, <1>4, <1>5, <1>8 DEF Decoders, Before
<1> QED BY <1>2, <1>3, <1>4, <1>5, <1>7, <1>9 DEF bytes, valid, pushed

(* A decoder that carries the end of what it has seen of the input, given  *)
(* the next of it, makes the next characters and carries the end again.    *)
Carries(d) ==
  /\ d \in Decoders /\ d.seen <= Len(input)
  /\ d.carry = SubSeq(input, Before(d) + 1, d.seen)

LEMMA PushGoesOn ==
  ASSUME input \in Seq(Bytes), NEW d, Carries(d),
         NEW t \in d.seen..Len(input), NEW chunk, chunk = SubSeq(input, d.seen + 1, t)
  PROVE  LET pushed == Push(d, chunk)
         IN /\ Carries(pushed.decoder) /\ pushed.decoder.seen = t
            /\ CharsOf(SubSeq(input, 1, Before(d)), 0) \o pushed.text
                 = CharsOf(SubSeq(input, 1, Before(pushed.decoder)), 0)
<1> DEFINE m == Before(d)
           bytes == d.carry \o chunk
           valid == ValidUpTo(bytes)
           pushed == Push(d, chunk)
<1>1. /\ d \in Decoders /\ d.seen \in Nat /\ d.seen <= Len(input) /\ Len(input) \in Nat
      /\ d.carry \in Seq(Bytes) /\ Len(d.carry) <= d.seen
  <2>1. d \in Decoders /\ d.seen <= Len(input) BY DEF Carries
  <2> QED BY <2>1 DEF Decoders
<1>14. d.carry = SubSeq(input, m + 1, d.seen) BY DEF Carries
<1>2. m \in 0..d.seen BY <1>1 DEF Before
<1>3. t \in Nat /\ d.seen <= t /\ t <= Len(input) BY <1>1
<1>4. chunk \in Seq(Bytes) /\ Len(chunk) = t - d.seen BY <1>1, <1>3
<1>5. /\ bytes \in Seq(Bytes) /\ valid \in 0..Len(bytes)
      /\ pushed.text = CharsOf(SubSeq(bytes, 1, valid), m)
      /\ pushed.decoder = [seen |-> d.seen + Len(chunk),
                           carry |-> SubSeq(bytes, valid + 1, Len(bytes))]
      /\ pushed.decoder \in Decoders
      /\ Before(pushed.decoder) = m + valid
  BY <1>1, <1>4, PushHasType
<1> HIDE DEF m
<1>6. bytes = SubSeq(input, m + 1, t)
  <2>1. m \in 0..Len(input) /\ d.seen \in m..Len(input) /\ t \in d.seen..Len(input)
    BY <1>1, <1>2, <1>3
  <2>2. d.carry \o chunk = SubSeq(input, m + 1, d.seen) \o SubSeq(input, d.seen + 1, t)
    BY <1>14
  <2> QED BY <2>1, <2>2, StretchesJoin
<1> HIDE DEF bytes, pushed, valid
<1>15. m \in 0..Len(input) /\ t \in m..Len(input) BY <1>1, <1>2, <1>3
<1>7. Len(bytes) = t - m BY <1>6, <1>15, StretchHasType
<1>8. SubSeq(bytes, 1, valid) = SubSeq(input, m + 1, m + valid)
  <2>1. 0 \in 0..(t - m) /\ valid \in 0..(t - m) BY <1>5, <1>15, <1>7
  <2>2. SubSeq(SubSeq(input, m + 1, t), 0 + 1, valid) = SubSeq(input, m + 0 + 1, m + valid)
    BY <1>15, <2>1, StretchOfStretch
  <2>3. 0 + 1 = 1 /\ m + 0 + 1 = m + 1 BY <1>15
  <2> QED BY <1>6, <2>2, <2>3
<1>9. SubSeq(bytes, valid + 1, Len(bytes)) = SubSeq(input, m + valid + 1, t)
  <2>1. valid \in 0..(t - m) /\ t - m \in valid..(t - m) /\ m + (t - m) = t
    BY <1>5, <1>15, <1>7
  <2>2. SubSeq(SubSeq(input, m + 1, t), valid + 1, t - m) = SubSeq(input, m + valid + 1, m + (t - m))
    BY <1>15, <2>1, StretchOfStretch
  <2> QED BY <1>6, <1>7, <2>1, <2>2
<1>10. pushed.decoder.seen = t BY <1>3, <1>4, <1>5, <1>1
<1>11. Carries(pushed.decoder)
  <2>1. pushed.decoder.carry = SubSeq(bytes, valid + 1, Len(bytes)) BY <1>5
  <2>2. pushed.decoder.carry = SubSeq(input, Before(pushed.decoder) + 1, t)
    BY <1>5, <1>9, <2>1, Zenon
  <2> QED BY <1>3, <1>5, <1>10, <2>2 DEF Carries
<1>12. m \in 0..Len(input) /\ m + valid \in m..Len(input) BY <1>5, <1>15, <1>7
<1>13. CharsOf(SubSeq(input, 1, m + valid), 0)
         = CharsOf(SubSeq(input, 1, m), 0) \o CharsOf(SubSeq(input, m + 1, m + valid), m)
  BY <1>12, CharsConcatenate
<1> QED BY <1>5, <1>8, <1>10, <1>11, <1>13 DEF pushed, m

------------------------------------------------------------------------------
(* What operations of the session leave behind.                            *)

(* It has ended and was not finalized by that; if it had ended before, it  *)
(* is as it was.                                                           *)
Fallen(s, t) ==
  /\ t \in Sessions /\ ~Accepting(t)
  /\ t.fed = s.fed /\ s.released <= t.released
  /\ Accepting(s) => t.state # "finalized"
  /\ ~Accepting(s) => t.state = s.state /\ t.released = s.released

LEMMA AbortedIsFallen ==
  ASSUME NEW s \in Sessions
  PROVE  Fallen(s, Aborted(s))
  BY DEF Sessions, Fallen, Aborted, Accepting, Ended

LEMMA FallenStaysFallen ==
  ASSUME NEW s, NEW t, Fallen(s, t)
  PROVE  Fallen(s, Aborted(t))
  BY DEF Fallen, Aborted

LEMMA FailedIsFallen ==
  ASSUME NEW s \in Sessions, Accepting(s)
  PROVE  Fallen(s, Ended(s, "failed"))
  BY DEF Sessions, Fallen, Accepting, Ended

(* append of the session.                                                  *)
LEMMA SessionAppendOutcomes ==
  ASSUME NEW s \in Sessions, NEW text \in Text, NEW o \in SessionAppend(s, text)
  PROVE  \/ o.error # NoError /\ Fallen(s, o.session)
         \/ /\ o.error = NoError /\ Accepting(s)
            /\ o.session \in Sessions /\ Accepting(o.session)
            /\ o.session.decoder = s.decoder /\ o.session.fed = s.fed \o text
            /\ s.released <= o.session.released
            /\ o.text = SubSeq(o.session.fed, s.released + 1, o.session.released)
<1>1. CASE ~Accepting(s)
  <2>1. o = Outcome(s, <<>>, "INVALID_STATE") BY <1>1 DEF SessionAppend
  <2>2. Fallen(s, s) BY <1>1 DEF Fallen, Sessions
  <2> QED BY <2>1, <2>2 DEF Outcome, NoError
<1>2. CASE Accepting(s)
  <2> DEFINE fed == s.fed \o text
  <2>1. /\ s.fed \in Seq(Nat) /\ text \in Seq(Nat) /\ s.released \in Nat
        /\ s.released <= Len(s.fed) /\ s.decoder \in Decoders /\ s.state = "accepting"
    BY <1>2 DEF Sessions, Text, Accepting
  <2>2. fed \in Seq(Nat) /\ Len(fed) = Len(s.fed) + Len(text)
    BY <2>1, ConcatProperties, Zenon
  <2>3. \/ o = Outcome(Ended(s, "failed"), <<>>, "failure")
        \/ \E k \in s.released..Len(fed) :
             o = Outcome([s EXCEPT !.fed = fed, !.released = k],
                         SubSeq(fed, s.released + 1, k), NoError)
    BY <1>2 DEF SessionAppend
  <2> HIDE DEF fed
  <2>4. CASE o = Outcome(Ended(s, "failed"), <<>>, "failure")
    BY <1>2, <2>4, FailedIsFallen DEF Outcome, NoError
  <2>5. ASSUME NEW k \in s.released..Len(fed),
               o = Outcome([s EXCEPT !.fed = fed, !.released = k],
                           SubSeq(fed, s.released + 1, k), NoError)
        PROVE  /\ o.error = NoError
               /\ o.session \in Sessions /\ Accepting(o.session)
               /\ o.session.decoder = s.decoder /\ o.session.fed = fed
               /\ s.released <= o.session.released
               /\ o.text = SubSeq(o.session.fed, s.released + 1, o.session.released)
    <3> DEFINE t == [s EXCEPT !.fed = fed, !.released = k]
    <3>1. k \in Nat /\ s.released <= k /\ k <= Len(fed) BY <2>1, <2>2
    <3>2. /\ t.state = "accepting" /\ t.fed = fed /\ t.released = k /\ t.decoder = s.decoder
          /\ t \in Sessions
      BY <2>1, <2>2, <3>1 DEF Sessions, Text
    <3> HIDE DEF t
    <3>3. o.session = t /\ o.text = SubSeq(fed, s.released + 1, k) /\ o.error = NoError
      BY <2>5 DEF Outcome, t
    <3> QED BY <3>1, <3>2, <3>3 DEF Accepting
  <2> QED BY <1>2, <2>3, <2>4, <2>5 DEF fed
<1> QED BY <1>1, <1>2

(* finalize of the session.                                                *)
LEMMA SessionFinalizeOutcomes ==
  ASSUME NEW s \in Sessions, NEW o \in SessionFinalize(s)
  PROVE  \/ o.error # NoError /\ Fallen(s, o.session)
         \/ /\ o.error = NoError /\ Accepting(s)
            /\ o.session \in Sessions /\ o.session.state = "finalized"
            /\ o.session.fed = s.fed /\ o.session.released = Len(s.fed)
            /\ o.text = SubSeq(s.fed, s.released + 1, Len(s.fed))
<1>1. CASE ~Accepting(s)
  <2>1. o = Outcome(s, <<>>, "INVALID_STATE") BY <1>1 DEF SessionFinalize
  <2>2. Fallen(s, s) BY <1>1 DEF Fallen, Sessions
  <2> QED BY <2>1, <2>2 DEF Outcome, NoError
<1>2. CASE Accepting(s)
  <2>1. /\ s.fed \in Seq(Nat) /\ s.released \in Nat /\ s.decoder \in Decoders
    BY <1>2 DEF Sessions, Text
  <2> DEFINE e == Ended(s, "finalized")
             t == [e EXCEPT !.released = Len(s.fed)]
  <2>6. /\ e \in Sessions /\ e.state = "finalized" /\ e.fed = s.fed /\ Len(s.fed) \in Nat
    BY <2>1 DEF Sessions, Text, Ended
  <2> HIDE DEF e
  <2>2. /\ t \in Sessions /\ t.state = "finalized"
        /\ t.fed = s.fed /\ t.released = Len(s.fed)
    BY <2>6 DEF Sessions
  <2>3. \/ o = Outcome(Ended(s, "failed"), <<>>, "failure")
        \/ o = Outcome(t, SubSeq(s.fed, s.released + 1, Len(s.fed)), NoError)
    BY <1>2 DEF SessionFinalize, e
  <2> HIDE DEF t
  <2>4. CASE o = Outcome(Ended(s, "failed"), <<>>, "failure")
    BY <1>2, <2>4, FailedIsFallen DEF Outcome, NoError
  <2>5. CASE o = Outcome(t, SubSeq(s.fed, s.released + 1, Len(s.fed)), NoError)
    BY <1>2, <2>2, <2>5 DEF Outcome
  <2> QED BY <2>3, <2>4, <2>5
<1> QED BY <1>1, <1>2

LEMMA RefusedIsFallen ==
  ASSUME NEW s \in Sessions, NEW error, error # NoError, NEW o \in Refused(s, error)
  PROVE  o.error # NoError /\ Fallen(s, o.session)
  BY AbortedIsFallen DEF Refused, Outcome

(* append(): a chunk that is taken was decoded.                            *)
LEMMA AppendOutcomes ==
  ASSUME NEW s \in Sessions, NEW chunk \in Seq(Bytes) \cup {Junk}, NEW o \in AppendChunk(s, chunk)
  PROVE  \/ o.error # NoError /\ Fallen(s, o.session)
         \/ LET pushed == Push(s.decoder, chunk)
            IN /\ o.error = NoError /\ Accepting(s) /\ chunk # Junk
               /\ o.session \in Sessions /\ Accepting(o.session)
               /\ o.session.decoder = pushed.decoder
               /\ o.session.fed = s.fed \o pushed.text
               /\ s.released <= o.session.released
               /\ o.text = SubSeq(o.session.fed, s.released + 1, o.session.released)
<1>1. CASE chunk = Junk
  <2>1. o \in Refused(s, "INVALID_CHUNK") BY <1>1 DEF AppendChunk
  <2> QED BY <2>1, RefusedIsFallen DEF NoError
<1>2. CASE chunk # Junk
  <2> DEFINE pushed == Push(s.decoder, chunk)
             t == [s EXCEPT !.decoder = pushed.decoder]
  <2>1. /\ s.decoder \in Decoders /\ chunk \in Seq(Bytes)
    BY <1>2 DEF Sessions
  <2>2. pushed.text \in Text /\ pushed.decoder \in Decoders BY <2>1, PushHasType
  <2>3. \/ o \in Refused(s, "INVALID_UTF8")
        \/ o \in SessionAppend(t, pushed.text)
    BY <1>2 DEF AppendChunk
  <2> HIDE DEF pushed
  <2>4. /\ t \in Sessions /\ t.fed = s.fed /\ t.released = s.released /\ t.state = s.state
        /\ t.decoder = pushed.decoder
    BY <2>2 DEF Sessions
  <2>5. CASE o \in Refused(s, "INVALID_UTF8")
    BY <2>5, RefusedIsFallen DEF NoError
  <2>6. CASE o \in SessionAppend(t, pushed.text)
    <3> HIDE DEF t
    <3>1. \/ o.error # NoError /\ Fallen(t, o.session)
          \/ /\ o.error = NoError /\ Accepting(t)
             /\ o.session \in Sessions /\ Accepting(o.session)
             /\ o.session.decoder = t.decoder /\ o.session.fed = t.fed \o pushed.text
             /\ t.released <= o.session.released
             /\ o.text = SubSeq(o.session.fed, t.released + 1, o.session.released)
      BY <2>2, <2>4, <2>6, SessionAppendOutcomes
    <3>2. Fallen(t, o.session) => Fallen(s, o.session) BY <2>4 DEF Fallen, Accepting
    <3>3. Accepting(t) => Accepting(s) BY <2>4 DEF Accepting
    <3> QED BY <1>2, <2>4, <3>1, <3>2, <3>3 DEF pushed
  <2> QED BY <2>3, <2>5, <2>6
<1> QED BY <1>1, <1>2

(* finalize(): what is released had come to the end of a character.        *)
LEMMA FinalizeOutcomes ==
  ASSUME NEW s \in Sessions, NEW o \in FinalizeAll(s)
  PROVE  \/ o.error # NoError /\ Fallen(s, o.session)
         \/ /\ o.error = NoError /\ Accepting(s) /\ ~EndsInside(s.decoder)
            /\ o.session \in Sessions /\ o.session.state = "finalized"
            /\ o.session.fed = s.fed /\ o.session.released = Len(s.fed)
            /\ o.text = SubSeq(s.fed, s.released + 1, Len(s.fed))
<1>1. CASE EndsInside(s.decoder)
  <2>1. o \in Refused(s, "INVALID_UTF8") BY <1>1 DEF FinalizeAll
  <2> QED BY <2>1, RefusedIsFallen DEF NoError
<1>2. CASE ~EndsInside(s.decoder)
  <2>1. PICK appended \in SessionAppend(s, <<>>) :
          \/ appended.error # NoError /\ o \in Refused(appended.session, appended.error)
          \/ /\ appended.error = NoError
             /\ \E final \in SessionFinalize(appended.session) :
                  o = IF final.error # NoError
                        THEN Outcome(Aborted(final.session), <<>>, final.error)
                        ELSE Outcome(final.session, appended.text \o final.text, NoError)
    BY <1>2 DEF FinalizeAll
  <2> DEFINE t == appended.session
  <2>2. s.fed \in Seq(Nat) /\ s.released \in 0..Len(s.fed) /\ s.fed \o <<>> = s.fed
    <3>1. s.fed \in Seq(Nat) /\ s.released \in Nat /\ s.released <= Len(s.fed)
      BY DEF Sessions, Text
    <3> QED BY <3>1, ConcatEmptySeq
  <2>3. \/ appended.error # NoError /\ Fallen(s, t)
        \/ /\ appended.error = NoError /\ Accepting(s)
           /\ t \in Sessions /\ Accepting(t)
           /\ t.fed = s.fed /\ s.released <= t.released
           /\ appended.text = SubSeq(s.fed, s.released + 1, t.released)
    <3>1. <<>> \in Text BY DEF Text
    <3>2. \/ appended.error # NoError /\ Fallen(s, t)
          \/ /\ appended.error = NoError /\ Accepting(s)
             /\ t \in Sessions /\ Accepting(t)
             /\ t.fed = s.fed \o <<>> /\ s.released <= t.released
             /\ appended.text = SubSeq(t.fed, s.released + 1, t.released)
      <4> HIDE DEF Accepting, Fallen, Sessions
      <4> QED BY <3>1, SessionAppendOutcomes, Zenon
    <3> QED BY <2>2, <3>2, SMTT(30)
  <2> HIDE DEF t
  <2>4. CASE appended.error # NoError
    <3>1. t \in Sessions /\ ~Accepting(t) /\ Fallen(s, t) BY <2>3, <2>4 DEF Fallen
    <3>2. o = Outcome(Aborted(t), <<>>, appended.error) BY <2>1, <2>4 DEF Refused, t
    <3> QED BY <2>4, <3>1, <3>2, FallenStaysFallen DEF Outcome
  <2>5. CASE appended.error = NoError
    <3>1. PICK final \in SessionFinalize(t) :
            o = IF final.error # NoError
                  THEN Outcome(Aborted(final.session), <<>>, final.error)
                  ELSE Outcome(final.session, appended.text \o final.text, NoError)
      BY <2>1, <2>5 DEF t
    <3>2. /\ Accepting(s) /\ t \in Sessions /\ Accepting(t)
          /\ t.fed = s.fed /\ s.released <= t.released
          /\ appended.text = SubSeq(s.fed, s.released + 1, t.released)
      BY <2>3, <2>5
    <3>3. \/ final.error # NoError /\ Fallen(t, final.session)
          \/ /\ final.error = NoError /\ Accepting(t)
             /\ final.session \in Sessions /\ final.session.state = "finalized"
             /\ final.session.fed = t.fed /\ final.session.released = Len(t.fed)
             /\ final.text = SubSeq(t.fed, t.released + 1, Len(t.fed))
      BY <3>2, SessionFinalizeOutcomes
    <3>4. CASE final.error # NoError
      <4>1. Fallen(t, Aborted(final.session)) BY <3>3, <3>4, FallenStaysFallen
      <4>2. /\ s.released \in Nat /\ t.released \in Nat
            /\ Aborted(final.session).released \in Nat
        BY <3>2, <4>1 DEF Sessions, Fallen
      <4>3. Fallen(s, Aborted(final.session)) BY <3>2, <4>1, <4>2 DEF Fallen, Accepting
      <4> QED BY <3>1, <3>4, <4>3 DEF Outcome
    <3>5. CASE final.error = NoError
      <4>1. o.session = final.session /\ o.text = appended.text \o final.text /\ o.error = NoError
        BY <3>1, <3>5 DEF Outcome
      <4>2. t.released \in s.released..Len(s.fed) /\ Len(s.fed) \in t.released..Len(s.fed)
        BY <2>2, <3>2 DEF Sessions
      <4>3. appended.text \o final.text = SubSeq(s.fed, s.released + 1, Len(s.fed))
        <5>1. final.text = SubSeq(s.fed, t.released + 1, Len(s.fed)) BY <3>2, <3>3, <3>5
        <5>2. SubSeq(s.fed, s.released + 1, t.released) \o SubSeq(s.fed, t.released + 1, Len(s.fed))
                = SubSeq(s.fed, s.released + 1, Len(s.fed))
          BY <2>2, <4>2, StretchesJoin
        <5> QED BY <3>2, <5>1, <5>2
      <4> QED BY <1>2, <3>2, <3>3, <3>5, <4>1, <4>3
    <3> QED BY <3>4, <3>5
  <2> QED BY <2>4, <2>5
<1> QED BY <1>1, <1>2

------------------------------------------------------------------------------
(* The next chunk, and what the queues hold.                               *)
LEMMA ChunkIsNext ==
  ASSUME ConstantsAssumption, TypeOK, NEW chunk \in Chunks
  PROVE  /\ chunk \in Seq(Bytes) /\ Len(chunk) \in Nat \ {0}
         /\ taken + Len(chunk) \in taken..Len(input)
         /\ chunk = SubSeq(input, taken + 1, taken + Len(chunk))
<1> DEFINE left == Len(input) - taken
           bounds == {MaxChunk, left}
<1>1. /\ input \in Seq(Bytes) /\ Len(input) \in Nat /\ taken \in 0..Len(input)
      /\ left \in Nat /\ MaxChunk \in Nat \ {0}
  BY DEF TypeOK, ConstantsAssumption
<1>2. PICK n \in 1..Min(bounds) : chunk = SubSeq(input, taken + 1, taken + n) BY DEF Chunks
<1> HIDE DEF left
<1>3. Min(bounds) \in Nat /\ Min(bounds) <= left
  <2>1. bounds \in SUBSET Nat /\ bounds # {} BY <1>1
  <2>2. \E x \in bounds : \A y \in bounds : x <= y BY <2>1, LeastElement
  <2>3. Min(bounds) \in bounds /\ \A y \in bounds : Min(bounds) <= y BY <2>2 DEF Min
  <2> QED BY <2>1, <2>3
<1>4. n \in Nat \ {0} /\ n <= left BY <1>1, <1>2, <1>3
<1>5. taken + n \in taken..Len(input) BY <1>1, <1>4 DEF left
<1>6. chunk \in Seq(Bytes) /\ Len(chunk) = n BY <1>1, <1>2, <1>4, <1>5
<1> QED BY <1>2, <1>4, <1>5, <1>6

LEMMA OneElement ==
  ASSUME NEW S, NEW q \in Seq(S), q # <<>>, Len(q) <= 1
  PROVE  Len(q) = 1 /\ q[1] \in S /\ Head(q) = q[1] /\ Tail(q) = <<>> /\ q = <<q[1]>>
<1>1. Len(q) = 1
  <2>1. Len(q) \in Nat \ {0} BY EmptySeq, Zenon
  <2> QED BY <2>1
<1>2. q[1] \in S /\ Head(q) = q[1] BY <1>1
<1>3. Tail(q) = <<>>
  <2>1. Tail(q) = SubSeq(q, 2, Len(q)) BY TailIsSubSeq, Zenon
  <2>2. SubSeq(q, 2, 1) = <<>> BY SubSeqEmpty
  <2> QED BY <1>1, <2>1, <2>2
<1>4. q = <<q[1]>> BY <1>1
<1> QED BY <1>1, <1>2, <1>3, <1>4

(* A queue of one piece or none, read as text.                             *)
LEMMA Flattened ==
  ASSUME NEW q \in Seq(Text), Len(q) <= 1
  PROVE  /\ FlattenSeq(q) \in Text
         /\ q = <<>> => FlattenSeq(q) = <<>>
         /\ q # <<>> => /\ q[1] \in Text /\ FlattenSeq(q) = q[1]
                        /\ Head(q) = q[1] /\ Tail(q) = <<>> /\ q = <<q[1]>>
<1>1. CASE q = <<>>
  <2>1. FlattenSeq(q) = <<>> BY <1>1 DEF FlattenSeq
  <2>2. <<>> \in Text BY DEF Text
  <2> QED BY <1>1, <2>1, <2>2
<1>2. CASE q # <<>>
  <2>1. /\ Len(q) = 1 /\ q[1] \in Text /\ Head(q) = q[1] /\ Tail(q) = <<>> /\ q = <<q[1]>>
    BY <1>2, OneElement
  <2> DEFINE Flattens(f) == f = [i \in 1..1 |-> IF i = 1 THEN q[i] ELSE f[i - 1] \o q[i]]
             f == CHOOSE f : Flattens(f)
  <2>2. Flattens([i \in 1..1 |-> q[1]])
    <3>1. [i \in 1..1 |-> q[1]]
            = [i \in 1..1 |-> IF i = 1 THEN q[i] ELSE [j \in 1..1 |-> q[1]][i - 1] \o q[i]]
      OBVIOUS
    <3> QED BY <3>1
  <2>3. Flattens(f) BY <2>2
  <2>4. f[1] = q[1] BY <2>3
  <2>5. FlattenSeq(q) = f[1] BY <2>1 DEF FlattenSeq
  <2> QED BY <2>1, <2>4, <2>5
<1> QED BY <1>1, <1>2

LEMMA OnePiece ==
  ASSUME NEW text \in Text
  PROVE  /\ <<text>> \in Seq(Text) /\ Len(<<text>>) = 1
         /\ FlattenSeq(<<text>>) = text
         /\ Pieces(text) \in Seq(Text) /\ Len(Pieces(text)) <= 1
         /\ FlattenSeq(Pieces(text)) = text
<1>1. <<text>> \in Seq(Text) /\ Len(<<text>>) = 1 /\ <<text>> # <<>> /\ <<text>>[1] = text
  OBVIOUS
<1> DEFINE q == <<text>>
           none == <<>>
<1>2. FlattenSeq(<<text>>) = text
  <2>1. q \in Seq(Text) /\ Len(q) <= 1 /\ q # <<>> /\ q[1] = text BY <1>1
  <2> HIDE DEF q
  <2>2. FlattenSeq(q) = text BY <2>1, Flattened
  <2> QED BY <2>2 DEF q
<1>3. <<>> \in Seq(Text) /\ Len(<<>>) = 0 OBVIOUS
<1>4. FlattenSeq(<<>>) = <<>> BY DEF FlattenSeq
<1> QED BY <1>1, <1>2, <1>3, <1>4 DEF Pieces

------------------------------------------------------------------------------
(* Prefixes.                                                               *)
LEMMA PrefixMeans ==
  ASSUME NEW s \in Text, NEW t \in Text
  PROVE  IsPrefix(s, t) <=> Len(s) <= Len(t) /\ \A i \in 1..Len(s) : s[i] = t[i]
<1>1. /\ s \in Seq(Nat) /\ t \in Seq(Nat) /\ Len(s) \in Nat /\ Len(t) \in Nat BY DEF Text
<1>2. CASE Len(s) <= Len(t)
  <2> DEFINE a == SubSeq(s, 1, Len(s))
             b == SubSeq(t, 1, Len(s))
  <2>1. a \in Seq(Nat) /\ Len(a) = Len(s) /\ \A i \in 1..Len(s) : a[i] = s[i] BY <1>1
  <2>2. b \in Seq(Nat) /\ Len(b) = Len(s) /\ \A i \in 1..Len(s) : b[i] = t[i] BY <1>1, <1>2
  <2> HIDE DEF a, b
  <2>3. (\A i \in 1..Len(s) : s[i] = t[i]) => a = b
    <3> SUFFICES ASSUME \A i \in 1..Len(s) : s[i] = t[i] PROVE a = b OBVIOUS
    <3>1. \A i \in 1..Len(a) : a[i] = b[i] BY <2>1, <2>2
    <3> QED BY <2>1, <2>2, <3>1, SeqEqual, Zenon
  <2>4. a = b => \A i \in 1..Len(s) : s[i] = t[i] BY <2>1, <2>2
  <2> QED BY <1>2, <2>3, <2>4 DEF IsPrefix, a, b
<1> QED BY <1>2 DEF IsPrefix

LEMMA PrefixesCompose ==
  ASSUME NEW s \in Text, NEW t \in Text, NEW u \in Text, IsPrefix(s, t), IsPrefix(t, u)
  PROVE  IsPrefix(s, u)
<1>1. Len(s) \in Nat /\ Len(t) \in Nat /\ Len(u) \in Nat BY DEF Text
<1>2. /\ Len(s) <= Len(t) /\ \A i \in 1..Len(s) : s[i] = t[i]
      /\ Len(t) <= Len(u) /\ \A i \in 1..Len(t) : t[i] = u[i]
  BY PrefixMeans
<1>3. Len(s) <= Len(u) /\ \A i \in 1..Len(s) : s[i] = u[i] BY <1>1, <1>2
<1> QED BY <1>3, PrefixMeans

LEMMA StretchIsPrefix ==
  ASSUME NEW s \in Text, NEW j \in 0..Len(s), NEW k \in j..Len(s)
  PROVE  /\ SubSeq(s, 1, j) \in Text /\ SubSeq(s, 1, k) \in Text
         /\ IsPrefix(SubSeq(s, 1, j), SubSeq(s, 1, k))
<1> DEFINE a == SubSeq(s, 1, j)
           b == SubSeq(s, 1, k)
<1>1. s \in Seq(Nat) /\ Len(s) \in Nat BY DEF Text
<1>2. /\ a \in Seq(Nat) /\ Len(a) = j /\ \A i \in 1..j : a[i] = s[i]
      /\ b \in Seq(Nat) /\ Len(b) = k /\ \A i \in 1..k : b[i] = s[i]
  BY <1>1
<1> HIDE DEF a, b
<1>3. a \in Text /\ b \in Text /\ Len(a) <= Len(b) /\ \A i \in 1..Len(a) : a[i] = b[i]
  BY <1>1, <1>2 DEF Text
<1>4. IsPrefix(a, b) BY <1>3, PrefixMeans
<1> QED BY <1>3, <1>4 DEF a, b

LEMMA HeadIsPrefix ==
  ASSUME NEW s \in Text, NEW t \in Text
  PROVE  s \o t \in Text /\ IsPrefix(s, s \o t)
<1>1. s \in Seq(Nat) /\ t \in Seq(Nat) /\ Len(s) \in Nat /\ Len(t) \in Nat BY DEF Text
<1> DEFINE u == s \o t
<1>2. u \in Seq(Nat) /\ Len(u) = Len(s) + Len(t) /\ \A i \in 1..Len(s) : u[i] = s[i] BY <1>1
<1> HIDE DEF u
<1>3. u \in Text /\ Len(s) <= Len(u) /\ \A i \in 1..Len(s) : s[i] = u[i] BY <1>1, <1>2 DEF Text
<1>4. IsPrefix(s, u) BY <1>3, PrefixMeans
<1> QED BY <1>3, <1>4 DEF u

(* Text that was released, and what is released of more.                   *)
LEMMA TextAppends ==
  ASSUME NEW coming, NEW fed \in Text, NEW more \in Text, NEW r \in 0..Len(fed),
         NEW k \in r..Len(fed \o more), coming = SubSeq(fed, 1, r)
  PROVE  coming \o SubSeq(fed \o more, r + 1, k) = SubSeq(fed \o more, 1, k)
<1> DEFINE all == fed \o more
           a == SubSeq(fed, 1, r)
           b == SubSeq(all, 1, r)
<1>1. fed \in Seq(Nat) /\ more \in Seq(Nat) /\ Len(fed) \in Nat /\ Len(more) \in Nat BY DEF Text
<1>2. all \in Seq(Nat) /\ Len(all) = Len(fed) + Len(more) /\ \A i \in 1..Len(fed) : all[i] = fed[i]
  BY <1>1
<1> HIDE DEF all
<1>3. a \in Seq(Nat) /\ Len(a) = r /\ \A i \in 1..r : a[i] = fed[i] BY <1>1
<1>4. b \in Seq(Nat) /\ Len(b) = r /\ \A i \in 1..r : b[i] = all[i] BY <1>1, <1>2
<1> HIDE DEF a, b
<1>5. \A i \in 1..Len(a) : a[i] = b[i]
  <2>1. \A i \in 1..r : i \in 1..Len(fed) BY <1>1
  <2> QED BY <1>2, <1>3, <1>4, <2>1
<1>6. a = b BY <1>3, <1>4, <1>5, SeqEqual, Zenon
<1>7. r \in 0..Len(all) /\ k \in r..Len(all) /\ 0 \in 0..Len(all) BY <1>1, <1>2 DEF all
<1>8. SubSeq(all, 0 + 1, r) \o SubSeq(all, r + 1, k) = SubSeq(all, 0 + 1, k)
  <2>1. r \in 0..Len(all) /\ k \in r..Len(all) /\ all \in Seq(Nat) BY <1>2, <1>7
  <2> QED BY <1>7, <2>1, StretchesJoin
<1>9. SubSeq(all, 1, r) \o SubSeq(all, r + 1, k) = SubSeq(all, 1, k) BY <1>8
<1> QED BY <1>6, <1>9 DEF all, a, b

------------------------------------------------------------------------------
(* How steps of the session carry over to what was delivered and decoded.  *)
LEMMA QueuesAreText ==
  ASSUME TypeOK, Queues
  PROVE  /\ FlattenSeq(buffer) \in Text /\ FlattenSeq(inner) \in Text
         /\ out \o FlattenSeq(buffer) \in Text /\ Coming \in Text
<1>1. FlattenSeq(buffer) \in Text /\ FlattenSeq(inner) \in Text
  BY Flattened DEF TypeOK, Queues
<1>2. out \in Text BY DEF TypeOK
<1>3. out \o FlattenSeq(buffer) \in Text BY <1>1, <1>2, HeadIsPrefix
<1>4. Coming \in Text BY <1>1, <1>3, HeadIsPrefix DEF Coming
<1> QED BY <1>1, <1>3, <1>4

LEMMA DeliveredStays ==
  ASSUME Delivered, session' = session, Coming' = Coming, Whole' => Whole,
         result' = "ok" => buffer' = <<>> /\ inner' = <<>>
  PROVE  Delivered'
  BY DEF Delivered, Accepting

LEMMA DeliveredFalls ==
  ASSUME TypeOK, Delivered, Fallen(session, session'),
         Coming \in Text, Coming' \in Text, IsPrefix(Coming', Coming),
         Whole' => Whole /\ Coming' = Coming,
         result' = "ok" => buffer' = <<>> /\ inner' = <<>>
  PROVE  Delivered'
<1>1. /\ session.fed \in Text /\ session.released \in Nat
      /\ session'.fed = session.fed /\ session'.released \in Nat
      /\ session.released <= session'.released /\ session'.released <= Len(session.fed)
      /\ Len(session.fed) \in Nat
  BY DEF TypeOK, Fallen, Sessions, Text
<1> DEFINE old == SubSeq(session.fed, 1, session.released)
           new == SubSeq(session.fed, 1, session'.released)
<1>2. old \in Text /\ new \in Text /\ IsPrefix(old, new) BY <1>1, StretchIsPrefix
<1>3. IsPrefix(Coming, old) BY DEF Delivered
<1> HIDE DEF old, new
<1>4. IsPrefix(Coming', new) BY <1>2, <1>3, PrefixesCompose
<1>5. Whole' => session'.state = "finalized" /\ Coming' = session'.fed
  BY <1>1 DEF Delivered, Fallen, Accepting
<1>6. ~Accepting(session') BY DEF Fallen
<1> QED BY <1>1, <1>4, <1>5, <1>6 DEF Delivered, new

LEMMA DeliveredGrows ==
  ASSUME TypeOK, Delivered, Accepting(session), session' \in Sessions,
         NEW more \in Text, session'.fed = session.fed \o more,
         session.released <= session'.released,
         NEW text, text = SubSeq(session'.fed, session.released + 1, session'.released),
         Coming' = Coming \o text,
         Whole' => session'.state = "finalized" /\ session'.released = Len(session'.fed),
         result' = "ok" => buffer' = <<>> /\ inner' = <<>>
  PROVE  Delivered'
<1>1. /\ session.fed \in Text /\ session'.fed \in Text
      /\ session.released \in 0..Len(session.fed)
      /\ session'.released \in session.released..Len(session'.fed)
      /\ Len(session'.fed) \in Nat
  <2>1. session \in Sessions BY DEF TypeOK
  <2>2. /\ session.fed \in Text /\ session.released \in Nat
        /\ session.released <= Len(session.fed)
    BY <2>1 DEF Sessions
  <2>3. /\ session'.fed \in Text /\ session'.released \in Nat
        /\ session'.released <= Len(session'.fed)
    BY DEF Sessions
  <2>4. Len(session.fed) \in Nat /\ Len(session'.fed) \in Nat BY <2>2, <2>3 DEF Text
  <2> QED BY <2>2, <2>3, <2>4
<1> DEFINE all == SubSeq(session'.fed, 1, session'.released)
<1>2. Coming = SubSeq(session.fed, 1, session.released) BY DEF Delivered
<1>3. Coming' = all
  <2> DEFINE both == session.fed \o more
             k == session'.released
  <2>1. k \in session.released..Len(both) BY <1>1
  <2> HIDE DEF both, k
  <2>2. Coming \o SubSeq(session.fed \o more, session.released + 1, k)
          = SubSeq(session.fed \o more, 1, k)
    BY <1>1, <1>2, <2>1, TextAppends DEF both
  <2> QED BY <2>2 DEF k
<1>4. session'.released \in 0..Len(session'.fed)
      /\ session'.released \in session'.released..Len(session'.fed)
  BY <1>1
<1>5. all \in Text /\ IsPrefix(all, all) BY <1>1, <1>4, StretchIsPrefix
<1>6. session'.released = Len(session'.fed) => all = session'.fed
  BY <1>1, SubSeqFull DEF Text
<1> HIDE DEF all
<1>7. IsPrefix(Coming', all) BY <1>3, <1>5
<1> QED BY <1>3, <1>6, <1>7 DEF Delivered, all

LEMMA DecodedFalls ==
  ASSUME TypeOK, Decoded, Fallen(session, session'), input' = input, taken' \in taken..Len(input)
  PROVE  Decoded'
<1>1. session'.fed = session.fed /\ ~Accepting(session') BY DEF Fallen
<1>2. session'.state = "finalized" =>
        session.state = "finalized" /\ session'.released = session.released
  BY DEF Fallen, Accepting
<1>3. AtEnd => AtEnd' BY DEF AtEnd, TypeOK
<1>4. AllChars' = AllChars BY DEF AllChars
<1>5. \E m \in 0..Len(input') : session'.fed = CharsOf(SubSeq(input', 1, m), 0)
  BY <1>1 DEF Decoded
<1> QED BY <1>1, <1>2, <1>3, <1>4, <1>5 DEF Decoded

LEMMA DecodedAppends ==
  ASSUME TypeOK, Decoded, Accepting(session), input' = input,
         taken' \in session.decoder.seen..Len(input),
         NEW chunk, chunk = SubSeq(input, session.decoder.seen + 1, taken'),
         session' \in Sessions, session'.state \in {"accepting", "aborted"},
         session'.decoder = Push(session.decoder, chunk).decoder,
         session'.fed = session.fed \o Push(session.decoder, chunk).text,
         inflight' = Idle
  PROVE  Decoded'
<1> DEFINE d == session.decoder
           pushed == Push(d, chunk)
<1>1. input \in Seq(Bytes) /\ Len(input) \in Nat /\ taken \in 0..Len(input) BY DEF TypeOK
<1>2. Carries(d)
  <2>1. d \in Decoders BY DEF TypeOK, Sessions
  <2>2. d.seen <= taken /\ d.carry = SubSeq(input, Before(d) + 1, d.seen) BY DEF Decoded
  <2>3. d.seen \in Nat BY <2>1 DEF Decoders
  <2> QED BY <1>1, <2>1, <2>2, <2>3 DEF Carries
<1>3. session.fed = CharsOf(SubSeq(input, 1, Before(d)), 0) BY DEF Decoded
<1>4. /\ Carries(pushed.decoder) /\ pushed.decoder.seen = taken'
      /\ CharsOf(SubSeq(input, 1, Before(d)), 0) \o pushed.text
           = CharsOf(SubSeq(input, 1, Before(pushed.decoder)), 0)
  <2>1. chunk = SubSeq(input, d.seen + 1, taken') /\ taken' \in d.seen..Len(input) OBVIOUS
  <2>2. Carries(d) BY <1>2
  <2> DEFINE t == taken'
  <2>3. t \in d.seen..Len(input) /\ chunk = SubSeq(input, d.seen + 1, t) BY <2>1
  <2> HIDE DEF d, t, pushed
  <2>4. /\ Carries(Push(d, chunk).decoder) /\ Push(d, chunk).decoder.seen = t
        /\ CharsOf(SubSeq(input, 1, Before(d)), 0) \o Push(d, chunk).text
             = CharsOf(SubSeq(input, 1, Before(Push(d, chunk).decoder)), 0)
    BY <1>1, <2>2, <2>3, PushGoesOn, ZenonT(30)
  <2> QED BY <2>4 DEF t, pushed
<1> HIDE DEF pushed
<1>5. session'.fed = CharsOf(SubSeq(input, 1, Before(pushed.decoder)), 0)
  BY <1>3, <1>4 DEF pushed
<1>6. Before(pushed.decoder) \in 0..Len(input)
  <2>1. pushed.decoder \in Decoders /\ pushed.decoder.seen <= Len(input)
    BY <1>4 DEF Carries
  <2> QED BY <1>1, <2>1 DEF Decoders, Before
<1>7. ~ChunkWaits' BY DEF Idle, ChunkWaits
<1>8. Accepting(session)' =>
        LET e == session'.decoder
        IN /\ e.seen <= taken' /\ e.seen = taken'
           /\ e.carry = SubSeq(input', Before(e) + 1, e.seen)
           /\ session'.fed = CharsOf(SubSeq(input', 1, Before(e)), 0)
  <2>1. session'.decoder = pushed.decoder BY DEF pushed
  <2>2. taken' <= taken' BY <1>1, <1>2 DEF Carries, Decoders
  <2> QED BY <1>4, <1>5, <2>1, <2>2 DEF Carries
<1>9. Before(session.decoder)' = Before(session'.decoder) BY DEF Before
<1>10. \E m \in 0..Len(input') : session'.fed = CharsOf(SubSeq(input', 1, m), 0)
  BY <1>5, <1>6
<1> QED BY <1>7, <1>8, <1>9, <1>10 DEF Decoded, Accepting

LEMMA DecodedFinalizes ==
  ASSUME TypeOK, Decoded, Accepting(session), AtEnd, ~EndsInside(session.decoder),
         ~ChunkWaits,
         input' = input, taken' = taken,
         session' \in Sessions, session'.state = "finalized",
         session'.fed = session.fed, session'.released = Len(session.fed)
  PROVE  Decoded'
<1> DEFINE d == session.decoder
<1>1. input \in Seq(Bytes) /\ Len(input) \in Nat /\ taken = Len(input) BY DEF TypeOK, AtEnd
<1>2. d.seen = taken /\ session.fed = CharsOf(SubSeq(input, 1, Before(d)), 0) BY DEF Decoded
<1>3. Before(d) = taken BY <1>1, <1>2 DEF Before, EndsInside
<1>4. SubSeq(input, 1, Len(input)) = input BY <1>1
<1>5. session'.fed = AllChars BY <1>1, <1>2, <1>3, <1>4 DEF AllChars
<1>6. AllChars' = AllChars /\ AtEnd' BY DEF AllChars, AtEnd
<1>7. \E m \in 0..Len(input') : session'.fed = CharsOf(SubSeq(input', 1, m), 0)
  <2>1. Len(input) \in 0..Len(input) BY <1>1
  <2>2. session'.fed = CharsOf(SubSeq(input, 1, Len(input)), 0)
    BY <1>4, <1>5, Zenon DEF AllChars
  <2> QED BY <2>1, <2>2
<1> QED BY <1>5, <1>6, <1>7 DEF Decoded, Accepting

LEMMA DecodedStays ==
  ASSUME TypeOK, Decoded, session' = session, input' = input, taken' \in taken..Len(input),
         Accepting(session) =>
           LET d == session.decoder
           IN /\ ChunkWaits' => inflight'.chunk = SubSeq(input, d.seen + 1, taken')
              /\ ~ChunkWaits' => d.seen = taken'
  PROVE  Decoded'
<1>1. Accepting(session) => session.decoder.seen <= taken'
  <2> SUFFICES ASSUME Accepting(session) PROVE session.decoder.seen <= taken' OBVIOUS
  <2>1. session.decoder.seen <= taken BY DEF Decoded
  <2>2. session \in Sessions /\ taken \in Nat BY DEF TypeOK
  <2>3. session.decoder \in Decoders BY <2>2 DEF Sessions
  <2>4. session.decoder.seen \in Nat BY <2>3 DEF Decoders
  <2> QED BY <2>1, <2>2, <2>4
<1>2. AtEnd => AtEnd' BY DEF AtEnd, TypeOK
<1>3. AllChars' = AllChars BY DEF AllChars
<1>4. Accepting(session') = Accepting(session) BY DEF Accepting
<1>5. Before(session.decoder)' = Before(session.decoder) BY DEF Before
<1> QED BY <1>1, <1>2, <1>3, <1>4, <1>5 DEF Decoded

(* Where nothing of it moves.                                              *)
LEMMA DecodedRests ==
  ASSUME TypeOK, Decoded, session' = session, input' = input, taken' = taken,
         ChunkWaits' <=> ChunkWaits, ChunkWaits => inflight' = inflight
  PROVE  Decoded'
<1>1. taken' \in taken..Len(input) BY DEF TypeOK
<1>2. Accepting(session) =>
        LET d == session.decoder
        IN /\ ChunkWaits' => inflight'.chunk = SubSeq(input, d.seen + 1, taken')
           /\ ~ChunkWaits' => d.seen = taken'
  BY DEF Decoded
<1> QED BY <1>1, <1>2, DecodedStays

LEMMA PrefixOfItself ==
  ASSUME NEW s \in Text
  PROVE  IsPrefix(s, s)
<1>1. Len(s) \in Nat BY DEF Text
<1> QED BY <1>1, PrefixMeans

(* Text that the session released and that goes no further.                *)
LEMMA DeliveredLoses ==
  ASSUME TypeOK, Delivered, session' \in Sessions, ~Accepting(session'),
         NEW more \in Text, session'.fed = session.fed \o more,
         session.released <= session'.released,
         Coming \in Text, Coming' \in Text, IsPrefix(Coming', Coming),
         ~Whole', result' # "ok"
  PROVE  Delivered'
<1>1. /\ session.fed \in Text /\ session.released \in Nat
      /\ session.released <= Len(session.fed)
      /\ session'.fed \in Text /\ session'.released \in Nat
      /\ session'.released <= Len(session'.fed)
  <2>1. session \in Sessions BY DEF TypeOK
  <2> QED BY <2>1 DEF Sessions
<1>2. Len(session.fed) \in Nat /\ Len(session'.fed) \in Nat BY <1>1 DEF Text
<1> DEFINE old == SubSeq(session.fed, 1, session.released)
           kept == SubSeq(session'.fed, 1, session.released)
           new == SubSeq(session'.fed, 1, session'.released)
<1>3. old = kept
  <2> DEFINE both == session.fed \o more
             r == session.released
  <2>1. Len(both) = Len(session.fed) + Len(more) /\ Len(more) \in Nat BY <1>1 DEF Text
  <2>2. r \in 0..Len(session.fed) /\ r \in r..Len(both) BY <1>1, <1>2, <2>1
  <2> HIDE DEF r, both
  <2>3. SubSeq(session.fed, 1, r) \o SubSeq(session.fed \o more, r + 1, r)
          = SubSeq(session.fed \o more, 1, r)
    BY <1>1, <2>2, TextAppends DEF both
  <2>4. SubSeq(session.fed \o more, r + 1, r) = <<>>
    <3>1. session.fed \o more \in Text /\ r \in Nat BY <1>1, HeadIsPrefix DEF r
    <3> QED BY <3>1 DEF Text
  <2>5. SubSeq(session.fed, 1, r) \in Text BY <1>1, <2>2, StretchIsPrefix DEF r
  <2>6. SubSeq(session.fed, 1, r) \o <<>> = SubSeq(session.fed, 1, r)
    BY <2>5, ConcatEmptySeq DEF Text
  <2> QED BY <2>3, <2>4, <2>6 DEF r
<1>4. /\ session.released \in 0..Len(session'.fed)
      /\ session'.released \in session.released..Len(session'.fed)
  <2>1. Len(session.fed \o more) = Len(session.fed) + Len(more) /\ Len(more) \in Nat
    BY <1>1 DEF Text
  <2> QED BY <1>1, <1>2, <2>1
<1>5. kept \in Text /\ new \in Text /\ IsPrefix(kept, new) BY <1>1, <1>4, StretchIsPrefix
<1>6. IsPrefix(Coming, old) BY DEF Delivered
<1> HIDE DEF old, kept, new
<1>7. IsPrefix(Coming', kept) BY <1>3, <1>5, <1>6, PrefixesCompose
<1>8. IsPrefix(Coming', new) BY <1>5, <1>7, PrefixesCompose
<1> QED BY <1>8 DEF Delivered, new

------------------------------------------------------------------------------
(* How text moves through the queues.                                      *)
Hands == TypeOK /\ Queues

LEMMA NothingQueued ==
  ASSUME Hands
  PROVE  /\ <<>> \in Text
         /\ inner = <<>> => Coming = out \o FlattenSeq(buffer)
         /\ buffer = <<>> /\ inner = <<>> => Coming = out
         /\ IsPrefix(out, Coming)
<1>1. /\ out \in Text /\ FlattenSeq(buffer) \in Text /\ FlattenSeq(inner) \in Text
      /\ out \o FlattenSeq(buffer) \in Text /\ Coming \in Text
  BY QueuesAreText DEF Hands, TypeOK
<1>2. FlattenSeq(<<>>) = <<>> /\ <<>> \in Text BY DEF FlattenSeq, Text
<1>3. \A s \in Text : s \o <<>> = s BY ConcatEmptySeq DEF Text
<1>4. inner = <<>> => Coming = out \o FlattenSeq(buffer) BY <1>1, <1>2, <1>3 DEF Coming
<1>5. buffer = <<>> /\ inner = <<>> => Coming = out BY <1>1, <1>2, <1>3, <1>4
<1>6. IsPrefix(out, out \o FlattenSeq(buffer)) BY <1>1, HeadIsPrefix
<1>7. IsPrefix(out \o FlattenSeq(buffer), Coming) BY <1>1, HeadIsPrefix DEF Coming
<1>8. IsPrefix(out, Coming) BY <1>1, <1>6, <1>7, PrefixesCompose
<1> QED BY <1>2, <1>4, <1>5, <1>8

(* Text is written, is queued for the consumer, or is queued behind what   *)
(* the consumer may read.                                                  *)
LEMMA TextWritten ==
  ASSUME Hands, NEW text \in Text, buffer = <<>>, inner = <<>>, buffer' = <<>>, inner' = <<>>,
         out' = out \o text
  PROVE  out' \in Text /\ Coming' = Coming \o text
<1>1. out' \in Text BY HeadIsPrefix DEF Hands, TypeOK
<1>2. FlattenSeq(<<>>) = <<>> BY DEF FlattenSeq
<1>3. Coming = out BY NothingQueued
<1>4. out' \o <<>> = out' BY <1>1, ConcatEmptySeq DEF Text
<1>5. Coming' = out' BY <1>2, <1>4 DEF Coming
<1> QED BY <1>1, <1>3, <1>5

LEMMA TextBuffered ==
  ASSUME Hands, NEW text \in Text, buffer = <<>>, inner = <<>>, FlattenSeq(buffer') = text,
         inner' = <<>>, out' = out
  PROVE  Coming' = Coming \o text
<1>1. out \o text \in Text BY HeadIsPrefix DEF Hands, TypeOK
<1>2. FlattenSeq(<<>>) = <<>> BY DEF FlattenSeq
<1>3. Coming = out BY NothingQueued
<1>4. (out \o text) \o <<>> = out \o text BY <1>1, ConcatEmptySeq DEF Text
<1>5. Coming' = (out \o text) \o <<>> BY <1>2 DEF Coming
<1> QED BY <1>3, <1>4, <1>5

LEMMA TextBehind ==
  ASSUME Hands, NEW text \in Text, inner = <<>>, inner' = <<text>>, buffer' = buffer, out' = out
  PROVE  Coming' = Coming \o text
<1>1. FlattenSeq(<<text>>) = text BY OnePiece
<1>2. Coming = out \o FlattenSeq(buffer) BY NothingQueued
<1> QED BY <1>1, <1>2 DEF Coming

LEMMA TextDropped ==
  ASSUME Hands, buffer' = <<>>, inner' = <<>>, out' = out
  PROVE  Coming \in Text /\ Coming' \in Text /\ IsPrefix(Coming', Coming)
<1>1. FlattenSeq(<<>>) = <<>> BY DEF FlattenSeq
<1>2. out \in Text BY DEF Hands, TypeOK
<1>3. out \o <<>> = out BY <1>2, ConcatEmptySeq DEF Text
<1>4. Coming' = out BY <1>1, <1>3 DEF Coming
<1> QED BY <1>2, <1>4, NothingQueued, QueuesAreText DEF Hands

(* A piece moves on, to the consumer or to where the consumer may read it. *)
LEMMA PieceRead ==
  ASSUME Hands, buffer # <<>>, out' = out \o Head(buffer), buffer' = Tail(buffer), inner' = inner
  PROVE  out' \in Text /\ buffer' = <<>> /\ Coming' = Coming
<1>1. /\ buffer[1] \in Text /\ FlattenSeq(buffer) = buffer[1]
      /\ Head(buffer) = buffer[1] /\ Tail(buffer) = <<>>
  BY Flattened DEF Hands, TypeOK, Queues
<1>2. out' \in Text BY <1>1, HeadIsPrefix DEF Hands, TypeOK
<1>3. FlattenSeq(<<>>) = <<>> BY DEF FlattenSeq
<1>4. out' \o <<>> = out' BY <1>2, ConcatEmptySeq DEF Text
<1>5. Coming' = (out' \o <<>>) \o FlattenSeq(inner) BY <1>1, <1>3 DEF Coming
<1> QED BY <1>1, <1>2, <1>4, <1>5 DEF Coming

LEMMA PiecePulled ==
  ASSUME Hands, buffer = <<>>, inner # <<>>, buffer' = <<Head(inner)>>, inner' = Tail(inner),
         out' = out
  PROVE  buffer' \in Seq(Text) /\ Len(buffer') <= 1 /\ inner' = <<>> /\ Coming' = Coming
<1>1. /\ inner[1] \in Text /\ FlattenSeq(inner) = inner[1]
      /\ Head(inner) = inner[1] /\ Tail(inner) = <<>>
  BY Flattened DEF Hands, TypeOK, Queues
<1>2. /\ buffer' \in Seq(Text) /\ Len(buffer') <= 1 /\ FlattenSeq(buffer') = inner[1]
  BY <1>1, OnePiece
<1>3. FlattenSeq(<<>>) = <<>> BY DEF FlattenSeq
<1>4. out \in Text /\ out \o inner[1] \in Text BY <1>1, HeadIsPrefix DEF Hands, TypeOK
<1>5. out \o <<>> = out /\ (out \o inner[1]) \o <<>> = out \o inner[1]
  BY <1>4, ConcatEmptySeq DEF Text
<1>6. Coming = (out \o <<>>) \o inner[1] BY <1>1, <1>3 DEF Coming
<1>7. Coming' = (out \o inner[1]) \o <<>> BY <1>1, <1>2, <1>3 DEF Coming
<1> QED BY <1>1, <1>2, <1>5, <1>6, <1>7

(* While the session accepts, nothing has ended.                           *)
LEMMA Lively ==
  ASSUME IInv, Accepting(session)
  PROVE  /\ result = "none" /\ readable = "readable" /\ inner = <<>>
         /\ writable \in {"writable", "erroring"} /\ ~Whole
  BY DEF IInv, TypeOK, HostEndsTheSession, Ends, Queues, Whole

LEMMA ReleasedIsText ==
  ASSUME NEW s \in Sessions, NEW t \in Sessions, s.released <= t.released
  PROVE  SubSeq(t.fed, s.released + 1, t.released) \in Text
<1>1. /\ t.fed \in Seq(Nat) /\ s.released \in Nat /\ t.released \in Nat /\ t.released <= Len(t.fed)
  BY DEF Sessions, Text
<1>2. s.released \in 0..Len(t.fed) /\ t.released \in s.released..Len(t.fed) BY <1>1
<1> QED BY <1>1, <1>2, StretchHasType DEF Text

(* What append() and finalize() of the session in use come to.             *)
LEMMA Appended ==
  ASSUME TypeOK, NEW chunk \in Seq(Bytes) \cup {Junk}, NEW o \in AppendChunk(session, chunk)
  PROVE  /\ o.error # NoError => Fallen(session, o.session)
         /\ o.error = NoError =>
              LET pushed == Push(session.decoder, chunk)
              IN /\ Accepting(session) /\ chunk # Junk
                 /\ o.session \in Sessions /\ Accepting(o.session)
                 /\ o.session.decoder = pushed.decoder
                 /\ pushed.text \in Text /\ o.session.fed = session.fed \o pushed.text
                 /\ session.released <= o.session.released
                 /\ o.text \in Text
                 /\ o.text = SubSeq(o.session.fed, session.released + 1, o.session.released)
<1>1. session \in Sessions /\ session.decoder \in Decoders BY DEF TypeOK, Sessions
<1>2. chunk # Junk => Push(session.decoder, chunk).text \in Text
  <2> SUFFICES ASSUME chunk # Junk PROVE Push(session.decoder, chunk).text \in Text OBVIOUS
  <2>1. chunk \in Seq(Bytes) OBVIOUS
  <2> QED BY <1>1, <2>1, PushHasType
<1>3. o.error = NoError =>
        LET pushed == Push(session.decoder, chunk)
        IN /\ Accepting(session) /\ chunk # Junk
           /\ o.session \in Sessions /\ Accepting(o.session)
           /\ o.session.decoder = pushed.decoder
           /\ o.session.fed = session.fed \o pushed.text
           /\ session.released <= o.session.released
           /\ o.text = SubSeq(o.session.fed, session.released + 1, o.session.released)
  BY <1>1, AppendOutcomes
<1>4. o.error = NoError => o.text \in Text BY <1>1, <1>3, ReleasedIsText
<1>5. o.error # NoError => Fallen(session, o.session) BY <1>1, AppendOutcomes
<1> QED BY <1>2, <1>3, <1>4, <1>5

Finalizes(s, o) ==
  /\ Accepting(s) /\ o.session \in Sessions /\ o.session.state = "finalized"
  /\ o.session.fed = s.fed /\ o.session.released = Len(s.fed) /\ o.text \in Text
  /\ s.released <= o.session.released
  /\ o.text = SubSeq(o.session.fed, s.released + 1, o.session.released)
  /\ <<>> \in Text /\ o.session.fed = s.fed \o <<>>

LEMMA FinalizedAll ==
  ASSUME NEW s \in Sessions, NEW o, Accepting(s), o.session \in Sessions,
         o.session.state = "finalized", o.session.fed = s.fed,
         o.session.released = Len(s.fed), o.text = SubSeq(s.fed, s.released + 1, Len(s.fed))
  PROVE  Finalizes(s, o)
<1>1. s.fed \in Text /\ s.released <= Len(s.fed) /\ <<>> \in Text BY DEF Sessions, Text
<1>2. s.fed \o <<>> = s.fed BY <1>1, ConcatEmptySeq DEF Text
<1>3. o.text \in Text BY <1>1, ReleasedIsText
<1> QED BY <1>1, <1>2, <1>3 DEF Finalizes

LEMMA Finalized ==
  ASSUME TypeOK
  PROVE  /\ \A o \in FinalizeAll(session) :
              /\ o.error # NoError => Fallen(session, o.session)
              /\ o.error = NoError => Finalizes(session, o) /\ ~EndsInside(session.decoder)
         /\ \A o \in SessionFinalize(session) :
              /\ o.error # NoError => Fallen(session, o.session)
              /\ o.error = NoError => Finalizes(session, o)
<1>1. session \in Sessions BY DEF TypeOK
<1>2. ASSUME NEW o \in FinalizeAll(session)
      PROVE  /\ o.error # NoError => Fallen(session, o.session)
             /\ o.error = NoError => Finalizes(session, o) /\ ~EndsInside(session.decoder)
  BY <1>1, FinalizeOutcomes, FinalizedAll
<1>3. ASSUME NEW o \in SessionFinalize(session)
      PROVE  /\ o.error # NoError => Fallen(session, o.session)
             /\ o.error = NoError => Finalizes(session, o)
  BY <1>1, SessionFinalizeOutcomes, FinalizedAll
<1> QED BY <1>2, <1>3

LEMMA FallenFacts ==
  ASSUME TypeOK, NEW t, Fallen(session, t)
  PROVE  t \in Sessions /\ ~Accepting(t) /\ Fallen(session, Aborted(t))
  BY FallenStaysFallen DEF Fallen

------------------------------------------------------------------------------
(* The command line.                                                       *)
LEMMA CliRests ==
  ASSUME IInv, host = "cli"
  PROVE  /\ inflight = Idle /\ ~ChunkWaits /\ writable = "writable" /\ readable = "readable"
         /\ inner = <<>> /\ buffer = <<>> /\ ~pulling
  BY DEF IInv, HostsDiffer, Idle, ChunkWaits

(* It stops with a session that has fallen.                                *)
LEMMA CliFalls ==
  ASSUME IInv, host = "cli", taken' \in taken..Len(input), Fallen(session, session'),
         result' = "failed", out' = out, UNCHANGED <<host, input, platform>>
  PROVE  IInv'
<1>1. /\ inflight = Idle /\ writable = "writable" /\ readable = "readable"
      /\ inner = <<>> /\ buffer = <<>> /\ ~pulling
  BY CliRests
<1>2. session' \in Sessions /\ ~Accepting(session') BY FallenFacts DEF IInv
<1>3. TypeOK' BY <1>2 DEF IInv, TypeOK, platform
<1>4. HostsDiffer' BY DEF IInv, HostsDiffer, platform
<1>5. WriteSide' BY <1>1 DEF IInv, WriteSide, Idle, platform
<1>6. Queues' BY DEF IInv, Queues, platform
<1>7. HostEndsTheSession' /\ Ends' BY <1>2 DEF HostEndsTheSession, Ends, Accepting
<1>8. Decoded' BY DecodedFalls DEF IInv
<1>9. Delivered'
  <2>1. Coming \in Text /\ Coming' \in Text /\ IsPrefix(Coming', Coming)
    BY <1>1, TextDropped DEF IInv, Hands, platform
  <2>2. ~Whole' BY DEF Whole
  <2> QED BY <2>1, <2>2, DeliveredFalls DEF IInv
<1> QED BY <1>3, <1>4, <1>5, <1>6, <1>7, <1>8, <1>9 DEF IInv

LEMMA CliRoundStep ==
  ASSUME ConstantsAssumption, IInv, NEW chunk \in Chunks, CliRound(chunk)
  PROVE  IInv'
<1>1. /\ inflight = Idle /\ ~ChunkWaits /\ writable = "writable" /\ readable = "readable"
      /\ inner = <<>> /\ buffer = <<>> /\ ~pulling
  BY CliRests DEF CliRound
<1>2. /\ chunk \in Seq(Bytes) /\ taken' = taken + Len(chunk)
      /\ taken' \in taken..Len(input) /\ chunk = SubSeq(input, taken + 1, taken')
  BY ChunkIsNext DEF CliRound, IInv
<1>3. PICK o \in AppendChunk(session, chunk) :
        IF o.error # NoError THEN Stops(o.session)
        ELSE \/ Writes(o.session, o.text) /\ UNCHANGED result
             \/ Stops(Aborted(o.session))
  BY DEF CliRound
<1>4. host = "cli" /\ UNCHANGED <<host, input, platform>> BY DEF CliRound
<1>5. CASE o.error # NoError
  <2>1. Stops(o.session) /\ Fallen(session, o.session) BY <1>2, <1>3, <1>5, Appended DEF IInv
  <2> QED BY <1>2, <1>4, <2>1, CliFalls DEF Stops
<1>6. CASE o.error = NoError
  <2> DEFINE pushed == Push(session.decoder, chunk)
  <2>1. /\ Accepting(session) /\ o.session \in Sessions /\ Accepting(o.session)
        /\ o.session.decoder = pushed.decoder
        /\ pushed.text \in Text /\ o.session.fed = session.fed \o pushed.text
        /\ session.released <= o.session.released
        /\ o.text \in Text
        /\ o.text = SubSeq(o.session.fed, session.released + 1, o.session.released)
    BY <1>2, <1>6, Appended DEF IInv
  <2> HIDE DEF pushed
  <2>2. session.decoder.seen = taken BY <1>1, <2>1 DEF IInv, Decoded
  <2>3. result = "none" BY <2>1, Lively
  <2>4. CASE Writes(o.session, o.text) /\ UNCHANGED result
    <3>1. /\ session' = o.session /\ out' = out \o o.text /\ result' = "none"
          /\ buffer' = <<>> /\ inner' = <<>> /\ inflight' = Idle
      BY <1>1, <1>4, <2>3, <2>4 DEF Writes, platform
    <3>2. out' \in Text /\ Coming' = Coming \o o.text
      BY <1>1, <2>1, <3>1, TextWritten DEF IInv, Hands
    <3>3. TypeOK' BY <1>2, <1>4, <2>1, <3>1, <3>2 DEF IInv, TypeOK, platform
    <3>4. HostsDiffer' BY <1>4 DEF IInv, HostsDiffer, platform
    <3>5. WriteSide' BY <3>1 DEF WriteSide, Idle
    <3>6. Queues' BY <1>4 DEF IInv, Queues, platform
    <3>7. HostEndsTheSession' /\ Ends'
      BY <1>1, <1>4, <3>1 DEF HostEndsTheSession, Ends, platform
    <3>8. Decoded'
      <4>1. taken' \in session.decoder.seen..Len(input) BY <1>2, <2>2
      <4>2. chunk = SubSeq(input, session.decoder.seen + 1, taken') BY <1>2, <2>2
      <4>3. /\ session' \in Sessions /\ session'.state \in {"accepting", "aborted"}
            /\ session'.decoder = Push(session.decoder, chunk).decoder
            /\ session'.fed = session.fed \o Push(session.decoder, chunk).text
        BY <2>1, <3>1 DEF Accepting, pushed
      <4> QED BY <1>4, <2>1, <3>1, <4>1, <4>2, <4>3, DecodedAppends DEF IInv
    <3>9. Delivered'
      <4>1. ~Whole' BY <1>1, <1>4, <3>1 DEF Whole, platform
      <4> QED BY <2>1, <3>1, <3>2, <4>1, DeliveredGrows DEF IInv
    <3> QED BY <3>3, <3>4, <3>5, <3>6, <3>7, <3>8, <3>9 DEF IInv
  <2>5. CASE Stops(Aborted(o.session))
    <3> DEFINE t == Aborted(o.session)
    <3>1. session' = t /\ result' = "failed" /\ out' = out BY <2>5 DEF Stops
    <3>2. /\ t \in Sessions /\ t.state = "aborted" /\ t.fed = o.session.fed
          /\ t.released = o.session.released /\ t.decoder = o.session.decoder
      BY <2>1 DEF Aborted, Accepting, Ended, Sessions
    <3> HIDE DEF t
    <3>3. ~Accepting(session') BY <3>1, <3>2 DEF Accepting
    <3>4. TypeOK' BY <1>2, <1>4, <3>1, <3>2 DEF IInv, TypeOK, platform
    <3>5. HostsDiffer' BY <1>4 DEF IInv, HostsDiffer, platform
    <3>6. WriteSide' BY <1>1, <1>4 DEF WriteSide, Idle, platform
    <3>7. Queues' BY <1>4 DEF IInv, Queues, platform
    <3>8. HostEndsTheSession' /\ Ends' BY <3>3 DEF HostEndsTheSession, Ends, Accepting
    <3>9. Decoded'
      <4>1. taken' \in session.decoder.seen..Len(input) BY <1>2, <2>2
      <4>2. chunk = SubSeq(input, session.decoder.seen + 1, taken') BY <1>2, <2>2
      <4>3. /\ session' \in Sessions /\ session'.state \in {"accepting", "aborted"}
            /\ session'.decoder = Push(session.decoder, chunk).decoder
            /\ session'.fed = session.fed \o Push(session.decoder, chunk).text
            /\ inflight' = Idle
        BY <1>1, <1>4, <2>1, <3>1, <3>2 DEF pushed, platform
      <4> QED BY <1>4, <2>1, <4>1, <4>2, <4>3, DecodedAppends DEF IInv
    <3>10. Delivered'
      <4>1. Coming \in Text /\ Coming' \in Text /\ IsPrefix(Coming', Coming)
        BY <1>1, <1>4, <3>1, TextDropped DEF IInv, Hands, platform
      <4>2. ~Whole' /\ result' # "ok" BY <3>1 DEF Whole
      <4> QED BY <2>1, <3>1, <3>2, <3>3, <4>1, <4>2, DeliveredLoses DEF IInv
    <3> QED BY <3>4, <3>5, <3>6, <3>7, <3>8, <3>9, <3>10 DEF IInv
  <2> QED BY <1>3, <1>6, <2>4, <2>5
<1> QED BY <1>5, <1>6

LEMMA CliReadFailsStep ==
  ASSUME IInv, CliReadFails
  PROVE  IInv'
<1>1. Fallen(session, session') BY AbortedIsFallen DEF IInv, TypeOK, CliReadFails, Stops
<1>2. taken' \in taken..Len(input) BY DEF IInv, TypeOK, CliReadFails
<1> QED BY <1>1, <1>2, CliFalls DEF CliReadFails, Stops

LEMMA CliEndStep ==
  ASSUME IInv, CliEnd
  PROVE  IInv'
<1>1. /\ inflight = Idle /\ ~ChunkWaits /\ writable = "writable" /\ readable = "readable"
      /\ inner = <<>> /\ buffer = <<>> /\ ~pulling
  BY CliRests DEF CliEnd
<1>2. taken' = taken /\ taken' \in taken..Len(input) BY DEF IInv, TypeOK, CliEnd
<1>3. host = "cli" /\ AtEnd /\ UNCHANGED <<host, input, platform>> BY DEF CliEnd
<1>4. CASE EndsInside(session.decoder)
  <2>1. Stops(Aborted(session)) BY <1>4 DEF CliEnd
  <2>2. Fallen(session, Aborted(session)) BY AbortedIsFallen DEF IInv, TypeOK
  <2> QED BY <1>2, <1>3, <2>1, <2>2, CliFalls DEF Stops
<1>5. CASE ~EndsInside(session.decoder)
  <2>1. PICK o \in SessionFinalize(session) :
          IF o.error # NoError THEN Stops(o.session)
          ELSE \/ Writes(o.session, o.text) /\ result' = "ok"
               \/ Stops(o.session)
    BY <1>5 DEF CliEnd
  <2>2. CASE o.error # NoError
    <3>1. Stops(o.session) /\ Fallen(session, o.session) BY <2>1, <2>2, Finalized DEF IInv
    <3> QED BY <1>2, <1>3, <3>1, CliFalls DEF Stops
  <2>3. CASE o.error = NoError
    <3>1. Finalizes(session, o) BY <2>3, Finalized DEF IInv
    <3>2. session' = o.session /\ result' \in {"ok", "failed"} BY <2>1, <2>3 DEF Writes, Stops
    <3>3. ~Accepting(session') BY <3>1, <3>2 DEF Accepting, Finalizes
    <3>4. /\ out' \in Text
          /\ \/ result' = "ok" /\ Coming' = Coming \o o.text
             \/ /\ result' = "failed" /\ Coming \in Text /\ Coming' \in Text
                /\ IsPrefix(Coming', Coming)
      <4>1. CASE Writes(o.session, o.text) /\ result' = "ok"
        BY <1>1, <1>3, <3>1, <4>1, TextWritten DEF Writes, Finalizes, IInv, Hands, platform
      <4>2. CASE Stops(o.session)
        <5>1. out' \in Text BY <4>2 DEF Stops, IInv, TypeOK
        <5> QED BY <1>1, <1>3, <4>2, <5>1, TextDropped DEF Stops, IInv, Hands, platform
      <4> QED BY <2>1, <2>3, <4>1, <4>2
    <3>5. TypeOK' BY <1>2, <1>3, <3>1, <3>2, <3>4 DEF IInv, TypeOK, platform, Finalizes
    <3>6. HostsDiffer' BY <1>3 DEF IInv, HostsDiffer, platform
    <3>7. WriteSide' BY <1>1, <1>3 DEF WriteSide, Idle, platform
    <3>8. Queues' BY <1>3 DEF IInv, Queues, platform
    <3>9. HostEndsTheSession' /\ Ends' BY <3>3 DEF HostEndsTheSession, Ends, Accepting
    <3>10. Decoded'
      BY <1>1, <1>2, <1>3, <1>5, <3>1, <3>2, DecodedFinalizes DEF IInv, Finalizes
    <3>11. Delivered'
      <4>1. CASE result' = "ok" /\ Coming' = Coming \o o.text
        <5>1. buffer' = <<>> /\ inner' = <<>> BY <1>1, <1>3 DEF platform
        <5>2. session'.released = Len(session'.fed) /\ session'.state = "finalized"
          BY <3>1, <3>2 DEF Finalizes
        <5> QED BY <3>1, <3>2, <4>1, <5>1, <5>2, DeliveredGrows DEF IInv, Finalizes
      <4>2. CASE /\ result' = "failed" /\ Coming \in Text /\ Coming' \in Text
                 /\ IsPrefix(Coming', Coming)
        <5>1. ~Whole' /\ result' # "ok" BY <4>2 DEF Whole
        <5> QED BY <3>1, <3>2, <3>3, <4>2, <5>1, DeliveredLoses DEF IInv, Finalizes
      <4> QED BY <3>4, <4>1, <4>2
    <3> QED BY <3>5, <3>6, <3>7, <3>8, <3>9, <3>10, <3>11 DEF IInv
  <2> QED BY <2>2, <2>3
<1> QED BY <1>4, <1>5

------------------------------------------------------------------------------
(* The Transform stream.                                                   *)
LEMMA NodeRests ==
  ASSUME IInv, host = "node"
  PROVE  /\ inflight = Idle /\ ~ChunkWaits /\ writable = "writable"
         /\ inner = <<>> /\ ~pulling
  BY DEF IInv, HostsDiffer, Idle, ChunkWaits

LEMMA NodeFalls ==
  ASSUME IInv, host = "node", taken' \in taken..Len(input), NEW s, Fallen(session, s),
         Destroyed(s), UNCHANGED <<host, input, inflight, writable, inner, pulling, out>>
  PROVE  IInv'
<1>1. inflight = Idle /\ writable = "writable" /\ inner = <<>> /\ ~pulling BY NodeRests
<1>2. session' = s /\ buffer' = <<>> /\ readable' = "errored" /\ result' = "failed"
  BY DEF Destroyed
<1>3. session' \in Sessions /\ ~Accepting(session') /\ Fallen(session, session')
  BY <1>2, FallenFacts DEF IInv
<1>4. TypeOK' BY <1>2, <1>3 DEF IInv, TypeOK
<1>5. HostsDiffer' BY DEF IInv, HostsDiffer
<1>6. WriteSide' BY <1>1 DEF WriteSide, Idle
<1>7. Queues' BY <1>1, <1>2 DEF Queues
<1>8. HostEndsTheSession' /\ Ends' BY <1>3 DEF HostEndsTheSession, Ends, Accepting
<1>9. Decoded' BY <1>3, DecodedFalls DEF IInv
<1>10. Delivered'
  <2>1. Coming \in Text /\ Coming' \in Text /\ IsPrefix(Coming', Coming)
    BY <1>1, <1>2, TextDropped DEF IInv, Hands
  <2>2. ~Whole' /\ result' # "ok" BY <1>2 DEF Whole
  <2> QED BY <1>3, <2>1, <2>2, DeliveredFalls DEF IInv
<1> QED BY <1>4, <1>5, <1>6, <1>7, <1>8, <1>9, <1>10 DEF IInv

LEMMA NodeTransformStep ==
  ASSUME ConstantsAssumption, IInv, NEW chunk \in Chunks, NodeTransform(chunk)
  PROVE  IInv'
<1>1. /\ inflight = Idle /\ ~ChunkWaits /\ writable = "writable" /\ readable = "readable"
      /\ inner = <<>> /\ buffer = <<>> /\ ~pulling
  BY NodeRests DEF NodeTransform
<1>2. /\ chunk \in Seq(Bytes) /\ taken' = taken + Len(chunk)
      /\ taken' \in taken..Len(input) /\ chunk = SubSeq(input, taken + 1, taken')
  BY ChunkIsNext DEF NodeTransform, IInv
<1>3. PICK o \in AppendChunk(session, chunk) :
        IF o.error # NoError THEN Destroyed(Aborted(o.session))
        ELSE session' = o.session /\ buffer' = Pieces(o.text) /\ UNCHANGED <<readable, result>>
  BY DEF NodeTransform
<1>4. host = "node" /\ UNCHANGED <<host, input, inflight, writable, inner, pulling, out>>
  BY DEF NodeTransform
<1>5. CASE o.error # NoError
  <2>1. Fallen(session, Aborted(o.session))
    BY <1>2, <1>5, Appended, FallenFacts DEF IInv
  <2> QED BY <1>2, <1>3, <1>4, <1>5, <2>1, NodeFalls
<1>6. CASE o.error = NoError
  <2> DEFINE pushed == Push(session.decoder, chunk)
  <2>1. /\ Accepting(session) /\ o.session \in Sessions /\ Accepting(o.session)
        /\ o.session.decoder = pushed.decoder
        /\ pushed.text \in Text /\ o.session.fed = session.fed \o pushed.text
        /\ session.released <= o.session.released
        /\ o.text \in Text
        /\ o.text = SubSeq(o.session.fed, session.released + 1, o.session.released)
    BY <1>2, <1>6, Appended DEF IInv
  <2> HIDE DEF pushed
  <2>2. session.decoder.seen = taken BY <1>1, <2>1 DEF IInv, Decoded
  <2>3. result = "none" BY <2>1, Lively
  <2>4. /\ session' = o.session /\ buffer' = Pieces(o.text)
        /\ readable' = "readable" /\ result' = "none"
    BY <1>1, <1>3, <1>6, <2>3
  <2>5. buffer' \in Seq(Text) /\ Len(buffer') <= 1 /\ FlattenSeq(buffer') = o.text
    BY <2>1, <2>4, OnePiece
  <2>6. Coming' = Coming \o o.text BY <1>1, <1>4, <2>1, <2>5, TextBuffered DEF IInv, Hands
  <2>7. TypeOK'
    <3>1. result' = "none" /\ session' \in Sessions /\ buffer' \in Seq(Text) BY <2>1, <2>4, <2>5
    <3>2. readable' \in {"readable", "closed", "errored"} BY <2>4
    <3>3. TypeOK BY DEF IInv
    <3> QED BY <1>2, <1>4, <3>1, <3>2, <3>3 DEF TypeOK
  <2>8. HostsDiffer' BY <1>4 DEF IInv, HostsDiffer
  <2>9. WriteSide' BY <1>1, <1>4 DEF WriteSide, Idle
  <2>10. Queues' BY <1>1, <1>4, <2>4, <2>5 DEF Queues
  <2>11. HostEndsTheSession' /\ Ends' BY <1>1, <1>4, <2>4 DEF HostEndsTheSession, Ends
  <2>12. Decoded'
    <3>1. taken' \in session.decoder.seen..Len(input) BY <1>2, <2>2
    <3>2. chunk = SubSeq(input, session.decoder.seen + 1, taken') BY <1>2, <2>2
    <3>3. /\ session' \in Sessions /\ session'.state \in {"accepting", "aborted"}
          /\ session'.decoder = Push(session.decoder, chunk).decoder
          /\ session'.fed = session.fed \o Push(session.decoder, chunk).text
          /\ inflight' = Idle
      BY <1>1, <1>4, <2>1, <2>4 DEF Accepting, pushed
    <3> QED BY <1>4, <2>1, <3>1, <3>2, <3>3, DecodedAppends DEF IInv
  <2>13. Delivered'
    <3>1. ~Whole' /\ result' # "ok" BY <1>1, <1>4, <2>4 DEF Whole
    <3> QED BY <2>1, <2>4, <2>6, <3>1, DeliveredGrows DEF IInv
  <2> QED BY <2>7, <2>8, <2>9, <2>10, <2>11, <2>12, <2>13 DEF IInv
<1> QED BY <1>5, <1>6

LEMMA NodeFlushStep ==
  ASSUME IInv, NodeFlush
  PROVE  IInv'
<1>1. /\ inflight = Idle /\ ~ChunkWaits /\ writable = "writable" /\ readable = "readable"
      /\ inner = <<>> /\ buffer = <<>> /\ ~pulling
  BY NodeRests DEF NodeFlush
<1>2. PICK o \in FinalizeAll(session) :
        IF o.error # NoError THEN Destroyed(Aborted(o.session))
        ELSE /\ session' = o.session
             /\ buffer' = Pieces(o.text) /\ readable' = "closed"
             /\ UNCHANGED result
  BY DEF NodeFlush
<1>3. /\ host = "node" /\ AtEnd /\ taken' = taken
      /\ UNCHANGED <<host, input, inflight, writable, inner, pulling, out>>
  BY DEF NodeFlush
<1>4. taken' \in taken..Len(input) BY <1>3 DEF IInv, TypeOK
<1>5. CASE o.error # NoError
  <2>1. Fallen(session, Aborted(o.session)) BY <1>5, Finalized, FallenFacts DEF IInv
  <2> QED BY <1>2, <1>3, <1>4, <1>5, <2>1, NodeFalls
<1>6. CASE o.error = NoError
  <2>1. Finalizes(session, o) /\ ~EndsInside(session.decoder) BY <1>6, Finalized DEF IInv
  <2>2. result = "none" BY <2>1, Lively DEF Finalizes
  <2>3. /\ session' = o.session /\ buffer' = Pieces(o.text)
        /\ readable' = "closed" /\ result' = "none"
    BY <1>2, <1>6, <2>2
  <2>4. buffer' \in Seq(Text) /\ Len(buffer') <= 1 /\ FlattenSeq(buffer') = o.text
    BY <2>1, <2>3, OnePiece DEF Finalizes
  <2>5. Coming' = Coming \o o.text
    BY <1>1, <1>3, <2>1, <2>4, TextBuffered DEF IInv, Hands, Finalizes
  <2>6. TypeOK' BY <1>3, <2>1, <2>3, <2>4 DEF IInv, TypeOK, Finalizes
  <2>7. HostsDiffer' BY <1>3 DEF IInv, HostsDiffer
  <2>8. WriteSide' BY <1>1, <1>3 DEF WriteSide, Idle
  <2>9. Queues' BY <1>1, <1>3, <2>3, <2>4 DEF Queues
  <2>10. HostEndsTheSession' /\ Ends'
    BY <2>1, <2>3 DEF HostEndsTheSession, Ends, Accepting, Finalizes
  <2>11. Decoded' BY <1>1, <1>3, <2>1, <2>3, DecodedFinalizes DEF IInv, Finalizes
  <2>12. Delivered'
    <3>1. session'.released = Len(session'.fed) /\ session'.state = "finalized" /\ result' # "ok"
      BY <2>1, <2>3 DEF Finalizes
    <3> QED BY <2>1, <2>3, <2>5, <3>1, DeliveredGrows DEF IInv, Finalizes
  <2> QED BY <2>6, <2>7, <2>8, <2>9, <2>10, <2>11, <2>12 DEF IInv
<1> QED BY <1>5, <1>6

LEMMA NodeDestroyStep ==
  ASSUME IInv, NodeDestroy
  PROVE  IInv'
<1>1. Fallen(session, Aborted(session)) BY AbortedIsFallen DEF IInv, TypeOK
<1>2. taken' \in taken..Len(input) BY DEF IInv, TypeOK, NodeDestroy
<1> QED BY <1>1, <1>2, NodeFalls DEF NodeDestroy

------------------------------------------------------------------------------
(* A consumer's read, of either adapter.                                   *)
LEMMA ReadStep ==
  ASSUME IInv, Running, host \in {"node", "web"},
         \/ /\ buffer # <<>>
            /\ out' = out \o Head(buffer) /\ buffer' = Tail(buffer)
            /\ UNCHANGED result
         \/ /\ buffer = <<>> /\ readable = "closed"
            /\ result' = "ok"
            /\ UNCHANGED <<out, buffer>>,
         UNCHANGED <<host, input, taken, session, inflight, writable, inner, pulling, readable>>
  PROVE  IInv'
<1>1. CASE /\ buffer # <<>>
           /\ out' = out \o Head(buffer) /\ buffer' = Tail(buffer)
           /\ UNCHANGED result
  <2>1. out' \in Text /\ buffer' = <<>> /\ Coming' = Coming
    BY <1>1, PieceRead DEF IInv, Hands
  <2>2. TypeOK' BY <1>1, <2>1 DEF IInv, TypeOK
  <2>3. HostsDiffer' BY <1>1 DEF IInv, HostsDiffer
  <2>4. WriteSide' BY DEF IInv, WriteSide, AtEnd
  <2>5. Queues' BY <2>1 DEF IInv, Queues
  <2>6. HostEndsTheSession' /\ Ends' BY <1>1 DEF IInv, HostEndsTheSession, Ends, Accepting
  <2>7. Decoded' BY DecodedRests DEF IInv, ChunkWaits
  <2>8. Delivered'
    <3>1. Whole' => Whole BY <1>1 DEF Whole
    <3>2. result' # "ok" BY <1>1 DEF Running
    <3> QED BY <2>1, <3>1, <3>2, DeliveredStays DEF IInv
  <2> QED BY <2>2, <2>3, <2>4, <2>5, <2>6, <2>7, <2>8 DEF IInv
<1>2. CASE /\ buffer = <<>> /\ readable = "closed"
           /\ result' = "ok"
           /\ UNCHANGED <<out, buffer>>
  <2>1. Coming' = Coming BY <1>2 DEF Coming
  <2>2. inner = <<>> /\ ~Accepting(session) BY <1>2 DEF IInv, Queues, Ends
  <2>3. TypeOK' BY <1>2 DEF IInv, TypeOK
  <2>4. HostsDiffer' BY <1>2 DEF IInv, HostsDiffer
  <2>5. WriteSide' BY DEF IInv, WriteSide, AtEnd
  <2>6. Queues' BY <1>2 DEF IInv, Queues
  <2>7. HostEndsTheSession' /\ Ends' BY <2>2 DEF HostEndsTheSession, Ends, Accepting
  <2>8. Decoded' BY DecodedRests DEF IInv, ChunkWaits
  <2>9. Delivered'
    <3>1. Whole BY <1>2 DEF Whole, Running
    <3> QED BY <1>2, <2>1, <2>2, <3>1, DeliveredStays DEF IInv
  <2> QED BY <2>3, <2>4, <2>5, <2>6, <2>7, <2>8, <2>9 DEF IInv
<1> QED BY <1>1, <1>2

------------------------------------------------------------------------------
(* The TransformStream.                                                    *)
LEMMA IdleHasType ==
  /\ Idle \in [op : {"none", "write", "close"}, chunk : Seq(Bytes) \cup {Junk}]
  /\ Closing \in [op : {"none", "write", "close"}, chunk : Seq(Bytes) \cup {Junk}]
<1>1. <<>> \in Seq(Bytes) OBVIOUS
<1> DEFINE All == Seq(Bytes) \cup {Junk}
<1>2. <<>> \in All BY <1>1
<1> HIDE DEF All
<1>3. /\ Idle \in [op : {"none", "write", "close"}, chunk : All]
      /\ Closing \in [op : {"none", "write", "close"}, chunk : All]
  BY <1>2 DEF Idle, Closing
<1> QED BY <1>3 DEF All

LEMMA WebFalls ==
  ASSUME IInv, host = "web", writable \in {"writable", "erroring"}, NEW s, Fallen(session, s),
         Fails(s), UNCHANGED <<host, input, taken, out>>
  PROVE  IInv'
<1>1. inner = <<>> BY DEF IInv, Queues
<1>2. /\ session' = s /\ writable' = "errored" /\ inflight' = Idle /\ inner' = <<>>
      /\ buffer' = buffer
      /\ pulling' = FALSE
      /\ \/ readable' = "errored" /\ result' = "failed"
         \/ UNCHANGED <<readable, result>>
  BY DEF Fails, IInv, TypeOK
<1>3. session' \in Sessions /\ ~Accepting(session') /\ Fallen(session, session')
  BY <1>2, FallenFacts DEF IInv
<1>4. TypeOK'
  <2>1. pulling' \in BOOLEAN BY <1>2, Zenon
  <2>2. inner' \in Seq(Text)
    <3>1. <<>> \in Seq(Text) OBVIOUS
    <3> QED BY <1>2, <3>1, Zenon
  <2> QED BY <1>2, <1>3, <2>1, <2>2, IdleHasType DEF IInv, TypeOK
<1>5. HostsDiffer' BY DEF HostsDiffer
<1>6. WriteSide' BY <1>2 DEF WriteSide, Idle
<1>7. Queues' BY <1>2 DEF IInv, Queues, TypeOK
<1>8. HostEndsTheSession' /\ Ends' BY <1>3 DEF HostEndsTheSession, Ends, Accepting
<1>9. Decoded'
  <2>1. taken' \in taken..Len(input) BY DEF IInv, TypeOK
  <2> QED BY <1>3, <2>1, DecodedFalls DEF IInv
<1>10. Delivered'
  <2>1. Coming' = Coming BY <1>1, <1>2 DEF Coming
  <2>2. Coming \in Text BY QueuesAreText DEF IInv
  <2>3. IsPrefix(Coming', Coming) BY <2>1, <2>2, PrefixOfItself
  <2>4. Whole' => Whole BY <1>2 DEF Whole
  <2>5. result' = "ok" => buffer' = <<>> /\ inner' = <<>> BY <1>2 DEF IInv, Delivered
  <2> QED BY <1>3, <2>1, <2>2, <2>3, <2>4, <2>5, DeliveredFalls DEF IInv
<1> QED BY <1>4, <1>5, <1>6, <1>7, <1>8, <1>9, <1>10 DEF IInv

(* Text is handed to the pull that waits, or queued where nothing is.      *)
LEMMA Enqueued ==
  ASSUME IInv, NEW text \in Text, inner = <<>>, Enqueue(text), out' = out
  PROVE  /\ Coming' = Coming \o text
         /\ buffer' \in Seq(Text) /\ inner' \in Seq(Text) /\ pulling' \in BOOLEAN
         /\ Len(buffer') <= 1 /\ Len(inner') <= 1
         /\ pulling' => buffer' = <<>> /\ inner' = <<>>
         /\ pulling => inner' = <<>>
<1>1. /\ buffer \in Seq(Text) /\ pulling \in BOOLEAN /\ Len(buffer) <= 1
      /\ pulling => buffer = <<>>
  BY DEF IInv, TypeOK, Queues
<1>2. <<text>> \in Seq(Text) /\ Len(<<text>>) = 1 /\ FlattenSeq(<<text>>) = text BY OnePiece
<1>3. <<>> \in Seq(Text) /\ Len(<<>>) = 0 OBVIOUS
<1>4. Append(<<>>, text) = <<text>> OBVIOUS
<1>5. CASE text = <<>>
  <2>1. buffer' = buffer /\ inner' = inner /\ pulling' = pulling BY <1>5 DEF Enqueue
  <2>2. Coming' = Coming BY <2>1 DEF Coming
  <2>3. Coming \in Text BY QueuesAreText DEF IInv
  <2>4. Coming \o <<>> = Coming BY <2>3, ConcatEmptySeq DEF Text
  <2> QED BY <1>1, <1>3, <1>5, <2>1, <2>2, <2>4
<1>6. CASE text # <<>> /\ pulling
  <2>1. buffer = <<>> /\ buffer' = <<text>> /\ pulling' = FALSE /\ inner' = <<>>
    BY <1>1, <1>4, <1>6 DEF Enqueue
  <2>2. FlattenSeq(buffer') = text BY <1>2, <2>1
  <2>3. Coming' = Coming \o text BY <2>1, <2>2, TextBuffered DEF IInv, Hands
  <2>4. buffer' \in Seq(Text) /\ Len(buffer') <= 1 BY <1>2, <2>1
  <2>5. inner' \in Seq(Text) /\ Len(inner') <= 1 BY <1>3, <2>1
  <2> QED BY <2>1, <2>3, <2>4, <2>5
<1>7. CASE text # <<>> /\ ~pulling
  <2>1. inner' = <<text>> /\ buffer' = buffer /\ pulling' = pulling
    BY <1>4, <1>7 DEF Enqueue
  <2>2. Coming' = Coming \o text BY <2>1, TextBehind DEF IInv, Hands
  <2> QED BY <1>1, <1>2, <1>7, <2>1, <2>2
<1> QED BY <1>1, <1>5, <1>6, <1>7

LEMMA WebWriteStep ==
  ASSUME ConstantsAssumption, IInv, NEW chunk \in Chunks \cup {Junk}, WebWrite(chunk)
  PROVE  IInv'
<1>1. /\ host = "web" /\ writable = "writable" /\ inflight = Idle
      /\ inflight' = Writing(chunk)
      /\ taken' = IF chunk = Junk THEN taken ELSE taken + Len(chunk)
      /\ UNCHANGED <<host, input, session, writable, inner, pulling, buffer, readable, out,
                     result>>
  BY DEF WebWrite
<1>2. /\ taken' \in taken..Len(input) /\ chunk \in Seq(Bytes) \cup {Junk}
      /\ chunk # Junk => chunk = SubSeq(input, taken + 1, taken')
  <2>1. CASE chunk = Junk BY <1>1, <2>1 DEF IInv, TypeOK
  <2>2. CASE chunk # Junk
    <3>1. chunk \in Chunks BY <2>2
    <3>2. /\ chunk \in Seq(Bytes) /\ taken + Len(chunk) \in taken..Len(input)
          /\ chunk = SubSeq(input, taken + 1, taken + Len(chunk))
      BY <3>1, ChunkIsNext DEF IInv
    <3> QED BY <1>1, <2>2, <3>2
  <2> QED BY <2>1, <2>2
<1>3. taken' \in 0..Len(input) BY <1>2 DEF IInv, TypeOK
<1>4. inflight'.op = "write" /\ inflight'.chunk = chunk BY <1>1 DEF Writing
<1>5. TypeOK' BY <1>1, <1>2, <1>3 DEF IInv, TypeOK, Writing
<1>6. HostsDiffer' BY <1>1 DEF HostsDiffer
<1>7. WriteSide' BY <1>1, <1>4 DEF WriteSide
<1>8. Queues' BY <1>1 DEF IInv, Queues
<1>9. HostEndsTheSession' /\ Ends' BY <1>1 DEF IInv, HostEndsTheSession, Ends, Accepting
<1>10. Decoded'
  <2> SUFFICES ASSUME Accepting(session)
               PROVE  LET d == session.decoder
                      IN /\ ChunkWaits' => inflight'.chunk = SubSeq(input, d.seen + 1, taken')
                         /\ ~ChunkWaits' => d.seen = taken'
    BY <1>1, <1>2, DecodedStays DEF IInv
  <2>1. ~ChunkWaits BY <1>1 DEF ChunkWaits, Idle
  <2>2. session.decoder.seen = taken BY <2>1 DEF IInv, Decoded
  <2>3. ChunkWaits' <=> chunk # Junk BY <1>4 DEF ChunkWaits
  <2>4. CASE chunk = Junk BY <1>1, <2>2, <2>3, <2>4
  <2>5. CASE chunk # Junk BY <1>2, <1>4, <2>2, <2>3, <2>5
  <2> QED BY <2>4, <2>5
<1>11. Delivered'
  <2>1. Coming' = Coming BY <1>1 DEF Coming
  <2>2. Whole' => Whole BY <1>1 DEF Whole
  <2>3. result' = "ok" => buffer' = <<>> /\ inner' = <<>> BY <1>1 DEF IInv, Delivered
  <2> QED BY <1>1, <2>1, <2>2, <2>3, DeliveredStays DEF IInv
<1> QED BY <1>5, <1>6, <1>7, <1>8, <1>9, <1>10, <1>11 DEF IInv

LEMMA WebTransformStep ==
  ASSUME IInv, WebTransform
  PROVE  IInv'
<1>1. /\ host = "web" /\ inflight.op = "write" /\ pulling
      /\ UNCHANGED <<host, input, taken, out>>
  BY DEF WebTransform
<1>2. /\ writable \in {"writable", "erroring"} /\ buffer = <<>> /\ inner = <<>>
      /\ inflight.chunk \in Seq(Bytes) \cup {Junk}
  <2>1. inflight # Idle BY <1>1 DEF Idle
  <2> QED BY <1>1, <2>1 DEF IInv, TypeOK, WriteSide, Queues
<1>3. PICK o \in AppendChunk(session, inflight.chunk) :
       IF o.error # NoError THEN Fails(o.session)
       ELSE IF writable = "erroring"
         THEN IF o.text = <<>> THEN Fails(Aborted(o.session))
              ELSE /\ session' = Aborted(o.session)
                   /\ writable' = "errored" /\ inflight' = Idle
                   /\ Enqueue(o.text)
                   /\ UNCHANGED <<readable, result>>
         ELSE /\ session' = o.session /\ inflight' = Idle
              /\ Enqueue(o.text)
              /\ UNCHANGED <<writable, readable, result>>
  BY DEF WebTransform
<1>4. CASE o.error # NoError
  <2>1. Fails(o.session) /\ Fallen(session, o.session)
    BY <1>2, <1>3, <1>4, Appended DEF IInv
  <2> QED BY <1>1, <1>2, <2>1, WebFalls
<1>5. CASE o.error = NoError
  <2> DEFINE chunk == inflight.chunk
             pushed == Push(session.decoder, chunk)
  <2>1. /\ Accepting(session) /\ chunk # Junk /\ o.session \in Sessions /\ Accepting(o.session)
        /\ o.session.decoder = pushed.decoder
        /\ pushed.text \in Text /\ o.session.fed = session.fed \o pushed.text
        /\ session.released <= o.session.released
        /\ o.text \in Text
        /\ o.text = SubSeq(o.session.fed, session.released + 1, o.session.released)
    BY <1>2, <1>5, Appended DEF IInv
  <2>2. ChunkWaits BY <1>1, <2>1 DEF ChunkWaits
  <2>3. chunk = SubSeq(input, session.decoder.seen + 1, taken)
    BY <2>1, <2>2 DEF IInv, Decoded
  <2>4. taken \in session.decoder.seen..Len(input)
    <3>1. session.decoder.seen <= taken BY <2>1 DEF IInv, Decoded
    <3>2. session \in Sessions /\ taken \in 0..Len(input) BY DEF IInv, TypeOK
    <3>3. session.decoder \in Decoders BY <3>2 DEF Sessions
    <3>4. session.decoder.seen \in Nat BY <3>3 DEF Decoders
    <3> QED BY <3>1, <3>2, <3>4
  <2> HIDE DEF pushed, chunk
  <2>5. result = "none" /\ readable = "readable" BY <2>1, Lively
  <2> DEFINE t == Aborted(o.session)
  <2>6. /\ t \in Sessions /\ t.state = "aborted" /\ t.fed = o.session.fed
        /\ t.released = o.session.released /\ t.decoder = o.session.decoder
    BY <2>1 DEF Aborted, Accepting, Ended, Sessions
  <2> HIDE DEF t
  (* Whichever way the session goes on, the rest is the same.              *)
  <2>7. ASSUME NEW s \in {o.session, t}, session' = s, inflight' = Idle,
               \/ s = t /\ writable' = "errored"
               \/ s = o.session /\ writable' = "writable" /\ readable' = "readable",
               \/ readable' = "readable" /\ result' = "none"
               \/ s = t /\ readable' = "errored" /\ result' = "failed",
               Coming' = Coming \o o.text,
               buffer' \in Seq(Text), Len(buffer') <= 1, inner' = <<>>,
               pulling' \in BOOLEAN, pulling' => buffer' = <<>>
        PROVE  IInv'
    <3>1. /\ session' \in Sessions /\ session'.state \in {"accepting", "aborted"}
          /\ session'.decoder = pushed.decoder /\ session'.fed = session.fed \o pushed.text
          /\ session'.released = o.session.released
      BY <2>1, <2>6, <2>7 DEF Accepting
    <3>2. inner' \in Seq(Text) /\ Len(inner') = 0 BY <2>7
    <3>3. TypeOK' BY <1>1, <2>7, <3>1, <3>2 DEF IInv, TypeOK, Idle
    <3>4. HostsDiffer' BY <1>1 DEF HostsDiffer
    <3>5. WriteSide' BY <2>7 DEF WriteSide, Idle
    <3>6. Queues' BY <2>7, <3>2 DEF Queues
    <3>7. HostEndsTheSession' /\ Ends'
      <4>1. s = t => ~Accepting(session') BY <2>6, <2>7 DEF Accepting
      <4> QED BY <2>7, <4>1 DEF HostEndsTheSession, Ends, Accepting
    <3>8. Decoded'
      <4>1. /\ taken' \in session.decoder.seen..Len(input)
            /\ chunk = SubSeq(input, session.decoder.seen + 1, taken')
        BY <1>1, <2>3, <2>4
      <4>2. /\ session'.decoder = Push(session.decoder, chunk).decoder
            /\ session'.fed = session.fed \o Push(session.decoder, chunk).text
        BY <3>1 DEF pushed
      <4> QED BY <1>1, <2>1, <2>7, <3>1, <4>1, <4>2, DecodedAppends DEF IInv
    <3>9. Delivered'
      <4>1. ~Whole' /\ result' # "ok" BY <2>7 DEF Whole
      <4>2. o.text = SubSeq(session'.fed, session.released + 1, session'.released)
        BY <2>1, <3>1
      <4> QED BY <2>1, <2>7, <3>1, <4>1, <4>2, DeliveredGrows DEF IInv
    <3> QED BY <3>3, <3>4, <3>5, <3>6, <3>7, <3>8, <3>9 DEF IInv
  <2>8. CASE writable = "erroring" /\ o.text = <<>>
    <3>1. Fails(t) BY <1>3, <1>5, <2>8 DEF t
    <3>2. /\ session' = t /\ writable' = "errored" /\ inflight' = Idle
          /\ readable' = "errored" /\ result' = "failed"
          /\ pulling' = FALSE /\ buffer' = <<>> /\ inner' = <<>>
      BY <1>1, <1>2, <3>1 DEF Fails
    <3>3. Coming' = Coming \o o.text
      <4>1. FlattenSeq(buffer') = <<>> BY <3>2 DEF FlattenSeq
      <4> QED BY <1>1, <1>2, <2>1, <2>8, <3>2, <4>1, TextBuffered DEF IInv, Hands
    <3>4. buffer' \in Seq(Text) /\ Len(buffer') <= 1 BY <3>2
    <3> QED BY <2>7, <3>2, <3>3, <3>4
  <2>9. CASE writable = "erroring" /\ o.text # <<>>
    <3>1. /\ session' = t /\ writable' = "errored" /\ inflight' = Idle
          /\ Enqueue(o.text) /\ readable' = "readable" /\ result' = "none"
      BY <1>3, <1>5, <2>5, <2>9 DEF t
    <3>2. /\ Coming' = Coming \o o.text
          /\ buffer' \in Seq(Text) /\ inner' = <<>> /\ Len(buffer') <= 1
          /\ pulling' \in BOOLEAN /\ (pulling' => buffer' = <<>>)
      BY <1>1, <1>2, <2>1, <3>1, Enqueued
    <3> QED BY <2>7, <3>1, <3>2
  <2>10. CASE writable # "erroring"
    <3>1. /\ session' = o.session /\ writable' = "writable" /\ inflight' = Idle
          /\ Enqueue(o.text) /\ readable' = "readable" /\ result' = "none"
      BY <1>2, <1>3, <1>5, <2>5, <2>10
    <3>2. /\ Coming' = Coming \o o.text
          /\ buffer' \in Seq(Text) /\ inner' = <<>> /\ Len(buffer') <= 1
          /\ pulling' \in BOOLEAN /\ (pulling' => buffer' = <<>>)
      BY <1>1, <1>2, <2>1, <3>1, Enqueued
    <3> QED BY <2>7, <3>1, <3>2
  <2> QED BY <2>8, <2>9, <2>10
<1> QED BY <1>4, <1>5

LEMMA WebCloseStep ==
  ASSUME IInv, WebClose
  PROVE  IInv'
<1>1. /\ host = "web" /\ writable = "writable" /\ inflight = Idle /\ AtEnd
      /\ inflight' = Closing
      /\ UNCHANGED <<host, input, taken, session, writable, inner, pulling, buffer, readable, out,
                     result>>
  BY DEF WebClose
<1>2. TypeOK' BY <1>1, IdleHasType DEF IInv, TypeOK
<1>3. HostsDiffer' BY <1>1 DEF HostsDiffer
<1>4. WriteSide' BY <1>1 DEF WriteSide, Closing, AtEnd
<1>5. Queues' BY <1>1 DEF IInv, Queues
<1>6. HostEndsTheSession' /\ Ends' BY <1>1 DEF IInv, HostEndsTheSession, Ends, Accepting
<1>7. Decoded'
  <2>1. ~ChunkWaits /\ ~ChunkWaits' BY <1>1 DEF ChunkWaits, Idle, Closing
  <2> QED BY <1>1, <2>1, DecodedRests DEF IInv
<1>8. Delivered'
  <2>1. Coming' = Coming BY <1>1 DEF Coming
  <2>2. Whole' => Whole BY <1>1 DEF Whole
  <2>3. result' = "ok" => buffer' = <<>> /\ inner' = <<>> BY <1>1 DEF IInv, Delivered
  <2> QED BY <1>1, <2>1, <2>2, <2>3, DeliveredStays DEF IInv
<1> QED BY <1>2, <1>3, <1>4, <1>5, <1>6, <1>7, <1>8 DEF IInv

LEMMA WebFlushStep ==
  ASSUME IInv, WebFlush
  PROVE  IInv'
<1>1. /\ host = "web" /\ inflight = Closing /\ UNCHANGED <<host, input, taken, out>>
  BY DEF WebFlush
<1>2. writable \in {"writable", "erroring"} /\ AtEnd /\ ~ChunkWaits /\ inner = <<>>
  BY <1>1 DEF IInv, WriteSide, ChunkWaits, Closing, Idle, Queues
<1>3. PICK o \in FinalizeAll(session) :
       IF o.error # NoError THEN Fails(o.session)
       ELSE /\ session' = o.session /\ inflight' = Idle /\ writable' = "closed"
            /\ Enqueue(o.text)
            /\ UNCHANGED <<readable, result>>
  BY DEF WebFlush
<1>4. CASE o.error # NoError
  <2>1. Fails(o.session) /\ Fallen(session, o.session) BY <1>3, <1>4, Finalized DEF IInv
  <2> QED BY <1>1, <1>2, <2>1, WebFalls
<1>5. CASE o.error = NoError
  <2>1. Finalizes(session, o) /\ ~EndsInside(session.decoder) BY <1>5, Finalized DEF IInv
  <2>2. Accepting(session) /\ result = "none" /\ readable = "readable"
    BY <2>1, Lively DEF Finalizes
  <2>3. /\ session' = o.session /\ inflight' = Idle /\ writable' = "closed"
        /\ Enqueue(o.text) /\ readable' = "readable" /\ result' = "none"
    BY <1>3, <1>5, <2>2
  <2>4. o.text \in Text BY <2>1 DEF Finalizes
  <2>5. /\ Coming' = Coming \o o.text
        /\ buffer' \in Seq(Text) /\ inner' \in Seq(Text) /\ pulling' \in BOOLEAN
        /\ Len(buffer') <= 1 /\ Len(inner') <= 1
        /\ pulling' => buffer' = <<>> /\ inner' = <<>>
    BY <1>1, <1>2, <2>3, <2>4, Enqueued
  <2>6. TypeOK' BY <1>1, <2>1, <2>3, <2>5, IdleHasType DEF IInv, TypeOK, Finalizes
  <2>7. HostsDiffer' BY <1>1 DEF HostsDiffer
  <2>8. WriteSide' BY <2>3 DEF WriteSide, Idle
  <2>9. Queues' BY <2>3, <2>5 DEF Queues
  <2>10. HostEndsTheSession' /\ Ends'
    BY <2>1, <2>3 DEF HostEndsTheSession, Ends, Accepting, Finalizes
  <2>11. Decoded' BY <1>1, <1>2, <2>1, <2>3, DecodedFinalizes DEF IInv, Finalizes
  <2>12. Delivered'
    <3>1. session'.released = Len(session'.fed) /\ session'.state = "finalized" /\ result' # "ok"
      BY <2>1, <2>3 DEF Finalizes
    <3> QED BY <2>1, <2>3, <2>5, <3>1, DeliveredGrows DEF IInv, Finalizes
  <2> QED BY <2>6, <2>7, <2>8, <2>9, <2>10, <2>11, <2>12 DEF IInv
<1> QED BY <1>4, <1>5

LEMMA WebAbortStep ==
  ASSUME IInv, WebAbort
  PROVE  IInv'
<1>1. /\ host = "web" /\ writable = "writable" /\ UNCHANGED <<host, input, taken, out>>
  BY DEF WebAbort
<1>2. CASE inflight = Idle
  <2>1. Fails(Aborted(session)) BY <1>2 DEF WebAbort
  <2>2. Fallen(session, Aborted(session)) BY AbortedIsFallen DEF IInv, TypeOK
  <2> QED BY <1>1, <2>1, <2>2, WebFalls
<1>3. CASE inflight # Idle
  <2>1. /\ writable' = "erroring"
        /\ UNCHANGED <<session, inflight, inner, pulling, buffer, readable, result>>
    BY <1>3 DEF WebAbort
  <2>2. TypeOK' BY <1>1, <2>1 DEF IInv, TypeOK
  <2>3. HostsDiffer' BY <1>1 DEF HostsDiffer
  <2>4. WriteSide' BY <1>1, <2>1 DEF IInv, WriteSide, AtEnd
  <2>5. Queues' BY <1>1, <2>1 DEF IInv, Queues
  <2>6. HostEndsTheSession' /\ Ends' BY <2>1 DEF IInv, HostEndsTheSession, Ends, Accepting
  <2>7. Decoded' BY <1>1, <2>1, DecodedRests DEF IInv, ChunkWaits
  <2>8. Delivered'
    <3>1. Coming' = Coming BY <1>1, <2>1 DEF Coming
    <3>2. Whole' => Whole BY <2>1 DEF Whole
    <3>3. result' = "ok" => buffer' = <<>> /\ inner' = <<>> BY <2>1 DEF IInv, Delivered
    <3> QED BY <2>1, <3>1, <3>2, <3>3, DeliveredStays DEF IInv
  <2> QED BY <2>2, <2>3, <2>4, <2>5, <2>6, <2>7, <2>8 DEF IInv
<1> QED BY <1>2, <1>3

LEMMA WebCancelStep ==
  ASSUME IInv, WebCancel
  PROVE  IInv'
<1>1. /\ host = "web" /\ session' = Aborted(session)
      /\ readable' = "closed" /\ result' = "failed"
      /\ buffer' = <<>> /\ inner' = <<>> /\ pulling' = FALSE /\ inflight' = Idle
      /\ writable' \in {"closed", "errored"}
      /\ UNCHANGED <<host, input, taken, out>>
  BY DEF WebCancel, Cancelled
<1>2. session' \in Sessions /\ ~Accepting(session') /\ Fallen(session, session')
  <2>1. Fallen(session, session') BY <1>1, AbortedIsFallen DEF IInv, TypeOK
  <2> QED BY <2>1, FallenFacts DEF IInv
<1>3. TypeOK'
  <2>1. pulling' \in BOOLEAN BY <1>1, Zenon
  <2>2. buffer' \in Seq(Text) /\ inner' \in Seq(Text)
    <3>1. <<>> \in Seq(Text) OBVIOUS
    <3> QED BY <1>1, <3>1, Zenon
  <2>3. /\ inflight' \in [op : {"none", "write", "close"}, chunk : Seq(Bytes) \cup {Junk}]
        /\ input' \in Seq(Bytes) /\ taken' \in 0..Len(input') /\ out' \in Text
    BY <1>1, IdleHasType DEF IInv, TypeOK
  <2>4. readable' \in {"readable", "closed", "errored"} /\ result' \in {"none", "ok", "failed"}
        /\ writable' \in {"writable", "erroring", "errored", "closed"}
    BY <1>1
  <2> QED BY <1>2, <2>1, <2>2, <2>3, <2>4, Zenon DEF TypeOK
<1>4. HostsDiffer' BY <1>1 DEF HostsDiffer
<1>5. WriteSide' BY <1>1 DEF WriteSide, Idle
<1>6. Queues' BY <1>1 DEF Queues
<1>7. HostEndsTheSession' /\ Ends' BY <1>2 DEF HostEndsTheSession, Ends, Accepting
<1>8. Decoded'
  <2>1. taken' \in taken..Len(input) BY <1>1 DEF IInv, TypeOK
  <2> QED BY <1>1, <1>2, <2>1, DecodedFalls DEF IInv
<1>9. Delivered'
  <2>1. Coming \in Text /\ Coming' \in Text /\ IsPrefix(Coming', Coming)
    BY <1>1, TextDropped DEF IInv, Hands
  <2>2. ~Whole' /\ result' # "ok" BY <1>1 DEF Whole
  <2> QED BY <1>2, <2>1, <2>2, DeliveredFalls DEF IInv
<1> QED BY <1>3, <1>4, <1>5, <1>6, <1>7, <1>8, <1>9 DEF IInv

LEMMA WebStopStep ==
  ASSUME IInv, WebStop
  PROVE  IInv'
<1>1. session' = Aborted(session) /\ UNCHANGED <<host, input, taken, platform, out, result>>
  BY DEF WebStop
<1>2. session' \in Sessions /\ ~Accepting(session') /\ Fallen(session, session')
  <2>1. Fallen(session, session') BY <1>1, AbortedIsFallen DEF IInv, TypeOK
  <2> QED BY <2>1, FallenFacts DEF IInv
<1>3. TypeOK' BY <1>1, <1>2 DEF IInv, TypeOK, platform
<1>4. HostsDiffer' BY <1>1 DEF IInv, HostsDiffer, platform
<1>5. WriteSide' BY <1>1 DEF IInv, WriteSide, AtEnd, platform
<1>6. Queues' BY <1>1 DEF IInv, Queues, platform
<1>7. HostEndsTheSession' /\ Ends' BY <1>2 DEF HostEndsTheSession, Ends, Accepting
<1>8. Decoded'
  <2>1. taken' \in taken..Len(input) BY <1>1 DEF IInv, TypeOK
  <2> QED BY <1>1, <1>2, <2>1, DecodedFalls DEF IInv
<1>9. Delivered'
  <2>1. Coming' = Coming BY <1>1 DEF Coming, platform
  <2>2. Coming \in Text BY QueuesAreText DEF IInv
  <2>3. IsPrefix(Coming', Coming) BY <2>1, <2>2, PrefixOfItself
  <2>4. Whole' => Whole BY <1>1 DEF Whole, platform
  <2>5. result' = "ok" => buffer' = <<>> /\ inner' = <<>>
    BY <1>1 DEF IInv, Delivered, platform
  <2> QED BY <1>2, <2>1, <2>2, <2>3, <2>4, <2>5, DeliveredFalls DEF IInv
<1> QED BY <1>3, <1>4, <1>5, <1>6, <1>7, <1>8, <1>9 DEF IInv

LEMMA WebPullStep ==
  ASSUME IInv, WebPull
  PROVE  IInv'
<1>1. /\ host = "web" /\ readable = "readable" /\ buffer = <<>>
      /\ UNCHANGED <<host, input, taken, session, inflight, writable, out>>
  BY DEF WebPull
<1>2. HostsDiffer' BY <1>1 DEF HostsDiffer
<1>3. WriteSide' BY <1>1 DEF IInv, WriteSide, AtEnd
<1>4. Decoded' BY <1>1, DecodedRests DEF IInv, ChunkWaits
<1>5. CASE /\ inner # <<>>
           /\ buffer' = <<Head(inner)>> /\ inner' = Tail(inner)
           /\ UNCHANGED <<pulling, readable, result>>
  <2>1. buffer' \in Seq(Text) /\ Len(buffer') <= 1 /\ inner' = <<>> /\ Coming' = Coming
    BY <1>1, <1>5, PiecePulled DEF IInv, Hands
  <2>2. ~pulling BY <1>5 DEF IInv, Queues
  <2>3. TypeOK' BY <1>1, <1>5, <2>1 DEF IInv, TypeOK
  <2>4. Queues'
    <3>1. ~pulling' BY <1>5, <2>2, Zenon
    <3>2. Len(inner') <= 1 BY <2>1
    <3>3. readable' # "closed" BY <1>1, <1>5
    <3> QED BY <2>1, <3>1, <3>2, <3>3, Zenon DEF Queues
  <2>5. HostEndsTheSession' /\ Ends'
    BY <1>1, <1>5 DEF IInv, HostEndsTheSession, Ends, Accepting
  <2>6. Delivered'
    <3>1. Whole' => Whole BY <1>1, <1>5 DEF Whole
    <3>2. result' # "ok" BY <1>5 DEF IInv, Delivered
    <3> QED BY <1>1, <2>1, <3>1, <3>2, DeliveredStays DEF IInv
  <2> QED BY <1>2, <1>3, <1>4, <2>3, <2>4, <2>5, <2>6 DEF IInv
<1>6. CASE /\ inner = <<>> /\ writable = "errored"
           /\ readable' = "errored" /\ result' = "failed"
           /\ UNCHANGED <<buffer, inner, pulling>>
  <2>1. TypeOK' BY <1>1, <1>6 DEF IInv, TypeOK
  <2>2. Queues' BY <1>1, <1>6 DEF IInv, Queues
  <2>3. ~Accepting(session) BY <1>6 DEF IInv, HostEndsTheSession
  <2>4. HostEndsTheSession' /\ Ends'
    BY <1>1, <2>3 DEF HostEndsTheSession, Ends, Accepting
  <2>5. Delivered'
    <3>1. Coming' = Coming BY <1>1, <1>6 DEF Coming
    <3>2. ~Whole' /\ result' # "ok" BY <1>6 DEF Whole
    <3> QED BY <1>1, <3>1, <3>2, DeliveredStays DEF IInv
  <2> QED BY <1>2, <1>3, <1>4, <2>1, <2>2, <2>4, <2>5 DEF IInv
<1>7. CASE /\ Done
           /\ readable' = "closed" /\ pulling' = FALSE
           /\ UNCHANGED <<buffer, inner, result>>
  <2>1. inner = <<>> /\ writable = "closed" BY <1>7 DEF Done
  <2>2. TypeOK' BY <1>1, <1>7 DEF IInv, TypeOK
  <2>3. Queues' BY <1>1, <1>7, <2>1 DEF IInv, Queues
  <2>4. ~Accepting(session) BY <2>1 DEF IInv, HostEndsTheSession
  <2>5. HostEndsTheSession' /\ Ends'
    BY <1>1, <2>4 DEF HostEndsTheSession, Ends, Accepting
  <2>6. Delivered'
    <3>1. Coming' = Coming BY <1>1, <1>7 DEF Coming
    <3>2. Whole' => Whole BY <1>7, <2>1 DEF Whole
    <3> QED BY <1>1, <1>7, <2>1, <3>1, <3>2, DeliveredStays DEF IInv
  <2> QED BY <1>2, <1>3, <1>4, <2>2, <2>3, <2>5, <2>6 DEF IInv
<1>8. CASE /\ inner = <<>> /\ writable \in {"writable", "erroring"} /\ ~pulling
           /\ pulling' = TRUE
           /\ UNCHANGED <<buffer, inner, readable, result>>
  <2>1. TypeOK' BY <1>1, <1>8 DEF IInv, TypeOK
  <2>2. Queues' BY <1>1, <1>8 DEF IInv, Queues
  <2>3. HostEndsTheSession' /\ Ends'
    BY <1>1, <1>8 DEF IInv, HostEndsTheSession, Ends, Accepting
  <2>4. Delivered'
    <3>1. Coming' = Coming BY <1>1, <1>8 DEF Coming
    <3>2. Whole' => Whole BY <1>1, <1>8 DEF Whole
    <3> QED BY <1>1, <1>8, <3>1, <3>2, DeliveredStays DEF IInv
  <2> QED BY <1>2, <1>3, <1>4, <2>1, <2>2, <2>3, <2>4 DEF IInv
<1> QED BY <1>5, <1>6, <1>7, <1>8 DEF WebPull

------------------------------------------------------------------------------
LEMMA Start ==
  ASSUME ConstantsAssumption, Init
  PROVE  IInv
<1>1. /\ input \in Seq(Bytes) /\ taken = 0 /\ inflight = Idle /\ writable = "writable"
      /\ inner = <<>> /\ pulling = FALSE /\ buffer = <<>> /\ readable = "readable"
      /\ out = <<>> /\ result = "none"
      /\ session = [state |-> "accepting", fed |-> <<>>, released |-> 0,
                    decoder |-> [seen |-> 0, carry |-> <<>>]]
  BY DEF Init, ConstantsAssumption
<1>2. <<>> \in Text /\ <<>> \in Seq(Text) /\ <<>> \in Seq(Bytes) /\ Len(<<>>) = 0 BY DEF Text
<1>3. session.decoder \in Decoders /\ Before(session.decoder) = 0
  BY <1>1, <1>2 DEF Decoders, Before
<1>4. session \in Sessions /\ session.state = "accepting" /\ session.fed = <<>>
      /\ session.released = 0 /\ session.decoder = [seen |-> 0, carry |-> <<>>]
  BY <1>1, <1>2, <1>3 DEF Sessions
<1>5. TypeOK
  <2>1. pulling \in BOOLEAN BY <1>1
  <2>2. taken \in 0..Len(input) BY <1>1
  <2> QED BY <1>1, <1>2, <1>4, <2>1, <2>2, IdleHasType DEF TypeOK
<1>6. HostsDiffer /\ WriteSide BY <1>1 DEF HostsDiffer, WriteSide, Idle
<1>7. Queues BY <1>1 DEF Queues
<1>8. HostEndsTheSession /\ Ends BY <1>1 DEF HostEndsTheSession, Ends
<1>9. SubSeq(input, 1, 0) = <<>> BY <1>1, SubSeqEmpty
<1>10. CharsOf(<<>>, 0) = <<>>
  <2>1. Starts(<<>>) = {} BY DEF Starts
  <2>2. Cardinality({}) = 0 BY FS_EmptySet
  <2>3. Len(CharsOf(<<>>, 0)) = 0 /\ CharsOf(<<>>, 0) \in Text
    BY <1>2, <2>1, <2>2, CharsAreText
  <2> QED BY <2>3, EmptySeq DEF Text
<1>11. Decoded
  <2>1. \E m \in 0..Len(input) : session.fed = CharsOf(SubSeq(input, 1, m), 0)
    <3>1. 0 \in 0..Len(input) BY <1>1
    <3> QED BY <1>4, <1>9, <1>10, <3>1
  <2>2. ~ChunkWaits BY <1>1 DEF ChunkWaits, Idle
  <2>3. /\ session.decoder.seen = taken /\ session.decoder.seen <= taken
        /\ session.decoder.carry = SubSeq(input, Before(session.decoder) + 1, session.decoder.seen)
        /\ session.fed = CharsOf(SubSeq(input, 1, Before(session.decoder)), 0)
    <3>1. session.decoder.seen = 0 /\ session.decoder.carry = <<>> BY <1>4
    <3>2. 0 + 1 = 1 /\ 0 <= 0 OBVIOUS
    <3>3. /\ session.decoder.carry
               = SubSeq(input, Before(session.decoder) + 1, session.decoder.seen)
          /\ session.fed = CharsOf(SubSeq(input, 1, Before(session.decoder)), 0)
      BY <1>3, <1>4, <1>9, <1>10, <3>1, <3>2, Zenon
    <3> QED BY <1>1, <3>1, <3>2, <3>3
  <2>4. session.state # "finalized" BY <1>4
  <2> QED BY <2>1, <2>2, <2>3, <2>4 DEF Decoded
<1>12. Delivered
  <2>1. Coming = <<>>
    <3>1. Coming = out BY <1>1, <1>5, <1>7, NothingQueued DEF Hands
    <3> QED BY <1>1, <3>1
  <2>2. SubSeq(session.fed, 1, session.released) = <<>> BY <1>4
  <2>3. IsPrefix(<<>>, <<>>) BY <1>2, PrefixOfItself
  <2>4. ~Whole BY <1>1 DEF Whole
  <2> QED BY <1>1, <2>1, <2>2, <2>3, <2>4 DEF Delivered
<1> QED BY <1>5, <1>6, <1>7, <1>8, <1>11, <1>12 DEF IInv

LEMMA Steps ==
  ASSUME ConstantsAssumption, IInv, [Next]_vars
  PROVE  IInv'
<1>1. CASE Next
  <2>1. CASE CliEnd BY <2>1, CliEndStep
  <2>2. ASSUME NEW chunk \in Chunks, CliRound(chunk) PROVE IInv' BY <2>2, CliRoundStep
  <2>3. CASE NodeFlush BY <2>3, NodeFlushStep
  <2>4. CASE WebClose BY <2>4, WebCloseStep
  <2>5. ASSUME NEW chunk \in Chunks, NodeTransform(chunk) PROVE IInv'
    BY <2>5, NodeTransformStep
  <2>6. ASSUME NEW chunk \in Chunks, WebWrite(chunk) PROVE IInv' BY <2>6, WebWriteStep
  <2>7. CASE NodeRead BY <2>7, ReadStep DEF NodeRead
  <2>8. CASE WebRead BY <2>8, ReadStep DEF WebRead
  <2>9. CASE CliReadFails BY <2>9, CliReadFailsStep
  <2>10. CASE NodeDestroy BY <2>10, NodeDestroyStep
  <2>11. CASE WebAbort BY <2>11, WebAbortStep
  <2>12. CASE WebCancel BY <2>12, WebCancelStep
  <2>13. CASE WebStop BY <2>13, WebStopStep
  <2>14. CASE WebWrite(Junk) BY <2>14, WebWriteStep
  <2>15. CASE WebTransform BY <2>15, WebTransformStep
  <2>16. CASE WebFlush BY <2>16, WebFlushStep
  <2>17. CASE WebPull BY <2>17, WebPullStep
  <2> QED
    BY <1>1, <2>1, <2>2, <2>3, <2>4, <2>5, <2>6, <2>7, <2>8, <2>9, <2>10, <2>11, <2>12, <2>13,
       <2>14, <2>15, <2>16, <2>17
       DEF Next, Round, Feed, Consume, Early
<1>2. CASE UNCHANGED vars
  <2>1. UNCHANGED <<host, input, taken, session, inflight, writable, inner, pulling, buffer,
                    readable, out, result>>
    BY <1>2 DEF vars
  <2>2. TypeOK' BY <2>1 DEF IInv, TypeOK
  <2>3. HostsDiffer' BY <2>1 DEF IInv, HostsDiffer
  <2>4. WriteSide' BY <2>1 DEF IInv, WriteSide, AtEnd
  <2>5. Queues' BY <2>1 DEF IInv, Queues
  <2>6. HostEndsTheSession' /\ Ends' BY <2>1 DEF IInv, HostEndsTheSession, Ends, Accepting
  <2>7. Decoded' BY <2>1, DecodedRests DEF IInv, ChunkWaits
  <2>8. Coming' = Coming /\ Whole' = Whole BY <2>1 DEF Coming, Whole
  <2>9. Delivered' BY <2>1, <2>8 DEF IInv, Delivered, Accepting
  <2> QED BY <2>2, <2>3, <2>4, <2>5, <2>6, <2>7, <2>9 DEF IInv
<1> QED BY <1>1, <1>2

(* What the invariant says of delivery.                                    *)
LEMMA InOrder ==
  ASSUME IInv
  PROVE  DeliveredInOrder
<1>1. IsPrefix(Coming, SubSeq(session.fed, 1, session.released)) BY DEF IInv, Delivered
<1>2. IsPrefix(session.fed, AllChars)
  <2>1. PICK m \in 0..Len(input) : session.fed = CharsOf(SubSeq(input, 1, m), 0)
    BY DEF IInv, Decoded
  <2>2. input \in Seq(Bytes) /\ Len(input) \in m..Len(input) /\ Len(input) \in Nat
    BY <2>1 DEF IInv, TypeOK
  <2>3. CharsOf(SubSeq(input, 1, Len(input)), 0)
          = CharsOf(SubSeq(input, 1, m), 0) \o CharsOf(SubSeq(input, m + 1, Len(input)), m)
    BY <2>1, <2>2, CharsConcatenate
  <2>4. SubSeq(input, 1, Len(input)) = input BY <2>2
  <2>5. /\ SubSeq(input, 1, m) \in Seq(Bytes) /\ SubSeq(input, m + 1, Len(input)) \in Seq(Bytes)
        /\ m \in Nat
    BY <2>1, <2>2
  <2>6. CharsOf(SubSeq(input, 1, m), 0) \in Text
        /\ CharsOf(SubSeq(input, m + 1, Len(input)), m) \in Text
    BY <2>5, CharsAreText
  <2> QED BY <2>1, <2>3, <2>4, <2>6, HeadIsPrefix DEF AllChars
<1>3. ASSUME result = "ok"
      PROVE  out = AllChars /\ session.state = "finalized" /\ AtEnd
  <2>1. /\ session.state = "finalized" /\ Coming = session.fed
        /\ buffer = <<>> /\ inner = <<>>
    BY <1>3 DEF IInv, Delivered, Whole
  <2>2. session.fed = AllChars /\ AtEnd BY <2>1 DEF IInv, Decoded
  <2>3. Coming = out BY <2>1, NothingQueued DEF IInv, Hands
  <2> QED BY <2>1, <2>2, <2>3
<1> QED BY <1>1, <1>2, <1>3 DEF DeliveredInOrder, Coming

------------------------------------------------------------------------------
(* Where the queues, the session and its decoder stand to each other in    *)
(* every state of a host.                                                  *)
THEOREM Invariant == ConstantsAssumption => (Spec => []IInv)
<1> SUFFICES ASSUME ConstantsAssumption PROVE Spec => []IInv OBVIOUS
<1>1. Init => IInv BY Start
<1>2. IInv /\ [Next]_vars => IInv' BY Steps
<1> QED BY <1>1, <1>2, PTL DEF Spec

(* However a host ends, and whatever fails, its session has ended.         *)
THEOREM SessionsEnd == ConstantsAssumption => (Spec => []HostEndsTheSession)
<1> SUFFICES ASSUME ConstantsAssumption PROVE Spec => []HostEndsTheSession OBVIOUS
<1>1. Spec => []IInv BY Invariant
<1>2. IInv => HostEndsTheSession BY DEF IInv
<1> QED BY <1>1, <1>2, PTL

(* A stream of any length, in chunks of any size that may end inside a     *)
(* character, is delivered once and in order, and whole if it ends well.   *)
THEOREM TextIsDelivered == ConstantsAssumption => (Spec => []DeliveredInOrder)
<1> SUFFICES ASSUME ConstantsAssumption PROVE Spec => []DeliveredInOrder OBVIOUS
<1>1. Spec => []IInv BY Invariant
<1>2. IInv => DeliveredInOrder BY InOrder
<1> QED BY <1>1, <1>2, PTL

(* The same where the consumer may stop reading.                           *)
THEOREM StalledHosts ==
  ConstantsAssumption => (StalledSpec => [](HostEndsTheSession /\ DeliveredInOrder))
<1> SUFFICES ASSUME ConstantsAssumption
             PROVE  StalledSpec => [](HostEndsTheSession /\ DeliveredInOrder)
  OBVIOUS
<1>1. Init => IInv BY Start
<1>2. IInv /\ [Next]_vars => IInv' BY Steps
<1>3. IInv => HostEndsTheSession /\ DeliveredInOrder BY InOrder DEF IInv
<1> QED BY <1>1, <1>2, <1>3, PTL DEF StalledSpec
=============================================================================
